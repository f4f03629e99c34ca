--------------------------- MODULE TimelineProofs ---------------------------
(***************************************************************************)
(* The order of a run's timeline.  While no database call fails a run's    *)
(* completion follows its start, because an attempt announces its start    *)
(* before its graph runs and its persist tasks are FIFO; and while no      *)
(* lease is lost either, the start is announced once.                      *)
(***************************************************************************)
EXTENDS ContractProofs, ApprovalProofs

HasStarted(r) == HasEvent(r, "run.started")

\* Between the check for run.started and the end of the attempt.
Underway == {"invoking", "graph", "asking", "draining"}

\* Appending leaves a timeline as it is, or makes it one event longer.
LEMMA AppendLonger ==
  ASSUME StoreTypeOK, NEW r \in Runs, NEW e \in Event, log' = AppendEvent(r, e)
  PROVE  /\ \A s \in Runs : s # r => log'[s] = log[s]
         /\ \/ log'[r] = log[r]
            \/ /\ Len(log[r]) \in Nat
               /\ DOMAIN log[r] = 1 .. Len(log[r])
               /\ DOMAIN log'[r] = 1 .. Len(log[r]) + 1
               /\ \A i \in 1 .. Len(log[r]) : log'[r][i] = log[r][i]
               /\ log'[r][Len(log[r]) + 1] = e
  <1>1. log[r] \in Seq(Event)
    BY DEF StoreTypeOK
  <1>2. (\A s \in Runs : s # r => log'[s] = log[s])
          /\ (log'[r] = log[r] \/ log'[r] = Append(log[r], e))
    BY DEF StoreTypeOK, AppendEvent
  <1> QED
    BY <1>1, <1>2

\* A timeline loses no event.
LEMMA EventStays ==
  ASSUME Typed, [Next]_vars, NEW r \in Runs, NEW e, HasEvent(r, e)
  PROVE  HasEvent(r, e)'
  <1>0. StoreTypeOK
    BY DEF Typed, TypeOK
  <1>1. CASE log'[r] = log[r]
    BY <1>1 DEF HasEvent
  <1>2. ASSUME NEW s \in Runs, NEW f \in Event, log' = AppendEvent(s, f)
        PROVE  HasEvent(r, e)'
    BY <1>0, <1>1, <1>2, AppendEffect
  <1> QED
    BY <1>1, <1>2, LogWrites

\* What a process holds changes by its own steps only, and a database fault
\* is counted.
LEMMA HeldMoves ==
  ASSUME Typed, [Next]_vars, NEW w \in Workers
  PROVE  \/ worker'[w] = worker[w] /\ outbox'[w] = outbox[w]
         \/ Claim(w) \/ WorkerStep(w) \/ Persist(w) \/ LeaseLost(w) \/ Crash(w)
         \/ faults' # 0
  <1>0. WorkerTypeOK /\ faults \in Nat
    BY BoundAssumption DEF Typed, TypeOK
  <1>1. CASE WorkerNext
    <2>1. PICK v \in Workers :
            \/ Claim(v) \/ WorkerStep(v) \/ Persist(v) \/ Heartbeat(v) \/ LeaseLost(v) \/ Crash(v)
            \/ DbFault(v) /\ faults' = faults + 1
      BY <1>1 DEF WorkerNext
    <2>2. CASE v # w
      <3>1. UNCHANGED worker \/ \E row : worker' = [worker EXCEPT ![v] = row]
        BY <1>0, <2>1
        DEF WorkerTypeOK, WorkerStep, HandlerStep, SettleStep, Claim, Persist, Heartbeat,
            LeaseLost, DbFault, Crash, SetRunning, ReadRun, ReadForResume, CheckStarted,
            InvokeGraph, ResumeGraph, GraphCompletes, GraphFails, GraphCancelled,
            RequestApproval, Interrupt, Drained, StoreOutcome, CompleteJob, PromoteRun,
            RejectJob, FailRun, FailJob, RequeueRun, EmitRunFailed, Goto, Finish, Release, local
      <3>2. UNCHANGED outbox \/ \E box : outbox' = [outbox EXCEPT ![v] = box]
        BY <1>0, <2>1
        DEF WorkerTypeOK, WorkerStep, HandlerStep, SettleStep, Claim, Persist, Heartbeat,
            LeaseLost, DbFault, Crash, SetRunning, ReadRun, ReadForResume, CheckStarted,
            InvokeGraph, ResumeGraph, GraphCompletes, GraphFails, GraphCancelled,
            RequestApproval, Interrupt, Drained, StoreOutcome, CompleteJob, PromoteRun,
            RejectJob, FailRun, FailJob, RequeueRun, EmitRunFailed, Emit, local
      <3> QED
        BY <1>0, <2>2, <3>1, <3>2 DEF WorkerTypeOK
    <2>3. CASE v = w
      BY <1>0, <2>1, <2>3 DEF Heartbeat, local
    <2> QED
      BY <2>2, <2>3
  <1>2. CASE ApiNext \/ (\E j \in JobId : LeaseExpires(j)) \/ UNCHANGED vars
    BY <1>2 DEF ApiNext, LeaseExpires, local, vars
  <1> QED
    BY <1>1, <1>2 DEF Next

\* Faults, like stalls, are only ever counted up.
LEMMA FaultsCounted ==
  ASSUME Typed, [Next]_vars
  PROVE  faults \in Nat /\ faults' \in {faults, faults + 1}
  BY BoundAssumption
  DEF Typed, TypeOK, Next, WorkerNext, ApiNext, LeaseExpires, vars, bounds

-----------------------------------------------------------------------------
(* run.completed follows run.started. *)

\* What the attempt of a process has announced, or is about to, and that its
\* persist tasks keep their order.
BegunWorker(w) ==
  /\ worker[w].pc \in Underway
       => HasStarted(Run(w)) \/ Emits(w, "run.started") \in outbox[w]
  /\ At(w, "storing") => HasStarted(Run(w))
  /\ \A e \in outbox[w] :
       e.type = "run.completed" => \/ HasStarted(job[e.job].run)
                                   \/ [e EXCEPT !.type = "run.started"] \in outbox[w]

\* What StartedBeforeCompleted says of one run.
BegunRun(r) ==
  \A i \in DOMAIN log[r] :
    log[r][i] = "run.completed" => \E k \in 1 .. i : log[r][k] = "run.started"

\* The invariant of this part.
Begun == /\ Guarded
         /\ faults = 0 => /\ \A r \in Runs : BegunRun(r)
                          /\ \A w \in Workers : BegunWorker(w)

\* What a process has announced stays true when it does not move.
LEMMA BegunKept ==
  ASSUME Guarded, [Next]_vars, NEW w \in Workers, BegunWorker(w),
         worker'[w].job = worker[w].job, worker'[w].attempt = worker[w].attempt,
         worker'[w].pc \in Underway => worker[w].pc \in Underway,
         At(w, "storing")' => At(w, "storing"),
         outbox'[w] = outbox[w]
  PROVE  BegunWorker(w)'
  <1>0. Typed
    BY DEF Guarded
  <1>1. ASSUME NEW e \in outbox[w], HasStarted(job[e.job].run)
        PROVE  HasStarted(job[e.job].run)'
    <2>1. job'[e.job].run = job[e.job].run
      BY <1>0, Refers, JobMoves DEF Linked, Typed
    <2>2. PICK r \in Runs : r = job[e.job].run
      BY <1>0, Refers
    <2> QED
      BY <1>0, <1>1, <2>1, <2>2, EventStays DEF HasStarted, HasEvent
  <1>2. ASSUME worker[w].pc \in Underway \cup {"storing"}
        PROVE  /\ HasStarted(Run(w)) => HasStarted(Run(w))'
               /\ Emits(w, "run.started")' = Emits(w, "run.started")
    <2>1. Busy(w)
      BY <1>2 DEF Busy, Underway
    <2>2. Job(w) \in JobId /\ job[Job(w)].status # "absent" /\ Run(w) \in Runs
      BY <1>0, <2>1, BusyHolds, Refers
    <2>3. Run(w)' = Run(w)
      BY <2>2, JobMoves DEF Run, Job
    <2>4. PICK r \in Runs : r = Run(w)
      BY <2>2
    <2> QED
      BY <1>0, <2>3, <2>4, EventStays DEF HasStarted, HasEvent, Emits, Job
  <1> QED
    BY <1>1, <1>2 DEF BegunWorker, At

\* The handler: the check for run.started leads to one of the two, and a graph
\* that ends does so after it.
LEMMA BegunHandler ==
  ASSUME Guarded, [Next]_vars, NEW w \in Workers, BegunWorker(w), HandlerStep(w)
  PROVE  BegunWorker(w)'
  <1>0. Typed /\ StoreTypeOK /\ WorkerTypeOK /\ Busy(w) /\ UNCHANGED log
    BY DEF Guarded, Typed, TypeOK, HandlerStep, SetRunning, ReadRun, ReadForResume,
           CheckStarted, InvokeGraph, ResumeGraph, GraphCompletes, GraphFails, GraphCancelled,
           RequestApproval, Interrupt, Drained, StoreOutcome, store, At, Busy
  <1>1. Job(w) \in JobId /\ job[Job(w)].status # "absent" /\ Run(w) \in Runs
    BY <1>0, BusyHolds, Refers
  <1>2. ASSUME worker'[w].job = worker[w].job, worker'[w].attempt = worker[w].attempt
        PROVE  /\ HasStarted(Run(w))' <=> HasStarted(Run(w))
               /\ Emits(w, "run.started")' = Emits(w, "run.started")
    <2>1. Run(w)' = Run(w)
      BY <1>1, <1>2, JobMoves DEF Run, Job
    <2> QED
      BY <1>0, <1>2, <2>1 DEF HasStarted, HasEvent, Emits, Job
  <1>3. ASSUME NEW e \in outbox[w]
        PROVE  HasStarted(job[e.job].run)' <=> HasStarted(job[e.job].run)
    <2>1. job'[e.job].run = job[e.job].run
      BY <1>0, Refers, JobMoves DEF Linked, Typed
    <2> QED
      BY <1>0, <2>1 DEF HasStarted, HasEvent
  <1>4. CASE CheckStarted(w)
    <2>1. /\ worker'[w].job = worker[w].job /\ worker'[w].attempt = worker[w].attempt
          /\ worker'[w].pc = "invoking"
      BY <1>0, <1>4 DEF CheckStarted, Goto, WorkerTypeOK, WorkerRow
    <2>2. \/ outbox'[w] = outbox[w] /\ HasStarted(Run(w))
          \/ outbox'[w] = outbox[w] \cup {Emits(w, "run.started")}
      BY <1>0, <1>4 DEF CheckStarted, Emit, WorkerTypeOK, HasStarted
    <2>3. Emits(w, "run.started").type # "run.completed"
      BY DEF Emits
    <2> QED
      BY <1>2, <1>3, <2>1, <2>2, <2>3 DEF BegunWorker, At
  <1>5. CASE GraphCompletes(w)
    <2>1. /\ worker'[w].job = worker[w].job /\ worker'[w].attempt = worker[w].attempt
          /\ worker'[w].pc = "draining" /\ worker[w].pc \in Underway
      BY <1>0, <1>5 DEF GraphCompletes, Finish, WorkerTypeOK, WorkerRow, At, Underway
    <2>2. outbox'[w] = outbox[w] \cup {Emits(w, "run.completed")}
      BY <1>0, <1>5 DEF GraphCompletes, Emit, WorkerTypeOK
    <2>3. /\ [Emits(w, "run.completed") EXCEPT !.type = "run.started"] = Emits(w, "run.started")
          /\ Emits(w, "run.completed").job = Job(w)
          /\ UNCHANGED job
      BY <1>5 DEF GraphCompletes, Emits, store
    <2>4. HasStarted(job[Job(w)].run)' <=> HasStarted(Run(w))
      BY <1>2, <2>1 DEF Run, Job
    <2>5. HasStarted(Run(w)) \/ Emits(w, "run.started") \in outbox[w]
      BY <2>1 DEF BegunWorker
    <2>6. ASSUME NEW e \in outbox'[w], e.type = "run.completed"
          PROVE  HasStarted(job[e.job].run)' \/ [e EXCEPT !.type = "run.started"] \in outbox'[w]
      <3>1. CASE e \in outbox[w]
        BY <1>3, <2>2, <2>6, <3>1 DEF BegunWorker
      <3>2. CASE e = Emits(w, "run.completed")
        <4>1. HasStarted(job[e.job].run)' <=> HasStarted(Run(w))
          BY <1>0, <2>3, <3>2 DEF HasStarted, HasEvent, Run, Job
        <4> QED
          BY <2>2, <2>3, <2>5, <3>2, <4>1
      <3> QED
        BY <2>2, <2>6, <3>1, <3>2
    <2> QED
      BY <1>2, <2>1, <2>2, <2>5, <2>6 DEF BegunWorker, At
  <1>6. CASE Drained(w)
    <2>1. /\ worker'[w].job = worker[w].job /\ worker'[w].attempt = worker[w].attempt
          /\ worker'[w].pc = "storing" /\ worker[w].pc \in Underway /\ outbox'[w] = outbox[w]
      BY <1>0, <1>6 DEF Drained, Goto, WorkerTypeOK, WorkerRow, At, Underway
    <2>2. Emits(w, "run.started") \notin outbox[w]
      BY <1>6 DEF Drained, Own, Emits
    <2> QED
      BY <1>2, <1>3, <2>1, <2>2 DEF BegunWorker, At, Underway
  <1>7. CASE \/ SetRunning(w) \/ ReadRun(w) \/ ReadForResume(w) \/ InvokeGraph(w) \/ ResumeGraph(w)
             \/ GraphFails(w) \/ GraphCancelled(w) \/ RequestApproval(w) \/ Interrupt(w)
             \/ StoreOutcome(w)
    <2>1. /\ worker'[w].job = worker[w].job /\ worker'[w].attempt = worker[w].attempt
          /\ worker'[w].pc \in Underway => worker[w].pc \in Underway
          /\ worker'[w].pc # "storing" /\ outbox'[w] = outbox[w]
      BY <1>0, <1>7
      DEF SetRunning, ReadRun, ReadForResume, InvokeGraph, ResumeGraph, GraphFails,
          GraphCancelled, RequestApproval, Interrupt, StoreOutcome, Goto, Finish, WorkerTypeOK,
          WorkerRow, At, Underway
    <2> QED
      BY <2>1, BegunKept DEF At
  <1> QED
    BY <1>4, <1>5, <1>6, <1>7 DEF HandlerStep

\* A process that persists an emission: the order of its tasks keeps a start
\* before the completion that relies on it.
LEMMA BegunPersist ==
  ASSUME Guarded, [Next]_vars, NEW w \in Workers, BegunWorker(w), Persist(w)
  PROVE  BegunWorker(w)'
  <1>0. Typed /\ StoreTypeOK /\ WorkerTypeOK
    BY DEF Guarded, Typed, TypeOK
  <1>1. PICK m \in outbox[w] : /\ log' = AppendEvent(job[m.job].run, m.type)
                               /\ outbox' = [outbox EXCEPT ![w] = @ \ {m}]
    BY DEF Persist
  <1>2. UNCHANGED <<worker, job>> /\ outbox'[w] = outbox[w] \ {m}
    BY <1>0, <1>1 DEF Persist, WorkerTypeOK
  <1>3. ASSUME NEW r \in Runs, HasStarted(r) \/ (m.type = "run.started" /\ job[m.job].run = r)
        PROVE  HasStarted(r)'
    <2>1. CASE HasStarted(r)
      BY <1>0, <2>1, EventStays DEF HasStarted
    <2>2. CASE m.type = "run.started" /\ job[m.job].run = r
      BY <1>0, <1>1, <2>2, AppendEffect DEF HasStarted, Event, TerminalEvent
    <2> QED
      BY <1>3, <2>1, <2>2
  <1>4. ASSUME worker[w].pc \in Underway \cup {"storing"}
        PROVE  /\ HasStarted(Run(w)) \/ m = Emits(w, "run.started") => HasStarted(Run(w))'
               /\ Emits(w, "run.started")' = Emits(w, "run.started")
    <2>1. Run(w)' = Run(w) /\ Emits(w, "run.started")' = Emits(w, "run.started")
      BY <1>2 DEF Run, Emits, Job
    <2>2. PICK r \in Runs : r = Run(w)
      BY <1>0, <1>4, Refers DEF Busy, Underway
    <2>3. m = Emits(w, "run.started") => m.type = "run.started" /\ job[m.job].run = r
      BY <2>2 DEF Emits, Run, Job
    <2>4. HasStarted(r) \/ m = Emits(w, "run.started") => HasStarted(r)'
      BY <1>3, <2>3
    <2> QED
      BY <2>1, <2>2, <2>4 DEF HasStarted, HasEvent
  <1>5. ASSUME NEW e \in outbox'[w], e.type = "run.completed"
        PROVE  HasStarted(job[e.job].run)' \/ [e EXCEPT !.type = "run.started"] \in outbox'[w]
    <2>1. PICK r \in Runs : r = job[e.job].run
      BY <1>0, <1>2, <1>5, Refers
    <2>2. e \in Emission
      BY <1>0, <1>2, <1>5 DEF WorkerTypeOK
    <2>3. m = [e EXCEPT !.type = "run.started"] => m.type = "run.started" /\ m.job = e.job
      BY <2>2 DEF Emission
    <2>4. HasStarted(r) \/ m = [e EXCEPT !.type = "run.started"] => HasStarted(r)'
      BY <1>3, <2>1, <2>3
    <2>5. HasStarted(job[e.job].run)' <=> HasStarted(r)'
      BY <1>2, <2>1 DEF HasStarted, HasEvent
    <2>6. HasStarted(job[e.job].run) \/ [e EXCEPT !.type = "run.started"] \in outbox[w]
      BY <1>2, <1>5 DEF BegunWorker
    <2> QED
      BY <1>2, <2>1, <2>4, <2>5, <2>6 DEF HasStarted
  <1> QED
    BY <1>2, <1>4, <1>5 DEF BegunWorker, At

\* A process that is not in an attempt any more, or not yet.
LEMMA BegunLeft ==
  ASSUME Guarded, [Next]_vars, NEW w \in Workers, BegunWorker(w),
         worker'[w].pc \notin Underway \cup {"storing"},
         outbox'[w] \subseteq outbox[w],
         \A e \in outbox'[w] : [e EXCEPT !.type = "run.started"] \in outbox[w]
                                 => [e EXCEPT !.type = "run.started"] \in outbox'[w]
  PROVE  BegunWorker(w)'
  <1>0. Typed
    BY DEF Guarded
  <1>1. ASSUME NEW e \in outbox[w], HasStarted(job[e.job].run)
        PROVE  HasStarted(job[e.job].run)'
    <2>1. job'[e.job].run = job[e.job].run
      BY <1>0, Refers, JobMoves DEF Linked, Typed
    <2>2. PICK r \in Runs : r = job[e.job].run
      BY <1>0, Refers
    <2> QED
      BY <1>0, <1>1, <2>1, <2>2, EventStays DEF HasStarted, HasEvent
  <1> QED
    BY <1>1 DEF BegunWorker, At

\* A claim, run_once's writes after the handler, a lost lease and a crash.
LEMMA BegunRest ==
  ASSUME Guarded, [Next]_vars, NEW w \in Workers, BegunWorker(w),
         Claim(w) \/ SettleStep(w) \/ LeaseLost(w) \/ Crash(w)
  PROVE  BegunWorker(w)'
  <1>0. Typed /\ WorkerTypeOK
    BY DEF Guarded, Typed, TypeOK
  <1>1. CASE Claim(w) \/ SettleStep(w)
    <2>1. worker'[w].pc \notin Underway \cup {"storing"} /\ outbox'[w] = outbox[w]
      BY <1>0, <1>1
      DEF Claim, Claimed, SettleStep, CompleteJob, PromoteRun, RejectJob, FailRun, FailJob,
          RequeueRun, EmitRunFailed, Goto, Release, Idle, WorkerTypeOK, WorkerRow, Underway
    <2> QED
      BY <2>1, BegunLeft
  <1>2. CASE Crash(w)
    <2>1. worker'[w].pc \notin Underway \cup {"storing"} /\ outbox'[w] = {}
      BY <1>0, <1>2 DEF Crash, Idle, WorkerTypeOK, WorkerRow, Underway
    <2> QED
      BY <2>1, BegunLeft
  <1>3. CASE LeaseLost(w)
    <2>1. worker'[w].pc = "idle"
      BY <1>0, <1>3, ReleaseEffect DEF LeaseLost
    <2>2. outbox'[w] \in {outbox[w], outbox[w] \ Own(w)}
      BY <1>0, <1>3 DEF LeaseLost, WorkerTypeOK
    <2>3. ASSUME NEW e \in outbox'[w], [e EXCEPT !.type = "run.started"] \in outbox[w]
          PROVE  [e EXCEPT !.type = "run.started"] \in outbox'[w]
      <3>1. e \in Emission
        BY <1>0, <2>2, <2>3 DEF WorkerTypeOK
      <3>2. /\ [e EXCEPT !.type = "run.started"].job = e.job
            /\ [e EXCEPT !.type = "run.started"].attempt = e.attempt
        BY <3>1 DEF Emission
      <3> QED
        BY <2>2, <2>3, <3>2 DEF Own
    <2> QED
      BY <2>1, <2>2, <2>3, BegunLeft DEF Underway
  <1> QED
    BY <1>1, <1>2, <1>3

\* A completion that becomes durable finds the start in the timeline.
LEMMA BegunRunStep ==
  ASSUME Guarded, [Next]_vars, NEW r \in Runs, BegunRun(r), \A w \in Workers : BegunWorker(w)
  PROVE  BegunRun(r)'
  <1>0. Typed /\ StoreTypeOK /\ WorkerTypeOK
    BY DEF Guarded, Typed, TypeOK
  <1>1. CASE log'[r] = log[r]
    BY <1>1 DEF BegunRun
  <1>2. ASSUME NEW s \in Runs, NEW e \in Event, log' = AppendEvent(s, e),
               e \in {"run.started", "run.completed"} =>
                 \E w \in Workers : \E m \in outbox[w] :
                   Persists(w, m) /\ job[m.job].run = s /\ m.type = e
        PROVE  BegunRun(r)'
    <2> SUFFICES ASSUME log'[r] # log[r]
                 PROVE  BegunRun(r)'
      BY <1>1
    <2>1. /\ s = r
          /\ Len(log[r]) \in Nat
          /\ DOMAIN log[r] = 1 .. Len(log[r])
          /\ DOMAIN log'[r] = 1 .. Len(log[r]) + 1
          /\ \A i \in 1 .. Len(log[r]) : log'[r][i] = log[r][i]
          /\ log'[r][Len(log[r]) + 1] = e
      BY <1>0, <1>2, AppendLonger
    <2>2. ASSUME e = "run.completed"
          PROVE  HasStarted(r)
      <3>1. PICK w \in Workers : \E m \in outbox[w] :
                   Persists(w, m) /\ job[m.job].run = r /\ m.type = "run.completed"
        BY <1>2, <2>1, <2>2
      <3> QED
        BY <3>1 DEF BegunWorker, Persists
    <2>3. ASSUME e = "run.completed"
          PROVE  \E k \in 1 .. Len(log[r]) + 1 : log'[r][k] = "run.started"
      BY <2>1, <2>2, <2>3 DEF HasStarted, HasEvent
    <2>4. ASSUME NEW i \in 1 .. Len(log[r]), log'[r][i] = "run.completed"
          PROVE  \E k \in 1 .. i : log'[r][k] = "run.started"
      <3>1. PICK k \in 1 .. i : log[r][k] = "run.started"
        BY <2>1, <2>4 DEF BegunRun
      <3> QED
        BY <2>1, <3>1
    <2>5. \A i \in 1 .. Len(log[r]) + 1 : i \in 1 .. Len(log[r]) \/ i = Len(log[r]) + 1
      BY <2>1
    <2> QED
      BY <2>1, <2>3, <2>4, <2>5 DEF BegunRun
  <1> QED
    BY <1>0, <1>1, <1>2, LogWrites

\* Begun is inductive.
LEMMA BegunStep == Begun /\ [Next]_vars => Begun'
  <1> SUFFICES ASSUME Begun, [Next]_vars
               PROVE  Begun'
    OBVIOUS
  <1>1. Guarded' /\ Typed /\ (faults' = 0 => faults = 0)
    BY FencedStep, FaultsCounted DEF Begun, Guarded
  <1>2. ASSUME faults' = 0, NEW r \in Runs
        PROVE  BegunRun(r)'
    BY <1>1, <1>2, BegunRunStep DEF Begun
  <1>3. ASSUME faults' = 0, NEW w \in Workers
        PROVE  BegunWorker(w)'
    <2>1. Guarded /\ BegunWorker(w)
      BY <1>1, <1>3 DEF Begun
    <2>2. CASE worker'[w] = worker[w] /\ outbox'[w] = outbox[w]
      BY <2>1, <2>2, BegunKept DEF At
    <2> QED
      BY <1>1, <1>3, <2>1, <2>2, HeldMoves, BegunHandler, BegunPersist, BegunRest DEF WorkerStep
  <1> QED
    BY <1>1, <1>2, <1>3 DEF Begun

\* It holds before anything started.
LEMMA BegunInit == Init => Begun
  <1>1. Init => \A r \in Runs : BegunRun(r)
    BY DEF Init, StoreInit, BegunRun
  <1>2. Init => \A w \in Workers : BegunWorker(w)
    BY DEF Init, WorkerInit, Idle, BegunWorker, At, Underway
  <1> QED
    BY <1>1, <1>2, FencedInit DEF Begun

\* It holds in every reachable state.
LEMMA BegunAlways == Spec => []Begun
  <1>1. Init => Begun
    BY BegunInit
  <1>2. Begun /\ [Next]_vars => Begun'
    BY BegunStep
  <1> QED
    BY <1>1, <1>2, PTL DEF Spec

\* While no database call fails no timeline shows a completion before a start,
\* whichever attempts, workers and persist tasks wrote the two
\* (DurableEventEmitter, execute_run_sync).
THEOREM CompletionsFollowStarts == Spec => []StartedBeforeCompleted
  <1>1. Begun => StartedBeforeCompleted
    BY DEF Begun, BegunRun, StartedBeforeCompleted
  <1> QED
    BY <1>1, BegunAlways, PTL

-----------------------------------------------------------------------------
(* One run.started. *)

\* What StartedOnce says of one run.
OnceRun(r) == \A i, k \in DOMAIN log[r] :
                log[r][i] = "run.started" /\ log[r][k] = "run.started" => i = k

\* A process has only emissions of the attempt it is in, and none of a start
\* that the timeline shows already.
SoloWorker(w) ==
  /\ outbox[w] # {} => worker[w].pc \in Underway
  /\ \A e \in outbox[w] : e = Emits(w, e.type)
  /\ Emits(w, "run.started") \in outbox[w] => ~HasStarted(Run(w))

\* A run that has a second job, or that may get one, has started.
StartedJobs == \A i, j \in JobId : i # j /\ job[i].run = job[j].run /\ job[i].run \in Runs
                                   => HasStarted(job[i].run)
StartedPaused == \A r \in Runs : run[r].status = "paused" => HasStarted(r)

\* The invariant of this part.
Quiet  == stalls = 0 /\ faults = 0
Alone  == /\ \A r \in Runs : OnceRun(r)
          /\ \A w \in Workers : SoloWorker(w)
          /\ StartedJobs /\ StartedPaused
Solo   == Begun /\ Excluded /\ (Quiet => Alone)

\* run.started reaches a timeline from the emission of some process.
LEMMA StartedBy ==
  ASSUME Typed, [Next]_vars, NEW r \in Runs, HasStarted(r)', ~HasStarted(r)
  PROVE  \E w \in Workers : \E m \in outbox[w] :
           Persists(w, m) /\ job[m.job].run = r /\ m.type = "run.started"
  <1>0. StoreTypeOK
    BY DEF Typed, TypeOK
  <1>1. log'[r] # log[r]
    BY DEF HasStarted, HasEvent
  <1>2. PICK s \in Runs, e \in Event :
          /\ log' = AppendEvent(s, e)
          /\ e \in {"run.started", "run.completed"} =>
               \E w \in Workers : \E m \in outbox[w] :
                 Persists(w, m) /\ job[m.job].run = s /\ m.type = e
    BY <1>1, LogWrites
  <1>3. s = r
    BY <1>0, <1>1, <1>2, AppendEffect
  <1>4. e = "run.started"
    BY <1>0, <1>1, <1>2, <1>3, AppendEffect DEF HasStarted
  <1> QED
    BY <1>2, <1>3, <1>4

\* Only an attempt that stores its outcome pauses a run.
LEMMA PausedBy ==
  ASSUME Typed, [Next]_vars, NEW r \in Runs, run'[r].status = "paused",
         run[r].status # "paused"
  PROVE  \E w \in Workers : At(w, "storing") /\ Run(w) = r
  <1>0. StoreTypeOK
    BY DEF Typed, TypeOK
  <1>1. CASE WorkerNext
    <2>1. PICK w \in Workers :
            Claim(w) \/ WorkerStep(w) \/ Persist(w) \/ Heartbeat(w) \/ LeaseLost(w)
              \/ DbFault(w) \/ Crash(w)
      BY <1>1 DEF WorkerNext
    <2>2. CASE StoreOutcome(w)
      BY <1>0, <2>2 DEF StoreOutcome, UpdateRun, StoreTypeOK
    <2>3. CASE ~StoreOutcome(w)
      <3>1. \/ UNCHANGED run
            \/ \E status \in RunStatus \ {"paused"} : \E error :
                 run' = SetRunStatus(Run(w), status, error)
        BY <2>1, <2>3
        DEF Claim, Persist, Heartbeat, LeaseLost, DbFault, Crash, WorkerStep, HandlerStep,
            SetRunning, ReadRun, ReadForResume, CheckStarted, InvokeGraph, ResumeGraph,
            GraphCompletes, GraphFails, GraphCancelled, RequestApproval, Interrupt, Drained,
            SettleStep, CompleteJob, PromoteRun, RejectJob, FailRun, FailJob, RequeueRun,
            EmitRunFailed, store, RunStatus, TerminalStatus
      <3> QED
        BY <1>0, <3>1 DEF SetRunStatus, StoreTypeOK
    <2> QED
      BY <2>2, <2>3
  <1>2. CASE ApiNext
    <2>1. \/ UNCHANGED run
          \/ \E s \in Runs : \E status \in {"queued", "cancelled"} :
               run' = [run EXCEPT ![s].status = status]
      BY <1>2 DEF ApiNext, CreateRun, CancelRun, AnnounceCancel, LoseAnnouncement, ResolveApproval,
                  ExpireApproval, store
    <2> QED
      BY <1>0, <2>1 DEF StoreTypeOK, RunRow
  <1>3. CASE (\E j \in JobId : LeaseExpires(j)) \/ UNCHANGED vars
    BY <1>3 DEF LeaseExpires, vars, store
  <1> QED
    BY <1>1, <1>2, <1>3 DEF Next

\* Two processes that are about to announce a start work for different runs.
LEMMA StartsDiffer ==
  ASSUME Typed, Exclusive, Quiet, Alone, NEW v \in Workers, NEW w \in Workers, v # w,
         Emits(v, "run.started") \in outbox[v], Emits(w, "run.started") \in outbox[w]
  PROVE  Run(v) # Run(w)
  <1>1. v # w /\ worker[v].pc \in Underway /\ worker[w].pc \in Underway
    BY DEF Alone, SoloWorker
  <1>2. job[Job(v)].owner = v /\ job[Job(w)].owner = w
    BY <1>1 DEF Exclusive, Quiet, Underway, Handling
  <1>3. Job(v) \in JobId /\ Job(w) \in JobId /\ Run(w) \in Runs
    BY <1>1, Refers DEF Busy, Underway
  <1>4. ~HasStarted(Run(w))
    BY DEF Alone, SoloWorker
  <1> QED
    BY <1>1, <1>2, <1>3, <1>4 DEF Alone, StartedJobs, Run, Job

\* A start that is still to be announced is not in the timeline yet.
LEMMA StartPending ==
  ASSUME Typed, Exclusive, Quiet, Alone, [Next]_vars, NEW w \in Workers,
         Emits(w, "run.started") \in outbox[w], Emits(w, "run.started") \in outbox'[w],
         NEW r \in Runs, Run(w) = r
  PROVE  ~HasStarted(r)'
  <1> SUFFICES ASSUME HasStarted(r)'
               PROVE  FALSE
    OBVIOUS
  <1>0. WorkerTypeOK
    BY DEF Typed, TypeOK
  <1>1. ~HasStarted(r)
    BY DEF Alone, SoloWorker
  <1>2. PICK v \in Workers : \E m \in outbox[v] :
          Persists(v, m) /\ job[m.job].run = r /\ m.type = "run.started"
    BY <1>1, StartedBy
  <1> PICK m \in outbox[v] : Persists(v, m) /\ job[m.job].run = r /\ m.type = "run.started"
    BY <1>2
  <1>3. m = Emits(v, "run.started")
    BY DEF Alone, SoloWorker
  <1>4. Run(v) = r
    BY <1>3 DEF Emits, Run, Job
  <1>5. CASE v = w
    BY <1>0, <1>3, <1>5 DEF Persists, WorkerTypeOK
  <1>6. CASE v # w
    BY <1>3, <1>4, <1>6, StartsDiffer
  <1> QED
    BY <1>5, <1>6

\* A process without emissions has nothing to announce.
LEMMA SoloEmpty ==
  ASSUME NEW w, outbox'[w] = {}
  PROVE  SoloWorker(w)'
  BY DEF SoloWorker

\* An attempt that goes on with no new emission.
LEMMA SoloKept ==
  ASSUME Guarded, Exclusive, Quiet, Alone, [Next]_vars, NEW w \in Workers,
         worker'[w].job = worker[w].job, worker'[w].attempt = worker[w].attempt,
         worker[w].pc \in Underway => worker'[w].pc \in Underway,
         outbox'[w] \subseteq outbox[w]
  PROVE  SoloWorker(w)'
  <1>0. Typed /\ SoloWorker(w)
    BY DEF Guarded, Alone
  <1>1. \A type : Emits(w, type)' = Emits(w, type)
    BY DEF Emits, Job
  <1>2. ASSUME Emits(w, "run.started") \in outbox'[w]
        PROVE  ~HasStarted(Run(w))'
    <2>1. Busy(w)
      BY <1>0, <1>2 DEF SoloWorker, Busy, Underway
    <2>2. Job(w) \in JobId /\ job[Job(w)].status # "absent" /\ Run(w) \in Runs
      BY <1>0, <2>1, BusyHolds, Refers
    <2>3. Run(w)' = Run(w)
      BY <2>2, JobMoves DEF Run, Job
    <2>4. PICK r \in Runs : Run(w) = r
      BY <2>2
    <2>5. ~HasStarted(r)'
      BY <1>0, <1>2, <2>4, StartPending
    <2> QED
      BY <2>3, <2>4, <2>5 DEF HasStarted, HasEvent
  <1> QED
    BY <1>0, <1>1, <1>2 DEF SoloWorker

\* The handler: it emits once it knows of no start, and stores its outcome
\* when nothing of it is left to persist.
LEMMA SoloHandler ==
  ASSUME Guarded, Exclusive, Quiet, Alone, [Next]_vars, NEW w \in Workers, HandlerStep(w)
  PROVE  SoloWorker(w)'
  <1>0. Typed /\ WorkerTypeOK /\ SoloWorker(w) /\ Busy(w) /\ UNCHANGED log
    BY DEF Guarded, Alone, Typed, TypeOK, HandlerStep, SetRunning, ReadRun, ReadForResume,
           CheckStarted, InvokeGraph, ResumeGraph, GraphCompletes, GraphFails, GraphCancelled,
           RequestApproval, Interrupt, Drained, StoreOutcome, store, At, Busy
  <1>1. CASE SetRunning(w) \/ ReadRun(w) \/ ReadForResume(w) \/ StoreOutcome(w)
    <2>1. worker[w].pc \notin Underway /\ outbox'[w] = outbox[w]
      BY <1>1 DEF SetRunning, ReadRun, ReadForResume, StoreOutcome, At, Underway
    <2> QED
      BY <1>0, <2>1, SoloEmpty DEF SoloWorker
  <1>2. CASE Drained(w)
    <2>1. Own(w) = {} /\ outbox'[w] = outbox[w]
      BY <1>2 DEF Drained
    <2>2. \A e \in outbox[w] : e \in Own(w)
      BY <1>0 DEF SoloWorker, Emits, Own
    <2> QED
      BY <2>1, <2>2, SoloEmpty
  <1>3. CASE InvokeGraph(w) \/ ResumeGraph(w) \/ GraphFails(w) \/ GraphCancelled(w)
             \/ RequestApproval(w) \/ Interrupt(w)
    <2>1. /\ worker'[w].job = worker[w].job /\ worker'[w].attempt = worker[w].attempt
          /\ worker'[w].pc \in Underway /\ outbox'[w] = outbox[w]
      BY <1>0, <1>3 DEF InvokeGraph, ResumeGraph, GraphFails, GraphCancelled, RequestApproval,
                        Interrupt, Goto, Finish, WorkerTypeOK, WorkerRow, Underway
    <2> QED
      BY <2>1, SoloKept
  <1>4. Job(w) \in JobId /\ job[Job(w)].status # "absent" /\ Run(w) \in Runs
    BY <1>0, BusyHolds, Refers
  <1>5. CASE CheckStarted(w) \/ GraphCompletes(w)
    <2>1. /\ worker'[w].job = worker[w].job /\ worker'[w].attempt = worker[w].attempt
          /\ worker'[w].pc \in Underway
      BY <1>0, <1>5 DEF CheckStarted, GraphCompletes, Goto, Finish, WorkerTypeOK, WorkerRow,
                        Underway
    <2>2. /\ \A type : Emits(w, type)' = Emits(w, type) /\ Emits(w, type).type = type
          /\ HasStarted(Run(w))' <=> HasStarted(Run(w))
      <3>1. Run(w)' = Run(w)
        BY <1>4, <2>1, JobMoves DEF Run, Job
      <3> QED
        BY <1>0, <2>1, <3>1 DEF Emits, Job, HasStarted, HasEvent
    <2>3. \/ outbox'[w] = outbox[w]
          \/ outbox'[w] = outbox[w] \cup {Emits(w, "run.started")} /\ ~HasStarted(Run(w))
          \/ outbox'[w] = outbox[w] \cup {Emits(w, "run.completed")}
      BY <1>0, <1>5 DEF CheckStarted, GraphCompletes, Emit, WorkerTypeOK, HasStarted
    <2> QED
      BY <1>0, <2>1, <2>2, <2>3 DEF SoloWorker
  <1> QED
    BY <1>1, <1>2, <1>3, <1>5 DEF HandlerStep

\* No process brings a second start, whatever it does.
LEMMA SoloWorkerStep ==
  ASSUME Guarded, Exclusive, Quiet, Quiet', Alone, [Next]_vars, NEW w \in Workers
  PROVE  SoloWorker(w)'
  <1>0. Typed /\ WorkerTypeOK /\ SoloWorker(w)
    BY DEF Guarded, Alone, Typed, TypeOK
  <1>1. CASE worker'[w] = worker[w] /\ outbox'[w] = outbox[w]
    BY <1>1, SoloKept
  <1>2. CASE Claim(w) \/ SettleStep(w)
    <2>1. worker[w].pc \notin Underway /\ outbox'[w] = outbox[w]
      BY <1>2 DEF Claim, SettleStep, CompleteJob, PromoteRun, RejectJob, FailRun, FailJob,
                  RequeueRun, EmitRunFailed, At, Underway
    <2> QED
      BY <1>0, <2>1, SoloEmpty DEF SoloWorker
  <1>3. CASE Persist(w)
    <2>1. UNCHANGED worker /\ outbox'[w] \subseteq outbox[w]
      BY <1>0, <1>3 DEF Persist, WorkerTypeOK
    <2> QED
      BY <2>1, SoloKept
  <1>4. CASE LeaseLost(w)
    <2>1. /\ worker[w].pc \in Handling
          /\ ~(job[Job(w)].status = "running" /\ job[Job(w)].owner = w)
      BY <1>4 DEF LeaseLost, Leased
    <2>2. job[Job(w)].owner = w
      BY <2>1 DEF Exclusive, Quiet
    <2>3. Job(w) \in JobId
      BY <1>0, <2>1, BusyHolds DEF Busy, Handling
    <2> QED
      BY <2>1, <2>2, <2>3, StoreAssumption DEF Guarded, Fenced
  <1>5. CASE Crash(w)
    BY <1>0, <1>5, SoloEmpty DEF Crash, WorkerTypeOK
  <1> QED
    BY <1>0, <1>1, <1>2, <1>3, <1>4, <1>5, HeldMoves, SoloHandler DEF WorkerStep, Quiet

\* A run gets a second job only after it was paused, and by then it started.
LEMMA StartedJobsStep ==
  ASSUME Guarded, StartedJobs, StartedPaused, [Next]_vars
  PROVE  StartedJobs'
  <1>0. Typed /\ StoreTypeOK
    BY DEF Guarded, Typed, TypeOK
  <1> SUFFICES ASSUME NEW k \in JobId, NEW j \in JobId, k # j,
                      job'[k].run = job'[j].run, job'[k].run \in Runs
               PROVE  HasStarted(job[k].run)'
    BY DEF StartedJobs
  <1>1. ASSUME NEW s \in Runs, HasStarted(s)
        PROVE  HasStarted(s)'
    BY <1>0, <1>1, EventStays DEF HasStarted
  <1>2. CASE job'[k].run = job[k].run /\ job'[j].run = job[j].run
    <2>1. PICK s \in Runs : s = job'[k].run
      OBVIOUS
    <2>2. HasStarted(s)
      BY <1>2, <2>1 DEF StartedJobs
    <2> QED
      BY <1>1, <2>1, <2>2 DEF HasStarted, HasEvent
  <1>3. ASSUME NEW r \in Runs, NEW i \in JobId, job[i].run = None,
               \A n \in JobId : job'[n].run = IF n = i THEN r ELSE job[n].run,
               i \in {j, k},
               \/ ~Exists(r)
               \/ \E a \in Actions : \E d \in Resolution : ResolveApproval(r, a, d)
        PROVE  HasStarted(job[k].run)'
    <2>1. job'[k].run = r
      BY <1>3
    <2>2. \E n \in JobId : job[n].run = r
      BY <1>3
    <2>3. Exists(r)
      BY <1>0, <2>2, StoreAssumption DEF Typed, Linked
    <2>4. run[r].status = "paused"
      <3>1. job' # job
        BY <1>3, StoreAssumption
      <3> QED
        BY <1>3, <2>3, <3>1 DEF ResolveApproval
    <2>5. HasStarted(r)'
      BY <1>1, <2>4 DEF StartedPaused
    <2> QED
      BY <2>1, <2>5 DEF HasStarted, HasEvent
  <1> QED
    BY <1>0, <1>2, <1>3, NewJobs

\* A run that is paused has been through an attempt, which started it.
LEMMA StartedPausedStep ==
  ASSUME Guarded, StartedPaused, \A w \in Workers : BegunWorker(w), [Next]_vars
  PROVE  StartedPaused'
  <1>0. Typed
    BY DEF Guarded
  <1> SUFFICES ASSUME NEW r \in Runs, run'[r].status = "paused"
               PROVE  HasStarted(r)'
    BY DEF StartedPaused
  <1>1. CASE run[r].status = "paused"
    BY <1>0, <1>1, EventStays DEF StartedPaused, HasStarted
  <1>2. CASE run[r].status # "paused"
    <2>1. PICK w \in Workers : At(w, "storing") /\ Run(w) = r
      BY <1>0, <1>2, PausedBy
    <2>2. HasStarted(r)
      BY <2>1 DEF BegunWorker
    <2> QED
      BY <1>0, <2>2, EventStays DEF HasStarted
  <1> QED
    BY <1>1, <1>2

\* A start becomes durable only in a timeline without one.
LEMMA OnceRunStep ==
  ASSUME Typed, Alone, [Next]_vars, NEW r \in Runs
  PROVE  OnceRun(r)'
  <1>0. StoreTypeOK /\ OnceRun(r)
    BY DEF Typed, TypeOK, Alone
  <1>1. CASE log'[r] = log[r]
    BY <1>0, <1>1 DEF OnceRun
  <1>2. ASSUME NEW s \in Runs, NEW e \in Event, log' = AppendEvent(s, e),
               e \in {"run.started", "run.completed"} =>
                 \E w \in Workers : \E m \in outbox[w] :
                   Persists(w, m) /\ job[m.job].run = s /\ m.type = e
        PROVE  OnceRun(r)'
    <2> SUFFICES ASSUME log'[r] # log[r]
                 PROVE  OnceRun(r)'
      BY <1>1
    <2>1. /\ s = r
          /\ Len(log[r]) \in Nat
          /\ DOMAIN log[r] = 1 .. Len(log[r])
          /\ DOMAIN log'[r] = 1 .. Len(log[r]) + 1
          /\ \A i \in 1 .. Len(log[r]) : log'[r][i] = log[r][i]
          /\ log'[r][Len(log[r]) + 1] = e
      BY <1>0, <1>2, AppendLonger
    <2>2. ASSUME e = "run.started"
          PROVE  \A i \in DOMAIN log[r] : log[r][i] # "run.started"
      <3>1. PICK w \in Workers : \E m \in outbox[w] :
                   job[m.job].run = r /\ m.type = "run.started"
        BY <1>2, <2>1, <2>2
      <3> PICK m \in outbox[w] : job[m.job].run = r /\ m.type = "run.started"
        BY <3>1
      <3>2. m = Emits(w, "run.started")
        BY DEF Alone, SoloWorker
      <3>3. ~HasStarted(r)
        BY <3>2 DEF Alone, SoloWorker, Emits, Run, Job
      <3> QED
        BY <3>3 DEF HasStarted, HasEvent
    <2>3. \A i \in 1 .. Len(log[r]) + 1 : i \in 1 .. Len(log[r]) \/ i = Len(log[r]) + 1
      BY <2>1
    <2> QED
      BY <1>0, <2>1, <2>2, <2>3 DEF OnceRun
  <1> QED
    BY <1>0, <1>1, <1>2, LogWrites

\* Solo is inductive.
LEMMA SoloStep == Solo /\ [Next]_vars => Solo'
  <1> SUFFICES ASSUME Solo, [Next]_vars
               PROVE  Solo'
    OBVIOUS
  <1>1. Begun' /\ Excluded' /\ Guarded /\ Typed
    BY BegunStep, ExclusiveStep DEF Solo, Begun, Guarded
  <1>2. ASSUME Quiet'
        PROVE  Alone'
    <2>1. Quiet
      BY <1>1, <1>2, StallsCounted, FaultsCounted DEF Quiet
    <2>2. Alone /\ Exclusive /\ \A w \in Workers : BegunWorker(w)
      BY <2>1 DEF Solo, Excluded, Begun, Quiet
    <2>3. \A r \in Runs : OnceRun(r)'
      BY <1>1, <2>2, OnceRunStep
    <2>4. \A w \in Workers : SoloWorker(w)'
      BY <1>1, <1>2, <2>1, <2>2, SoloWorkerStep
    <2>5. StartedJobs' /\ StartedPaused'
      BY <1>1, <2>2, StartedJobsStep, StartedPausedStep DEF Alone
    <2> QED
      BY <2>3, <2>4, <2>5 DEF Alone
  <1> QED
    BY <1>1, <1>2 DEF Solo

\* It holds before anything started.
LEMMA SoloInit == Init => Solo
  <1> SUFFICES ASSUME Init
               PROVE  Alone
    BY BegunInit, ExclusiveInit DEF Solo
  <1>1. \A r \in Runs : OnceRun(r)
    BY DEF Init, StoreInit, OnceRun
  <1>2. \A w \in Workers : SoloWorker(w)
    BY DEF Init, WorkerInit, SoloWorker
  <1>3. StartedJobs /\ StartedPaused
    BY StoreAssumption DEF Init, StoreInit, NoRun, NoJob, StartedJobs, StartedPaused
  <1> QED
    BY <1>1, <1>2, <1>3 DEF Alone

\* A run whose leases last and whose database answers has one run.started in
\* its timeline, however often workers crash and its jobs are retried and
\* resumed: has_event and the emission are two steps, and it is the lease, and
\* that a second job follows a pause, which keep another attempt from coming
\* between them (execute_run_sync, claim_next, resolve_and_enqueue).
THEOREM StartsOnce == Spec => []StartedOnce
  <1>1. Init => Solo
    BY SoloInit
  <1>2. Solo /\ [Next]_vars => Solo'
    BY SoloStep
  <1>3. Solo => StartedOnce
    <2> SUFFICES ASSUME Solo, stalls + faults = 0
                 PROVE  \A r \in Runs : OnceRun(r)
      BY DEF StartedOnce, OnceRun
    <2>1. stalls \in Nat /\ faults \in Nat
      BY BoundAssumption DEF Solo, Excluded, Guarded, Typed, TypeOK
    <2> QED
      BY <2>1 DEF Solo, Quiet, Alone
  <1> QED
    BY <1>1, <1>2, <1>3, PTL DEF Spec
=============================================================================

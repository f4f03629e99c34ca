---------------------------- MODULE AgentRuntime ----------------------------
(***************************************************************************)
(* The runtime as it is deployed: API processes and workers over one       *)
(* PostgreSQL database.  This module composes JobWorker and RunApi, adds   *)
(* time and failures, and states what the whole must guarantee.            *)
(***************************************************************************)
EXTENDS JobWorker, RunApi

CONSTANTS
  MaxStalls,    (* bound: leases that run out under a live worker          *)
  MaxCrashes,   (* bound: process deaths                                   *)
  MaxFaults     (* bound: database calls that raise                        *)

ASSUME BoundAssumption == {MaxStalls, MaxCrashes, MaxFaults} \subseteq Nat

VARIABLES stalls, crashes, faults

bounds == <<stalls, crashes, faults>>
vars   == <<store, local, announcing, bounds>>

TypeOK ==
  /\ StoreTypeOK /\ WorkerTypeOK /\ ApiTypeOK
  /\ stalls \in 0 .. MaxStalls
  /\ crashes \in 0 .. MaxCrashes
  /\ faults \in 0 .. MaxFaults

Init == /\ StoreInit /\ WorkerInit /\ ApiInit
        /\ stalls = 0 /\ crashes = 0 /\ faults = 0
-----------------------------------------------------------------------------
\* The clock passes lease_expires_at: the owner is dead, or stalled (a busy
\* event loop, a slow database, a heartbeat loop an exception has ended).
LeaseExpires(j) ==
  /\ job[j].status = "running" /\ ~job[j].expired
  /\ \/ At(job[j].owner, "dead") /\ UNCHANGED stalls
     \/ ~At(job[j].owner, "dead") /\ stalls < MaxStalls /\ stalls' = stalls + 1
  /\ job' = [job EXCEPT ![j].expired = TRUE]
  /\ UNCHANGED <<run, approval, latest, log, asked, granted, local, announcing,
                 crashes, faults>>

WorkerNext ==
  \E w \in Workers :
    \/ /\ Claim(w) \/ WorkerStep(w) \/ Persist(w) \/ Heartbeat(w) \/ LeaseLost(w)
       /\ UNCHANGED <<announcing, bounds>>
    \/ /\ DbFault(w)
       /\ faults < MaxFaults /\ faults' = faults + 1
       /\ UNCHANGED <<announcing, stalls, crashes>>
    \/ /\ Crash(w)
       /\ crashes < MaxCrashes /\ crashes' = crashes + 1
       /\ UNCHANGED <<announcing, stalls, faults>>

ApiNext ==
  \E r \in Runs :
    \/ /\ \/ CreateRun(r) \/ CancelRun(r) \/ AnnounceCancel(r)
          \/ \E a \in Actions : \/ \E d \in Resolution : ResolveApproval(r, a, d)
                                \/ ExpireApproval(r, a)
       /\ UNCHANGED <<local, bounds>>
    \/ /\ LoseAnnouncement(r)
       /\ crashes < MaxCrashes /\ crashes' = crashes + 1
       /\ UNCHANGED <<local, stalls, faults>>

Next == WorkerNext \/ ApiNext \/ \E j \in JobId : LeaseExpires(j)

Spec == Init /\ [][Next]_vars

-----------------------------------------------------------------------------
(***************************************************************************)
(* Fairness: a live process runs its coroutine, its event loop runs the    *)
(* persist tasks, it polls for jobs, and an API process that committed a   *)
(* cancellation goes on to append the event.  The lease of a dead process  *)
(* runs out.  Nothing obliges a client to create, cancel or resolve, the   *)
(* heartbeat to be in time, or anything to fail.                           *)
(***************************************************************************)
Fairness ==
  /\ \A w \in Workers :
       /\ WF_vars(Claim(w) /\ UNCHANGED <<announcing, bounds>>)
       /\ WF_vars(WorkerStep(w) /\ UNCHANGED <<announcing, bounds>>)
       /\ WF_vars(Persist(w) /\ UNCHANGED <<announcing, bounds>>)
  /\ \A r \in Runs : WF_vars(AnnounceCancel(r) /\ UNCHANGED <<local, bounds>>)
  /\ \A j \in JobId : WF_vars(LeaseExpires(j) /\ UNCHANGED stalls)

FairSpec == Spec /\ Fairness
-----------------------------------------------------------------------------
(* Safety *)

\* The terminal event of a run's timeline.
VerdictOf(r) == IF HasTerminal(r)
                THEN CHOOSE e \in TerminalEvent : HasEvent(r, e)
                ELSE "none"

Contract == INSTANCE RunContract WITH
              status  <- [r \in Runs |-> run[r].status],
              verdict <- [r \in Runs |-> VerdictOf(r)]

\* However workers, leases, retries, crashes and clients interleave, a client
\* sees a run behave as RunContract says: its terminal status is never
\* overwritten (_set_run_status, _update_run, cancel_run), it has one terminal
\* event, and it is not completed before run.completed is durable (drain
\* before _update_run).
ImplementsContract == Contract!Spec

\* Workers that hold the same job hold it with different attempts, so
\* attempt_count tells deliveries of a job apart (claim_next).
AttemptsDistinct ==
  \A v, w \in Workers :
    v # w /\ Job(v) # 0 /\ Job(v) = Job(w) => worker[v].attempt # worker[w].attempt

\* A job stops being "running" only by a step of the worker that made its
\* latest claim: complete, fail and _fail_without_retry of a worker that lost
\* the lease never settle a job its successor works on.
OnlyHolderSettles ==
  [][\A j \in JobId :
       job[j].status = "running" /\ job'[j].status # "running"
       => \E w \in Workers : /\ job[j].owner = w
                             /\ Job(w) = j
                             /\ worker[w].attempt = job[j].attempts]_vars

\* Two handlers run for one job only after a lease ran out under a live
\* worker (claim_next takes over expired leases only).
ExclusiveUnlessStalled ==
  stalls = 0 =>
    \A v, w \in Workers :
      v # w /\ worker[v].pc \in Handling /\ worker[w].pc \in Handling => Job(v) # Job(w)

\* A run's error column agrees with its status: none for a completed run,
\* whatever its earlier attempts left there, and some for a failed one.
ErrorMatchesStatus ==
  \A r \in Runs : /\ run[r].status = "completed" => run[r].error = "none"
                  /\ run[r].status = "failed" => run[r].error # "none"

\* Beyond its first job a run has at most one job for each approval that was
\* resolved in time: neither a repeated resolution nor a retry enqueues more
\* (resolve_and_enqueue).
DeliveriesAuthorised ==
  \A r \in Runs :
    Cardinality({j \in JobId : job[j].run = r})
      <= 1 + Cardinality({a \in Actions : Resolved(r, a)})

\* The graph of a run takes no action as approved while nobody has approved
\* any: pending, expired and rejected approvals never resume a thread as
\* granted (execute_run_sync, _require_approval).
NothingGrantedUnapproved ==
  \A r \in Runs : granted[r] # {} => \E a \in Actions : approval[r][a] = "approved"

\* While no database call fails, run.completed never precedes run.started in
\* a timeline, whoever emitted either (FIFO lock of DurableEventEmitter).
StartedBeforeCompleted ==
  faults = 0 =>
    \A r \in Runs : \A i \in DOMAIN log[r] :
      log[r][i] = "run.completed" => \E k \in 1 .. i : log[r][k] = "run.started"

\* A run whose leases last and whose database answers has one run.started,
\* however often it is retried or resumed: has_event and emit are two steps,
\* and only the lease keeps a second attempt from coming between them
\* (execute_run_sync).
StartedOnce ==
  stalls + faults = 0 =>
    \A r \in Runs : \A i, k \in DOMAIN log[r] :
      log[r][i] = "run.started" /\ log[r][k] = "run.started" => i = k

\* A worker that puts its run back into the queue leaves it a job to be run
\* by, unless another worker has had the job since: fail() decides on the
\* row's attempt count, run_once on the count it claimed the job with, in a
\* later transaction.
RequeuedHasJob ==
  [][\A w \in Workers :
       At(w, "retrying") /\ worker'[w] # worker[w] /\ run'[Run(w)] # run[Run(w)]
         /\ run'[Run(w)].status = "queued"
       => \/ job'[Job(w)].status \in {"queued", "retry_wait", "running"}
          \/ job'[Job(w)].attempts > worker[w].attempt]_vars
-----------------------------------------------------------------------------
(* Liveness *)

\* A run somebody may still work on.
Waiting(r) == run[r].status \in {"queued", "running"}

\* A single worker that never stalls, dies or loses its database brings
\* every queued run to an end or to an approval: retries run out, and a
\* resolved approval's job is picked up.
RunSettles ==
  \A r \in Runs :
    Waiting(r) ~> (~Waiting(r) \/ stalls + crashes + faults > 0)

\* Every ended run gets its terminal event unless a process fails first.
VerdictAnnounced ==
  \A r \in Runs : Terminal(r) ~> (HasTerminal(r) \/ crashes + faults > 0)

\* A job whose worker died does not stay with it while the run is open and
\* another worker lives: its lease runs out and it is claimed again.
Orphaned(j) == /\ job[j].status = "running" /\ At(job[j].owner, "dead")
               /\ ~Terminal(job[j].run)
               /\ \E w \in Workers : ~At(w, "dead")
OrphanReclaimed == \A j \in JobId : Orphaned(j) ~> ~Orphaned(j)
-----------------------------------------------------------------------------
(* What the repository says and the code does not do *)

\* app/runtime/run_manager.py:215, "Never re-invoke a paused thread without
\* its resolved approval": the interrupt of a thread is only ever answered.
InterruptAnswered ==
  [][\A r \in Runs :
       asked[r] # None /\ asked'[r] # asked[r]
       => \E w \in Workers : At(w, "invoking") /\ Run(w) = r /\ worker[w].resume # None]_vars

\* docs/ARCHITECTURE.md 14.1, "reject or expiry returns a structured
\* capability result to Supervisor": a paused run has an approval to wait for
\* or a job that will continue it.
PausedRunCanMove ==
  \A r \in Runs :
    run[r].status = "paused" =>
      \/ \E a \in Actions : approval[r][a] = "pending"
      \/ \E j \in JobId : job[j].run = r /\ job[j].status \in {"queued", "retry_wait", "running"}

\* app/models_gateway.py:71, "Combined with the worker job budget
\* (max_attempts) this keeps worst-case model calls finite": no job is
\* delivered more often than its budget allows.
AttemptsWithinBudget == \A j \in JobId : job[j].attempts <= MaxAttempts

\* docs/TEST_ORACLES.md:190, "approved action id is consumed at most once": no
\* thread is resumed with the approval of an action it has already taken as
\* approved.
ConsumedOnce ==
  [][\A w \in Workers :
       LET r == Run(w)
           a == worker[w].resume
       IN At(w, "invoking") /\ worker'[w].pc = "graph" /\ a # None /\ a = asked[r]
            /\ approval[r][a] = "approved"
          => a \notin granted[r]]_vars

\* docs/ARCHITECTURE.md 14.1, "Approval authorizes this immutable action,
\* not a later model-generated action".
GrantedWereApproved ==
  \A r \in Runs : \A a \in granted[r] : approval[r][a] = "approved"
-----------------------------------------------------------------------------
(***************************************************************************)
(* The inductive invariant behind the safety properties.  Linked says what *)
(* the identifiers a process holds refer to, Announced how the timeline    *)
(* and the runs table agree at every point of an attempt, Fenced how       *)
(* leases and attempt counts agree, Exclusive what no stall implies.       *)
(***************************************************************************)
Busy(w) == worker[w].pc \notin {"idle", "dead"}

Linked ==
  /\ \A j \in JobId : IF job[j].status = "absent"
                      THEN job[j].run = None
                      ELSE job[j].run \in Runs /\ Exists(job[j].run)
  /\ \A w \in Workers :
       /\ IF Busy(w) THEN Job(w) # 0 /\ job[Job(w)].status # "absent" ELSE Job(w) = 0
       /\ worker[w].pc \in {"draining", "storing"}
            => worker[w].outcome \in {"completed", "paused", "cancelled",
                                      "retryable", "fatal"}
       /\ \A e \in outbox[w] : /\ job[e.job].status # "absent"
                               /\ e.type \in {"run.started", "run.completed"}

Announced ==
  /\ \A r \in Runs :
       /\ \A e, f \in TerminalEvent : HasEvent(r, e) /\ HasEvent(r, f) => e = f
       /\ run[r].status = "completed" => HasEvent(r, "run.completed")
       /\ HasEvent(r, "run.failed") => run[r].status \in {"failed", "cancelled"}
       /\ HasEvent(r, "run.cancelled") => run[r].status = "cancelled"
       /\ HasTerminal(r) => Exists(r)
       /\ r \in announcing => run[r].status = "cancelled"
  /\ \A w \in Workers :
       /\ At(w, "reporting") => Terminal(Run(w))
       /\ worker[w].outcome = "completed" =>
            /\ At(w, "draining") => HasTerminal(Run(w)) \/ Emits(w, "run.completed") \in outbox[w]
            /\ worker[w].pc \in {"storing", "settling", "promoting"} => HasTerminal(Run(w))

Fenced ==
  /\ \A j \in JobId : job[j].status = "running" <=> job[j].owner # None
  /\ \A w \in Workers : Busy(w) =>
       /\ worker[w].attempt <= job[Job(w)].attempts
       /\ job[Job(w)].owner = w => worker[w].attempt = job[Job(w)].attempts
  /\ AttemptsDistinct

Exclusive ==
  stalls = 0 =>
    /\ \A j \in JobId : job[j].status = "running" /\ job[j].expired
                        => At(job[j].owner, "dead")
    /\ \A w \in Workers : worker[w].pc \in Handling \cup {"claimed"}
                          => job[Job(w)].owner = w

IInv == TypeOK /\ Linked /\ Announced /\ Fenced /\ Exclusive
=============================================================================

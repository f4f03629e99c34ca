------------------------------ MODULE JobWorker ------------------------------
(***************************************************************************)
(* A worker process: WorkerQueue.run_once with RunManager.execute_job as   *)
(* its handler.  One action is one transaction, or one await, of the       *)
(* process; between two of them any other process may take a step.  The    *)
(* graph itself is an external step that ends in any of the ways           *)
(* execute_run_sync distinguishes.                                         *)
(***************************************************************************)
EXTENDS RuntimeStore

VARIABLES
  worker,       (* what a process knows of the job it works on             *)
  outbox        (* emitted events whose persist task has not run yet       *)

local == <<worker, outbox>>

Outcome == {"none", "completed", "paused", "cancelled", "failed",
            "retryable", "fatal"}

\* Where the handler task runs, under the heartbeat loop.
Handling == {"reading", "resuming", "starting", "invoking", "graph",
             "asking", "draining", "storing"}
\* run_once's writes after the handler: success, fatal failure, retry.
Settling == {"settling", "promoting", "rejecting", "rejected",
             "failing", "retrying", "reporting"}

Pc        == {"idle", "claimed", "dead"} \cup Handling \cup Settling
WorkerRow == [pc : Pc,
              job : JobId \cup {0}, attempt : Nat,
              resume : Actions \cup {None}, asks : Actions \cup {None},
              outcome : Outcome]
Emission  == [type : Event, job : JobId, attempt : Nat]

Idle == [pc |-> "idle", job |-> 0, attempt |-> 0, resume |-> None,
         asks |-> None, outcome |-> "none"]

Claimed(j, attempt) == [pc |-> "claimed", job |-> j, attempt |-> attempt,
                        resume |-> None, asks |-> None, outcome |-> "none"]

WorkerTypeOK ==
  /\ worker \in [Workers -> WorkerRow]
  /\ outbox \in [Workers -> SUBSET Emission]

WorkerInit ==
  /\ worker = [w \in Workers |-> Idle]
  /\ outbox = [w \in Workers |-> {}]
-----------------------------------------------------------------------------
At(w, pc)  == worker[w].pc = pc
Job(w)     == worker[w].job
Run(w)     == job[worker[w].job].run

Goto(w, pc) == worker' = [worker EXCEPT ![w].pc = pc]
Finish(w, pc, outcome) ==
  worker' = [worker EXCEPT ![w].pc = pc, ![w].asks = None, ![w].outcome = outcome]
Release(w)  == worker' = [worker EXCEPT ![w] = Idle]

Emits(w, e) == [type |-> e, job |-> Job(w), attempt |-> worker[w].attempt]
Emit(w, e)  == outbox' = [outbox EXCEPT ![w] = @ \cup {Emits(w, e)}]
-----------------------------------------------------------------------------
(* run_once up to the handler *)

\* claim_next.  FOR UPDATE SKIP LOCKED passes over the rows other
\* transactions hold, so any due job may be the oldest one left.
Claim(w) ==
  /\ At(w, "idle")
  /\ \E j \in JobId :
       /\ Claimable(j)
       /\ job' = ClaimedBy(j, w)
       /\ worker' = [worker EXCEPT ![w] = Claimed(j, job[j].attempts + 1)]
  /\ UNCHANGED <<run, approval, latest, log, asked, granted, outbox>>

SetRunning(w) ==
  /\ At(w, "claimed")
  /\ run' = SetRunStatus(Run(w), "running", "none")
  /\ Goto(w, "reading")
  /\ UNCHANGED <<job, approval, latest, log, asked, granted, outbox>>
-----------------------------------------------------------------------------
(* execute_job and execute_run_sync *)

\* execute_job returns the status of a run it finds terminal.
ReadRun(w) ==
  /\ At(w, "reading")
  /\ IF Terminal(Run(w))
     THEN Finish(w, "settling", run[Run(w)].status)
     ELSE Goto(w, "resuming")
  /\ UNCHANGED <<store, outbox>>

\* A paused run is resumed with its most recently resolved approval, and
\* left alone when it has none.
ReadForResume(w) ==
  /\ At(w, "resuming")
  /\ IF run[Run(w)].status # "paused"
     THEN Goto(w, "starting")
     ELSE IF latest[Run(w)] = None
     THEN Finish(w, "settling", "paused")
     ELSE worker' = [worker EXCEPT ![w].pc = "starting",
                                   ![w].resume = latest[Run(w)]]
  /\ UNCHANGED <<store, outbox>>

\* Mutant: each attempt emits it.
StartedEachTime(w) ==
  /\ At(w, "starting")
  /\ Emit(w, "run.started")
  /\ Goto(w, "invoking")
  /\ UNCHANGED store

CheckStarted(w) ==
  /\ At(w, "starting")
  /\ IF HasEvent(Run(w), "run.started")
     THEN UNCHANGED outbox
     ELSE Emit(w, "run.started")
  /\ Goto(w, "invoking")
  /\ UNCHANGED store

\* ainvoke with the initial state: the thread starts over from START and
\* what it was interrupted for is dropped.
InvokeGraph(w) ==
  /\ At(w, "invoking")
  /\ worker[w].resume = None
  /\ asked' = [asked EXCEPT ![Run(w)] = None]
  /\ Goto(w, "graph")
  /\ UNCHANGED <<run, job, approval, latest, log, granted, outbox>>

\* Mutant: any decision resumes the thread as granted.
ResumeGranted(w) ==
  LET r == Run(w)
  IN /\ At(w, "invoking")
     /\ worker[w].resume # None
     /\ granted' = [granted EXCEPT ![r] = @ \cup ({asked[r]} \ {None})]
     /\ asked' = [asked EXCEPT ![r] = None]
     /\ Goto(w, "graph")
     /\ UNCHANGED <<run, job, approval, latest, log, outbox>>

\* aresume: the interrupted node runs again and _require_approval returns
\* the decision it is handed, whichever action that decision was made for.
ResumeGraph(w) ==
  LET r == Run(w)
      a == worker[w].resume
  IN /\ At(w, "invoking")
     /\ a # None
     /\ granted' = [granted EXCEPT ![r] = IF approval[r][a] = "approved"
                                          THEN @ \cup ({asked[r]} \ {None})
                                          ELSE @]
     /\ asked' = [asked EXCEPT ![r] = None]
     /\ Goto(w, "graph")
     /\ UNCHANGED <<run, job, approval, latest, log, outbox>>

\* The graph reaches END; run.completed is emitted at once.
GraphCompletes(w) ==
  /\ At(w, "graph")
  /\ Emit(w, "run.completed")
  /\ Finish(w, "draining", "completed")
  /\ UNCHANGED store

\* Mutant: run.completed is emitted after the try statement, whatever happened.
GraphFailsAnnounced(w) ==
  /\ At(w, "graph")
  /\ Emit(w, "run.completed")
  /\ \E outcome \in {"retryable", "fatal"} : Finish(w, "draining", outcome)
  /\ UNCHANGED store

\* The graph raises: _classify_failure and execution_is_retryable sort the
\* exception into transient and deterministic failures.
GraphFails(w) ==
  /\ At(w, "graph")
  /\ \E outcome \in {"retryable", "fatal"} : Finish(w, "draining", outcome)
  /\ UNCHANGED <<store, outbox>>

\* A node's cancel_check finds the run cancelled.
GraphCancelled(w) ==
  /\ At(w, "graph")
  /\ run[Run(w)].status = "cancelled"
  /\ Finish(w, "draining", "cancelled")
  /\ UNCHANGED <<store, outbox>>

\* _require_approval: create_pending commits the row of an action, if the
\* action has none yet.
RequestApproval(w) ==
  /\ At(w, "graph")
  /\ \E a \in Actions :
       /\ approval' = CreatePending(Run(w), a)
       /\ worker' = [worker EXCEPT ![w].pc = "asking", ![w].asks = a]
  /\ UNCHANGED <<run, job, latest, log, asked, granted, outbox>>

\* interrupt() and the checkpoint that remembers it; by now a client may have
\* resolved the row, and an action asked for before may have been resolved
\* long ago.
Interrupt(w) ==
  /\ At(w, "asking")
  /\ asked' = [asked EXCEPT ![Run(w)] = worker[w].asks]
  /\ Finish(w, "draining", "paused")
  /\ UNCHANGED <<run, job, approval, latest, log, granted, outbox>>

\* Mutant: persist tasks run without the emitter's lock.
PersistAnyOrder(w) ==
  /\ \E e \in outbox[w] :
       /\ log' = AppendEvent(job[e.job].run, e.type)
       /\ outbox' = [outbox EXCEPT ![w] = @ \ {e}]
  /\ UNCHANGED <<run, job, approval, latest, asked, granted, worker>>

\* A persist task of the emitter: FIFO among the events of one attempt, and
\* not tied to the handler, which may be gone.
Persist(w) ==
  /\ \E e \in outbox[w] :
       /\ e.type = "run.completed" => [e EXCEPT !.type = "run.started"] \notin outbox[w]
       /\ log' = AppendEvent(job[e.job].run, e.type)
       /\ outbox' = [outbox EXCEPT ![w] = @ \ {e}]
  /\ UNCHANGED <<run, job, approval, latest, asked, granted, worker>>

\* drain waits for the persist tasks of this attempt.
Own(w) == {e \in outbox[w] : e.job = Job(w) /\ e.attempt = worker[w].attempt}

Drained(w) ==
  /\ At(w, "draining")
  /\ Own(w) = {}
  /\ Goto(w, "storing")
  /\ UNCHANGED <<store, outbox>>

\* Mutant: the outcome is stored as it is.
RawStatus(outcome) == outcome

\* persisted_attempt_status and the error column of each outcome.
PersistedStatus(outcome) ==
  CASE outcome = "retryable" -> "queued"
    [] outcome = "fatal"     -> "failed"
    [] OTHER                 -> outcome
PersistedError(outcome) ==
  IF outcome \in {"completed", "paused"} THEN "none" ELSE "attempt"

\* _update_run, then execute_job returns the status or raises.
StoreOutcome(w) ==
  LET outcome == worker[w].outcome
  IN /\ At(w, "storing")
     /\ run' = UpdateRun(Run(w), PersistedStatus(outcome), PersistedError(outcome))
     /\ Goto(w, CASE outcome = "retryable" -> "failing"
                  [] outcome = "fatal"     -> "rejecting"
                  [] OTHER                 -> "settling")
     /\ UNCHANGED <<job, approval, latest, log, asked, granted, outbox>>
-----------------------------------------------------------------------------
(* run_once after the handler *)

CompleteJob(w) ==
  /\ At(w, "settling")
  /\ job' = Settled(Job(w), w, "completed")
  /\ IF worker[w].outcome = "completed" THEN Goto(w, "promoting") ELSE Release(w)
  /\ UNCHANGED <<run, approval, latest, log, asked, granted, outbox>>

PromoteRun(w) ==
  /\ At(w, "promoting")
  /\ run' = SetRunStatus(Run(w), "completed", "none")
  /\ Release(w)
  /\ UNCHANGED <<job, approval, latest, log, asked, granted, outbox>>

\* JobNotRetryable: _fail_without_retry, the run's status, run.failed.
RejectJob(w) ==
  /\ At(w, "rejecting")
  /\ job' = Settled(Job(w), w, "failed")
  /\ Goto(w, "rejected")
  /\ UNCHANGED <<run, approval, latest, log, asked, granted, outbox>>

\* Mutant: the failure is not reported.
FailRunSilently(w) ==
  /\ At(w, "rejected")
  /\ run' = SetRunStatus(Run(w), "failed", "worker")
  /\ Release(w)
  /\ UNCHANGED <<job, approval, latest, log, asked, granted, outbox>>

FailRun(w) ==
  /\ At(w, "rejected")
  /\ run' = SetRunStatus(Run(w), "failed", "worker")
  /\ Goto(w, "reporting")
  /\ UNCHANGED <<job, approval, latest, log, asked, granted, outbox>>

\* Any other exception: fail() decides on the row's attempt count, run_once
\* on the count it claimed the job with.
FailJob(w) ==
  /\ At(w, "failing")
  /\ job' = Settled(Job(w), w, IF job[Job(w)].attempts < MaxAttempts
                               THEN "retry_wait" ELSE "failed")
  /\ Goto(w, "retrying")
  /\ UNCHANGED <<run, approval, latest, log, asked, granted, outbox>>

Exhausted(w) == worker[w].attempt >= MaxAttempts

\* Mutant: the run goes back to the queue although its job has failed.
RequeueAlways(w) ==
  /\ At(w, "retrying")
  /\ run' = SetRunStatus(Run(w), "queued", "worker")
  /\ Release(w)
  /\ UNCHANGED <<job, approval, latest, log, asked, granted, outbox>>

RequeueRun(w) ==
  /\ At(w, "retrying")
  /\ run' = SetRunStatus(Run(w), IF Exhausted(w) THEN "failed" ELSE "queued", "worker")
  /\ IF Exhausted(w) THEN Goto(w, "reporting") ELSE Release(w)
  /\ UNCHANGED <<job, approval, latest, log, asked, granted, outbox>>

EmitRunFailed(w) ==
  /\ At(w, "reporting")
  /\ log' = AppendEvent(Run(w), "run.failed")
  /\ Release(w)
  /\ UNCHANGED <<run, job, approval, latest, asked, granted, outbox>>
-----------------------------------------------------------------------------
(* The heartbeat loop beside the handler *)

\* It renews a lease that already ran out as long as nobody took the job.
Heartbeat(w) ==
  /\ worker[w].pc \in Handling
  /\ job[Job(w)].status = "running" /\ Leased(Job(w), w)
  /\ job' = [job EXCEPT ![Job(w)].expired = FALSE]
  /\ UNCHANGED <<run, approval, latest, log, asked, granted, local>>

\* A refused renewal cancels the handler and run_once writes nothing more.
\* Persist tasks outlive it, except those drain() was waiting for.
LeaseLost(w) ==
  /\ worker[w].pc \in Handling
  /\ ~(job[Job(w)].status = "running" /\ Leased(Job(w), w))
  /\ outbox' = IF At(w, "draining") THEN [outbox EXCEPT ![w] = @ \ Own(w)] ELSE outbox
  /\ Release(w)
  /\ UNCHANGED store

-----------------------------------------------------------------------------
(* Failures *)

\* A database call of the process raises.  Inside execute_run_sync's try the
\* attempt fails as retryable; elsewhere under run_once's try the exception
\* takes the retry path; in claim_next, its claim committed, and in run_once's
\* except clauses it ends run_once, and run_forever polls again.  drain raises
\* what a persist task raised, of a life-cycle event or of any other.
DbFault(w) ==
  /\ \/ /\ worker[w].pc \in {"claimed", "reading", "resuming", "storing",
                              "settling", "promoting"}
        /\ Goto(w, "failing")
        /\ UNCHANGED outbox
     \/ /\ worker[w].pc \in {"starting", "invoking", "asking"}
        /\ Finish(w, "draining", "retryable")
        /\ UNCHANGED outbox
     \/ /\ At(w, "draining")
        /\ \/ UNCHANGED outbox
           \/ \E e \in Own(w) : outbox' = [outbox EXCEPT ![w] = @ \ {e}]
        /\ Goto(w, "failing")
     \/ /\ worker[w].pc \in {"claimed"} \cup (Settling \ {"settling", "promoting"})
        /\ Release(w)
        /\ UNCHANGED outbox
  /\ UNCHANGED store

\* The process dies, or is shut down, with its tasks.
Crash(w) ==
  /\ ~At(w, "dead")
  /\ worker' = [worker EXCEPT ![w] = [Idle EXCEPT !.pc = "dead"]]
  /\ outbox' = [outbox EXCEPT ![w] = {}]
  /\ UNCHANGED store
-----------------------------------------------------------------------------
\* What a process does on its own once it holds a job, heartbeat aside.
HandlerStep(w) ==
  \/ SetRunning(w) \/ ReadRun(w) \/ ReadForResume(w) \/ CheckStarted(w)
  \/ InvokeGraph(w) \/ ResumeGraph(w)
  \/ GraphCompletes(w) \/ GraphFails(w) \/ GraphCancelled(w)
  \/ RequestApproval(w) \/ Interrupt(w)
  \/ Drained(w) \/ StoreOutcome(w)
SettleStep(w) ==
  \/ CompleteJob(w) \/ PromoteRun(w) \/ RejectJob(w) \/ FailRun(w)
  \/ FailJob(w) \/ RequeueRun(w) \/ EmitRunFailed(w)
WorkerStep(w) == HandlerStep(w) \/ SettleStep(w)
=============================================================================

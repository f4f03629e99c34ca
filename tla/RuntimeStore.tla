---------------------------- MODULE RuntimeStore ----------------------------
(***************************************************************************)
(* The durable state of the agent runtime: what PostgreSQL keeps in the    *)
(* tables runs, jobs, approvals and run_events, and what LangGraph's       *)
(* checkpointer keeps of a run's thread.  Every operator below is one SQL  *)
(* statement or one transaction of a repository; the modules JobWorker and *)
(* RunApi say who executes them and when.                                  *)
(***************************************************************************)
EXTENDS Naturals, Sequences, FiniteSets

CONSTANTS
  Runs,         (* run ids                                                 *)
  Workers,      (* worker processes; a restarted one has a fresh id        *)
  Actions,      (* canonical actions of a run that need an approval        *)
  None,         (* SQL NULL, Python None                                   *)
  MaxJobs,      (* bound: rows the jobs table can hold                     *)
  MaxAttempts   (* jobs.max_attempts: 3 in the code                        *)

ASSUME StoreAssumption ==
  /\ MaxJobs \in Nat
  /\ MaxAttempts \in Nat \ {0}
  /\ None \notin Runs \cup Workers \cup Actions

VARIABLES
  run,          (* runs: status and which writer set the error column      *)
  job,          (* jobs, in created_at order                               *)
  approval,     (* approvals.status by run and action (action_id)          *)
  latest,       (* the action of a run's most recently resolved approval   *)
  log,          (* run_events: the life-cycle events of a run, by seq      *)
  asked,        (* checkpoint: the action the thread is interrupted for    *)
  granted       (* checkpoint: the actions the graph took as approved      *)

store == <<run, job, approval, latest, log, asked, granted>>
-----------------------------------------------------------------------------
TerminalStatus == {"completed", "failed", "cancelled"}
RunStatus      == {"queued", "running", "paused"} \cup TerminalStatus
JobStatus      == {"queued", "running", "retry_wait", "completed", "failed"}
Resolution     == {"approved", "rejected"}
ApprovalStatus == {"pending", "expired"} \cup Resolution
TerminalEvent  == {"run.completed", "run.failed", "run.cancelled"}
Event          == {"run.started"} \cup TerminalEvent

JobId  == 1 .. MaxJobs
RunRow == [status : RunStatus \cup {"absent"},
           error  : {"none", "attempt", "worker"}]
JobRow == [run : Runs \cup {None}, status : JobStatus \cup {"absent"},
           owner : Workers \cup {None}, expired : BOOLEAN, attempts : Nat]

NoRun == [status |-> "absent", error |-> "none"]
NoJob == [run |-> None, status |-> "absent", owner |-> None,
          expired |-> FALSE, attempts |-> 0]

StoreTypeOK ==
  /\ run \in [Runs -> RunRow]
  /\ job \in [JobId -> JobRow]
  /\ approval \in [Runs -> [Actions -> ApprovalStatus \cup {"absent"}]]
  /\ latest \in [Runs -> Actions \cup {None}]
  /\ log \in [Runs -> Seq(Event)]
  /\ asked \in [Runs -> Actions \cup {None}]
  /\ granted \in [Runs -> SUBSET Actions]

StoreInit ==
  /\ run = [r \in Runs |-> NoRun]
  /\ job = [j \in JobId |-> NoJob]
  /\ approval = [r \in Runs |-> [a \in Actions |-> "absent"]]
  /\ latest = [r \in Runs |-> None]
  /\ log = [r \in Runs |-> << >>]
  /\ asked = [r \in Runs |-> None]
  /\ granted = [r \in Runs |-> {}]
-----------------------------------------------------------------------------
(* runs *)

Exists(r)   == run[r].status # "absent"
Terminal(r) == run[r].status \in TerminalStatus

\* Mutant: the guard on terminal runs is dropped.
AlwaysWritable(r, status) == TRUE

\* The WHERE clause both writers of an attempt's outcome share: a terminal
\* run takes only the status it already has.
RunWritable(r, status) == ~Terminal(r) \/ run[r].status = status

\* _set_run_status: always rewrites error, to NULL unless one is given.
SetRunStatus(r, status, error) ==
  IF RunWritable(r, status)
  THEN [run EXCEPT ![r] = [status |-> status, error |-> error]]
  ELSE run

\* Mutant: an execution's outcome leaves the error column as it is.
UpdateStatusOnly(r, status, error) ==
  IF RunWritable(r, status) THEN [run EXCEPT ![r].status = status] ELSE run

\* _update_run: status, output and error of an execution.
UpdateRun(r, status, error) ==
  IF RunWritable(r, status)
  THEN [run EXCEPT ![r] = [status |-> status, error |-> error]]
  ELSE run
-----------------------------------------------------------------------------
(* jobs *)

\* The row a new job takes: rows are used in created_at order.
NextJob(j) == /\ job[j].status = "absent"
              /\ \A i \in JobId : i < j => job[i].status # "absent"

QueuedJob(r) == [run |-> r, status |-> "queued", owner |-> None,
                 expired |-> FALSE, attempts |-> 0]

\* Mutants: running jobs are claimed before their lease ran out, or never.
ClaimableHeld(j) ==
  job[j].status \in {"queued", "retry_wait", "running"} /\ ~Terminal(job[j].run)
ClaimableWaiting(j) ==
  job[j].status \in {"queued", "retry_wait"} /\ ~Terminal(job[j].run)

\* The WHERE clause of claim_next.  A retry_wait job's delay has elapsed by
\* the time a step of some worker finds it due.
Claimable(j) ==
  /\ \/ job[j].status \in {"queued", "retry_wait"}
     \/ job[j].status = "running" /\ job[j].expired
  /\ ~Terminal(job[j].run)

\* Mutant: a takeover does not count as an attempt.
ClaimedUncounted(j, w) ==
  [job EXCEPT ![j] = [@ EXCEPT !.status = "running", !.owner = w, !.expired = FALSE,
                               !.attempts = IF job[j].status = "running" THEN @ ELSE @ + 1]]

ClaimedBy(j, w) ==
  [job EXCEPT ![j] = [run |-> @.run, status |-> "running", owner |-> w,
                      expired |-> FALSE, attempts |-> @.attempts + 1]]

\* Mutant: the lease_owner condition is dropped.
LeasedByAnyone(j, w) == TRUE

\* complete, fail and _fail_without_retry write a job only under its lease.
Leased(j, w) == job[j].owner = w

Settled(j, w, status) ==
  IF Leased(j, w)
  THEN [job EXCEPT ![j] = [@ EXCEPT !.status = status, !.owner = None, !.expired = FALSE]]
  ELSE job
-----------------------------------------------------------------------------
(* run_events *)

HasEvent(r, e)   == \E i \in DOMAIN log[r] : log[r][i] = e
HasTerminal(r)   == \E e \in TerminalEvent : HasEvent(r, e)

\* Mutant: without the unique index.
AppendAlways(r, e) == [log EXCEPT ![r] = Append(@, e)]

\* append_many with ON CONFLICT DO NOTHING: the partial unique index
\* uq_run_terminal_event drops a second terminal event.
AppendEvent(r, e) ==
  IF e \in TerminalEvent /\ HasTerminal(r)
  THEN log
  ELSE [log EXCEPT ![r] = Append(@, e)]
-----------------------------------------------------------------------------
(* approvals *)

Resolved(r, a) == approval[r][a] \in Resolution

\* create_pending returns the row an action already has.
CreatePending(r, a) ==
  IF approval[r][a] = "absent"
  THEN [approval EXCEPT ![r][a] = "pending"]
  ELSE approval
=============================================================================

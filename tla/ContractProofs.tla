--------------------------- MODULE ContractProofs ---------------------------
(***************************************************************************)
(* What a client sees of a run: Announced is inductive relative to Fenced, *)
(* and from it follow the refinement of RunContract and that a run's error *)
(* column agrees with its status.  A step rewrites the row of one run or   *)
(* appends to the timeline of one run, never both.                         *)
(***************************************************************************)
EXTENDS FencingProofs

\* Appending adds one event, unless it is a second terminal one.
LEMMA AppendEffect ==
  ASSUME StoreTypeOK, NEW r \in Runs, NEW e \in Event, log' = AppendEvent(r, e)
  PROVE  /\ \A s \in Runs : s # r => log'[s] = log[s]
         /\ e \in TerminalEvent /\ HasTerminal(r) => log' = log
         /\ ~(e \in TerminalEvent /\ HasTerminal(r)) =>
              \A f : HasEvent(r, f)' <=> HasEvent(r, f) \/ f = e
  <1>1. \A s \in Runs : s # r => log'[s] = log[s]
    BY DEF StoreTypeOK, AppendEvent
  <1>2. ASSUME ~(e \in TerminalEvent /\ HasTerminal(r)), NEW f
        PROVE  HasEvent(r, f)' <=> HasEvent(r, f) \/ f = e
    <2>1. log[r] \in Seq(Event)
      BY DEF StoreTypeOK
    <2>2. log'[r] = Append(log[r], e)
      BY <1>2 DEF StoreTypeOK, AppendEvent
    <2>3. /\ DOMAIN log'[r] = 1 .. Len(log[r]) + 1
          /\ DOMAIN log[r] = 1 .. Len(log[r])
          /\ Len(log[r]) \in Nat
          /\ \A i \in 1 .. Len(log[r]) : log'[r][i] = log[r][i]
          /\ log'[r][Len(log[r]) + 1] = e
      BY <2>1, <2>2
    <2> QED
      BY <2>3 DEF HasEvent
  <1> QED
    BY <1>1, <1>2 DEF AppendEvent

-----------------------------------------------------------------------------
(* Who writes what. *)

\* The ways a step can leave the row of a run it writes.
Written(r) ==
  \/ ~Exists(r) /\ run'[r].status = "queued"
  \/ /\ Exists(r) /\ ~Terminal(r)
     /\ \/ run'[r].status \in {"queued", "running", "paused", "cancelled"}
        \/ run'[r].status = "failed" /\ run'[r].error # "none"
        \/ /\ run'[r].status = "completed" /\ run'[r].error = "none"
           /\ \E w \in Workers : \/ At(w, "storing") /\ worker[w].outcome = "completed" /\ Run(w) = r
                                 \/ At(w, "promoting") /\ Run(w) = r
  \/ /\ Terminal(r) /\ run'[r].status = run[r].status
     /\ run'[r].status = "completed" => run'[r].error = "none"
     /\ run'[r].status = "failed" => run'[r].error # "none"

\* A status write by a process, whatever it writes.
LEMMA StatusWritten ==
  ASSUME StoreTypeOK, NEW r \in Runs, Exists(r), NEW status \in RunStatus,
         NEW error \in {"none", "attempt", "worker"},
         run' = SetRunStatus(r, status, error) \/ run' = UpdateRun(r, status, error),
         status = "failed" => error # "none",
         status = "completed" =>
           /\ error = "none"
           /\ \E w \in Workers : \/ At(w, "storing") /\ worker[w].outcome = "completed" /\ Run(w) = r
                                 \/ At(w, "promoting") /\ Run(w) = r
  PROVE  UNCHANGED run \/ ((\A s \in Runs : s # r => run'[s] = run[s]) /\ Written(r))
  <1>1. /\ \A s \in Runs : s # r => run'[s] = run[s]
        /\ RunWritable(r, status) => run'[r].status = status /\ run'[r].error = error
        /\ ~RunWritable(r, status) => run' = run
    BY RunWriteEffect
  <1>2. CASE RunWritable(r, status) /\ ~Terminal(r)
    BY <1>1, <1>2 DEF Written, RunStatus, TerminalStatus
  <1>3. CASE RunWritable(r, status) /\ Terminal(r)
    BY <1>1, <1>3 DEF Written, RunWritable
  <1> QED
    BY <1>1, <1>2, <1>3

\* A step writes the row of at most one run.
LEMMA RunWrites ==
  ASSUME Typed, [Next]_vars
  PROVE  \/ UNCHANGED run
         \/ /\ UNCHANGED log
            /\ \E r \in Runs : (\A s \in Runs : s # r => run'[s] = run[s]) /\ Written(r)
  <1>0. StoreTypeOK
    BY DEF Typed, TypeOK
  <1>1. ASSUME NEW w \in Workers, WorkerStep(w)
        PROVE  \/ UNCHANGED run
               \/ /\ UNCHANGED log
                  /\ \E r \in Runs : (\A s \in Runs : s # r => run'[s] = run[s]) /\ Written(r)
    <2>1. Busy(w)
      BY <1>1 DEF WorkerStep, HandlerStep, SetRunning, ReadRun, ReadForResume, CheckStarted,
                  InvokeGraph, ResumeGraph, GraphCompletes, GraphFails, GraphCancelled,
                  RequestApproval, Interrupt, Drained, StoreOutcome, SettleStep, CompleteJob,
                  PromoteRun, RejectJob, FailRun, FailJob, RequeueRun, EmitRunFailed, At, Busy
    <2>2. Run(w) \in Runs /\ Exists(Run(w))
      BY <2>1, Refers
    <2>3. CASE SetRunning(w)
      BY <1>0, <2>2, <2>3, StatusWritten DEF SetRunning, RunStatus
    <2>4. CASE StoreOutcome(w)
      <3>1. worker[w].outcome \in {"completed", "paused", "cancelled", "retryable", "fatal"}
        BY <2>4 DEF Typed, Linked, StoreOutcome, At
      <3>2. /\ PersistedStatus(worker[w].outcome) \in RunStatus
            /\ PersistedError(worker[w].outcome) \in {"none", "attempt", "worker"}
            /\ PersistedStatus(worker[w].outcome) = "failed"
                 => PersistedError(worker[w].outcome) # "none"
            /\ PersistedStatus(worker[w].outcome) = "completed"
                 => /\ PersistedError(worker[w].outcome) = "none"
                    /\ worker[w].outcome = "completed"
        BY <3>1 DEF PersistedStatus, PersistedError, RunStatus, TerminalStatus
      <3> QED
        BY <1>0, <2>2, <2>4, <3>2, StatusWritten DEF StoreOutcome
    <2>5. CASE PromoteRun(w)
      BY <1>0, <2>2, <2>5, StatusWritten DEF PromoteRun, RunStatus, TerminalStatus
    <2>6. CASE FailRun(w) \/ RequeueRun(w)
      <3>1. \E status \in {"failed", "queued"} : run' = SetRunStatus(Run(w), status, "worker")
        BY <2>6 DEF FailRun, RequeueRun
      <3> QED
        BY <1>0, <2>2, <2>6, <3>1, StatusWritten
        DEF FailRun, RequeueRun, RunStatus, TerminalStatus
    <2> QED
      BY <1>1, <2>3, <2>4, <2>5, <2>6
      DEF WorkerStep, HandlerStep, ReadRun, ReadForResume, CheckStarted, InvokeGraph, ResumeGraph,
          GraphCompletes, GraphFails, GraphCancelled, RequestApproval, Interrupt, Drained,
          SettleStep, CompleteJob, RejectJob, FailJob, EmitRunFailed, store
  <1>2. CASE WorkerNext
    <2>1. PICK w \in Workers :
            Claim(w) \/ WorkerStep(w) \/ Persist(w) \/ Heartbeat(w) \/ LeaseLost(w)
              \/ DbFault(w) \/ Crash(w)
      BY <1>2 DEF WorkerNext
    <2>2. Claim(w) \/ Persist(w) \/ Heartbeat(w) \/ LeaseLost(w) \/ DbFault(w) \/ Crash(w)
            => UNCHANGED run
      BY DEF Claim, Persist, Heartbeat, LeaseLost, DbFault, Crash, store
    <2> QED
      BY <1>1, <2>1, <2>2
  <1>3. CASE ApiNext
    <2>1. PICK r \in Runs :
            \/ CreateRun(r) \/ CancelRun(r) \/ AnnounceCancel(r) \/ LoseAnnouncement(r)
            \/ \E a \in Actions : \/ \E d \in Resolution : ResolveApproval(r, a, d)
                                  \/ ExpireApproval(r, a)
      BY <1>3 DEF ApiNext
    <2>2. \/ UNCHANGED run
          \/ /\ UNCHANGED log
             /\ \/ ~Exists(r) /\ run' = [run EXCEPT ![r].status = "queued"]
                \/ Exists(r) /\ ~Terminal(r) /\ run' = [run EXCEPT ![r].status = "cancelled"]
                \/ Exists(r) /\ ~Terminal(r) /\ run' = [run EXCEPT ![r].status = "queued"]
      BY <2>1 DEF CreateRun, CancelRun, AnnounceCancel, LoseAnnouncement, ResolveApproval,
                  ExpireApproval, store, Exists, Terminal, TerminalStatus
    <2> QED
      BY <1>0, <2>2 DEF StoreTypeOK, RunRow, Written
  <1>4. CASE (\E j \in JobId : LeaseExpires(j)) \/ UNCHANGED vars
    BY <1>4 DEF LeaseExpires, vars, store
  <1> QED
    BY <1>2, <1>3, <1>4 DEF Next

\* A process makes one of its emissions durable.
Persists(w, m) ==
  /\ m \in outbox[w]
  /\ m.type = "run.completed" => [m EXCEPT !.type = "run.started"] \notin outbox[w]
  /\ outbox' = [outbox EXCEPT ![w] = @ \ {m}]
  /\ UNCHANGED <<worker, job>>

\* A step appends to the timeline of at most one run, and who appends a
\* verdict has seen, or caused, the end it announces.
LEMMA LogWrites ==
  ASSUME Typed, [Next]_vars
  PROVE  \/ UNCHANGED log
         \/ /\ UNCHANGED run
            /\ \E r \in Runs : \E e \in Event :
                 /\ log' = AppendEvent(r, e)
                 /\ e # "run.cancelled" => Exists(r)
                 /\ e \in {"run.started", "run.completed"} =>
                      \E w \in Workers : \E m \in outbox[w] :
                        /\ Persists(w, m)
                        /\ job[m.job].run = r /\ m.type = e
                 /\ e = "run.failed" => \E w \in Workers : At(w, "reporting") /\ Run(w) = r
                 /\ e = "run.cancelled" => r \in announcing
  <1>1. ASSUME NEW w \in Workers, Persist(w)
        PROVE  /\ UNCHANGED run
               /\ \E m \in outbox[w] :
                    /\ Persists(w, m)
                    /\ m.type \in {"run.started", "run.completed"}
                    /\ job[m.job].run \in Runs /\ Exists(job[m.job].run)
                    /\ log' = AppendEvent(job[m.job].run, m.type)
    BY <1>1, Refers DEF Persist, Persists
  <1>2. ASSUME NEW w \in Workers, EmitRunFailed(w)
        PROVE  /\ UNCHANGED run /\ Run(w) \in Runs /\ Exists(Run(w)) /\ At(w, "reporting")
               /\ log' = AppendEvent(Run(w), "run.failed")
    BY <1>2, Refers DEF EmitRunFailed, At, Busy
  <1>3. CASE WorkerNext
    <2>1. PICK w \in Workers :
            Claim(w) \/ WorkerStep(w) \/ Persist(w) \/ Heartbeat(w) \/ LeaseLost(w)
              \/ DbFault(w) \/ Crash(w)
      BY <1>3 DEF WorkerNext
    <2>2. CASE UNCHANGED log
      BY <2>2
    <2>3. CASE Persist(w)
      BY <1>1, <2>3 DEF Event, TerminalEvent
    <2>4. CASE EmitRunFailed(w)
      BY <1>2, <2>4 DEF EmitRunFailed, Event, TerminalEvent
    <2>5. UNCHANGED log \/ Persist(w) \/ EmitRunFailed(w)
      BY <2>1
      DEF Claim, Heartbeat, LeaseLost, DbFault, Crash, WorkerStep, HandlerStep, SetRunning,
          ReadRun, ReadForResume, CheckStarted, InvokeGraph, ResumeGraph, GraphCompletes,
          GraphFails, GraphCancelled, RequestApproval, Interrupt, Drained, StoreOutcome,
          SettleStep, CompleteJob, PromoteRun, RejectJob, FailRun, FailJob, RequeueRun, store
    <2> QED
      BY <2>2, <2>3, <2>4, <2>5
  <1>4. CASE ApiNext
    <2>1. PICK r \in Runs :
            \/ CreateRun(r) \/ CancelRun(r) \/ AnnounceCancel(r) \/ LoseAnnouncement(r)
            \/ \E a \in Actions : \/ \E d \in Resolution : ResolveApproval(r, a, d)
                                  \/ ExpireApproval(r, a)
      BY <1>4 DEF ApiNext
    <2>2. CASE AnnounceCancel(r)
      BY <2>2 DEF AnnounceCancel, Event, TerminalEvent
    <2> QED
      BY <2>1, <2>2 DEF CreateRun, CancelRun, LoseAnnouncement, ResolveApproval, ExpireApproval,
                        store
  <1>5. CASE (\E j \in JobId : LeaseExpires(j)) \/ UNCHANGED vars
    BY <1>5 DEF LeaseExpires, vars, store
  <1> QED
    BY <1>3, <1>4, <1>5 DEF Next
-----------------------------------------------------------------------------
(* A run's error column. *)

\* One step keeps status and error in agreement.
LEMMA ErrorStep == Typed /\ ErrorMatchesStatus /\ [Next]_vars => ErrorMatchesStatus'
  <1> SUFFICES ASSUME Typed, ErrorMatchesStatus, [Next]_vars
               PROVE  ErrorMatchesStatus'
    OBVIOUS
  <1>1. CASE UNCHANGED run
    BY <1>1 DEF ErrorMatchesStatus
  <1>2. ASSUME NEW r \in Runs, \A s \in Runs : s # r => run'[s] = run[s], Written(r)
        PROVE  ErrorMatchesStatus'
    <2>1. /\ run'[r].status = "completed" => run'[r].error = "none"
          /\ run'[r].status = "failed" => run'[r].error # "none"
      BY <1>2 DEF Written
    <2> QED
      BY <1>2, <2>1 DEF ErrorMatchesStatus
  <1> QED
    BY <1>1, <1>2, RunWrites

\* Whatever attempts, retries and workers wrote before, a completed run shows
\* no error and a failed one shows some (_set_run_status, _update_run).
THEOREM ErrorAgrees == Spec => []ErrorMatchesStatus
  <1>1. Init => Typed /\ ErrorMatchesStatus
    BY TypedInit DEF Init, StoreInit, NoRun, ErrorMatchesStatus
  <1>2. (Typed /\ ErrorMatchesStatus) /\ [Next]_vars => (Typed /\ ErrorMatchesStatus)'
    BY TypedStep, ErrorStep
  <1> QED
    BY <1>1, <1>2, PTL DEF Spec

-----------------------------------------------------------------------------
(* Announced: how timelines, rows and the processes between them agree. *)

\* What Announced says of one run.
AnnouncedRun(r) ==
  /\ \A e, f \in TerminalEvent : HasEvent(r, e) /\ HasEvent(r, f) => e = f
  /\ run[r].status = "completed" => HasEvent(r, "run.completed")
  /\ HasEvent(r, "run.failed") => run[r].status \in {"failed", "cancelled"}
  /\ HasEvent(r, "run.cancelled") => run[r].status = "cancelled"
  /\ HasTerminal(r) => Exists(r)
  /\ r \in announcing => run[r].status = "cancelled"

\* What Announced says of one process, and that only a completed execution
\* promotes its run.
AnnouncedWorker(w) ==
  /\ At(w, "reporting") => Terminal(Run(w))
  /\ worker[w].outcome = "completed" =>
       /\ At(w, "draining") => HasTerminal(Run(w)) \/ Emits(w, "run.completed") \in outbox[w]
       /\ worker[w].pc \in {"storing", "settling", "promoting"} => HasTerminal(Run(w))
  /\ At(w, "promoting") => worker[w].outcome = "completed"

\* The invariant of this part.
Told == /\ Guarded
        /\ \A r \in Runs : AnnouncedRun(r)
        /\ \A w \in Workers : AnnouncedWorker(w)

\* The timeline shows the same verdicts after the step.
Silent(r) == \A e \in TerminalEvent : HasEvent(r, e)' <=> HasEvent(r, e)

\* A step a client cannot see, and the steps it can see, of one run.
Same(r) == Silent(r) /\ run'[r].status = run[r].status
Sees(r) ==
  \/ /\ Silent(r)
     /\ \/ ~Exists(r) /\ run'[r].status = "queued"
        \/ /\ run[r].status \in Contract!Open
           /\ run'[r].status \in Contract!Open \cup {"failed", "cancelled"}
        \/ /\ run[r].status \in Contract!Open
           /\ HasEvent(r, "run.completed")
           /\ run'[r].status = "completed"
  \/ /\ run'[r].status = run[r].status
     /\ Exists(r) /\ ~HasTerminal(r)
     /\ \E e \in TerminalEvent :
          /\ \A f \in TerminalEvent : HasEvent(r, f)' <=> f = e
          /\ e = "run.failed" => run[r].status \in {"failed", "cancelled"}
          /\ e = "run.cancelled" => run[r].status = "cancelled"

\* Every step is invisible to the clients of all runs but one, and shows the
\* clients of that one no more than the contract allows.
LEMMA ClientStep ==
  ASSUME Told, [Next]_vars
  PROVE  \/ \A r \in Runs : Same(r)
         \/ \E r \in Runs : (\A s \in Runs : s # r => Same(s)) /\ Sees(r)
  <1>0. StoreTypeOK /\ Typed
    BY DEF Told, Guarded, Typed, TypeOK
  <1>1. \A r \in Runs : log'[r] = log[r] => Silent(r)
    BY DEF Silent, HasEvent
  <1>2. ASSUME NEW r \in Runs, UNCHANGED log, \A s \in Runs : s # r => run'[s] = run[s], Written(r)
        PROVE  (\A s \in Runs : s # r => Same(s)) /\ (Same(r) \/ Sees(r))
    <2>1. \A s \in Runs : Silent(s)
      BY <1>1, <1>2
    <2>2. CASE ~Exists(r) /\ run'[r].status = "queued"
      BY <1>2, <2>1, <2>2 DEF Same, Sees
    <2>3. CASE Terminal(r) /\ run'[r].status = run[r].status
      BY <1>2, <2>1, <2>3 DEF Same
    <2>4. CASE Exists(r) /\ ~Terminal(r)
      <3>1. run[r].status \in Contract!Open
        BY <1>0, <2>4 DEF StoreTypeOK, RunRow, RunStatus, Exists, Terminal, Contract!Open
      <3>2. CASE run'[r].status \in {"queued", "running", "paused", "cancelled", "failed"}
        BY <1>2, <2>1, <3>1, <3>2 DEF Same, Sees, Contract!Open
      <3>3. CASE /\ run'[r].status = "completed"
                 /\ \E w \in Workers :
                      \/ At(w, "storing") /\ worker[w].outcome = "completed" /\ Run(w) = r
                      \/ At(w, "promoting") /\ Run(w) = r
        <4>1. HasTerminal(r)
          BY <3>3 DEF Told, AnnouncedWorker, At
        <4>2. HasEvent(r, "run.completed")
          BY <2>4, <4>1 DEF HasTerminal, Told, AnnouncedRun, TerminalEvent, Terminal,
                            TerminalStatus
        <4> QED
          BY <1>2, <2>1, <3>1, <3>3, <4>2 DEF Same, Sees
      <3> QED
        BY <1>2, <2>4, <3>2, <3>3 DEF Written
    <2> QED
      BY <1>2, <2>2, <2>3, <2>4 DEF Written
  <1>3. ASSUME NEW r \in Runs, NEW e \in Event, UNCHANGED run, log' = AppendEvent(r, e),
               e # "run.cancelled" => Exists(r),
               e = "run.failed" => \E w \in Workers : At(w, "reporting") /\ Run(w) = r,
               e = "run.cancelled" => r \in announcing
        PROVE  (\A s \in Runs : s # r => Same(s)) /\ (Same(r) \/ Sees(r))
    <2>1. \A s \in Runs : s # r => Same(s)
      BY <1>0, <1>1, <1>3, AppendEffect DEF Same
    <2>2. CASE e \in TerminalEvent /\ HasTerminal(r)
      BY <1>0, <1>1, <1>3, <2>1, <2>2, AppendEffect DEF Same
    <2>3. CASE ~(e \in TerminalEvent /\ HasTerminal(r))
      <3>1. \A f : HasEvent(r, f)' <=> HasEvent(r, f) \/ f = e
        BY <1>0, <1>3, <2>3, AppendEffect
      <3>2. CASE e \notin TerminalEvent
        BY <1>3, <2>1, <3>1, <3>2 DEF Same, Silent
      <3>3. CASE e \in TerminalEvent
        <4>1. ~HasTerminal(r)
          BY <2>3, <3>3
        <4>2. \A f \in TerminalEvent : HasEvent(r, f)' <=> f = e
          BY <3>1, <4>1 DEF HasTerminal
        <4>3. e = "run.cancelled" => run[r].status = "cancelled"
          BY <1>3 DEF Told, AnnouncedRun
        <4>4. e = "run.failed" => run[r].status \in {"failed", "cancelled"}
          <5>1. e = "run.failed" => Terminal(r)
            BY <1>3 DEF Told, AnnouncedWorker
          <5>2. run[r].status # "completed"
            BY <4>1 DEF Told, AnnouncedRun, HasTerminal, TerminalEvent
          <5> QED
            BY <5>1, <5>2 DEF Terminal, TerminalStatus
        <4>5. Exists(r)
          BY <1>3, <4>3 DEF Exists
        <4> QED
          BY <1>3, <2>1, <3>3, <4>1, <4>2, <4>3, <4>4, <4>5 DEF Sees
      <3> QED
        BY <3>2, <3>3
    <2> QED
      BY <2>1, <2>2, <2>3
  <1>4. CASE UNCHANGED run /\ UNCHANGED log
    BY <1>1, <1>4 DEF Same
  <1>5. \/ UNCHANGED run /\ UNCHANGED log
        \/ \E r \in Runs : (\A s \in Runs : s # r => Same(s)) /\ (Same(r) \/ Sees(r))
    BY <1>0, <1>2, <1>3, RunWrites, LogWrites
  <1> QED
    BY <1>4, <1>5

\* Once a timeline has a verdict it keeps it.
LEMMA VerdictStays ==
  ASSUME Told, [Next]_vars, NEW r \in Runs, HasTerminal(r)
  PROVE  HasTerminal(r)'
  BY ClientStep DEF Same, Sees, Silent, HasTerminal

\* Who is about to announce a cancellation has just cancelled the run.
LEMMA AnnouncingStep ==
  ASSUME Typed, [Next]_vars, NEW r \in Runs, r \in announcing'
  PROVE  r \in announcing \/ run'[r].status = "cancelled"
  <1>0. StoreTypeOK
    BY DEF Typed, TypeOK
  <1>1. CASE ApiNext
    <2>1. PICK s \in Runs :
            \/ CreateRun(s) \/ CancelRun(s) \/ AnnounceCancel(s) \/ LoseAnnouncement(s)
            \/ \E a \in Actions : \/ \E d \in Resolution : ResolveApproval(s, a, d)
                                  \/ ExpireApproval(s, a)
      BY <1>1 DEF ApiNext
    <2>2. CASE CancelRun(s)
      <3>1. run' = [run EXCEPT ![s].status = "cancelled"] /\ announcing' = announcing \cup {s}
        BY <2>2 DEF CancelRun
      <3> QED
        BY <1>0, <3>1 DEF StoreTypeOK, RunRow
    <2> QED
      BY <2>1, <2>2 DEF CreateRun, AnnounceCancel, LoseAnnouncement, ResolveApproval,
                        ExpireApproval
  <1>2. CASE WorkerNext \/ (\E j \in JobId : LeaseExpires(j)) \/ UNCHANGED vars
    BY <1>2 DEF WorkerNext, LeaseExpires, vars
  <1> QED
    BY <1>1, <1>2 DEF Next

\* What Announced says of a run survives every step.
LEMMA AnnouncedRunStep ==
  ASSUME Told, [Next]_vars, NEW r \in Runs
  PROVE  AnnouncedRun(r)'
  <1>0. Typed /\ AnnouncedRun(r)
    BY DEF Told, Guarded
  <1>1. r \in announcing' => run'[r].status = "cancelled"
    <2>1. run[r].status = "cancelled" => run'[r].status = "cancelled"
      BY <1>0, TerminalStays DEF Terminal, TerminalStatus
    <2> QED
      BY <1>0, <2>1, AnnouncingStep DEF AnnouncedRun
  <1>2. Same(r) \/ Sees(r)
    BY ClientStep
  <1>3. CASE Silent(r) /\ run'[r].status = run[r].status
    BY <1>0, <1>1, <1>3 DEF Silent, AnnouncedRun, HasTerminal, TerminalEvent, Exists
  <1>4. CASE Silent(r) /\ ~Exists(r) /\ run'[r].status = "queued"
    BY <1>0, <1>1, <1>4 DEF Silent, AnnouncedRun, HasTerminal, TerminalEvent, Exists
  <1>5. CASE /\ Silent(r) /\ run[r].status \in Contract!Open
             /\ run'[r].status \in Contract!Open \cup {"failed", "cancelled"}
    BY <1>0, <1>1, <1>5
    DEF Silent, AnnouncedRun, HasTerminal, TerminalEvent, Exists, Contract!Open
  <1>6. CASE /\ Silent(r) /\ run[r].status \in Contract!Open
             /\ HasEvent(r, "run.completed") /\ run'[r].status = "completed"
    BY <1>0, <1>1, <1>6
    DEF Silent, AnnouncedRun, HasTerminal, TerminalEvent, Exists, Contract!Open
  <1>7. CASE /\ run'[r].status = run[r].status
             /\ Exists(r) /\ ~HasTerminal(r)
             /\ \E e \in TerminalEvent :
                  /\ \A f \in TerminalEvent : HasEvent(r, f)' <=> f = e
                  /\ e = "run.failed" => run[r].status \in {"failed", "cancelled"}
                  /\ e = "run.cancelled" => run[r].status = "cancelled"
    <2>1. run[r].status # "completed"
      BY <1>0, <1>7 DEF AnnouncedRun, HasTerminal, TerminalEvent
    <2> QED
      BY <1>0, <1>1, <1>7, <2>1 DEF AnnouncedRun, HasTerminal, TerminalEvent, Exists
  <1> QED
    BY <1>2, <1>3, <1>4, <1>5, <1>6, <1>7 DEF Same, Sees

\* What one process was told stays true while the process, its emissions and
\* its job's run id stay as they are.
LEMMA AnnouncedKept ==
  ASSUME Told, [Next]_vars, NEW w \in Workers, worker'[w] = worker[w],
         outbox'[w] = outbox[w]
  PROVE  AnnouncedWorker(w)'
  <1> SUFFICES ASSUME Busy(w)
               PROVE  AnnouncedWorker(w)'
    BY DEF AnnouncedWorker, At, Busy
  <1>0. Guarded /\ Typed /\ AnnouncedWorker(w)
    BY DEF Told, Guarded
  <1>1. Job(w) \in JobId /\ job[Job(w)].status # "absent" /\ Run(w) \in Runs
    BY <1>0, BusyHolds, Refers
  <1>2. Run(w)' = Run(w)
    BY <1>0, <1>1, JobMoves DEF Run, Job
  <1>3. /\ Terminal(Run(w)) => Terminal(Run(w))'
        /\ HasTerminal(Run(w)) => HasTerminal(Run(w))'
    <2>1. Terminal(Run(w)) => Terminal(Run(w))'
      BY <1>0, <1>1, <1>2, TerminalStays DEF Terminal
    <2>2. ASSUME HasTerminal(Run(w))
          PROVE  HasTerminal(Run(w))'
      <3>1. PICK r \in Runs : r = Run(w)
        BY <1>1
      <3>2. HasTerminal(r)'
        BY <2>2, <3>1, VerdictStays
      <3> QED
        BY <1>2, <3>1, <3>2 DEF HasTerminal, HasEvent
    <2> QED
      BY <2>1, <2>2
  <1>4. Emits(w, "run.completed")' = Emits(w, "run.completed")
    BY DEF Emits, Job
  <1> QED
    BY <1>0, <1>3, <1>4 DEF AnnouncedWorker, At

\* A process keeps its run while it moves on without writing a timeline.
LEMMA SameRun ==
  ASSUME Told, [Next]_vars, NEW w \in Workers, Busy(w), UNCHANGED log,
         worker'[w].job = worker[w].job
  PROVE  /\ Run(w)' = Run(w) /\ Run(w) \in Runs
         /\ HasTerminal(Run(w))' <=> HasTerminal(Run(w))
  <1>1. Job(w) \in JobId /\ job[Job(w)].status # "absent" /\ Run(w) \in Runs
    BY BusyHolds, Refers DEF Told, Guarded
  <1>2. Run(w)' = Run(w)
    BY <1>1, JobMoves DEF Told, Run, Job
  <1> QED
    BY <1>1, <1>2 DEF HasTerminal, HasEvent

\* The handler.
LEMMA ToldHandler ==
  ASSUME Told, [Next]_vars, NEW w \in Workers, HandlerStep(w)
  PROVE  AnnouncedWorker(w)'
  <1>0. StoreTypeOK /\ WorkerTypeOK /\ Typed /\ AnnouncedWorker(w) /\ Busy(w) /\ UNCHANGED log
    BY DEF Told, Guarded, Typed, TypeOK, HandlerStep, SetRunning, ReadRun, ReadForResume,
           CheckStarted, InvokeGraph, ResumeGraph, GraphCompletes, GraphFails, GraphCancelled,
           RequestApproval, Interrupt, Drained, StoreOutcome, store, At, Busy
  <1>1. CASE \/ SetRunning(w) \/ CheckStarted(w) \/ InvokeGraph(w) \/ ResumeGraph(w)
             \/ RequestApproval(w)
    <2>1. worker'[w].pc \in {"reading", "invoking", "graph", "asking"}
      BY <1>0, <1>1 DEF SetRunning, CheckStarted, InvokeGraph, ResumeGraph, RequestApproval, Goto,
                        WorkerTypeOK, WorkerRow
    <2> QED
      BY <2>1 DEF AnnouncedWorker, At
  <1>2. CASE ReadRun(w)
    <2>1. CASE ~Terminal(Run(w))
      <3>1. worker'[w].pc = "resuming"
        BY <1>0, <1>2, <2>1 DEF ReadRun, Goto, WorkerTypeOK, WorkerRow
      <3> QED
        BY <3>1 DEF AnnouncedWorker, At
    <2>2. CASE Terminal(Run(w))
      <3>1. /\ worker'[w].pc = "settling" /\ worker'[w].job = worker[w].job
            /\ worker'[w].outcome = run[Run(w)].status
        BY <1>0, <1>2, <2>2 DEF ReadRun, Finish, WorkerTypeOK, WorkerRow
      <3>2. /\ Run(w)' = Run(w) /\ Run(w) \in Runs
            /\ HasTerminal(Run(w))' <=> HasTerminal(Run(w))
        BY <1>0, <3>1, SameRun
      <3>3. run[Run(w)].status = "completed" => HasTerminal(Run(w))
        BY <3>2 DEF Told, AnnouncedRun, HasTerminal, TerminalEvent
      <3> QED
        BY <3>1, <3>2, <3>3 DEF AnnouncedWorker, At
    <2> QED
      BY <2>1, <2>2
  <1>3. CASE ReadForResume(w)
    <2>1. \/ worker'[w].pc = "starting"
          \/ worker'[w].pc = "settling" /\ worker'[w].outcome = "paused"
      BY <1>0, <1>3 DEF ReadForResume, Goto, Finish, WorkerTypeOK, WorkerRow
    <2> QED
      BY <2>1 DEF AnnouncedWorker, At
  <1>4. CASE GraphCompletes(w)
    <2>1. /\ worker'[w].pc = "draining" /\ worker'[w].job = worker[w].job
          /\ worker'[w].attempt = worker[w].attempt
          /\ outbox'[w] = outbox[w] \cup {Emits(w, "run.completed")}
      BY <1>0, <1>4 DEF GraphCompletes, Emit, Finish, WorkerTypeOK, WorkerRow
    <2>2. Emits(w, "run.completed")' = Emits(w, "run.completed")
      BY <2>1 DEF Emits, Job
    <2> QED
      BY <2>1, <2>2 DEF AnnouncedWorker, At
  <1>5. CASE GraphFails(w) \/ GraphCancelled(w) \/ Interrupt(w)
    <2>1. worker'[w].pc = "draining" /\ worker'[w].outcome # "completed"
      BY <1>0, <1>5 DEF GraphFails, GraphCancelled, Interrupt, Finish, WorkerTypeOK, WorkerRow
    <2> QED
      BY <2>1 DEF AnnouncedWorker, At
  <1>6. CASE Drained(w)
    <2>1. /\ worker'[w].pc = "storing" /\ worker'[w].job = worker[w].job
          /\ worker'[w].outcome = worker[w].outcome
      BY <1>0, <1>6 DEF Drained, Goto, WorkerTypeOK, WorkerRow
    <2>2. worker[w].outcome = "completed" => HasTerminal(Run(w))
      <3>1. Emits(w, "run.completed") \notin outbox[w]
        <4>1. /\ Emits(w, "run.completed").job = Job(w)
              /\ Emits(w, "run.completed").attempt = worker[w].attempt
          BY DEF Emits
        <4> QED
          BY <1>6, <4>1 DEF Drained, Own
      <3> QED
        BY <1>0, <1>6, <3>1 DEF Drained, AnnouncedWorker
    <2>3. HasTerminal(Run(w))' <=> HasTerminal(Run(w))
      BY <1>0, <2>1, SameRun
    <2> QED
      BY <2>1, <2>2, <2>3 DEF AnnouncedWorker, At
  <1>7. CASE StoreOutcome(w)
    <2>1. /\ worker'[w].pc \in {"failing", "rejecting", "settling"}
          /\ worker'[w].job = worker[w].job /\ worker'[w].outcome = worker[w].outcome
      BY <1>0, <1>7 DEF StoreOutcome, Goto, WorkerTypeOK, WorkerRow
    <2>2. worker[w].outcome = "completed" => HasTerminal(Run(w))
      BY <1>0, <1>7 DEF StoreOutcome, AnnouncedWorker, At
    <2>3. HasTerminal(Run(w))' <=> HasTerminal(Run(w))
      BY <1>0, <2>1, SameRun
    <2> QED
      BY <2>1, <2>2, <2>3 DEF AnnouncedWorker, At
  <1> QED
    BY <1>1, <1>2, <1>3, <1>4, <1>5, <1>6, <1>7 DEF HandlerStep

\* run_once after the handler: a failure is reported of a run that has ended.
LEMMA ToldSettle ==
  ASSUME Told, [Next]_vars, NEW w \in Workers, SettleStep(w)
  PROVE  AnnouncedWorker(w)'
  <1>0. StoreTypeOK /\ WorkerTypeOK /\ Typed /\ AnnouncedWorker(w)
    BY DEF Told, Guarded, Typed, TypeOK
  <1>1. CASE Release(w)
    BY <1>0, <1>1, ReleaseEffect DEF AnnouncedWorker, At
  <1>2. CASE CompleteJob(w) /\ ~Release(w)
    <2>1. /\ worker'[w].pc = "promoting" /\ worker'[w].job = worker[w].job
          /\ worker'[w].outcome = "completed" /\ worker[w].outcome = "completed"
          /\ At(w, "settling") /\ Busy(w) /\ UNCHANGED log
      BY <1>0, <1>2 DEF CompleteJob, Goto, WorkerTypeOK, WorkerRow, At, Busy
    <2>2. HasTerminal(Run(w))' <=> HasTerminal(Run(w))
      BY <2>1, SameRun
    <2> QED
      BY <1>0, <2>1, <2>2 DEF AnnouncedWorker, At
  <1>3. CASE RejectJob(w) \/ FailJob(w)
    <2>1. worker'[w].pc \in {"rejected", "retrying"}
      BY <1>0, <1>3 DEF RejectJob, FailJob, Goto, WorkerTypeOK, WorkerRow
    <2> QED
      BY <2>1 DEF AnnouncedWorker, At
  <1>4. CASE FailRun(w) \/ (RequeueRun(w) /\ ~Release(w))
    <2>1. /\ worker'[w].pc = "reporting" /\ worker'[w].job = worker[w].job
          /\ Busy(w) /\ UNCHANGED log
          /\ run' = SetRunStatus(Run(w), "failed", "worker")
      BY <1>0, <1>4 DEF FailRun, RequeueRun, Goto, WorkerTypeOK, WorkerRow, At, Busy
    <2>2. Run(w)' = Run(w) /\ Run(w) \in Runs
      BY <2>1, SameRun
    <2>3. run'[Run(w)].status \in TerminalStatus
      BY <1>0, <2>1, <2>2, RunWriteEffect
      DEF RunWritable, Terminal, RunStatus, TerminalStatus
    <2> QED
      BY <2>1, <2>2, <2>3 DEF AnnouncedWorker, At, Terminal
  <1> QED
    BY <1>1, <1>2, <1>3, <1>4
    DEF SettleStep, PromoteRun, EmitRunFailed

\* Persisting an emission, losing the lease, a fault and a crash.
LEMMA ToldRest ==
  ASSUME Told, [Next]_vars, NEW w \in Workers,
         Claim(w) \/ Persist(w) \/ LeaseLost(w) \/ DbFault(w) \/ Crash(w)
  PROVE  AnnouncedWorker(w)'
  <1>0. StoreTypeOK /\ WorkerTypeOK /\ Typed /\ AnnouncedWorker(w)
    BY DEF Told, Guarded, Typed, TypeOK
  <1>1. CASE worker'[w].pc \in {"idle", "dead", "claimed", "failing"}
    BY <1>1 DEF AnnouncedWorker, At
  <1>2. CASE Claim(w) \/ LeaseLost(w) \/ Crash(w)
    BY <1>0, <1>1, <1>2 DEF Claim, Claimed, LeaseLost, Crash, Release, Idle, WorkerTypeOK
  <1>3. CASE DbFault(w)
    <2>1. \/ worker'[w].pc \in {"idle", "failing"}
          \/ worker'[w].pc = "draining" /\ worker'[w].outcome = "retryable"
      BY <1>0, <1>3 DEF DbFault, Goto, Finish, Release, Idle, WorkerTypeOK, WorkerRow
    <2> QED
      BY <1>1, <2>1 DEF AnnouncedWorker, At
  <1>4. CASE Persist(w)
    <2> SUFFICES ASSUME Busy(w)
                 PROVE  AnnouncedWorker(w)'
      BY <1>4 DEF Persist, AnnouncedWorker, At, Busy
    <2>1. PICK e \in outbox[w] : /\ log' = AppendEvent(job[e.job].run, e.type)
                                 /\ outbox' = [outbox EXCEPT ![w] = @ \ {e}]
      BY <1>4 DEF Persist
    <2>2. Run(w) \in Runs /\ job[e.job].run \in Runs /\ e.type \in Event
      BY <1>0, Refers DEF Event, TerminalEvent
    <2>3. UNCHANGED <<worker, job, run>>
      BY <1>4 DEF Persist
    <2>4. /\ Run(w)' = Run(w) /\ Terminal(Run(w))' = Terminal(Run(w))
          /\ Emits(w, "run.completed")' = Emits(w, "run.completed")
      BY <2>3 DEF Run, Emits, Job, Terminal
    <2>5. HasTerminal(Run(w)) => HasTerminal(Run(w))'
      <3>1. PICK r \in Runs : r = Run(w)
        BY <2>2
      <3>2. HasTerminal(r) => HasTerminal(r)'
        BY VerdictStays
      <3> QED
        BY <2>4, <3>1, <3>2 DEF HasTerminal, HasEvent
    <2>6. ASSUME e = Emits(w, "run.completed")
          PROVE  HasTerminal(Run(w))'
      <3>1. job[e.job].run = Run(w) /\ e.type = "run.completed"
        BY <2>6 DEF Emits, Job, Run
      <3>2. log' = AppendEvent(Run(w), "run.completed")
        BY <2>1, <3>1
      <3>3. CASE HasTerminal(Run(w))
        BY <2>5, <3>3
      <3>4. CASE ~HasTerminal(Run(w))
        <4>1. PICK r \in Runs : r = Run(w)
          BY <2>2
        <4>2. HasEvent(r, "run.completed")'
          BY <1>0, <3>2, <3>4, <4>1, AppendEffect DEF Event, TerminalEvent
        <4> QED
          BY <2>4, <4>1, <4>2 DEF HasTerminal, HasEvent, TerminalEvent
      <3> QED
        BY <3>3, <3>4
    <2>7. Emits(w, "run.completed") \in outbox[w]
            => Emits(w, "run.completed") \in outbox'[w] \/ HasTerminal(Run(w))'
      BY <1>0, <2>1, <2>6 DEF WorkerTypeOK
    <2> QED
      BY <1>0, <2>3, <2>4, <2>5, <2>7 DEF AnnouncedWorker, At
  <1> QED
    BY <1>2, <1>3, <1>4

\* Told is inductive.
LEMMA ToldStep == Told /\ [Next]_vars => Told'
  <1> SUFFICES ASSUME Told, [Next]_vars, NEW w \in Workers
               PROVE  AnnouncedWorker(w)'
    BY FencedStep, AnnouncedRunStep DEF Told
  <1>0. WorkerTypeOK
    BY DEF Told, Guarded, Typed, TypeOK
  <1>1. CASE worker'[w] = worker[w] /\ outbox'[w] = outbox[w]
    BY <1>1, AnnouncedKept
  <1>2. CASE WorkerNext
    <2>1. PICK v \in Workers :
            Claim(v) \/ WorkerStep(v) \/ Persist(v) \/ Heartbeat(v) \/ LeaseLost(v)
              \/ DbFault(v) \/ Crash(v)
      BY <1>2 DEF WorkerNext
    <2>2. CASE v # w
      <3>1. /\ UNCHANGED worker \/ \E row : worker' = [worker EXCEPT ![v] = row]
            /\ UNCHANGED outbox \/ \E box : outbox' = [outbox EXCEPT ![v] = box]
        <4>1. UNCHANGED worker \/ \E row : worker' = [worker EXCEPT ![v] = row]
          BY <1>0, <2>1
          DEF WorkerTypeOK, WorkerStep, HandlerStep, SettleStep, Claim, Persist, Heartbeat,
              LeaseLost, DbFault, Crash, SetRunning, ReadRun, ReadForResume, CheckStarted,
              InvokeGraph, ResumeGraph, GraphCompletes, GraphFails, GraphCancelled,
              RequestApproval, Interrupt, Drained, StoreOutcome, CompleteJob, PromoteRun,
              RejectJob, FailRun, FailJob, RequeueRun, EmitRunFailed, Goto, Finish, Release,
              local
        <4>2. UNCHANGED outbox \/ \E box : outbox' = [outbox EXCEPT ![v] = box]
          BY <1>0, <2>1
          DEF WorkerTypeOK, WorkerStep, HandlerStep, SettleStep, Claim, Persist, Heartbeat,
              LeaseLost, DbFault, Crash, SetRunning, ReadRun, ReadForResume, CheckStarted,
              InvokeGraph, ResumeGraph, GraphCompletes, GraphFails, GraphCancelled,
              RequestApproval, Interrupt, Drained, StoreOutcome, CompleteJob, PromoteRun,
              RejectJob, FailRun, FailJob, RequeueRun, EmitRunFailed, Emit, local
        <4> QED
          BY <4>1, <4>2
      <3> QED
        BY <1>0, <1>1, <2>2, <3>1 DEF WorkerTypeOK
    <2>3. CASE v = w
      BY <1>1, <2>1, <2>3, ToldHandler, ToldSettle, ToldRest
      DEF WorkerStep, Heartbeat, local
    <2> QED
      BY <2>2, <2>3
  <1>3. CASE ApiNext \/ (\E j \in JobId : LeaseExpires(j)) \/ UNCHANGED vars
    BY <1>1, <1>3 DEF ApiNext, LeaseExpires, local, vars
  <1> QED
    BY <1>2, <1>3 DEF Next

\* It holds of empty timelines.
LEMMA ToldInit == Init => Told
  <1>1. Init => \A r \in Runs : AnnouncedRun(r)
    BY DEF Init, StoreInit, ApiInit, NoRun, AnnouncedRun, HasTerminal, HasEvent
  <1>2. Init => \A w \in Workers : AnnouncedWorker(w)
    BY DEF Init, WorkerInit, Idle, AnnouncedWorker, At
  <1> QED
    BY <1>1, <1>2, FencedInit DEF Told

\* It holds in every reachable state.
LEMMA ToldAlways == Spec => []Told
  <1>1. Init => Told
    BY ToldInit
  <1>2. Told /\ [Next]_vars => Told'
    BY ToldStep
  <1> QED
    BY <1>1, <1>2, PTL DEF Spec

\* The whole invariant of the runtime: what processes hold exists (Linked),
\* timelines and rows agree at every point of an attempt (Announced), leases
\* and attempt counts agree (Fenced), and without a stall nobody works on a
\* job another owns (Exclusive).
THEOREM Invariant == Spec => []IInv
  <1>1. Told => Announced
    BY DEF Told, AnnouncedRun, AnnouncedWorker, Announced
  <1>2. Told /\ Excluded => IInv
    BY <1>1 DEF Told, Excluded, Guarded, Typed, IInv
  <1> QED
    BY <1>2, ToldAlways, ExclusiveAlways, PTL
-----------------------------------------------------------------------------
(* The refinement of RunContract. *)

\* The verdict is the one terminal event of the timeline.
Verdicts == \A r \in Runs : AnnouncedRun(r) =>
              /\ \A e \in TerminalEvent : VerdictOf(r) = e <=> HasEvent(r, e)
              /\ VerdictOf(r) = "none" <=> ~HasTerminal(r)
              /\ VerdictOf(r) \in TerminalEvent \cup {"none"}

LEMMA VerdictIs == Verdicts
  <1> SUFFICES ASSUME NEW r \in Runs, AnnouncedRun(r)
               PROVE  /\ \A e \in TerminalEvent : VerdictOf(r) = e <=> HasEvent(r, e)
                      /\ VerdictOf(r) = "none" <=> ~HasTerminal(r)
                      /\ VerdictOf(r) \in TerminalEvent \cup {"none"}
    BY DEF Verdicts
  <1>1. CASE HasTerminal(r)
    <2>1. PICK e \in TerminalEvent : HasEvent(r, e)
      BY <1>1 DEF HasTerminal
    <2>2. \A f \in TerminalEvent : HasEvent(r, f) <=> f = e
      BY <2>1 DEF AnnouncedRun
    <2>3. VerdictOf(r) = e
      BY <1>1, <2>1, <2>2 DEF VerdictOf
    <2> QED
      BY <1>1, <2>1, <2>2, <2>3 DEF TerminalEvent
  <1>2. CASE ~HasTerminal(r)
    BY <1>2 DEF VerdictOf, HasTerminal, TerminalEvent
  <1> QED
    BY <1>1, <1>2

\* The same after a step.
LEMMA VerdictWillBe == Verdicts'
  BY VerdictIs, PTL

\* The refinement mapping.
Status  == [r \in Runs |-> run[r].status]
Verdict == [r \in Runs |-> VerdictOf(r)]

\* A silent step leaves the verdict as it is.
LEMMA SilentVerdict ==
  ASSUME Told, [Next]_vars, NEW r \in Runs, Silent(r)
  PROVE  VerdictOf(r)' = VerdictOf(r)
  <1>1. AnnouncedRun(r) /\ AnnouncedRun(r)'
    BY AnnouncedRunStep DEF Told
  <1>2. /\ \A e \in TerminalEvent : VerdictOf(r)' = e <=> HasEvent(r, e)'
        /\ VerdictOf(r)' \in TerminalEvent \cup {"none"}
    BY <1>1, VerdictWillBe DEF Verdicts
  <1>3. /\ \A e \in TerminalEvent : VerdictOf(r) = e <=> HasEvent(r, e)
        /\ VerdictOf(r) \in TerminalEvent \cup {"none"}
    BY <1>1, VerdictIs DEF Verdicts
  <1> QED
    BY <1>2, <1>3 DEF Silent, TerminalEvent

\* Every step of the runtime is a step of the contract, or none.
LEMMA ContractStep == Told /\ [Next]_vars => [Contract!Next]_(Contract!vars)
  <1> SUFFICES ASSUME Told, [Next]_vars
               PROVE  Contract!Next \/ (Status' = Status /\ Verdict' = Verdict)
    BY DEF Contract!vars, Status, Verdict
  <1>1. ASSUME NEW r \in Runs, Same(r)
        PROVE  run'[r].status = run[r].status /\ VerdictOf(r)' = VerdictOf(r)
    BY <1>1, SilentVerdict DEF Same
  <1>2. CASE \A r \in Runs : Same(r)
    BY <1>1, <1>2 DEF Status, Verdict
  <1>3. ASSUME NEW r \in Runs, \A s \in Runs : s # r => Same(s), Sees(r)
        PROVE  Contract!Next
    <2>1. \A s \in Runs : s # r => run'[s].status = run[s].status /\ VerdictOf(s)' = VerdictOf(s)
      BY <1>1, <1>3
    <2>2. ASSUME Silent(r)
          PROVE  /\ Verdict' = Verdict
                 /\ Status' = [Status EXCEPT ![r] = run'[r].status]
      BY <2>1, <2>2, SilentVerdict DEF Verdict, Status
    <2>3. CASE Silent(r) /\ ~Exists(r) /\ run'[r].status = "queued"
      <3>1. Contract!Create(r)
        BY <2>2, <2>3 DEF Contract!Create, Status, Verdict, Exists
      <3> QED
        BY <3>1 DEF Contract!Next
    <2>4. CASE /\ Silent(r) /\ run[r].status \in Contract!Open
               /\ run'[r].status \in Contract!Open \cup {"failed", "cancelled"}
      <3>1. Contract!Move(r)
        BY <2>2, <2>4 DEF Contract!Move, Status, Verdict
      <3> QED
        BY <3>1 DEF Contract!Next
    <2>5. CASE /\ Silent(r) /\ run[r].status \in Contract!Open
               /\ HasEvent(r, "run.completed") /\ run'[r].status = "completed"
      <3>1. VerdictOf(r) = "run.completed"
        BY <2>5, VerdictIs DEF Verdicts, Told, TerminalEvent
      <3>2. Contract!Complete(r)
        BY <2>2, <2>5, <3>1 DEF Contract!Complete, Status, Verdict
      <3> QED
        BY <3>2 DEF Contract!Next
    <2>6. ASSUME NEW e \in TerminalEvent,
                 run'[r].status = run[r].status, Exists(r), ~HasTerminal(r),
                 \A f \in TerminalEvent : HasEvent(r, f)' <=> f = e,
                 e = "run.failed" => run[r].status \in {"failed", "cancelled"},
                 e = "run.cancelled" => run[r].status = "cancelled"
          PROVE  Contract!Next
      <3>1. VerdictOf(r) = "none"
        BY <2>6, VerdictIs DEF Verdicts, Told
      <3>2. VerdictOf(r)' = e
        <4>1. AnnouncedRun(r)'
          BY AnnouncedRunStep
        <4> QED
          BY <2>6, <4>1, VerdictWillBe DEF Verdicts
      <3>3. Verdict' = [Verdict EXCEPT ![r] = e] /\ Status' = Status
        BY <2>1, <2>6, <3>2 DEF Verdict, Status
      <3>4. Contract!Announce(r, e)
        BY <2>6, <3>1, <3>3 DEF Contract!Announce, Status, Verdict, Exists
      <3> QED
        BY <3>4 DEF Contract!Next, Contract!Verdict, TerminalEvent
    <2> QED
      BY <1>3, <2>3, <2>4, <2>5, <2>6 DEF Sees
  <1> QED
    BY <1>2, <1>3, ClientStep

\* An empty database is an empty contract.
LEMMA ContractInit == Init => Contract!Init
  BY DEF Init, StoreInit, NoRun, Contract!Init, VerdictOf, HasTerminal, HasEvent

\* However workers, leases, retries, crashes and clients interleave, clients
\* see a run behave as RunContract says: its terminal status stays, it has one
\* verdict, and it is not completed before run.completed is durable
\* (_set_run_status, _update_run, cancel_run, uq_run_terminal_event, drain).
THEOREM RuntimeImplementsContract == Spec => ImplementsContract
  <1>1. Told /\ [Next]_vars => [Contract!Next]_(Contract!vars)
    BY ContractStep
  <1> QED
    BY <1>1, ContractInit, ToldAlways, PTL DEF Spec, ImplementsContract, Contract!Spec
=============================================================================

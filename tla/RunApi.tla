------------------------------- MODULE RunApi -------------------------------
(***************************************************************************)
(* The HTTP handlers that change a run: creation, cancellation and the     *)
(* resolution of an approval.  Each is one transaction, except that        *)
(* cancel_run appends run.cancelled in a second one.                       *)
(***************************************************************************)
EXTENDS RuntimeStore

VARIABLE
  announcing    (* cancelled runs whose run.cancelled is not appended yet  *)

ApiTypeOK == announcing \subseteq Runs
ApiInit   == announcing = {}
-----------------------------------------------------------------------------
\* create_run: the run and its first job in one commit.
CreateRun(r) ==
  /\ ~Exists(r)
  /\ run' = [run EXCEPT ![r].status = "queued"]
  /\ \E j \in JobId : NextJob(j) /\ job' = [job EXCEPT ![j] = QueuedJob(r)]
  /\ UNCHANGED <<approval, latest, log, asked, granted, announcing>>

\* cancel_run answers 409 for a terminal run and leaves the error column.
CancelRun(r) ==
  /\ Exists(r) /\ ~Terminal(r)
  /\ run' = [run EXCEPT ![r].status = "cancelled"]
  /\ announcing' = announcing \cup {r}
  /\ UNCHANGED <<job, approval, latest, log, asked, granted>>

AnnounceCancel(r) ==
  /\ r \in announcing
  /\ log' = AppendEvent(r, "run.cancelled")
  /\ announcing' = announcing \ {r}
  /\ UNCHANGED <<run, job, approval, latest, asked, granted>>

\* The API process dies, or the append fails, between the two.
LoseAnnouncement(r) ==
  /\ r \in announcing
  /\ announcing' = announcing \ {r}
  /\ UNCHANGED store
-----------------------------------------------------------------------------
\* Mutant: an approval can be resolved again.
ResolvableAgain(r, a) == approval[r][a] # "absent"

\* resolve_and_enqueue: a second resolution, or one of a missing approval,
\* changes nothing.
Resolvable(r, a) == approval[r][a] = "pending"

\* In time: the run is re-enqueued only if it is already paused.
ResolveApproval(r, a, decision) ==
  /\ Resolvable(r, a)
  /\ approval' = [approval EXCEPT ![r][a] = decision]
  /\ latest' = [latest EXCEPT ![r] = a]
  /\ IF run[r].status = "paused"
     THEN /\ run' = [run EXCEPT ![r].status = "queued"]
          /\ \E j \in JobId : NextJob(j) /\ job' = [job EXCEPT ![j] = QueuedJob(r)]
     ELSE UNCHANGED <<run, job>>
  /\ UNCHANGED <<log, asked, granted, announcing>>

\* Past expires_at the approval expires, and nothing else happens.
ExpireApproval(r, a) ==
  /\ Resolvable(r, a)
  /\ approval' = [approval EXCEPT ![r][a] = "expired"]
  /\ UNCHANGED <<run, job, latest, log, asked, granted, announcing>>
=============================================================================

----------------------------- MODULE RunContract -----------------------------
(***************************************************************************)
(* What the runtime promises a client about a run, whatever the workers,   *)
(* leases and jobs behind it do: the status only leaves a non-terminal     *)
(* value, the timeline gets one terminal event, no run is completed before *)
(* run.completed is durable, and a failure or a cancellation is announced  *)
(* only once the run's row has ended in one.                               *)
(***************************************************************************)
CONSTANT Runs

VARIABLES
  status,       (* the status GET /runs/{id} answers                       *)
  verdict       (* the terminal event of its timeline, or "none"           *)

vars == <<status, verdict>>

Open    == {"queued", "running", "paused"}
Verdict == {"run.completed", "run.failed", "run.cancelled"}

Init == /\ status = [r \in Runs |-> "absent"]
        /\ verdict = [r \in Runs |-> "none"]

Create(r) ==
  /\ status[r] = "absent"
  /\ status' = [status EXCEPT ![r] = "queued"]
  /\ UNCHANGED verdict

Move(r) ==
  /\ status[r] \in Open
  /\ \E s \in Open \cup {"failed", "cancelled"} : status' = [status EXCEPT ![r] = s]
  /\ UNCHANGED verdict

Complete(r) ==
  /\ status[r] \in Open
  /\ verdict[r] = "run.completed"
  /\ status' = [status EXCEPT ![r] = "completed"]
  /\ UNCHANGED verdict

Announce(r, e) ==
  /\ verdict[r] = "none"
  /\ status[r] # "absent"
  /\ e = "run.failed" => status[r] \in {"failed", "cancelled"}
  /\ e = "run.cancelled" => status[r] = "cancelled"
  /\ verdict' = [verdict EXCEPT ![r] = e]
  /\ UNCHANGED status

Next == \E r \in Runs : \/ Create(r) \/ Move(r) \/ Complete(r)
                        \/ \E e \in Verdict : Announce(r, e)

Spec == Init /\ [][Next]_vars
=============================================================================

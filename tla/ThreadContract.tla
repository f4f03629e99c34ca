--------------------------- MODULE ThreadContract ---------------------------
(***************************************************************************)
(* What the worker may rely on about the checkpointed thread of one run,   *)
(* and all that JobWorker's graph step knows of it: an invocation ends in  *)
(* one of a few ways, interrupts only to ask for an action once it has     *)
(* used up the answer it was resumed with, and is resumed only while it is *)
(* interrupted.                                                            *)
(***************************************************************************)
EXTENDS Naturals

CONSTANTS
  Actions,      (* canonical actions, named by their action_id             *)
  Unset         (* no action, no answer                                    *)

VARIABLES
  running,      (* an invocation of the thread is under way                *)
  outcome,      (* how the last invocation ended                           *)
  asked,        (* the action the thread is interrupted for                *)
  answer        (* the decision a resumption still has to consume          *)

vars == <<running, outcome, asked, answer>>

Open    == {"none", "paused", "retryable", "lost"}
Final   == {"completed", "cancelled", "fatal"}
Outcome == Open \cup Final

Init == ~running /\ outcome = "none" /\ asked = Unset /\ answer = Unset

\* A new input starts the thread over and drops what it was waiting for.
Invoke == /\ ~running /\ outcome \in Open
          /\ running' = TRUE /\ asked' = Unset /\ answer' = Unset
          /\ UNCHANGED outcome

Resume == /\ ~running /\ outcome = "paused" /\ asked # Unset
          /\ running' = TRUE /\ asked' = Unset
          /\ answer' \in {"approved", "rejected"}
          /\ UNCHANGED outcome

\* The interrupted node runs again and reads the answer.
Consume == /\ running /\ answer # Unset
           /\ answer' = Unset
           /\ UNCHANGED <<running, outcome, asked>>

Ask == /\ running /\ answer = Unset
       /\ running' = FALSE /\ outcome' = "paused"
       /\ asked' \in Actions
       /\ UNCHANGED answer

Finish == /\ running
          /\ running' = FALSE /\ answer' = Unset
          /\ outcome' \in (Open \cup Final) \ {"none", "paused"}
          /\ UNCHANGED asked

Next == Invoke \/ Resume \/ Consume \/ Ask \/ Finish

Spec == Init /\ [][Next]_vars
=============================================================================

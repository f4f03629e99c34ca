----------------------------- MODULE ModelCalls -----------------------------
(***************************************************************************)
(* The model gateway and what the run manager makes of its failures: from  *)
(* the provider's exception to the decision whether the job is retried.    *)
(* The provider (LiteLLM) is external; Failure sorts its exceptions into   *)
(* the cases _normalize_model_error tells apart.                           *)
(***************************************************************************)

\* By class name or status code: 408 and 504, 429, 401 and 403, connection
\* errors and other 5xx; everything else, a malformed answer included.
Failure == {"timeout", "ratelimit", "denied", "unavailable", "invalid"}

\* complete never raises: it returns an answer, of the requested schema if there
\* is one, or the failure it caught.
Completion == {"answer"} \cup Failure

Category == {"timeout", "rate_limit", "permission_denied", "provider_error"}
NormalizedError == [category : Category, recoverable : BOOLEAN]

NormalizeModelError(failure) ==
  [category    |-> CASE failure = "timeout"   -> "timeout"
                     [] failure = "ratelimit" -> "rate_limit"
                     [] failure = "denied"    -> "permission_denied"
                     [] OTHER                 -> "provider_error",
   recoverable |-> failure \in {"timeout", "ratelimit", "unavailable"}]
-----------------------------------------------------------------------------
\* What a node raises.
Cancelled      == [class |-> "RunCancelledError"]
OutOfSteps     == [class |-> "GraphRecursionError"]
OtherException == [class |-> "Exception"]
ModelCallError(error) == [class |-> "ModelCallError", category |-> error.category,
                          recoverable |-> error.recoverable]

\* Mutant: an llm node raises a bare RuntimeError.
LlmFailedBare(failure) == OtherException

\* _run_llm passes the gateway's verdict on, _run_supervisor overrules it.
LlmFailed(failure)        == ModelCallError(NormalizeModelError(failure))
SupervisorFailed(failure) ==
  ModelCallError([NormalizeModelError(failure) EXCEPT !.recoverable = FALSE])

\* The termination reason of a failed attempt.
ClassifyFailure(exc) ==
  CASE exc.class = "RunCancelledError"   -> "cancelled"
    [] exc.class = "GraphRecursionError" -> "max_steps"
    [] exc.class = "ModelCallError"      ->
         IF exc.category \in {"timeout", "rate_limit"}
         THEN IF exc.recoverable THEN "model_error:recoverable" ELSE "model_error:fatal"
         ELSE "model_error"
    [] OTHER                             -> "error"

ExecutionIsRetryable(reason) == reason \in {"error", "model_error:recoverable"}

\* How the attempt counts for the worker: execute_job returns "cancelled",
\* raises RuntimeError or raises JobNotRetryable.
OutcomeOf(exc) ==
  LET reason == ClassifyFailure(exc)
  IN CASE reason = "cancelled"         -> "cancelled"
       [] ExecutionIsRetryable(reason) -> "retryable"
       [] OTHER                        -> "fatal"
=============================================================================

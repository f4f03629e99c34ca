---------------------------- MODULE GraphProgram ----------------------------
(***************************************************************************)
(* The LangGraph program of one run: create_run accepts or refuses its     *)
(* definition, and each invocation of its thread then runs one node per    *)
(* superstep until it ends, fails or interrupts for an approval.  What one *)
(* node does is split at its awaits.  Models, tools, knowledge bases and   *)
(* LangGraph itself are external; so is the worker, which starts an        *)
(* invocation, and the client, who cancels and resolves.                   *)
(***************************************************************************)
EXTENDS GraphDsl, ModelCalls, ToolCatalog

CONSTANTS
  Definitions,      (* the definitions create_run may be asked to run      *)
  Inputs,           (* canonical arguments of a decision                   *)
  Allowed,          (* allowed_tools of a subagent node's config           *)
  Unset,            (* Python None                                         *)
  MaxSteps,         (* recursion_limit: 20 in the code                     *)
  MaxSubSteps,      (* ReActExecutor's max_steps: 8 in the code            *)
  MaxInvocations    (* bound: invocations of the thread                    *)

ASSUME ProgramAssumption == {MaxSteps, MaxSubSteps, MaxInvocations} \subseteq Nat

\* Ids are strings; StateGraph.add_node refuses the sentinel as one.
ASSUME DefinitionsAssumption ==
  \A d \in Definitions : /\ d.nodes \in Seq(NodeDef(STRING))
                         /\ d.edges \in Seq(EdgeDef(STRING))
                         /\ End \notin Ids(d)

VARIABLES
  graph,        (* the run's immutable graph_snapshot                      *)
  phase,        (* where the invocation is, between two awaits             *)
  at,           (* the node of the current superstep                       *)
  left,         (* supersteps the recursion limit still allows             *)
  decision,     (* checkpoint: control.supervisor_decision                 *)
  resume,       (* Command(resume=...): what interrupt() will return       *)
  asked,        (* checkpoint: the action the thread is interrupted for    *)
  subSteps,     (* steps the subagent has taken                            *)
  outcome,      (* how the last invocation ended                           *)
  approval,     (* approvals.status by action_id, beside "latest"          *)
  latest,       (* the action of the most recently resolved approval       *)
  cancelled,    (* runs.status is cancelled                                *)
  invocation,   (* history: number of the current invocation               *)
  decidedIn,    (* history: the start from which the decision was reached  *)
  cause,        (* history: the model failure the last invocation met      *)
  calls         (* history: sensitive calls and what allowed them          *)

thread  == <<graph, phase, at, left, decision, resume, asked, subSteps, outcome>>
client  == <<approval, latest, cancelled>>
history == <<invocation, decidedIn, cause, calls>>
vars    == <<thread, client, history>>
-----------------------------------------------------------------------------
Node   == UNION {Ids(d) : d \in Definitions}
Action == Node \X Inputs
Tools  == Registered \cup {"unknown"}

\* What a model may answer: a SupervisorDecision for a node and its arguments,
\* naming a tool or not where one is read, or the final one.  node is what
\* selected_node_id makes of its capability_node_id and its target.
Decision ==
  LET For(types, tools) == [action : types, node : Node \cup {"unknown"}, tool : tools, input : Inputs]
  IN For({"tool"}, Tools \cup {Unset}) \cup For(CapabilityType \ {"tool"}, {Unset})
FinalDecision == [action |-> "final", node |-> End, tool |-> Unset, input |-> Unset]

\* What a resumed node reads of the value interrupt() returns: the decision,
\* not the approval it was made on.
Reply == {"approved", "rejected"}

\* Python None is none of them.
ASSUME UnsetAssumption == Unset \notin Decision \cup {FinalDecision} \cup Action \cup Reply

Running == {"check", "start", "node", "gate", "asking", "tool", "rag", "subagent"}
Open    == {"none", "paused", "retryable", "lost"}
Outcome == Open \cup {"completed", "cancelled", "fatal"}

TypeOK ==
  /\ graph \in Definitions
  /\ phase \in {"new", "refused", "idle"} \cup Running
  /\ at \in Node \cup {Start, End}
  /\ left \in 0 .. MaxSteps
  /\ decision \in Decision \cup {FinalDecision, Unset}
  /\ resume \in Reply \cup {Unset}
  /\ asked \in Action \cup {Unset}
  /\ subSteps \in 0 .. MaxSubSteps
  /\ outcome \in Outcome
  /\ approval \in [Action -> {"absent", "pending", "approved", "rejected", "expired"}]
  /\ latest \in Action \cup {Unset}
  /\ cancelled \in BOOLEAN
  /\ invocation \in 0 .. MaxInvocations
  /\ decidedIn \in 0 .. MaxInvocations
  /\ cause \in Failure \cup {"none", "other"}
  /\ calls \in [granted : Nat, gated : Nat, ungated : Nat, late : Nat]

Init ==
  /\ graph \in Definitions
  /\ phase = "new" /\ at = Start /\ left = 0 /\ subSteps = 0
  /\ decision = Unset /\ resume = Unset /\ asked = Unset
  /\ outcome = "none" /\ cause = "none"
  /\ approval = [a \in Action |-> "absent"] /\ latest = Unset
  /\ cancelled = FALSE
  /\ invocation = 0 /\ decidedIn = 0
  /\ calls = [granted |-> 0, gated |-> 0, ungated |-> 0, late |-> 0]
-----------------------------------------------------------------------------
(* create_run, and the worker's ways to run the thread *)

CreateRun ==
  /\ phase = "new"
  /\ phase' = IF Accepted(graph) THEN "idle" ELSE "refused"
  /\ UNCHANGED <<graph, at, left, decision, resume, asked, subSteps, outcome, client, history>>

\* Each invocation gets the whole recursion limit.
Begins(node) == /\ phase = "idle"
                /\ invocation < MaxInvocations
                /\ invocation' = invocation + 1
                /\ phase' = "check" /\ at' = node /\ left' = MaxSteps
                /\ subSteps' = 0 /\ cause' = "none" /\ asked' = Unset

\* ainvoke: a new input starts the thread over; what it kept in data and
\* control stays.
Ainvoke ==
  /\ outcome \in Open
  /\ Begins(graph.entry)
  /\ resume' = Unset
  /\ UNCHANGED <<graph, decision, outcome, client, decidedIn, calls>>

\* Mutant: the thread is resumed as soon as an approval was resolved.
AresumeAnytime ==
  /\ outcome \in Open /\ latest # Unset
  /\ Begins(at)
  /\ resume' = approval[latest]
  /\ UNCHANGED <<graph, decision, outcome, client, decidedIn, calls>>

\* Mutant: the thread is started over with the answer.
AresumeFromEntry ==
  /\ outcome = "paused" /\ latest # Unset
  /\ Begins(graph.entry)
  /\ resume' = approval[latest]
  /\ calls' = [calls EXCEPT !.granted = IF approval[latest] = "approved" THEN @ + 1 ELSE @]
  /\ UNCHANGED <<graph, decision, outcome, client, decidedIn>>

\* aresume: the interrupted node starts over, with the decision made last,
\* whichever action of the run that decision was made on.
Aresume ==
  /\ outcome = "paused" /\ latest # Unset
  /\ Begins(at)
  /\ resume' = approval[latest]
  /\ calls' = [calls EXCEPT !.granted = IF approval[latest] = "approved" THEN @ + 1 ELSE @]
  /\ decidedIn' = IF decidedIn = invocation THEN invocation + 1 ELSE decidedIn
  /\ UNCHANGED <<graph, decision, outcome, client>>

\* The process dies, or its lease is lost: the handler task is gone.
Abandon ==
  /\ phase \in Running
  /\ phase' = "idle" /\ outcome' = "lost" /\ resume' = Unset
  /\ UNCHANGED <<graph, at, left, decision, asked, subSteps, client, history>>
-----------------------------------------------------------------------------
(* How a superstep ends *)

Ends(result) == phase' = "idle" /\ outcome' = result /\ resume' = Unset

\* execute_run_sync's except clauses.
Raises(exc) == Ends(OutcomeOf(exc))

\* The node returned its patch: node.completed, a checkpoint, the next task.
Completes(node) == /\ phase' = "check" /\ at' = node
                   /\ UNCHANGED <<resume, outcome>>

Fails == Raises(OtherException) /\ cause' = "other"

\* What every step of a node leaves alone.
Kept == UNCHANGED <<graph, left, asked, client, invocation>>
-----------------------------------------------------------------------------
(* The loop: LangGraph's limit and end, the node's cancel_check, its start *)

\* Mutant: the limit is not checked.
OutOfStepsNever == FALSE

\* LangGraph looks at the limit before it looks for a next task.
OutOfBudget == left = 0

Reaches ==
  /\ phase = "check" /\ ~OutOfBudget /\ at = End
  /\ Ends("completed")
  /\ UNCHANGED <<at, decision, subSteps, decidedIn, cause, calls>> /\ Kept

Exceeds ==
  /\ phase = "check" /\ OutOfBudget
  /\ Raises(OutOfSteps)
  /\ UNCHANGED <<at, decision, subSteps, decidedIn, cause, calls>> /\ Kept

\* Mutant: the check is made when the thread is invoked, and not again.
CheckCancelOnce ==
  /\ phase = "check" /\ ~OutOfBudget /\ at # End
  /\ IF cancelled /\ left = MaxSteps
     THEN Raises(Cancelled)
     ELSE phase' = "start" /\ UNCHANGED <<resume, outcome>>
  /\ UNCHANGED <<at, decision, subSteps, decidedIn, cause, calls>> /\ Kept

CheckCancel ==
  /\ phase = "check" /\ ~OutOfBudget /\ at # End
  /\ IF cancelled
     THEN Raises(Cancelled)
     ELSE phase' = "start" /\ UNCHANGED <<resume, outcome>>
  /\ UNCHANGED <<at, decision, subSteps, decidedIn, cause, calls>> /\ Kept

\* node.started.  A cancellation committed since the check goes unnoticed.
StartNode ==
  /\ phase = "start"
  /\ phase' = "node"
  /\ left' = left - 1
  /\ calls' = [calls EXCEPT !.late = IF cancelled THEN @ + 1 ELSE @]
  /\ UNCHANGED <<graph, at, decision, resume, asked, subSteps, outcome, client,
                 invocation, decidedIn, cause>>

\* A database call of the loop or of the approval gate raises.
DbFault ==
  /\ \/ phase \in {"check", "gate"}
     \/ phase = "asking" /\ resume = Unset
  /\ Fails
  /\ UNCHANGED <<at, decision, subSteps, decidedIn, calls>> /\ Kept

Runs(types) == phase = "node" /\ TypeOf(graph, at) \in types
-----------------------------------------------------------------------------
(* Ordinary nodes and the supervisor *)

RunLlm ==
  /\ Runs({"llm"})
  /\ \E result \in Completion :
       IF result = "answer"
       THEN Completes(NextNode(graph, at)) /\ UNCHANGED cause
       ELSE Raises(LlmFailed(result)) /\ cause' = result /\ UNCHANGED at
  /\ UNCHANGED <<decision, subSteps, decidedIn, calls>> /\ Kept

\* A configured operation may be unknown.
RunTransform ==
  /\ Runs({"transform"})
  /\ \/ Completes(NextNode(graph, at)) /\ UNCHANGED cause
     \/ Fails /\ UNCHANGED at
  /\ UNCHANGED <<decision, subSteps, decidedIn, calls>> /\ Kept

ValidDecision(d) == d.node \in Ids(graph) /\ TypeOf(graph, d.node) = d.action

\* The model fails, or answers with a decision, which routes if it is valid.
RunSupervisor ==
  /\ Runs({"supervisor"})
  /\ \E result \in Completion :
       IF result = "answer"
       THEN \E d \in Decision \cup {FinalDecision} :
              IF d = FinalDecision \/ ValidDecision(d)
              THEN /\ decision' = d /\ decidedIn' = invocation
                   /\ Completes(d.node)
                   /\ UNCHANGED cause
              ELSE Fails /\ UNCHANGED <<at, decision, decidedIn>>
       ELSE /\ Raises(SupervisorFailed(result)) /\ cause' = result
            /\ UNCHANGED <<at, decision, decidedIn>>
  /\ UNCHANGED <<subSteps, calls>> /\ Kept
-----------------------------------------------------------------------------
(* Capability nodes: each takes its parameters from the decision it finds *)

\* The common start: without a decision the node raises.
Dispatch(type, next) ==
  /\ Runs({type})
  /\ IF decision = Unset THEN Fails
                         ELSE phase' = next /\ UNCHANGED <<resume, outcome, cause>>
  /\ UNCHANGED <<at, decision, subSteps, decidedIn, calls>> /\ Kept

\* The selected tool, if there is one, is gated by its risk.  The nodes of
\* Definitions name no tool of their own in their config.
RunTool ==
  /\ Runs({"tool"})
  /\ IF decision = Unset \/ decision.tool = Unset
     THEN Fails
     ELSE /\ phase' = IF RequiresApproval(decision.tool) THEN "gate" ELSE "tool"
          /\ UNCHANGED <<resume, outcome, cause>>
  /\ UNCHANGED <<at, decision, subSteps, decidedIn, calls>> /\ Kept

RunApproval == Dispatch("approval", "gate")
RunRag      == Dispatch("rag", "rag")
-----------------------------------------------------------------------------
(* The approval gate *)

ActionId == <<at, decision.input>>

\* create_pending commits the row of the action, or finds the one it has.
CreatePending ==
  /\ phase = "gate"
  /\ approval' = [approval EXCEPT ![ActionId] = IF @ = "absent" THEN "pending" ELSE @]
  /\ phase' = "asking"
  /\ UNCHANGED <<graph, at, left, decision, resume, asked, subSteps, outcome, latest,
                 cancelled, history>>

\* interrupt() without an answer: the thread is paused at this node.
Interrupt ==
  /\ phase = "asking" /\ resume = Unset
  /\ asked' = ActionId
  /\ Ends("paused")
  /\ UNCHANGED <<graph, at, left, decision, subSteps, client, history>>

\* Mutant: the answer is not used up.
AnswerKept ==
  /\ phase = "asking" /\ resume # Unset
  /\ IF TypeOf(graph, at) = "tool" /\ resume = "approved"
     THEN phase' = "tool" /\ UNCHANGED at
     ELSE phase' = "check" /\ at' = NextNode(graph, at)
  /\ UNCHANGED <<graph, left, decision, resume, asked, subSteps, outcome, client, history>>

\* interrupt() returns the answer, once.  A refused tool and an approval node
\* only leave a result for the supervisor.
Answer ==
  /\ phase = "asking" /\ resume # Unset
  /\ resume' = Unset
  /\ IF TypeOf(graph, at) = "tool" /\ resume = "approved"
     THEN phase' = "tool" /\ UNCHANGED at
     ELSE phase' = "check" /\ at' = NextNode(graph, at)
  /\ UNCHANGED <<graph, left, decision, asked, subSteps, outcome, client, history>>
-----------------------------------------------------------------------------
(* Tools, knowledge and the subagent *)

Sensitive(tool) == IF RequiresApproval(tool) THEN 1 ELSE 0

\* Whatever the tool returns or raises is a result; a tool that is unknown or
\* denied is an exception.
InvokeTool ==
  /\ phase = "tool"
  /\ IF Invocable(decision.tool)
     THEN /\ calls' = [calls EXCEPT !.gated = @ + Sensitive(decision.tool)]
          /\ Completes(NextNode(graph, at)) /\ UNCHANGED cause
     ELSE Fails /\ UNCHANGED <<at, calls>>
  /\ UNCHANGED <<decision, subSteps, decidedIn>> /\ Kept

\* Out of scope, not found and found are results; a failed embedding raises.
Retrieve ==
  /\ phase = "rag"
  /\ \/ Completes(NextNode(graph, at)) /\ UNCHANGED cause
     \/ Fails /\ UNCHANGED at
  /\ UNCHANGED <<decision, subSteps, decidedIn, calls>> /\ Kept

\* An unknown template or tool in its configuration, and a failed plan, are
\* results of the subagent, which then takes no step.
RunSubagent ==
  /\ Runs({"subagent"})
  /\ subSteps' = 0
  /\ \/ decision = Unset /\ Fails /\ UNCHANGED at
     \/ decision # Unset /\ UNCHANGED cause
        /\ \/ Completes(NextNode(graph, at))
           \/ /\ Allowed \subseteq Registered
              /\ phase' = "subagent" /\ UNCHANGED <<at, resume, outcome>>
  /\ UNCHANGED <<decision, decidedIn, calls>> /\ Kept

\* It ends by its final answer, a failed model call, a tool it may not use, or
\* for lack of steps.
SubagentReturns ==
  /\ phase = "subagent"
  /\ Completes(NextNode(graph, at))
  /\ UNCHANGED <<decision, subSteps, decidedIn, cause, calls>> /\ Kept

\* Mutant: the loop has no bound; its counter starts over.
SubagentCallsOn ==
  /\ phase = "subagent"
  /\ \E tool \in Allowed :
       IF Invocable(tool)
       THEN /\ calls' = [calls EXCEPT !.ungated = IF Sensitive(tool) = 1 THEN 1 ELSE @]
            /\ subSteps' = (subSteps + 1) % (MaxSubSteps + 1)
            /\ UNCHANGED <<phase, resume, outcome, cause>>
       ELSE Fails /\ UNCHANGED <<calls, subSteps>>
  /\ UNCHANGED <<at, decision, decidedIn>> /\ Kept

\* It calls one of its allowed tools, whatever the tool's risk.
SubagentCalls ==
  /\ phase = "subagent" /\ subSteps < MaxSubSteps
  /\ \E tool \in Allowed :
       IF Invocable(tool)
       THEN /\ calls' = [calls EXCEPT !.ungated = IF Sensitive(tool) = 1 THEN 1 ELSE @]
            /\ subSteps' = subSteps + 1
            /\ UNCHANGED <<phase, resume, outcome, cause>>
       ELSE Fails /\ UNCHANGED <<calls, subSteps>>
  /\ UNCHANGED <<at, decision, decidedIn>> /\ Kept
-----------------------------------------------------------------------------
(* The client *)

\* 409 once the run has ended.
Cancel ==
  /\ phase \notin {"new", "refused"} /\ outcome \in Open /\ ~cancelled
  /\ cancelled' = TRUE
  /\ UNCHANGED <<thread, history, approval, latest>>

Resolve(a) ==
  /\ approval[a] = "pending"
  /\ \/ \E status \in {"approved", "rejected"} :
          approval' = [approval EXCEPT ![a] = status] /\ latest' = a
     \/ approval' = [approval EXCEPT ![a] = "expired"] /\ UNCHANGED latest
  /\ UNCHANGED <<thread, history, cancelled>>
-----------------------------------------------------------------------------
Loop == Reaches \/ Exceeds \/ CheckCancel \/ StartNode
NodeStep == RunLlm \/ RunTransform \/ RunSupervisor \/ RunTool \/ RunApproval \/ RunRag \/ RunSubagent
Capability == \/ CreatePending \/ Interrupt \/ Answer \/ InvokeTool \/ Retrieve
              \/ SubagentReturns \/ SubagentCalls
ProgramStep == Loop \/ NodeStep \/ Capability

Next == \/ CreateRun \/ Ainvoke \/ Aresume
        \/ ProgramStep
        \/ DbFault \/ Abandon
        \/ Cancel \/ \E a \in Action : Resolve(a)

Spec == Init /\ [][Next]_vars

\* The event loop runs the handler, and every await returns.  Model and OpenAPI
\* calls have timeouts; of the database, the embedding service and MCP servers,
\* to whose calls the code sets none, it is assumed.
FairSpec == Spec /\ WF_vars(ProgramStep)
-----------------------------------------------------------------------------
(* Properties *)

\* A capability acts on the decision that selected it, made since the thread
\* was last started over: the edges compile_langgraph builds never lead to a
\* capability but from the supervisor, and what an earlier attempt left in
\* control is never acted upon (_decision_from_state).
ActsOnOwnDecision ==
  phase \in {"gate", "asking", "tool", "rag", "subagent"} =>
    /\ decision.node = at /\ decision.action = TypeOf(graph, at)
    /\ decidedIn = invocation

\* A resumed thread asks its client for nothing new: the interrupted node runs
\* again on the checkpointed decision and computes an action_id whose row was
\* committed before the interrupt, so create_pending finds it (_run_tool,
\* _require_approval).
ReaskCreatesNothing == phase = "gate" /\ resume # Unset => approval[ActionId] # "absent"

\* An answer lets at most one sensitive call of a tool node through, and only
\* the decision "approved" lets one through: a rejected, expired or pending row
\* does not (_tool_requires_approval, _require_approval).  An approved row is
\* not used up by it; AgentRuntime's ConsumedOnce is about that.
OneCallPerAnswer ==
  /\ calls.gated <= calls.granted
  /\ calls.granted > 0 => \E a \in Action : approval[a] = "approved"

\* A run of a graph with a supervisor completes only by a final decision its
\* supervisor made since the thread was last started over: what the
\* validator accepts cannot end elsewhere ("supervisor_final").
EndsBySupervisor ==
  outcome = "completed" /\ Supervisors(graph) # {} =>
    decision = FinalDecision /\ decidedIn = invocation

\* After a cancellation is committed at most one more node is started, over
\* all attempts (_make_node checks before each node).
StopsAfterCancel == calls.late <= 1

\* An attempt is retried only after an exception of a kind that may pass:
\* neither the recursion limit nor a model failure the gateway calls permanent
\* burns another attempt (_normalize_model_error, _run_llm, _run_supervisor,
\* _classify_failure, execution_is_retryable).
OnlyTransientRetried ==
  phase = "idle" /\ outcome = "retryable" =>
    \/ cause = "other"
    \/ cause \in Failure /\ NormalizeModelError(cause).recoverable

\* NodesHaveRoutes of GraphDsl for the run's definition.
SearchMatchesRunnable == phase = "new" => NodesHaveRoutes(graph)

Thread == INSTANCE ThreadContract WITH
            Actions <- Action,
            running <- phase \in Running,
            answer  <- resume

\* However nodes, approvals, failures and cancellations interleave, the thread
\* behaves as ThreadContract says.
ImplementsThread == Thread!Spec

\* Every invocation ends: whatever the model decides, the recursion limit and
\* the subagent's step limit end the loops.
InvocationEnds == phase \in Running ~> phase \notin Running

-----------------------------------------------------------------------------
(* What the repository says and the code does not do *)

\* app/graph/langgraph_runtime.py:439, "Sensitive tools must pass the human
\* approval gate before invocation."
SensitiveGated == calls.ungated = 0
=============================================================================

# A formal model of the agent runtime

TLA+ modules, TLC runs and TLAPS proofs about the runtime of this repository:
a FastAPI front end, PostgreSQL as queue, store and event log, and worker
processes that drive LangGraph programs. `PROJECT.json` maps every definition to
the lines it stands for; paths below are relative to `src/`.

## 1. Inventory

| Component | State it keeps | Operations | Interacts through |
|---|---|---|---|
| Durable store (`app/models/db.py`, `app/services/*_repository.py`) | `runs`, `jobs`, `approvals`, `run_events` | one SQL statement or transaction each | shared by all processes |
| Worker (`app/runtime/worker.py`) | the claimed job, a heartbeat task, a handler task | claim, complete, fail, heartbeat, run status, `run.failed` | store; calls the run manager |
| Run manager (`app/runtime/run_manager.py`) | none between calls | create a run, execute a job: invoke or resume the graph, classify, drain, store the outcome | store, emitter, program |
| Event emitter (`app/services/events.py`) | pending persist tasks, a lock | emit, persist, drain | event repository |
| Endpoints (`app/api/runs.py`, `approvals.py`) | none | create, cancel, approve, reject (or expire) | store |
| LangGraph program (`app/graph/langgraph_runtime.py`) | checkpointed thread: position and interrupt | nodes, supervisor loop, approval gate, cancellation check | emitter, approvals, gateway, tools |
| Event stream (`app/api/streaming.py`) | a cursor | replay, tail, end | event repository |
| Graph DSL (`app/graph/validator.py`, `compiler.py`, `routing.py`) | none | validate, compile, route | run manager |
| Model catalog and gateway (`app/services/model_catalog.py`, `app/models_gateway.py`) | cached snapshot | refresh, stale fallback, resolve a policy, call, normalise errors | LiteLLM |
| Subagent (`app/capabilities/subagent.py`) | messages of one task | bounded loop over allowed tools | gateway, tools |
| Tools (`app/tools/`) | registry and scope of a process | discover, register, invoke | MCP and OpenAPI servers |
| RAG (`app/services/rag_repository.py`, `embeddings.py`) | knowledge bases, documents, chunks | create, ingest, retrieve | gateway, store |
| Memory (`app/capabilities/memory_store.py`) | none | add, search, list | a hosted service |
| Telemetry, settings, web UI | none the runtime reads | | |

What is hard here is the delivery of jobs. Delivery is at least once: a lease can
run out under a live worker, so two attempts of one job may run side by side,
each writing the run's row and timeline, while a client cancels the run or
resolves an approval. No operation that spans two transactions is atomic:
`run_once` writes the job and the run apart, `cancel_run` the run and the event,
the approval gate the approval and (much later) the paused status. What makes
each component correct:

* worker: one handler per job unless a lease ran out; only the holder of the
  lease settles a job; attempts are told apart; jobs of dead workers come back;
* run status: what ended stays ended and agrees with the error column;
* timeline: one terminal event, durable before a client sees `completed`, no
  `run.completed` before `run.started`; every ended run gets its event;
* approvals: one further delivery for each approval resolved in time; a thread
  takes an action as approved only if somebody approved;
* stream: a client receives the timeline in order, without gap or repetition, up
  to and including the terminal event, whatever ends its connections.

Inside one delivery the hard part is the checkpointed thread, which outlives the
attempt: a retry finds the decisions of the attempt before, a resumption runs the
interrupted node again from its start, and a model chooses every step. Beside the
runs, one cached list of models is shared by all requests of a process, and
documents are ingested through the same provider. What makes these correct:

* graph DSL: what the validator finds reachable can be reached in the program;
* program: a capability acts on the decision that selected it; an answer lets
  one call through; a graph with a supervisor ends by its decision; nothing runs
  on after a cancellation; every loop ends; only passing failures are retried;
* catalog: no refresh overtakes another, nothing old is handed out as fresh, and the
  lock is always released;
* ingestion: chunking ends and covers the text; each chunk has its own vector.

## 2. Modules

    RuntimeStore ──┬── JobWorker ──┐
                   └── RunApi ─────┴── AgentRuntime ── MCAgentRuntime
    RunContract  <── (refinement) ──────────┘
    RuntimeStore ── EventStream ──── StreamedRuntime (with AgentRuntime) ── MCStreamedRuntime

    GraphDsl, ModelCalls, ToolCatalog ── GraphProgram ── MCGraphProgram
    ThreadContract <── (refinement) ─────────┘

    ModelProvider ──┬── ModelCatalog ──┐
                    └── Knowledge ─────┴── ModelServices ── MCModelServices

    AgentRuntime ── AgentRuntimeProofs ──┬── FencingProofs ── ContractProofs ──┬── TimelineProofs
                                         └── ApprovalProofs ───────────────────┘
    StreamedRuntime, ContractProofs ── StreamProofs
    GraphProgram ── ProgramProofs          ModelServices ── ServiceProofs

* **RuntimeStore** is the database: one function per table, one operator per
  statement. `run` has the status and which writer set the error column; `job`
  is in `created_at` order; `expired` stands for `lease_expires_at < now`;
  `approval` is keyed by run and canonical action (`action_id`), `latest` is the
  row `order_by(resolved_at.desc())` yields; `log` holds the life-cycle events;
  `asked` and `granted` are the checkpointed thread: what it is interrupted
  for, and what `_require_approval` returned as approved.
* **JobWorker** is a worker process: `run_once` with `execute_job` as its
  handler. `worker[w].pc` names the transaction or await it is at; `job` and
  `attempt` are the detached row of `claim_next`; `outcome` is the status and
  termination reason; `outbox` the persist tasks, which survive the handler. Any
  due job may be claimed, since SKIP LOCKED passes over rows others hold. The
  graph is one external step that ends, raises, notices a cancellation or asks for
  an approval. Asking is two steps: `RequestApproval` commits the row (`asking`),
  `Interrupt` pauses the thread, and a client may resolve the row in between.
* **RunApi** has create, cancel (two transactions), and the resolution of an
  approval before or after its expiry.
* **AgentRuntime** composes them, adds the clock that expires leases, crashes and
  failing database calls, and states the properties and the inductive invariant.
* **RunContract** is the abstract specification: status and terminal event of a
  run, as a client may see them change.
* **MCAgentRuntime** declares the symmetry; the `.cfg` files give the instances.
* **EventStream** is the generator behind `GET /runs/{id}/stream` and the browser's
  event source. `pc` separates its two reads, the events and then the status, and
  each `yield`; `cursor` and `pending` are its local variables; an event's id is its
  position in the timeline. `seen` is what the client received over all
  connections; it comes back with `Last-Event-ID`, or not at all after a
  terminal event, which makes it close its end.
* **StreamedRuntime** lets such clients read the store of a running AgentRuntime.
* **GraphDsl** is the graph language as pure definitions: `ValidGraph` is
  `validate_graph`, one operator per check; `Compilable` and `NextNodes` are what
  `compile_langgraph` accepts and the edges it builds. `route_next` of `routing.py`
  is not modelled: only its tests call it. `nests` stands for the nested nodes of a config, and
  `conditional` for a condition, whose text nothing that runs compares.
* **ModelCalls** follows a failed model call from `_normalize_model_error` over the
  exception of the node to the decision about a retry. `Failure` has one value
  for each case the normalisation tells apart.
* **ToolCatalog** is the registry of a process and the scope: which tool is
  sensitive, which can be invoked, and which offer of a name counts. `Denied` is what
  the patterns of a scope come to.
* **GraphProgram** is the thread of one run. `phase` names the await or the
  branch a superstep is at, `at` the node; `decision` is
  `control.supervisor_decision`, whose `node` is the `capability_node_id` or else the
  `target`, as the runtime reads it; `asked` is what the thread is interrupted for, and
  `resume` its answer: the decision of the run's latest resolved approval, whatever that
  approval was asked for. At `gate` the row is created, at `asking` it is committed
  and the thread about to interrupt. `left` and `subSteps` count down the two limits. `invocation`, `decidedIn`, `cause`
  and `calls` are history variables. The worker appears as `Ainvoke`, `Aresume`
  and `Abandon`, the client as `Cancel` and `Resolve`; when the worker resumes is AgentRuntime's
  subject. A supervisor may decide anything its schema can express.
  Messages, results and prompts are left out; so is the configuration that
  gives a tool node a tool of its own.
* **ThreadContract** is the abstract thread: invoked or resumed, answered, asking,
  ended; it is resumed only while it is interrupted and asks only once its answer is used. It is what JobWorker's one graph step assumes of the program.
* **ModelProvider** is the LiteLLM proxy, external: reachable or not, with a list of
  models that changes. **ModelCatalog** is `ModelCatalogService` under concurrent
  `create_run`s: `queue` is the asyncio lock with its waiters, `phase` where a request
  stands in `get_snapshot`, `refreshed` when a list was stored. A snapshot is named by
  the list it was built from; an answer without models (`PublishesModels`) is a failed
  refresh. **Knowledge** is ingestion: a text is its length, a
  piece its bounds, a vector the position of the text it stands for; one action is
  one round of `chunk_text`'s loop. **ModelServices** puts both beside the provider.
* The eight modules named `...Proofs` hold the theorems, section 4.

How a value is abstracted: texts, payloads, errors and models are left out;
`error` keeps only whether the column is empty, set by an attempt or by the
worker, which is what `ErrorMatchesStatus` needs. Timestamps become the two facts
the code asks of them (is a lease past, is an approval past). Events other than
`run.started` and the terminal ones (`node.*`, `llm.*`, `approval.required`,
`run.attempt_failed`) are not stored, but their persist tasks may fail (`DbFault`
at `draining`).

An operator whose comment begins with "Mutant" is a plausible bug of the
definition after it; no specification uses it. Each shows that the property named
with it in `PROJECT.json` fails when the code has that bug.

## 3. Runs

| Run | Instance | Checks |
|---|---|---|
| `races` | 2 workers, 1 job, 2 attempts, 1 stall, 1 crash, 1 fault | `IInv` and its parts `TypeOK`, `AttemptsDistinct`, `ExclusiveUnlessStalled`, `ErrorMatchesStatus`, `RequeuedHasJob`, `OnlyHolderSettles`, refinement `ImplementsContract` |
| `approvals` | 2 workers, 2 actions, 2 jobs, 1 stall | `IInv`, `NothingGrantedUnapproved`, `StartedBeforeCompleted`, `StartedOnce` |
| `reclaim` | 2 workers, 1 job, 1 crash, fair | `OrphanReclaimed` |
| `streams` | 1 worker, 1 action, 3 jobs, 1 client, 2 broken connections, fair | `Replayed`, `ToldIsTrue`, `DeliveriesAuthorised`, `VerdictDelivered`, `CompletionFollows`, `RunSettles`, `VerdictAnnounced` |
| `programs` | 174 initial states (definition and tool offers), 3 invocations, 2 inputs, 4 supersteps, 2 subagent steps, fair | `TypeOK`, `ActsOnOwnDecision`, `ReaskCreatesNothing`, `OneCallPerAnswer`, `EndsBySupervisor`, `StopsAfterCancel`, `OnlyTransientRetried`, `SearchMatchesRunnable`, refinement `ImplementsThread`, `InvocationEnds` |
| `services` | 2 callers, 1 writer, 3 lists, 3 policies, clock 0..2, fair | `TypeOK`, `NeverGoesBack`, `StaleIsMarked`, `CallersAnswered`, `ChunkingEnds`, `ChunksCoverText`, `VectorsMatchChunks` |
| `resume`, `stranded`, `budget`, `grants`, `consumed`, `ungated` | small | each refutes a sentence of the repository, section 5 |

Bounds, all CONSTANTs: `MaxJobs` rows of `jobs` (creation and re-enqueueing are
disabled beyond it), `MaxAttempts` = `jobs.max_attempts` (3 in the code, 2 in the
runs: one retry and then exhaustion, the same branches), `MaxStalls`,
`MaxCrashes`, `MaxFaults` environment failures. One run is enough: no statement
reads two runs' rows, and workers are the only thing runs share. Two workers give
every race between a holder and its successor; one stall gives the takeover, and
in `budget` two give the delivery beyond the budget. One client is enough, since
streams share nothing but the store; `MaxCuts` is the number of connections that
break, beside those the server ends by itself; nothing else fails in `streams`, since a
failed call or a crash only shortens the timeline a client reads. In `streams` three jobs
exceed what one action may authorise, so a second enqueue would show.
`CHECK_DEADLOCK FALSE` everywhere: with every run ended and no client the system
rests, and it stops when the bounds are spent.

In `programs` the definitions are those of MCGraphProgram: one for each case of the
compiler and for each reason of the validator, and every choice of at most two
edges over three nodes. Supersteps are 4 for 20 and subagent steps 2 for 8: a
supervisor, a capability, the supervisor again and the end fit into them, and so
do their exhaustion. Three invocations allow a failure, a pause and a
resumption; with two inputs one node can ask for two actions
of a tool, so an answer can meet another action than its own. The tools are one that only reads, one
that a later server redeclares as destructive, and one the scope denies. In
`services`, `Ttl` 1 and two ticks make a list fresh, too old and too old for good;
the provider publishes a list, then an empty one, then one that lacks a model of the first;
the balanced tier has no structured output; a text of length 4 in chunks of 2 and 3 with overlaps up to 2 has one, two and
three chunks, and overlaps the endpoint has to refuse.

Fairness (`Fairness` in AgentRuntime) is weak fairness of what the code does on
its own: polling (`run_forever`), each step of a coroutine, each persist task, the
append after a committed cancellation, and the expiry of a dead process's lease.
That graph invocations end rests on the recursion limit of 20 and on calls that return:
model and OpenAPI calls have timeouts, but none is set for the database, the embedding service
and MCP servers, whose answers are assumed. Clients, heartbeats, stalls and failures are never assumed. `RunSettles` and
`VerdictAnnounced` except behaviours in which something failed, because the code
then does strand runs (hazards list); they are checked with one worker, because
with two the late `_set_run_status(queued)` of a stalled one can overwrite its
successor's outcome. Symmetry is used in runs without liveness only.
`programs` assumes that a started invocation goes on (`ProgramStep`), the awaits of its calls
included, on the same grounds; neither invocations, nor cancellations, nor resolutions
are assumed. `services` assumes that the event loop serves each request and that a
fetch returns or times out; that the provider recovers is not assumed.
`streams` adds that generators run and that an event source whose connection ended
connects again; `VerdictDelivered` fails without the latter, because a stream that
finds the run ended after a poll that found nothing stops without a last look.

## 4. Proofs

Proved are all invariants and action properties that the passing runs check, and
both refinements, for all finite or infinite sets of runs, workers, actions,
clients, requests and documents, all definitions, tools, texts and lists, and all
bounds. TLC found out first whether each inductive invariant holds: `IInv` is an
invariant of two runs; the others were checked once over the state spaces of the
runs and are stated beside their proofs.

What is assumed of the constants, and why it may be:

* `StoreAssumption`, `BoundAssumption`: counts and bounds are natural numbers,
  `MaxAttempts` is positive (the column's default is 3), `None` is nobody.
* `CatalogAssumption`, `ProviderAssumption`: times are natural numbers, published
  lists are named apart, there is one, and a model is a string.
* `KnowledgeAssumption`: lengths and overlaps are natural numbers, sizes positive,
  which the endpoint's schema demands.
* `DefinitionsAssumption`: nodes and edges have the shape of `NodeDef` and
  `EdgeDef`, and no node is called `__end__`, which `add_node` refuses. Nothing
  more: what the validator rejects is part of `Definitions`.
* `ProgramAssumption`, `UnsetAssumption`, `OffersAssumption`: limits are natural numbers,
  Python's `None` is no decision or answer, and tools are declared in bootstrap order.

**The runtime**, in five modules, each about one part of the invariant and each
using the parts before it.

* AgentRuntimeProofs, `TypeCorrect`. Types alone are not inductive: a worker writes
  the run of the job it holds, so that reference must be good. `Typed` adds `Linked`:
  jobs, busy workers and pending emissions refer to existing rows, and a handler
  about to store its outcome has one. Each action is split into its effect on rows
  (`RowsKept`) and on one worker.
* FencingProofs. `Fenced`: a held attempt is at most the row's count, and equal to it
  for the lease owner. Every step but `Claim` keeps or gives up holds and leases;
  `Claim` counts past all held attempts. From it follow `AttemptsAlwaysDistinct` and
  `OnlyTheHolderSettles`. `Exclusive` adds, for executions without a stall, that an
  expired lease belongs to a dead process and a handler owns its job: `HandlersExclude`.
  `Owned` says where the job of a process may be: its own, claimed again since, or,
  after it gave the job up with attempts left, waiting. `RequeueHasJob` needs it,
  because `fail()` compares the row's count and `run_once`, a transaction later, the
  one it claimed with.
* ContractProofs. A step rewrites the row of one run or appends to the timeline of one
  run, never both. `Told` is `Announced` with the
  fact that only a completed execution promotes its run, without which `Announced` is
  not inductive. It gives `Invariant` (all of `IInv`), `ErrorAgrees`, and
  `RuntimeImplementsContract`: a terminal event becomes visible only as the verdict the
  run's status already allows, and no status changes against a verdict.
* ApprovalProofs. What is approved stays approved, so a thread granted something
  follows an approval (`NothingGranted`). A resolution resolves one action and adds at
  most one job, so the number of jobs never runs ahead (`DeliveriesAlwaysAuthorised`).
* TimelineProofs. `Begun`, while no call fails: an attempt past the check for
  `run.started` has the event in the timeline or in its outbox, and a pending
  completion stands behind a pending start (`CompletionsFollowStarts`). `Solo`, while no
  lease is lost either: emissions belong to the attempt their process is in, none is
  of a start the timeline has, and a run with a second job has started, since a second job follows a pause
  (`StartsOnce`). This is where exclusion is needed: `has_event` and `emit` are two steps.

**The streams**, StreamProofs. `Followed` relates generator and client: while a stream
is open its cursor is the number of events received, and `pending` holds the positions right
behind it. It is inductive because timelines only grow and a request starts behind what
was received (`ReplayedAlways`). `StreamedIsRuntime`: readers change nothing, so all
theorems of the runtime hold with clients; with `Announced` it gives `ToldIsAlwaysTrue`.

**The program**, ProgramProofs. Its first part is about every definition. A node that is
dispatched by no decision has at most one edge; `Lead` is the set of places such
edges go to from a node. The rounds of the validator's search grow and stop
(`SeenIsRound`, `SeenClosed`). Hence `EveryNodeHasRoutes`; hence also that the edges from
the entry of an accepted graph with a supervisor never lead to the end (`EntryNeverEnds`), and to no capability if they
lead to the supervisor (`EntryDispatchesFirst`). The second part is about the
thread. The parts of `Invariant`:

* `Located`: an invocation is on the `Lead` of the entry, or where its own decision put it
  (`Dispatched`). `Decided`: once anything was decided, an invocation that starts
  over meets its supervisor before any capability. These two keep a capability from a decision
  left in the checkpoint: `OwnDecisions`, `SupervisorEnds`.
* `Pausing`, `Answering`: a paused thread, and one with an answer, is on the way to the gate
  of an action whose row is committed, so it asks for nothing new (`ReaskFindsRow`).
  `Budget`: calls made plus the answer not yet spent (`Unspent`) are at most the resumptions
  that handed over "approved"; `Licensed`: there is none before an approval. Together they
  are `AnswersCoverCalls`. They bound calls by answers, not by approvals, which are
  not used up (section 5).
* `Stopping`: after a late node the thread does not start another (`CancellationStops`).
  `Untroubled`: a running invocation has no cause of failure yet (`PermanentNotRetried`).

`ProgramImplementsThread` maps each of the program's steps to one of ThreadContract or to
none. `SearchAlwaysMatches` puts the first part to the definition of a run.

**The services**, ServiceProofs. `CatalogInv`: a refresh under way is the lock holder's, what
it fetched is not older than the snapshot, and the clock of the cache is that of its last
successful refresh (`CatalogNeverGoesBack`, `StaleIsAlwaysMarked`). Without the first part
another request could store a newer list in between; without the last a failed
refresh would rejuvenate the cache. `TypesInv` adds that nobody is twice in the lock's queue. `KnowledgeInv`:
the chunks made so far are a chain up to `start`, of at most `start` pieces
(`ChunkingAlwaysEnds`, `ChunksAlwaysCoverText`); the next round starts further on because
`create_knowledge_base` demands an overlap smaller than the size (`ChunkKeeps`).
`VectorsAlwaysMatch` rests on `RowsSorted`: a row of the provider's answer that has
i - 1 smaller ones before it is the i-th, by counting.

The library's induction rules take operators as parameters and cannot be used here, so an
induction over numbers is one over a set of numbers: the least one that
lacks the property (`LeastNumber`, from the well-foundedness of `<`). For the same reason
`Seen` is a recursive function, `ByIndex` counts instead of sorting, and edges are picked
by index.

Only model-checked: liveness (`RunSettles`, `VerdictAnnounced`, `OrphanReclaimed`,
`VerdictDelivered`, `CompletionFollows`, `InvocationEnds`, `CallersAnswered`), which is out of
the provers' reach, and the counterexamples of section 5, which are executions.

## 5. Where the code departs from its documentation

1. `resume`: a paused and then approved run is invoked afresh. Re-enqueueing sets
   the run to `queued` and `run_once` to `running` before `execute_run_sync` asks
   whether it is `paused`, so the resumption path is reached only through races.
   Without the resumption the approved action asks for approval again.
2. `stranded`: an expired approval, or one resolved before the run is stored as
   paused, leaves a paused run that nothing will continue.
3. `budget`: takeovers of expired leases are not compared with `max_attempts`.
4. `grants`: a thread takes the latest resolved approval of its run as the answer
   to whichever action it is interrupted for.
5. `ungated`: a subagent calls a sensitive tool of its allowlist without the
   approval gate, which only tool nodes pass.
6. `consumed`: `docs/TEST_ORACLES.md:190` has an approved action consumed at most once.
   Nothing marks the row as used; a node that asks for the same action again finds it,
   and the next resumption is granted by it again. `OneCallPerAnswer` therefore
   counts answers, not approvals.

Two more are described here without a run:

* `docs/USAGE.md:77`, and the error matrix of
  `tests/test_gateway_call_budget.py:124-148`, have a refused connection or a
  5xx of the provider retried by the worker. `_classify_failure` calls only timeouts and
  rate limits recoverable (`run_manager.py:356-361`), so such a failure of an llm node
  ends the run at its first attempt; `LlmFailed` models it. `OnlyTransientRetried` does not
  call that right: it says only that nothing permanent is retried, and would hold
  of the documented behaviour too. A supervisor's model failures are never retried.
* `run_manager.py:278` says that `run.started` is emitted once per run, and
  `docs/CODE_REVIEW_FINDINGS.md` lists the duplication (A4) as fixed. `has_event` and the
  emission are two steps and no index covers `run.started`. Worker 1 finds no event and
  stalls; its lease runs out; worker 2 claims the job, finds none either and stores one;
  worker 1 goes on and stores another. `StartedOnce` excepts lost leases and failed calls.

Further facts met on the way:

* `run.completed` is durable before the status. A cancellation that commits in between
  makes the run `cancelled`, the unique index refuses its `run.cancelled`, and the timeline
  of a cancelled run ends in `run.completed`. RunContract allows this, and so does
  `CompletionFollows`, which promises one of the two.
* A `completed`, `failed` or `cancelled` row is still rewritten (error, output,
  timestamp) by a late attempt with the same status.
* The worker writes the run's status after it released the job. Worker 1
  fails an attempt and sets the job to `retry_wait`; worker 2 claims it, pauses
  the run and completes the job; worker 1 then writes `queued`. Approving the action
  enqueues a job only if the run is `paused`, so the run stays `queued` without one.
  `retry_delay_seconds` makes this rare, not impossible.
* The validator accepts the entry START, and edges of a supervisor or a capability
  to other nodes; `compile_langgraph` refuses the one and drops the others.
  `SearchMatchesRunnable` has this as its premise (`PlainDispatch`).
* A capability that is the entry, or stands in a graph without a supervisor, always
  fails for lack of a decision, with the reason `error`, and is retried to exhaustion.
* The recursion limit counts anew with every resumption and retry.
* A subagent uses the configured default model, not the model frozen into the run.
* `GET /models` and `create_run` each have a catalog of their own, so a client may be
  shown a list that its run is not resolved against.

## 6. Plan

Models and proofs planned at first are done. What would say more:

1. GraphProgram under AgentRuntime in place of the one graph step, with the gate's
   events. Today ThreadContract connects the two: the program is proved to implement it,
   and the model of the worker assumes it.
2. The hazards no property covers, most of them a step that fails between two
   transactions: the code has no repair that a property could be about.
3. Safety under weaker premises: how often `run.started` can appear when leases are lost.

Not modelled, and not planned: the memory adapter and the wire protocols of MCP and
OpenAPI (stateless calls of other services), telemetry, settings, the read-only
endpoints, the YAML loader, the web UI's pages, `RuntimeGuard` (nothing uses it), and
tables only they use, and `route_next`, which only its tests call.

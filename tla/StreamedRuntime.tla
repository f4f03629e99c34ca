--------------------------- MODULE StreamedRuntime ---------------------------
(***************************************************************************)
(* AgentRuntime with clients that follow a run's event stream while        *)
(* workers append to it.  The streams only read the store.                 *)
(***************************************************************************)
EXTENDS AgentRuntime, EventStream

CONSTANT MaxCuts  (* bound: connections that break                         *)
ASSUME CutsAssumption == MaxCuts \in Nat

VARIABLE cuts

streams    == <<stream, seen, cuts>>
streamVars == <<vars, streams>>

StreamedInit == Init /\ StreamInit /\ cuts = 0

\* What is not in the store stays as it is when a stream moves.
Elsewhere == <<local, announcing, bounds>>

StreamNext ==
  \E c \in Clients :
    \/ /\ Generate(c) \/ \E r \in Runs : Connect(c, r)
       /\ UNCHANGED <<Elsewhere, cuts>>
    \/ /\ Disconnect(c)
       /\ cuts < MaxCuts /\ cuts' = cuts + 1
       /\ UNCHANGED Elsewhere

StreamedNext == \/ Next /\ UNCHANGED streams
                \/ StreamNext

\* What the runtime does on its own (Fairness), generators that run, and
\* event sources that connect again.  Nothing obliges a client to open a
\* stream or a connection to last.
StreamedSpec ==
  /\ StreamedInit /\ [][StreamedNext]_streamVars
  /\ Fairness
  /\ \A c \in Clients :
       /\ WF_streamVars(Generate(c) /\ UNCHANGED <<Elsewhere, cuts>>)
       /\ WF_streamVars(Reconnect(c) /\ UNCHANGED <<Elsewhere, cuts>>)
-----------------------------------------------------------------------------
\* Over all its connections a client receives the timeline from its first
\* event on, each event once and in order, whatever is appended meanwhile
\* (list_after, the cursor, Last-Event-ID).
Replayed ==
  \A c \in Clients : seen[c] # << >> =>
    /\ Len(seen[c]) <= Len(Timeline(c))
    /\ \A i \in 1 .. Len(seen[c]) : seen[c][i] = Timeline(c)[i]

\* Whoever has opened a stream gets the run's terminal event, also when it
\* was appended between the generator's last poll and its look at the
\* status, which ends the stream without it: the client connects again.
VerdictDelivered ==
  \A c \in Clients : \A r \in Runs :
    stream[c].run = r /\ HasTerminal(r) ~> stream[c].pc = "closed"

\* A client that was told of a failure or a cancellation reads a run that
\* ended in one, and a later read shows no other end (FailRun before
\* _emit_run_failed, cancel_run's commit before run.cancelled).
ToldIsTrue ==
  \A c \in Clients : stream[c].pc = "closed" =>
    LET e == seen[c][Len(seen[c])]
        s == run[stream[c].run].status
    IN /\ e = "run.failed" => s \in {"failed", "cancelled"}
       /\ e = "run.cancelled" => s = "cancelled"

\* A client told that its run is completed reads a run that is completed or
\* was cancelled, at once or after the worker has stored the outcome, unless
\* a process or its database fails in between.
CompletionFollows ==
  \A c \in Clients : \A r \in Runs :
    stream[c].run = r /\ stream[c].pc = "closed" /\ seen[c][Len(seen[c])] = "run.completed"
    ~> \/ run[r].status \in {"completed", "cancelled"}
       \/ stalls + crashes + faults > 0
=============================================================================

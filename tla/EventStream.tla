----------------------------- MODULE EventStream -----------------------------
(***************************************************************************)
(* GET /runs/{id}/stream: a generator that replays a run's timeline from a *)
(* cursor and then polls it, and the browser's EventSource at its other    *)
(* end, which reconnects with the id of the last event it received.  The   *)
(* id of an event is its position in the timeline, so that 0, as in        *)
(* after_seq = -1, is before the first.                                    *)
(***************************************************************************)
EXTENDS RuntimeStore

CONSTANT Clients  (* event sources, each opened for one run                *)

VARIABLES
  stream,       (* the server's generator for each client                  *)
  seen          (* the events each client received, over all connections   *)

\* Off: no connection; closed: the client has its terminal event.
StreamPc  == {"off", "polling", "sending", "checking", "closed"}
StreamRow == [pc : StreamPc, run : Runs \cup {None}, cursor : Nat, pending : Seq(Nat)]

NoStream == [pc |-> "off", run |-> None, cursor |-> 0, pending |-> << >>]

StreamTypeOK == /\ stream \in [Clients -> StreamRow]
                /\ seen \in [Clients -> Seq(Event)]
StreamInit   == /\ stream = [c \in Clients |-> NoStream]
                /\ seen = [c \in Clients |-> << >>]

Timeline(c) == log[stream[c].run]
-----------------------------------------------------------------------------
\* list_after: the events past the cursor, by seq.  Sequence numbers are
\* allocated under a lock held to the commit, so none appears behind it.
ListAfter(r, cursor) == [k \in 1 .. (Len(log[r]) - cursor) |-> cursor + k]

\* Mutant: Last-Event-ID is ignored.
ConnectAfresh(c, r) ==
  /\ stream[c].pc = "off"
  /\ stream[c].run \in {None, r}
  /\ Exists(r)
  /\ stream' = [stream EXCEPT ![c] = [pc |-> "polling", run |-> r,
                                      cursor |-> 0, pending |-> << >>]]
  /\ UNCHANGED <<store, seen>>

\* The request: 404 for an unknown run, and Last-Event-ID once there is one.
Connect(c, r) ==
  /\ stream[c].pc = "off"
  /\ stream[c].run \in {None, r}
  /\ Exists(r)
  /\ stream' = [stream EXCEPT ![c] = [pc |-> "polling", run |-> r,
                                      cursor |-> Len(seen[c]), pending |-> << >>]]
  /\ UNCHANGED <<store, seen>>

\* Mutant: an ended run ends the stream before its events are sent.
PollStatusFirst(c) ==
  LET r       == stream[c].run
      pending == ListAfter(r, stream[c].cursor)
  IN /\ stream[c].pc = "polling"
     /\ stream' = [stream EXCEPT ![c].pending = pending,
                                 ![c].pc = IF run[r].status \in {"paused"} \cup TerminalStatus
                                           THEN "off"
                                           ELSE IF pending = << >> THEN "checking" ELSE "sending"]
     /\ UNCHANGED <<store, seen>>

Poll(c) ==
  LET pending == ListAfter(stream[c].run, stream[c].cursor)
  IN /\ stream[c].pc = "polling"
     /\ stream' = [stream EXCEPT ![c].pending = pending,
                                 ![c].pc = IF pending = << >> THEN "checking" ELSE "sending"]
     /\ UNCHANGED <<store, seen>>

\* One yield.  After a terminal event the generator returns and the client
\* closes its end; an event yielded to a connection already gone is a
\* Disconnect before it.
Send(c) ==
  LET seq == Head(stream[c].pending)
      e   == Timeline(c)[seq]
  IN /\ stream[c].pc = "sending"
     /\ seen' = [seen EXCEPT ![c] = Append(@, e)]
     /\ stream' = [stream EXCEPT
          ![c].cursor = seq,
          ![c].pending = Tail(@),
          ![c].pc = IF e \in TerminalEvent THEN "closed"
                    ELSE IF Len(stream[c].pending) = 1 THEN "polling" ELSE "sending"]
     /\ UNCHANGED store

\* Nothing was pending when it polled: a run that is paused or has ended by
\* now ends the stream, any other is polled again.
CheckStatus(c) ==
  /\ stream[c].pc = "checking"
  /\ stream' = [stream EXCEPT ![c].pc =
       IF run[stream[c].run].status \in {"paused"} \cup TerminalStatus THEN "off" ELSE "polling"]
  /\ UNCHANGED <<store, seen>>

\* The connection breaks; events read and not sent are gone with it.
Disconnect(c) ==
  /\ stream[c].pc \in {"polling", "sending", "checking"}
  /\ stream' = [stream EXCEPT ![c].pc = "off"]
  /\ UNCHANGED <<store, seen>>

\* The generator's own steps.
Generate(c)  == Poll(c) \/ Send(c) \/ CheckStatus(c)
\* EventSource connects again whenever a connection it opened has ended.
Reconnect(c) == stream[c].run # None /\ Connect(c, stream[c].run)
=============================================================================

----------------------------- MODULE StreamProofs -----------------------------
(***************************************************************************)
(* A client receives the timeline, each event once and in order.  The      *)
(* argument: the timeline only grows (LogGrows), and while a stream is     *)
(* open its cursor is what the client has received, with the pending       *)
(* events right behind it (Followed).                                      *)
(***************************************************************************)
EXTENDS StreamedRuntime, ContractProofs

\* What is in a timeline stays there, at its position.
LogGrows ==
  \A r \in Runs : /\ Len(log[r]) <= Len(log'[r])
                  /\ \A i \in 1 .. Len(log[r]) : log'[r][i] = log[r][i]

\* What a client has received of a run's timeline.
Received(c) ==
  /\ Len(seen[c]) <= Len(Timeline(c))
  /\ \A i \in 1 .. Len(seen[c]) : seen[c][i] = Timeline(c)[i]

\* What a generator is about to send.
Behind(c) ==
  /\ stream[c].cursor = Len(seen[c])
  /\ stream[c].pc = "sending" =>
       /\ Len(stream[c].pending) > 0
       /\ Len(seen[c]) + Len(stream[c].pending) <= Len(Timeline(c))
       /\ \A k \in 1 .. Len(stream[c].pending) : stream[c].pending[k] = Len(seen[c]) + k

FollowedBy(c) ==
  /\ stream[c].run = None => stream[c].pc = "off" /\ seen[c] = << >>
  /\ stream[c].run # None => Received(c)
  /\ stream[c].pc \in {"polling", "sending", "checking"} => Behind(c)

Followed == StreamTypeOK /\ \A c \in Clients : FollowedBy(c)

-----------------------------------------------------------------------------
\* An append leaves a timeline's earlier events alone (append_many).
LEMMA AppendGrows ==
  ASSUME StoreTypeOK, NEW r \in Runs, NEW e \in Event, log' = AppendEvent(r, e)
  PROVE  LogGrows
  <1>1. ASSUME NEW s \in Runs
        PROVE  /\ Len(log[s]) <= Len(log'[s])
               /\ \A i \in 1 .. Len(log[s]) : log'[s][i] = log[s][i]
    <2>0. log \in [Runs -> Seq(Event)] /\ log[s] \in Seq(Event)
      BY DEF StoreTypeOK
    <2>1. log'[s] = log[s] \/ log'[s] = Append(log[s], e)
      BY <2>0 DEF AppendEvent
    <2>2. CASE log'[s] = log[s]
      BY <2>0, <2>2
    <2>3. CASE log'[s] = Append(log[s], e)
      BY <2>0, <2>3
    <2> QED
      BY <2>1, <2>2, <2>3
  <1> QED
    BY <1>1 DEF LogGrows

\* Nothing is appended.
LEMMA SameGrows ==
  ASSUME StoreTypeOK, UNCHANGED log
  PROVE  LogGrows
  <1>1. \A s \in Runs : log[s] \in Seq(Event)
    BY DEF StoreTypeOK
  <1> QED
    BY <1>1 DEF LogGrows

\* No step of the runtime changes or removes an event of a timeline.
LEMMA NextGrows ==
  ASSUME Typed, [Next]_vars
  PROVE  LogGrows
  <1>0. StoreTypeOK /\ WorkerTypeOK /\ Linked
    BY DEF Typed, TypeOK
  <1>1. ASSUME NEW w \in Workers, Persist(w)
        PROVE  LogGrows
    <2>1. PICK e \in outbox[w] : log' = AppendEvent(job[e.job].run, e.type)
      BY <1>1 DEF Persist
    <2>2. e.type \in Event /\ job[e.job].run \in Runs
      BY <1>0, <2>1 DEF WorkerTypeOK, Emission, Linked
    <2> QED
      BY <1>0, <2>1, <2>2, AppendGrows
  <1>2. ASSUME NEW w \in Workers, EmitRunFailed(w)
        PROVE  LogGrows
    <2>1. Job(w) \in JobId /\ Run(w) \in Runs
      BY <1>0, <1>2, WorkerFields DEF EmitRunFailed, At, Linked, Busy, Job, Run
    <2> QED
      BY <1>0, <1>2, <2>1, AppendGrows DEF EmitRunFailed, Event, TerminalEvent
  <1>3. ASSUME NEW r \in Runs, AnnounceCancel(r)
        PROVE  LogGrows
    BY <1>0, <1>3, AppendGrows DEF AnnounceCancel, Event, TerminalEvent
  <1>4. CASE WorkerNext
    <2>1. PICK w \in Workers :
            Claim(w) \/ WorkerStep(w) \/ Persist(w) \/ Heartbeat(w) \/ LeaseLost(w)
              \/ DbFault(w) \/ Crash(w)
      BY <1>4 DEF WorkerNext
    <2>2. UNCHANGED log \/ Persist(w) \/ EmitRunFailed(w)
      BY <2>1
      DEF WorkerStep, HandlerStep, SettleStep, Claim, Heartbeat, LeaseLost, DbFault, Crash,
          SetRunning, ReadRun, ReadForResume, CheckStarted, InvokeGraph, ResumeGraph,
          GraphCompletes, GraphFails, GraphCancelled,
          RequestApproval, Interrupt, Drained, StoreOutcome,
          CompleteJob, PromoteRun, RejectJob, FailRun, FailJob, RequeueRun, store
    <2> QED
      BY <1>0, <1>1, <1>2, <2>2, SameGrows
  <1>5. CASE ApiNext
    <2>1. UNCHANGED log \/ \E r \in Runs : AnnounceCancel(r)
      BY <1>5 DEF ApiNext, CreateRun, CancelRun, LoseAnnouncement, ResolveApproval,
                  ExpireApproval, store
    <2> QED
      BY <1>0, <1>3, <2>1, SameGrows
  <1>6. CASE \E j \in JobId : LeaseExpires(j)
    BY <1>0, <1>6, SameGrows DEF LeaseExpires
  <1>7. CASE UNCHANGED vars
    BY <1>0, <1>7, SameGrows DEF vars, store
  <1> QED
    BY <1>4, <1>5, <1>6, <1>7 DEF Next

-----------------------------------------------------------------------------
(* Sequences: what list_after returns, and what one yield leaves to send. *)

\* The positions past the n-th of a timeline, in order and all of them.
LEMMA ListedBehind ==
  ASSUME NEW timeline \in Seq(Event), NEW n \in Nat, n <= Len(timeline),
         NEW found, found = [k \in 1 .. (Len(timeline) - n) |-> n + k]
  PROVE  /\ found \in Seq(Nat)
         /\ found # << >> => Len(found) > 0
         /\ n + Len(found) <= Len(timeline)
         /\ \A k \in 1 .. Len(found) : found[k] = n + k
  <1>1. found \in Seq(Nat) /\ Len(found) = Len(timeline) - n
    OBVIOUS
  <1>2. found # << >> => Len(found) > 0
    BY <1>1
  <1> QED
    BY <1>1, <1>2

\* What yielding event e of a timeline does to the events a client has got
\* and to those left to send.
Yielded(timeline, got, left, e) ==
  /\ Head(left) = Len(got) + 1
  /\ Head(left) \in 1 .. Len(timeline)
  /\ e \in Event
  /\ Tail(left) \in Seq(Nat)
  /\ Len(left) # 1 => Len(Tail(left)) > 0
  /\ Len(Append(got, e)) = Len(got) + 1
  /\ Len(Append(got, e)) + Len(Tail(left)) <= Len(timeline)
  /\ \A k \in 1 .. Len(Tail(left)) : Tail(left)[k] = Len(Append(got, e)) + k
  /\ \A i \in 1 .. Len(Append(got, e)) :
       Append(got, e)[i] = IF i = Len(got) + 1 THEN e ELSE got[i]

\* The head is the next position; what follows stays right behind.
LEMMA NextEvent ==
  ASSUME NEW timeline \in Seq(Event), NEW got \in Seq(Event), NEW left \in Seq(Nat),
         Len(left) > 0, Len(got) + Len(left) <= Len(timeline),
         \A k \in 1 .. Len(left) : left[k] = Len(got) + k,
         NEW e, e = timeline[Head(left)]
  PROVE  Yielded(timeline, got, left, e)
  <1>1. Head(left) = Len(got) + 1 /\ Head(left) \in 1 .. Len(timeline)
    OBVIOUS
  <1>2. e \in Event
    BY <1>1
  <1>3. Tail(left) \in Seq(Nat) /\ Len(Tail(left)) = Len(left) - 1
    OBVIOUS
  <1>4. \A k \in 1 .. Len(Tail(left)) : Tail(left)[k] = left[k + 1]
    OBVIOUS
  <1>5. Len(Append(got, e)) = Len(got) + 1
    BY <1>2
  <1> QED
    BY <1>1, <1>2, <1>3, <1>4, <1>5 DEF Yielded

-----------------------------------------------------------------------------
\* The fields of a stream.
LEMMA StreamFields ==
  ASSUME StreamTypeOK, NEW c \in Clients
  PROVE  /\ stream[c].pc \in StreamPc
         /\ stream[c].run \in Runs \cup {None}
         /\ stream[c].cursor \in Nat
         /\ stream[c].pending \in Seq(Nat)
         /\ seen[c] \in Seq(Event)
  BY DEF StreamTypeOK, StreamRow

\* A row of the right type is written for one client.
LEMMA RowTyped ==
  ASSUME StreamTypeOK, NEW c \in Clients, NEW row \in StreamRow,
         stream' = [stream EXCEPT ![c] = row], seen' \in [Clients -> Seq(Event)]
  PROVE  StreamTypeOK'
  BY DEF StreamTypeOK

\* While the timelines grow, a stream that does not move keeps up.
LEMMA GrowthFollowed ==
  ASSUME Typed, Typed', Followed, LogGrows, UNCHANGED <<stream, seen>>
  PROVE  Followed'
  <1>1. ASSUME NEW c \in Clients
        PROVE  FollowedBy(c)'
    <2>0. FollowedBy(c) /\ StreamTypeOK
      BY DEF Followed
    <2>1. CASE stream[c].run = None
      BY <2>0, <2>1 DEF FollowedBy
    <2>2. CASE stream[c].run # None
      <3>1. stream[c].run \in Runs /\ seen[c] \in Seq(Event) /\ stream[c].pending \in Seq(Nat)
        BY <2>0, <2>2, StreamFields
      <3>2. Timeline(c) \in Seq(Event) /\ Timeline(c)' \in Seq(Event)
        BY <3>1 DEF Timeline, Typed, TypeOK, StoreTypeOK
      <3>3. /\ Len(Timeline(c)) <= Len(Timeline(c)')
            /\ \A i \in 1 .. Len(Timeline(c)) : Timeline(c)'[i] = Timeline(c)[i]
        BY <3>1 DEF LogGrows, Timeline
      <3>4. Received(c)'
        BY <2>0, <2>2, <3>1, <3>2, <3>3 DEF FollowedBy, Received
      <3>5. ASSUME Behind(c)
            PROVE  Behind(c)'
        <4>1. stream' = stream /\ seen' = seen
          OBVIOUS
        <4>2. Len(seen[c]) \in Nat /\ Len(stream[c].pending) \in Nat
          BY <3>1
        <4>3. Len(Timeline(c)) \in Nat /\ Len(Timeline(c)') \in Nat
          BY <3>2
        <4>4. Len(seen[c]) + Len(stream[c].pending) <= Len(Timeline(c))
              => Len(seen[c]) + Len(stream[c].pending) <= Len(Timeline(c)')
          <5>1. \A m, n, x, y \in Nat : x <= y => (m + n <= x => m + n <= y)
            OBVIOUS
          <5>2. Len(Timeline(c)) <= Len(Timeline(c)')
            BY <3>3
          <5> QED
            BY <4>2, <4>3, <5>1, <5>2, Zenon
        <4> QED
          BY <3>5, <4>1, <4>4 DEF Behind
      <3> QED
        BY <2>0, <2>2, <3>4, <3>5 DEF FollowedBy
    <2> QED
      BY <2>1, <2>2
  <1> QED
    BY <1>1 DEF Followed, StreamTypeOK

\* A generator's or a client's move is one client's, and reads the store only.
LEMMA OneFollowed ==
  ASSUME Followed, NEW c \in Clients, UNCHANGED store,
         \A d \in Clients : d # c => stream'[d] = stream[d] /\ seen'[d] = seen[d],
         StreamTypeOK', FollowedBy(c)'
  PROVE  Followed'
  <1>1. ASSUME NEW d \in Clients, d # c
        PROVE  FollowedBy(d)'
    <2>1. FollowedBy(d)
      BY DEF Followed
    <2>2. stream'[d] = stream[d] /\ seen'[d] = seen[d] /\ log' = log
      BY <1>1 DEF store
    <2> QED
      BY <2>1, <2>2 DEF FollowedBy, Received, Behind, Timeline
  <1> QED
    BY <1>1 DEF Followed

\* A request starts behind what the client has.
LEMMA ConnectFollowed ==
  ASSUME Typed, Followed, NEW c \in Clients, NEW r \in Runs, Connect(c, r)
  PROVE  Followed'
  <1>0. StreamTypeOK /\ FollowedBy(c) /\ seen[c] \in Seq(Event)
    BY StreamFields DEF Followed
  <1>1. /\ stream' = [stream EXCEPT ![c] = [pc |-> "polling", run |-> r,
                                          cursor |-> Len(seen[c]), pending |-> << >>]]
        /\ seen' = seen /\ UNCHANGED store
    BY DEF Connect
  <1>2. StreamTypeOK'
    BY <1>0, <1>1 DEF StreamTypeOK, StreamRow, StreamPc
  <1>3. /\ stream'[c].pc = "polling" /\ stream'[c].run = r
        /\ stream'[c].cursor = Len(seen[c])
    BY <1>0, <1>1 DEF StreamTypeOK
  <1>4. Received(c)'
    <2>1. CASE stream[c].run = None
      BY <1>0, <1>1, <1>3, <2>1 DEF FollowedBy, Received, Timeline, store,
         Typed, TypeOK, StoreTypeOK
    <2>2. CASE stream[c].run = r /\ stream[c].run # None
      BY <1>0, <1>1, <1>3, <2>2 DEF FollowedBy, Received, Timeline, store
    <2> QED
      BY <2>1, <2>2 DEF Connect
  <1>5. Behind(c)'
    BY <1>1, <1>3 DEF Behind
  <1>6. FollowedBy(c)'
    <2>1. r # None
      BY StoreAssumption
    <2> QED
      BY <1>3, <1>4, <1>5, <2>1 DEF FollowedBy
  <1> QED
    BY <1>0, <1>1, <1>2, <1>6, OneFollowed DEF StreamTypeOK

\* A poll finds the events right behind the cursor.
LEMMA PollFollowed ==
  ASSUME Typed, Followed, NEW c \in Clients, Poll(c)
  PROVE  Followed'
  <1> DEFINE found == ListAfter(stream[c].run, stream[c].cursor)
             next  == IF found = << >> THEN "checking" ELSE "sending"
  <1>0. StreamTypeOK /\ FollowedBy(c) /\ stream[c].pc = "polling" /\ stream[c].run \in Runs
    BY StreamFields DEF Followed, Poll, FollowedBy
  <1>1. stream' = [stream EXCEPT ![c].pending = found, ![c].pc = next]
        /\ seen' = seen /\ UNCHANGED store
    BY DEF Poll
  <1>2. Received(c) /\ stream[c].cursor = Len(seen[c])
    BY <1>0, StoreAssumption DEF FollowedBy, Behind
  <1>3. log[stream[c].run] \in Seq(Event) /\ seen[c] \in Seq(Event)
    BY <1>0, StreamFields DEF Typed, TypeOK, StoreTypeOK
  <1>4. Len(seen[c]) \in Nat /\ Len(seen[c]) <= Len(log[stream[c].run])
    BY <1>2, <1>3 DEF Received, Timeline
  <1>5. found = [k \in 1 .. (Len(log[stream[c].run]) - Len(seen[c])) |-> Len(seen[c]) + k]
    BY <1>2 DEF ListAfter
  <1> HIDE DEF found
  <1>6. /\ found \in Seq(Nat)
        /\ found # << >> => Len(found) > 0
        /\ Len(seen[c]) + Len(found) <= Len(log[stream[c].run])
        /\ \A k \in 1 .. Len(found) : found[k] = Len(seen[c]) + k
    <2> DEFINE timeline == log[stream[c].run]
               n        == Len(seen[c])
    <2>1. timeline \in Seq(Event) /\ n \in Nat /\ n <= Len(timeline)
          /\ found = [k \in 1 .. (Len(timeline) - n) |-> n + k]
      BY <1>3, <1>4, <1>5
    <2> HIDE DEF timeline, n
    <2>2. /\ found \in Seq(Nat)
          /\ found # << >> => Len(found) > 0
          /\ n + Len(found) <= Len(timeline)
          /\ \A k \in 1 .. Len(found) : found[k] = n + k
      BY <2>1, ListedBehind
    <2> QED
      BY <2>2 DEF timeline, n
  <1>7. /\ stream'[c].pc = next /\ stream'[c].run = stream[c].run
        /\ stream'[c].cursor = stream[c].cursor /\ stream'[c].pending = found
    BY <1>0, <1>1 DEF StreamTypeOK, StreamRow
  <1>8. StreamTypeOK'
    <2> DEFINE row == [stream[c] EXCEPT !.pending = found, !.pc = next]
    <2>1. stream[c] \in StreamRow /\ next \in StreamPc
      BY <1>0 DEF StreamTypeOK, StreamPc
    <2> HIDE DEF next
    <2>2. row \in StreamRow
      BY <1>6, <2>1 DEF StreamRow
    <2>3. stream' = [stream EXCEPT ![c] = row]
      BY <1>1
    <2> HIDE DEF row
    <2> QED
      BY <1>0, <1>1, <2>2, <2>3, RowTyped DEF StreamTypeOK
  <1>9. Received(c)'
    BY <1>1, <1>2, <1>7 DEF Received, Timeline, store
  <1>10. Behind(c)'
    <2>1. Timeline(c)' = log[stream[c].run] /\ seen' = seen
      BY <1>1, <1>7 DEF Timeline, store
    <2>2. stream'[c].cursor = Len(seen[c])
      BY <1>2, <1>7
    <2>3. stream'[c].pc = "sending" => found # << >>
      BY <1>7
    <2> QED
      BY <1>6, <1>7, <2>1, <2>2, <2>3 DEF Behind
  <1>11. FollowedBy(c)'
    BY <1>0, <1>7, <1>9, <1>10, StoreAssumption DEF FollowedBy
  <1> QED
    BY <1>0, <1>1, <1>8, <1>11, OneFollowed DEF StreamTypeOK

\* A yield hands over the next event of the timeline.
LEMMA SendFollowed ==
  ASSUME Typed, Followed, NEW c \in Clients, Send(c)
  PROVE  Followed'
  <1> DEFINE seq  == Head(stream[c].pending)
             e    == Timeline(c)[seq]
             next == IF e \in TerminalEvent THEN "closed"
                     ELSE IF Len(stream[c].pending) = 1 THEN "polling" ELSE "sending"
  <1>0. StreamTypeOK /\ FollowedBy(c) /\ stream[c].pc = "sending" /\ stream[c].run \in Runs
    BY StreamFields DEF Followed, Send, FollowedBy
  <1>1. /\ stream' = [stream EXCEPT ![c].cursor = seq, ![c].pending = Tail(@), ![c].pc = next]
        /\ seen' = [seen EXCEPT ![c] = Append(@, e)]
        /\ UNCHANGED store
    BY DEF Send
  <1>2. Received(c) /\ Behind(c)
    BY <1>0, StoreAssumption DEF FollowedBy
  <1>3. Timeline(c) \in Seq(Event) /\ seen[c] \in Seq(Event) /\ stream[c].pending \in Seq(Nat)
    BY <1>0, StreamFields DEF Typed, TypeOK, StoreTypeOK, Timeline
  <1>4. /\ Len(stream[c].pending) > 0
        /\ Len(seen[c]) + Len(stream[c].pending) <= Len(Timeline(c))
        /\ \A k \in 1 .. Len(stream[c].pending) : stream[c].pending[k] = Len(seen[c]) + k
    BY <1>0, <1>2 DEF Behind
  <1> DEFINE left == stream[c].pending
             got  == seen[c]
  <1>5. e = Timeline(c)[Head(left)] /\ seq = Head(left)
    OBVIOUS
  <1>6. Yielded(Timeline(c), got, left, e)
    <2> HIDE DEF seq, e, got, left
    <2>1. /\ got \in Seq(Event) /\ left \in Seq(Nat)
          /\ Len(left) > 0 /\ Len(got) + Len(left) <= Len(Timeline(c))
          /\ \A k \in 1 .. Len(left) : left[k] = Len(got) + k
      BY <1>3, <1>4 DEF got, left
    <2> QED
      BY <1>3, <1>5, <2>1, NextEvent, Zenon
  <1> HIDE DEF seq, e
  <1>9. /\ stream'[c].pc = next /\ stream'[c].run = stream[c].run
        /\ stream'[c].cursor = seq /\ stream'[c].pending = Tail(left)
        /\ seen'[c] = Append(got, e)
    BY <1>0, <1>1 DEF StreamTypeOK, StreamRow
  <1>10. StreamTypeOK'
    <2>1. seq \in Nat /\ next \in StreamPc /\ Append(got, e) \in Seq(Event)
      BY <1>3, <1>5, <1>6 DEF StreamPc, Yielded
    <2> HIDE DEF next, left, got
    <2> DEFINE row == [stream[c] EXCEPT !.cursor = seq, !.pending = Tail(left), !.pc = next]
    <2>2. stream[c] \in StreamRow
      BY <1>0 DEF StreamTypeOK
    <2>3. row \in StreamRow
      BY <1>6, <2>1, <2>2 DEF StreamRow, Yielded
    <2>4. stream' = [stream EXCEPT ![c] = row]
      BY <1>1 DEF left
    <2>5. seen' \in [Clients -> Seq(Event)]
      BY <1>0, <1>1, <2>1 DEF StreamTypeOK, got
    <2> HIDE DEF row
    <2> QED
      BY <1>0, <2>3, <2>4, <2>5, RowTyped
  <1>12. Timeline(c)' = Timeline(c)
    BY <1>1, <1>9 DEF Timeline, store
  <1> HIDE DEF left, got
  <1>13. Received(c)'
    <2>1. Len(Append(got, e)) <= Len(Timeline(c))
      BY <1>3, <1>6 DEF Yielded, left, got
    <2>2. ASSUME NEW i \in 1 .. Len(Append(got, e))
          PROVE  Append(got, e)[i] = Timeline(c)[i]
      <3>1. CASE i = Len(got) + 1
        BY <1>5, <1>6, <3>1 DEF Yielded
      <3>2. CASE i # Len(got) + 1
        <4>1. Append(got, e)[i] = got[i] /\ i \in 1 .. Len(got)
          BY <1>3, <1>6, <3>2 DEF got, Yielded
        <4> QED
          BY <1>2, <4>1 DEF Received, got
      <3> QED
        BY <3>1, <3>2
    <2> QED
      BY <1>9, <1>12, <2>1, <2>2 DEF Received
  <1>14. stream'[c].pc = "sending" => Len(stream'[c].pending) > 0
    BY <1>6, <1>9 DEF left, Yielded
  <1>15. Behind(c)'
    BY <1>5, <1>6, <1>9, <1>12, <1>14 DEF Behind, Yielded
  <1>16. FollowedBy(c)'
    BY <1>0, <1>9, <1>13, <1>15, StoreAssumption DEF FollowedBy
  <1> QED
    BY <1>0, <1>1, <1>10, <1>16, OneFollowed DEF StreamTypeOK

\* A stream that ends or polls again leaves what was received alone.
LEMMA PauseFollowed ==
  ASSUME Typed, Followed, NEW c \in Clients, CheckStatus(c) \/ Disconnect(c)
  PROVE  Followed'
  <1>0. StreamTypeOK /\ FollowedBy(c) /\ stream[c].pc \in {"polling", "sending", "checking"}
    BY DEF Followed, CheckStatus, Disconnect
  <1>1. PICK next \in {"off", "polling"} :
          stream' = [stream EXCEPT ![c].pc = next] /\ seen' = seen /\ UNCHANGED store
    BY DEF CheckStatus, Disconnect
  <1>2. /\ stream'[c].pc = next /\ stream'[c].run = stream[c].run
        /\ stream'[c].cursor = stream[c].cursor
    BY <1>0, <1>1 DEF StreamTypeOK, StreamRow
  <1>3. StreamTypeOK'
    BY <1>0, <1>1 DEF StreamTypeOK, StreamRow, StreamPc
  <1>4. FollowedBy(c)'
    BY <1>0, <1>1, <1>2 DEF FollowedBy, Received, Behind, Timeline, store
  <1> QED
    BY <1>0, <1>1, <1>3, <1>4, OneFollowed DEF StreamTypeOK

-----------------------------------------------------------------------------
\* Followed is inductive beside the runtime's invariant.
LEMMA FollowedStep ==
  ASSUME Typed, Typed', Followed, [StreamedNext]_streamVars
  PROVE  Followed'
  <1>1. CASE Next /\ UNCHANGED streams
    BY <1>1, NextGrows, GrowthFollowed DEF streams
  <1>2. CASE UNCHANGED streamVars
    BY <1>2, NextGrows, GrowthFollowed DEF streamVars, streams
  <1>3. CASE StreamNext
    BY <1>3, ConnectFollowed, PollFollowed, SendFollowed, PauseFollowed DEF StreamNext, Generate
  <1> QED
    BY <1>1, <1>2, <1>3 DEF StreamedNext

\* Nobody has received anything yet.
LEMMA FollowedInit == StreamedInit => Followed
  BY DEF StreamedInit, StreamInit, NoStream, Followed, FollowedBy, StreamTypeOK, StreamRow, StreamPc

\* The streams read the runtime: a step of the whole is one of AgentRuntime
\* or leaves it alone.
LEMMA StreamsOnlyRead == [StreamedNext]_streamVars => [Next]_vars
  BY DEF StreamedNext, StreamNext, streamVars, vars, Elsewhere, Generate, Poll, Send, CheckStatus,
         Connect, Disconnect

\* Replayed holds in every reachable state: no client misses an event, gets
\* one twice or out of order, however workers append, connections break and
\* streams end (list_after, event_generator, Last-Event-ID).
THEOREM ReplayedAlways == StreamedSpec => []Replayed
  <1>1. StreamedInit => Typed /\ Followed
    BY TypedInit, FollowedInit DEF StreamedInit
  <1>2. Typed /\ Followed /\ [StreamedNext]_streamVars => Typed' /\ Followed'
    BY StreamsOnlyRead, TypedStep, FollowedStep
  <1>3. Followed => Replayed
    BY DEF Followed, FollowedBy, Received, Replayed
  <1> QED
    BY <1>1, <1>2, <1>3, PTL DEF StreamedSpec

-----------------------------------------------------------------------------
(* What a client was told. *)

\* A closed stream has delivered something.
ClosedTold == \A c \in Clients : stream[c].pc = "closed" => Len(seen[c]) > 0

\* Only a delivery closes a stream, and nothing opens it again.
LEMMA ClosedStep ==
  ASSUME Followed, ClosedTold, [StreamedNext]_streamVars
  PROVE  ClosedTold'
  <1>0. StreamTypeOK
    BY DEF Followed
  <1>1. CASE UNCHANGED <<stream, seen>>
    BY <1>1 DEF ClosedTold
  <1>2. ASSUME NEW c \in Clients,
               Poll(c) \/ CheckStatus(c) \/ Disconnect(c) \/ \E r \in Runs : Connect(c, r)
        PROVE  ClosedTold'
    <2>1. /\ \A d \in Clients : d # c => stream'[d] = stream[d]
          /\ stream'[c].pc # "closed" /\ seen' = seen
      BY <1>0, <1>2 DEF StreamTypeOK, StreamRow, Poll, CheckStatus, Disconnect, Connect
    <2> QED
      BY <2>1 DEF ClosedTold
  <1>3. ASSUME NEW c \in Clients, Send(c)
        PROVE  ClosedTold'
    <2>1. PICK e, row : /\ seen' = [seen EXCEPT ![c] = Append(@, e)]
                        /\ stream' = [stream EXCEPT ![c] = row]
      BY <1>0, <1>3 DEF Send, StreamTypeOK
    <2>2. \A d \in Clients : d # c => stream'[d] = stream[d] /\ seen'[d] = seen[d]
      BY <1>0, <2>1 DEF StreamTypeOK
    <2>3. Len(seen'[c]) > 0
      <3>1. seen[c] \in Seq(Event) /\ seen'[c] = Append(seen[c], e)
        BY <1>0, <2>1 DEF StreamTypeOK
      <3> QED
        BY <3>1
    <2> QED
      BY <2>2, <2>3 DEF ClosedTold
  <1> QED
    BY <1>1, <1>2, <1>3 DEF StreamedNext, StreamNext, Generate, streams, streamVars

\* The last event a closed stream delivered is in the run's timeline.
LEMMA LastDelivered ==
  ASSUME Typed, Followed, ClosedTold, NEW c \in Clients, stream[c].pc = "closed"
  PROVE  stream[c].run \in Runs /\ HasEvent(stream[c].run, seen[c][Len(seen[c])])
  <1>1. stream[c].run \in Runs /\ Received(c)
    BY DEF Followed, StreamTypeOK, StreamRow, FollowedBy
  <1>2. seen[c] \in Seq(Event) /\ Timeline(c) \in Seq(Event)
    BY <1>1 DEF Followed, StreamTypeOK, Typed, TypeOK, StoreTypeOK, Timeline
  <1>3. Len(seen[c]) \in 1 .. Len(seen[c]) /\ Len(seen[c]) \in 1 .. Len(Timeline(c))
    BY <1>1, <1>2 DEF ClosedTold, Received
  <1>4. Timeline(c)[Len(seen[c])] = seen[c][Len(seen[c])] /\ Len(seen[c]) \in DOMAIN Timeline(c)
    BY <1>1, <1>2, <1>3 DEF Received
  <1> QED
    BY <1>1, <1>4 DEF HasEvent, Timeline

\* A client that was told of a failure or a cancellation reads a run that
\* ended in one, however late it reads (FailRun before _emit_run_failed,
\* cancel_run's commit before run.cancelled).
THEOREM ToldIsAlwaysTrue == StreamedSpec => []ToldIsTrue
  <1>1. StreamedInit => Told /\ Followed /\ ClosedTold
    BY ToldInit, FollowedInit
    DEF StreamedInit, StreamInit, NoStream, ClosedTold
  <1>2. (Told /\ Followed /\ ClosedTold) /\ [StreamedNext]_streamVars
        => (Told /\ Followed /\ ClosedTold)'
    BY StreamsOnlyRead, ToldStep, FollowedStep, ClosedStep DEF Told, Guarded
  <1>3. Told /\ Followed /\ ClosedTold => ToldIsTrue
    <2> SUFFICES ASSUME Told, Followed, ClosedTold, NEW c \in Clients, stream[c].pc = "closed"
                 PROVE  LET e == seen[c][Len(seen[c])]
                            s == run[stream[c].run].status
                        IN /\ e = "run.failed" => s \in {"failed", "cancelled"}
                           /\ e = "run.cancelled" => s = "cancelled"
      BY DEF ToldIsTrue
    <2>1. stream[c].run \in Runs /\ HasEvent(stream[c].run, seen[c][Len(seen[c])])
      BY LastDelivered DEF Told, Guarded
    <2> QED
      BY <2>1 DEF Told, AnnouncedRun
  <1> QED
    BY <1>1, <1>2, <1>3, PTL DEF StreamedSpec

\* A streamed runtime is a runtime: what is proved of AgentRuntime holds
\* however many clients watch it (list_after reads, and nothing else).
THEOREM StreamedIsRuntime == StreamedSpec => Spec
  <1>1. StreamedInit => Init
    BY DEF StreamedInit
  <1> QED
    BY <1>1, StreamsOnlyRead, PTL DEF StreamedSpec, Spec
=============================================================================

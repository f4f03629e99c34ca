---------------------------- MODULE ModelCatalog ----------------------------
(***************************************************************************)
(* The model catalog of a process: one cached list of models, refreshed    *)
(* under a lock by whoever finds it too old, and the resolution of a model *)
(* policy against it when a run is created.                                *)
(***************************************************************************)
EXTENDS ModelProvider

CONSTANTS
  Callers,      (* concurrent create_run requests                          *)
  Embedding,    (* models whose id says "embed"                            *)
  Structured,   (* models configured to have structured_output             *)
  TierMap,      (* configured tiers: a function to models                  *)
  Policies,     (* ModelPolicy: mode, and model_id or tier                 *)
  Ttl,          (* ttl_seconds                                             *)
  MaxTime,      (* bound: the clock                                        *)
  None

ASSUME CatalogAssumption ==
  /\ Ttl \in Nat /\ MaxTime \in Nat /\ None \notin Nat
  /\ \A v, w \in DOMAIN Lists : Lists[v] = Lists[w] => v = w

VARIABLES
  now,          (* time.monotonic()                                        *)
  snapshot,     (* _snapshot, named by the list it was built from          *)
  cachedAt,     (* _cached_at                                              *)
  queue,        (* _lock: its holder, then the waiters in order            *)
  phase,        (* where each request is                                   *)
  fetched,      (* the list a fetch has been answered with                 *)
  reply,        (* what get_snapshot returned                              *)
  decided,      (* resolved_model of the run it created                    *)
  refreshed     (* history: when a list was last stored                    *)

catalog == <<now, snapshot, cachedAt, queue, phase, fetched, reply, decided, refreshed>>

Versions == DOMAIN Lists
Models   == UNION {Lists[v] : v \in Versions} \cup Embedding
Phase    == {"idle", "waiting", "fetching", "answered", "served"}

CatalogTypeOK ==
  /\ up \in BOOLEAN /\ published \in Versions
  /\ now \in 0 .. MaxTime
  /\ snapshot \in Versions \cup {None}
  /\ cachedAt \in (0 .. MaxTime) \cup {None}
  /\ queue \in Seq(Callers) /\ \A i, j \in DOMAIN queue : queue[i] = queue[j] => i = j
  /\ phase \in [Callers -> Phase]
  /\ fetched \in [Callers -> Versions \cup {None}]
  /\ reply \in [Callers -> [version : Versions, stale : BOOLEAN, age : 0 .. MaxTime] \cup {None}]
  /\ decided \in [Callers -> Models \cup {None}]
  /\ refreshed \in 0 .. MaxTime

CatalogInit ==
  /\ now = 0 /\ refreshed = 0
  /\ snapshot = None /\ cachedAt = None
  /\ queue = << >>
  /\ phase = [c \in Callers |-> "idle"]
  /\ fetched = [c \in Callers |-> None]
  /\ reply = [c \in Callers |-> None] /\ decided = [c \in Callers |-> None]
-----------------------------------------------------------------------------
(* build_snapshot and resolve_model_policy *)

\* Embedding models are left out; every other entry is selectable.
Selectable(version) == Lists[version] \ Embedding

\* The model a policy names, if any: auto is the balanced tier.
Wanted(policy) ==
  CASE policy.mode = "specific"       -> {policy.model_id}
    [] policy.mode = "tier"           -> {TierMap[t] : t \in DOMAIN TierMap \cap {policy.tier}}
    [] policy.mode = "auto"           -> {TierMap[t] : t \in DOMAIN TierMap \cap {"balanced"}}

\* The models it may resolve to: one, or none (ModelSelectionError).
Resolutions(policy, version, supervised) ==
  {m \in Wanted(policy) \cap Selectable(version) : supervised => m \in Structured}
-----------------------------------------------------------------------------
(* get_snapshot *)

\* Mutant: nobody waits for the lock.
HoldsTogether(c) == c \in {queue[i] : i \in DOMAIN queue}

Holds(c) == queue # << >> /\ Head(queue) = c

Fresh == snapshot # None /\ cachedAt # None /\ now - cachedAt < Ttl

\* The holder leaves, the next waiter holds.
Released == Tail(queue)

\* 503
Refused(c) == phase' = [phase EXCEPT ![c] = "idle"] /\ UNCHANGED reply

Returns(c, version, stale, since) ==
  /\ phase' = [phase EXCEPT ![c] = "served"]
  /\ reply' = [reply EXCEPT ![c] = [version |-> version, stale |-> stale, age |-> now - since]]
  /\ queue' = Released

\* POST /runs; the request before this one is done.
Ask(c) ==
  /\ phase[c] = "idle"
  /\ phase' = [phase EXCEPT ![c] = "waiting"]
  /\ queue' = Append(queue, c)
  /\ decided' = [decided EXCEPT ![c] = None]
  /\ UNCHANGED <<provider, now, snapshot, cachedAt, fetched, reply, refreshed>>

ServeCached(c) ==
  /\ phase[c] = "waiting" /\ Holds(c) /\ Fresh
  /\ Returns(c, snapshot, FALSE, refreshed)
  /\ UNCHANGED <<provider, now, snapshot, cachedAt, fetched, decided, refreshed>>

StartFetch(c) ==
  /\ phase[c] = "waiting" /\ Holds(c) /\ ~Fresh
  /\ phase' = [phase EXCEPT ![c] = "fetching"]
  /\ UNCHANGED <<provider, now, snapshot, cachedAt, queue, fetched, reply, decided, refreshed>>

\* An answer without a model id is as good as none.
PublishesModels == up /\ Lists[published] # {}

FetchAnswered(c) ==
  /\ phase[c] = "fetching" /\ PublishesModels
  /\ fetched' = [fetched EXCEPT ![c] = published]
  /\ phase' = [phase EXCEPT ![c] = "answered"]
  /\ UNCHANGED <<provider, now, snapshot, cachedAt, queue, reply, decided, refreshed>>

StoreSnapshot(c) ==
  /\ phase[c] = "answered"
  /\ snapshot' = fetched[c] /\ cachedAt' = now /\ refreshed' = now
  /\ Returns(c, fetched[c], FALSE, now)
  /\ fetched' = [fetched EXCEPT ![c] = None]
  /\ UNCHANGED <<provider, now, decided>>

\* Mutant: a failed refresh counts as one, too.
FetchFailsRestarts(c) ==
  /\ phase[c] = "fetching" /\ ~PublishesModels
  /\ cachedAt' = now
  /\ \/ snapshot # None /\ Returns(c, snapshot, TRUE, refreshed)
     \/ snapshot = None /\ Refused(c) /\ queue' = Released
  /\ UNCHANGED <<provider, now, snapshot, fetched, decided, refreshed>>

\* Mutant: the lock stays taken when there is nothing to fall back to.
FetchFailsHolding(c) ==
  /\ phase[c] = "fetching" /\ ~PublishesModels
  /\ \/ snapshot # None /\ Returns(c, snapshot, TRUE, refreshed)
     \/ snapshot = None /\ Refused(c) /\ UNCHANGED queue
  /\ UNCHANGED <<provider, now, snapshot, cachedAt, fetched, decided, refreshed>>

\* The last good list, marked stale, or 503.
FetchFails(c) ==
  /\ phase[c] = "fetching" /\ ~PublishesModels
  /\ \/ snapshot # None /\ Returns(c, snapshot, TRUE, refreshed)
     \/ snapshot = None /\ Refused(c) /\ queue' = Released
  /\ UNCHANGED <<provider, now, snapshot, cachedAt, fetched, decided, refreshed>>

\* The request's policy is looked up for its graph, which has a supervisor or
\* not.  The decision is frozen into the run, whatever the list says later;
\* without one there is no run.
ResolveModelDecision(c) ==
  /\ phase[c] = "served"
  /\ \E policy \in Policies, supervised \in BOOLEAN :
       LET models == Resolutions(policy, reply[c].version, supervised)
       IN \/ models = {} /\ UNCHANGED decided
          \/ \E m \in models :
               decided' = [decided EXCEPT ![c] = m]
  /\ phase' = [phase EXCEPT ![c] = "idle"] /\ reply' = [reply EXCEPT ![c] = None]
  /\ UNCHANGED <<provider, now, snapshot, cachedAt, queue, fetched, refreshed>>

Tick == now < MaxTime /\ now' = now + 1
        /\ UNCHANGED <<provider, snapshot, cachedAt, queue, phase, fetched, reply,
                       decided, refreshed>>

Progress(c) == \/ ServeCached(c) \/ StartFetch(c) \/ FetchAnswered(c)
               \/ StoreSnapshot(c) \/ FetchFails(c) \/ ResolveModelDecision(c)

CatalogNext == (\E c \in Callers : Ask(c) \/ Progress(c)) \/ Tick

\* The event loop serves every caller; a fetch is answered or times out.
CatalogFairness == \A c \in Callers : WF_catalog(Progress(c))
-----------------------------------------------------------------------------
(* Properties *)

\* The cached list is never older than one a caller has been given: refreshes
\* do not overtake one another (get_snapshot's lock around the await of _fetch).
NeverGoesBack == \A c \in Callers : reply[c] # None => reply[c].version <= snapshot

\* A list not marked stale was stored less than ttl_seconds before it was
\* handed out: a fallback does not restart the clock (get_snapshot).
StaleIsMarked == \A c \in Callers : reply[c] # None /\ ~reply[c].stale => reply[c].age < Ttl \/ reply[c].age = 0

\* Every create_run that waits for the catalog is answered, in an outage, too:
\* whatever ends a refresh releases the lock.
CallersAnswered == \A c \in Callers : phase[c] = "waiting" ~> phase[c] \in {"served", "idle"}
=============================================================================

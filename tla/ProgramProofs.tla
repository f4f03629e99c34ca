--------------------------- MODULE ProgramProofs ---------------------------
(***************************************************************************)
(* The LangGraph program of a run.  The first part is about every graph    *)
(* create_run accepts: where a node leads, what the search of the          *)
(* validator finds.  The second is about the thread: where an invocation   *)
(* can be before and after its supervisor has decided.                     *)
(***************************************************************************)
EXTENDS GraphProgram, FiniteSetTheorems, WellFoundedInduction, TLAPS

-----------------------------------------------------------------------------
(* Definitions and their edges. *)

\* A definition as the schema and LangGraph leave it.
WellFormed(d) == /\ d.nodes \in Seq(NodeDef(STRING))
                 /\ d.edges \in Seq(EdgeDef(STRING))
                 /\ End \notin Ids(d)

\* Where a superstep can lead: to a node or to the end.
Places(d) == Ids(d) \cup {End}

\* A node has the type of its entry in the list.
LEMMA TypeFound ==
  ASSUME NEW d, WellFormed(d), NEW n \in Ids(d)
  PROVE  /\ TypeOf(d, n) \in NodeType
         /\ \E i \in DOMAIN d.nodes : d.nodes[i].id = n /\ d.nodes[i].type = TypeOf(d, n)
  <1>1. PICK i \in DOMAIN d.nodes : d.nodes[i].id = n /\ TypeOf(d, n) = d.nodes[i].type
    BY DEF Ids, TypeOf
  <1>2. d.nodes[i] \in NodeDef(STRING)
    <2>1. d.nodes \in Seq(NodeDef(STRING))
      BY DEF WellFormed
    <2> QED
      BY <2>1, <1>1
  <1> QED
    BY <1>1, <1>2 DEF NodeDef

\* A valid graph has no second supervisor.
LEMMA OneSupervisor ==
  ASSUME NEW d, WellFormed(d), AtMostOneSupervisor(d),
         NEW s \in Supervisors(d), NEW t \in Supervisors(d)
  PROVE  s = t
  <1>1. PICK i \in DOMAIN d.nodes : d.nodes[i].id = s /\ d.nodes[i].type = "supervisor"
    BY TypeFound DEF Supervisors, OfType
  <1>2. PICK k \in DOMAIN d.nodes : d.nodes[k].id = t /\ d.nodes[k].type = "supervisor"
    BY TypeFound DEF Supervisors, OfType
  <1> QED
    BY <1>1, <1>2 DEF AtMostOneSupervisor

\* A node that is dispatched neither by a decision nor to the supervisor
\* follows its one edge, or ends the run.
LEMMA NextByEdge ==
  ASSUME NEW d, WellFormed(d), Accepted(d), NEW n \in ByEdges(d)
  PROVE  /\ NextNodes(d, n) = {NextNode(d, n)}
         /\ NextNode(d, n) \in Places(d)
         /\ \A i \in EdgesFrom(d, n) : d.edges[i].target = NextNode(d, n)
         /\ NextNode(d, n) = End <=> EdgesFrom(d, n) = {}
  <1>1. n \in Ids(d) /\ n \notin Supervisors(d)
    BY DEF ByEdges
  <1>2. CASE EdgesFrom(d, n) = {}
    <2>1. NextNodes(d, n) = {End}
      BY <1>1, <1>2 DEF NextNodes
    <2> QED
      BY <1>2, <2>1 DEF NextNode, Places
  <1>3. ASSUME NEW i \in EdgesFrom(d, n)
        PROVE  /\ NextNodes(d, n) = {d.edges[i].target}
               /\ d.edges[i].target \in Ids(d)
               /\ EdgesFrom(d, n) = {i}
    <2>1. EdgesFrom(d, n) = {i}
      BY <1>3 DEF Accepted, Compilable
    <2>2. i \in DOMAIN d.edges /\ i <= i
      BY <1>3 DEF EdgesFrom, WellFormed
    <2>3. FirstTarget(d, n) = d.edges[i].target
      BY <2>1, <2>2 DEF FirstTarget
    <2>4. NextNodes(d, n) = {FirstTarget(d, n)}
      BY <1>1, <2>1 DEF NextNodes
    <2>5. d.edges[i].target \in Ids(d)
      BY <2>2 DEF Accepted, ValidGraph, AllEdgesValid, Edges
    <2> QED
      BY <2>1, <2>3, <2>4, <2>5
  <1>4. ASSUME NEW i \in EdgesFrom(d, n)
        PROVE  NextNode(d, n) = d.edges[i].target
    BY <1>3, <1>4 DEF NextNode
  <1> QED
    BY <1>2, <1>3, <1>4 DEF Places, WellFormed

\* A capability beside a supervisor returns to it.
LEMMA NextReturns ==
  ASSUME NEW d, NEW n \in Capabilities(d), Supervisors(d) # {}
  PROVE  /\ n \notin ByEdges(d) /\ n \notin Supervisors(d)
         /\ NextNodes(d, n) = Supervisors(d)
         /\ NextNode(d, n) \in Supervisors(d)
  <1>1. n \notin ByEdges(d) /\ n \notin Supervisors(d)
    BY DEF ByEdges, Capabilities, Supervisors, OfType, CapabilityType
  <1>2. NextNodes(d, n) = Supervisors(d)
    BY <1>1 DEF NextNodes
  <1> QED
    BY <1>1, <1>2 DEF NextNode

-----------------------------------------------------------------------------
(* Where the edges of ordinary nodes lead, from a node on. *)

\* Places that are not left by an edge: the supervisor, capabilities beside
\* it, and the end.
Stops(d) == Places(d) \ ByEdges(d)

Follows(d, S) == \A n \in S : n \in ByEdges(d) => NextNode(d, n) \in S

Lead(d, n) == {m \in Places(d) : \A S \in SUBSET Places(d) : n \in S /\ Follows(d, S) => m \in S}

\* The lead of a place holds it and follows its edges.
LEMMA LeadFollows ==
  ASSUME NEW d, WellFormed(d), Accepted(d), NEW n \in Places(d)
  PROVE  n \in Lead(d, n) /\ Follows(d, Lead(d, n))
  <1>1. ASSUME NEW m \in Lead(d, n), m \in ByEdges(d)
        PROVE  NextNode(d, m) \in Lead(d, n)
    <2>1. NextNode(d, m) \in Places(d)
      BY <1>1, NextByEdge
    <2> QED
      BY <1>1, <2>1 DEF Lead, Follows
  <1> QED
    BY <1>1 DEF Lead, Follows

\* A stop leads nowhere else.
LEMMA LeadOfStop ==
  ASSUME NEW d, NEW n \in Stops(d)
  PROVE  Lead(d, n) \subseteq {n}
  <1>1. {n} \in SUBSET Places(d) /\ Follows(d, {n})
    BY DEF Stops, Follows
  <1> QED
    BY <1>1 DEF Lead

\* An ordinary node leads where its edge leads.
LEMMA LeadOfNode ==
  ASSUME NEW d, WellFormed(d), Accepted(d), NEW n \in ByEdges(d)
  PROVE  Lead(d, n) \subseteq {n} \cup Lead(d, NextNode(d, n))
  <1>1. NextNode(d, n) \in Places(d) /\ n \in Places(d)
    BY NextByEdge DEF ByEdges, Places
  <1> DEFINE S == {n} \cup Lead(d, NextNode(d, n))
  <1>2. S \in SUBSET Places(d)
    BY <1>1 DEF Lead
  <1>3. Follows(d, S)
    BY <1>1, LeadFollows DEF Follows
  <1> QED
    BY <1>2, <1>3 DEF Lead

\* The edges from a place come to at most one stop.
LEMMA OneStop ==
  ASSUME NEW d, WellFormed(d), Accepted(d), NEW n \in Places(d),
         NEW x \in Stops(d), x \in Lead(d, n),
         NEW y \in Stops(d), y \in Lead(d, n)
  PROVE  x = y
  <1> DEFINE S == {m \in Places(d) : x \in Lead(d, m)}
  <1>1. n \in S
    OBVIOUS
  <1>2. ASSUME NEW m \in S, m \in ByEdges(d)
        PROVE  NextNode(d, m) \in S
    <2>1. NextNode(d, m) \in Places(d)
      BY <1>2, NextByEdge
    <2>2. x \in {m} \cup Lead(d, NextNode(d, m))
      BY <1>2, LeadOfNode
    <2>3. x # m
      BY <1>2 DEF Stops
    <2> QED
      BY <2>1, <2>2, <2>3
  <1>3. Follows(d, S) /\ S \in SUBSET Places(d)
    BY <1>2 DEF Follows
  <1>4. y \in S
    BY <1>1, <1>3 DEF Lead
  <1>5. x \in Lead(d, y)
    BY <1>4
  <1> QED
    BY <1>5, LeadOfStop

-----------------------------------------------------------------------------
(* The search of the validator.  Induction over its rounds is by the       *)
(* least-number principle.                                                 *)

\* A set of numbers has a least one.
LEMMA LeastNumber ==
  ASSUME NEW T \in SUBSET Nat, T # {}
  PROVE  \E m \in T : \A n \in T : m <= n
  <1> DEFINE R == OpToRel(<, Nat)
  <1>1. IsWellFoundedOn(R, Nat)
    BY NatLessThanWellFounded
  <1>2. \A m, n \in Nat : n < m => <<n, m>> \in R
    BY DEF OpToRel
  <1> HIDE DEF R
  <1>3. PICK m \in T : \A n \in T : ~ (<<n, m>> \in R)
    BY <1>1, WFMin
  <1>4. ASSUME NEW n \in T
        PROVE  m <= n
    <2>1. m \in Nat /\ n \in Nat /\ ~ (n < m)
      BY <1>2, <1>3
    <2> QED
      BY <2>1
  <1> QED
    BY <1>4

\* What holds at a number and passes to the next holds up to a bound.
LEMMA Upward ==
  ASSUME NEW N \in Nat, NEW m \in 0 .. N, NEW T, m \in T,
         \A k \in m + 1 .. N : k - 1 \in T => k \in T
  PROVE  m .. N \subseteq T
  <1> DEFINE F == (m .. N) \ T
  <1> SUFFICES ASSUME F # {}
               PROVE  FALSE
    OBVIOUS
  <1>1. F \in SUBSET Nat
    OBVIOUS
  <1>2. PICK k \in F : \A n \in F : k <= n
    <2> HIDE DEF F
    <2> QED
      BY <1>1, LeastNumber
  <1>3. k \in m + 1 .. N /\ k - 1 \in m .. N
    BY <1>2
  <1>4. k - 1 \in T
    BY <1>2, <1>3
  <1> QED
    BY <1>2, <1>3, <1>4

\* What a round adds, and the rounds up to the N-th.
Successors(S, relation, nodes) == {n \in nodes : \E m \in S : <<m, n>> \in relation}
Rounds(f, N, roots, relation, nodes) ==
  f = [k \in 0 .. N |-> IF k = 0 THEN roots
                        ELSE f[k - 1] \cup Successors(f[k - 1], relation, nodes)]

\* The rounds are well-defined.
LEMMA RoundsExist ==
  ASSUME NEW roots, NEW relation, NEW nodes, NEW N \in Nat
  PROVE  \E f : Rounds(f, N, roots, relation, nodes)
  <1> DEFINE T == {n \in Nat : ~ \E f : Rounds(f, n, roots, relation, nodes)}
  <1> SUFFICES ASSUME T # {}
               PROVE  FALSE
    OBVIOUS
  <1>1. PICK m \in T : \A n \in T : m <= n
    BY LeastNumber
  <1>2. CASE m = 0
    <2>1. Rounds([k \in 0 .. 0 |-> roots], 0, roots, relation, nodes)
      BY DEF Rounds
    <2> QED
      BY <1>1, <1>2, <2>1
  <1>3. CASE m # 0
    <2>1. m - 1 \in Nat /\ m - 1 \notin T
      BY <1>1, <1>3
    <2>2. PICK f : Rounds(f, m - 1, roots, relation, nodes)
      BY <2>1
    <2> DEFINE g == [k \in 0 .. m |-> IF k = m
                                      THEN f[m - 1] \cup Successors(f[m - 1], relation, nodes)
                                      ELSE f[k]]
    <2>3. \A k \in 0 .. m - 1 : f[k] = IF k = 0 THEN roots
                                       ELSE f[k - 1] \cup Successors(f[k - 1], relation, nodes)
      BY <2>2 DEF Rounds
    <2>4. \A k \in 0 .. m : g[k] = IF k = 0 THEN roots
                                   ELSE g[k - 1] \cup Successors(g[k - 1], relation, nodes)
      <3> SUFFICES ASSUME NEW k \in 0 .. m
                   PROVE  g[k] = IF k = 0 THEN roots
                                 ELSE g[k - 1] \cup Successors(g[k - 1], relation, nodes)
        OBVIOUS
      <3>1. k # 0 => g[k - 1] = f[k - 1]
        BY <1>1, <1>3
      <3>2. CASE k = m
        BY <1>3, <3>1, <3>2
      <3>3. CASE k # m
        <4>1. k \in 0 .. m - 1 /\ g[k] = f[k]
          BY <1>1, <3>3
        <4> QED
          BY <2>3, <3>1, <4>1
      <3> QED
        BY <3>2, <3>3
    <2>5. Rounds(g, m, roots, relation, nodes)
      <3> HIDE DEF g
      <3>1. g = [k \in 0 .. m |-> g[k]]
        BY DEF g
      <3> QED
        BY <2>4, <3>1 DEF Rounds
    <2> QED
      BY <1>1, <2>5
  <1> QED
    BY <1>2, <1>3

Searches(f, N, roots, relation, nodes) ==
  /\ f[0] = roots
  /\ \A k \in 1 .. N : f[k] = f[k - 1] \cup Successors(f[k - 1], relation, nodes)
  /\ Seen(roots, relation, nodes) = f[N]

\* The search returns its last round.
LEMMA SeenIsRound ==
  ASSUME NEW roots, NEW relation, NEW nodes, IsFiniteSet(nodes)
  PROVE  /\ Cardinality(nodes) \in Nat
         /\ \E f : Searches(f, Cardinality(nodes), roots, relation, nodes)
  <1> DEFINE N == Cardinality(nodes)
             f == CHOOSE f : Rounds(f, N, roots, relation, nodes)
  <1>1. N \in Nat
    BY FS_CardinalityType
  <1>2. Rounds(f, N, roots, relation, nodes)
    BY <1>1, RoundsExist
  <1>3. Seen(roots, relation, nodes) = f[N]
    BY DEF Seen, Rounds, Successors
  <1> HIDE DEF f, N
  <1> DEFINE next(k) == f[k - 1] \cup Successors(f[k - 1], relation, nodes)
  <1>4. \A k \in 0 .. N : f[k] = IF k = 0 THEN roots ELSE next(k)
    BY <1>2 DEF Rounds
  <1> HIDE DEF next
  <1>5. f[0] = roots
    BY <1>1, <1>4
  <1>6. \A k \in 1 .. N : f[k] = next(k)
    BY <1>1, <1>4
  <1>7. Searches(f, N, roots, relation, nodes)
    BY <1>3, <1>5, <1>6 DEF Searches, next
  <1> QED
    BY <1>1, <1>7 DEF N

\* It finds nothing outside a set that holds its roots and all successors.
LEMMA SeenWithin ==
  ASSUME NEW roots, NEW relation, NEW nodes, IsFiniteSet(nodes),
         NEW S, roots \subseteq S, Successors(S, relation, nodes) \subseteq S
  PROVE  Seen(roots, relation, nodes) \subseteq S
  <1> DEFINE N == Cardinality(nodes)
  <1>1. N \in Nat /\ \E f : Searches(f, N, roots, relation, nodes)
    BY SeenIsRound
  <1>2. PICK f : Searches(f, N, roots, relation, nodes)
    BY <1>1
  <1> HIDE DEF N
  <1> DEFINE T == {k \in 0 .. N : f[k] \subseteq S}
  <1>3. 0 \in T
    BY <1>1, <1>2 DEF Searches
  <1>4. ASSUME NEW k \in 0 + 1 .. N, k - 1 \in T
        PROVE  k \in T
    <2>1. f[k] = f[k - 1] \cup Successors(f[k - 1], relation, nodes)
      BY <1>1, <1>2 DEF Searches
    <2>2. k \in 0 .. N
      BY <1>1
    <2> QED
      BY <1>4, <2>1, <2>2 DEF Successors
  <1>5. 0 .. N \subseteq T
    <2> HIDE DEF T
    <2> QED
      BY <1>1, <1>3, <1>4, Upward
  <1> QED
    BY <1>1, <1>2, <1>5 DEF Searches

\* What it finds holds its roots and all successors: as many rounds as there
\* are nodes are enough.
LEMMA SeenClosed ==
  ASSUME NEW roots, NEW relation, NEW nodes, IsFiniteSet(nodes), roots \subseteq nodes
  PROVE  /\ roots \subseteq Seen(roots, relation, nodes)
         /\ Seen(roots, relation, nodes) \subseteq nodes
         /\ Successors(Seen(roots, relation, nodes), relation, nodes)
              \subseteq Seen(roots, relation, nodes)
  <1>0. CASE roots = {}
    <2>1. Seen(roots, relation, nodes) \subseteq {}
      BY <1>0, SeenWithin, Successors({}, relation, nodes) = {} DEF Successors
    <2> QED
      BY <1>0, <2>1 DEF Successors
  <1> SUFFICES ASSUME roots # {}
               PROVE  /\ roots \subseteq Seen(roots, relation, nodes)
                      /\ Seen(roots, relation, nodes) \subseteq nodes
                      /\ Successors(Seen(roots, relation, nodes), relation, nodes)
                           \subseteq Seen(roots, relation, nodes)
    BY <1>0
  <1> DEFINE N == Cardinality(nodes)
  <1>1. N \in Nat /\ \E f : Searches(f, N, roots, relation, nodes)
    BY SeenIsRound
  <1>2. PICK f : Searches(f, N, roots, relation, nodes)
    BY <1>1
  <1>3. \A S : IsFiniteSet(S) /\ Cardinality(S) > N => ~(S \subseteq nodes)
    BY FS_Subset, FS_CardinalityType
  <1> HIDE DEF N
  <1>4. ASSUME NEW k \in 1 .. N
        PROVE  /\ k \in 0 .. N /\ k - 1 \in 0 .. N
               /\ f[k] = f[k - 1] \cup Successors(f[k - 1], relation, nodes)
    BY <1>1, <1>2 DEF Searches
  <1> DEFINE T == {k \in 0 .. N : roots \subseteq f[k] /\ f[k] \subseteq nodes}
  <1>5. 0 .. N \subseteq T
    <2>1. 0 \in T
      BY <1>1, <1>2 DEF Searches
    <2>2. ASSUME NEW k \in 0 + 1 .. N, k - 1 \in T
          PROVE  k \in T
      <3>1. k \in 1 .. N
        OBVIOUS
      <3> QED
        BY <2>2, <3>1, <1>4 DEF Successors
    <2> HIDE DEF T
    <2> QED
      BY <1>1, <2>1, <2>2, Upward
  <1>6. PICK j \in 1 .. N : f[j] = f[j - 1]
    <2> SUFFICES ASSUME \A k \in 1 .. N : f[k] # f[k - 1]
                 PROVE  FALSE
      OBVIOUS
    <2> DEFINE G == {k \in 0 .. N : Cardinality(f[k]) >= k + 1}
    <2>1. ASSUME NEW k \in 0 .. N
          PROVE  IsFiniteSet(f[k]) /\ Cardinality(f[k]) \in Nat /\ f[k] # {}
      BY <1>5, FS_Subset, FS_CardinalityType
    <2>2. 0 \in G
      <3>1. 0 \in 0 .. N
        BY <1>1
      <3>2. Cardinality(f[0]) # 0
        BY <2>1, <3>1, FS_EmptySet
      <3> QED
        BY <2>1, <3>1, <3>2
    <2>3. ASSUME NEW k \in 0 + 1 .. N, k - 1 \in G
          PROVE  k \in G
      <3>1. k \in 1 .. N /\ k \in Nat
        BY <1>1
      <3>2. f[k - 1] \subseteq f[k] /\ f[k - 1] # f[k]
        BY <1>4, <3>1
      <3>3. IsFiniteSet(f[k]) /\ Cardinality(f[k]) \in Nat /\ Cardinality(f[k - 1]) \in Nat
        BY <2>1, <1>4, <3>1
      <3>4. Cardinality(f[k - 1]) < Cardinality(f[k])
        BY <3>2, <3>3, FS_Subset
      <3>5. Cardinality(f[k - 1]) >= k
        BY <2>3, <3>1
      <3> QED
        BY <3>1, <3>3, <3>4, <3>5, <1>4
    <2>4. 0 .. N \subseteq G
      <3> HIDE DEF G
      <3> QED
        BY <1>1, <2>2, <2>3, Upward
    <2>5. N \in 0 .. N
      BY <1>1
    <2>6. Cardinality(f[N]) > N
      BY <1>1, <2>1, <2>4, <2>5
    <2> QED
      BY <1>3, <1>5, <2>1, <2>5, <2>6
  <1> DEFINE U == {k \in 0 .. N : f[k] = f[j - 1]}
  <1>7. j - 1 .. N \subseteq U
    <2>1. j - 1 \in 0 .. N /\ j - 1 \in U
      BY <1>4, <1>6
    <2>2. ASSUME NEW k \in j - 1 + 1 .. N, k - 1 \in U
          PROVE  k \in U
      <3>1. k \in 1 .. N
        BY <1>6
      <3>2. f[k] = f[j - 1] \cup Successors(f[j - 1], relation, nodes)
        BY <1>4, <2>2, <3>1
      <3>3. f[j] = f[j - 1] \cup Successors(f[j - 1], relation, nodes)
        BY <1>4, <1>6
      <3> QED
        BY <1>4, <1>6, <3>1, <3>2, <3>3
    <2> HIDE DEF U
    <2> QED
      BY <1>1, <2>1, <2>2, Upward
  <1>8. f[N] = f[j - 1] /\ N \in 0 .. N
    BY <1>1, <1>6, <1>7
  <1>9. Successors(f[N], relation, nodes) \subseteq f[N]
    BY <1>4, <1>6, <1>8
  <1> QED
    BY <1>2, <1>5, <1>8, <1>9 DEF Searches


\* A definition has finitely many nodes.
LEMMA IdsFinite ==
  ASSUME NEW d, WellFormed(d)
  PROVE  IsFiniteSet(Ids(d))
  <1>1. DOMAIN d.nodes = 1 .. Len(d.nodes) /\ Len(d.nodes) \in Nat
    BY DEF WellFormed
  <1>2. IsFiniteSet(1 .. Len(d.nodes))
    BY <1>1, FS_Interval
  <1> DEFINE id == [i \in 1 .. Len(d.nodes) |-> d.nodes[i].id]
  <1>3. id \in Surjection(1 .. Len(d.nodes), Ids(d))
    BY <1>1 DEF Ids, Surjection
  <1> QED
    BY <1>2, <1>3, FS_Surjection

-----------------------------------------------------------------------------
(* What follows of a graph create_run accepted. *)

\* Every node is found from the entry.
LEMMA AllSeen ==
  ASSUME NEW d, WellFormed(d), Accepted(d)
  PROVE  d.entry \in Ids(d) /\ Seen({d.entry}, Adjacency(d), Ids(d)) = Ids(d)
  <1>1. d.entry \in Ids(d) /\ Roots(d) = {d.entry}
    BY DEF Accepted, Compilable, Roots
  <1> QED
    BY <1>1 DEF Accepted, ValidGraph, EntryReachable

\* An edge of the validator's graph is a declared one, a dispatch or a return.
LEMMA EdgeOfSearch ==
  ASSUME NEW d, NEW m, NEW n, <<m, n>> \in Adjacency(d)
  PROVE  \/ \E i \in DOMAIN d.edges : d.edges[i].source = m /\ d.edges[i].target = n
         \/ m \in Supervisors(d) /\ n \in Capabilities(d)
         \/ m \in Capabilities(d) /\ n \in Supervisors(d)
  BY DEF Adjacency, Edges

\* Beside a supervisor, every other node either follows its edge or is a
\* capability.
LEMMA StopsBeside ==
  ASSUME NEW d, Supervisors(d) # {}
  PROVE  /\ Stops(d) = Supervisors(d) \cup Capabilities(d) \cup (Places(d) \ Ids(d))
         /\ Supervisors(d) \cap Capabilities(d) = {}
  BY DEF Stops, Places, ByEdges, Supervisors, Capabilities, OfType, CapabilityType

\* In a graph with a supervisor the edges from the entry do not come to the
\* end: a search that stayed with ordinary nodes would not find it.
LEMMA EntryNeverEnds ==
  ASSUME NEW d, WellFormed(d), Accepted(d), Supervisors(d) # {}
  PROVE  End \notin Lead(d, d.entry)
  <1> SUFFICES ASSUME End \in Lead(d, d.entry)
               PROVE  FALSE
    OBVIOUS
  <1> DEFINE L == Lead(d, d.entry) \ {End}
  <1>1. d.entry \in Ids(d) /\ d.entry \in Places(d) /\ d.entry # End /\ End \in Stops(d)
    BY AllSeen DEF Places, WellFormed, Stops, ByEdges
  <1>2. d.entry \in L /\ Follows(d, Lead(d, d.entry))
    BY <1>1, LeadFollows
  <1>3. ASSUME NEW m \in L
        PROVE  m \in Ids(d) /\ m \in ByEdges(d)
    <2>1. m \in Places(d) /\ m # End
      BY <1>3 DEF Lead
    <2>2. m \notin Stops(d)
      BY <1>1, <1>3, <2>1, OneStop
    <2> QED
      BY <2>1, <2>2 DEF Stops, Places
  <1>4. Successors(L, Adjacency(d), Ids(d)) \subseteq L
    <2> SUFFICES ASSUME NEW n \in Ids(d), NEW m \in L, <<m, n>> \in Adjacency(d)
                 PROVE  n \in L
      BY DEF Successors
    <2>1. m \in ByEdges(d) /\ m \notin Supervisors(d) /\ m \notin Capabilities(d)
      BY <1>3 DEF ByEdges
    <2>2. PICK i \in DOMAIN d.edges : d.edges[i].source = m /\ d.edges[i].target = n
      BY <2>1, EdgeOfSearch
    <2>3. n = NextNode(d, m)
      BY <2>1, <2>2, NextByEdge DEF EdgesFrom
    <2>4. n \in Lead(d, d.entry)
      BY <1>2, <2>1, <2>3 DEF Follows
    <2> QED
      BY <2>4 DEF WellFormed
  <1>5. Ids(d) \subseteq L
    <2>1. {d.entry} \subseteq L
      BY <1>2
    <2> HIDE DEF L
    <2>2. Seen({d.entry}, Adjacency(d), Ids(d)) \subseteq L
      BY <1>4, <2>1, IdsFinite, SeenWithin
    <2> QED
      BY <2>2, AllSeen
  <1>6. PICK s \in Supervisors(d) : s \in Ids(d)
    BY DEF Supervisors, OfType
  <1> QED
    BY <1>3, <1>5, <1>6 DEF ByEdges

\* If they come to the supervisor they come to no capability.
LEMMA EntryDispatchesFirst ==
  ASSUME NEW d, WellFormed(d), Accepted(d), NEW s \in Supervisors(d), s \in Lead(d, d.entry)
  PROVE  Lead(d, d.entry) \cap Capabilities(d) = {}
  <1>1. d.entry \in Places(d)
    BY AllSeen DEF Places
  <1>2. s \in Stops(d) /\ Capabilities(d) \subseteq Stops(d) /\ s \notin Capabilities(d)
    BY StopsBeside
  <1> QED
    BY <1>1, <1>2, OneStop

\* Whatever node is done, the runnable has a place to go on from.
LEMMA NextPlace ==
  ASSUME NEW d, WellFormed(d), Accepted(d), NEW n \in Ids(d), n \notin Supervisors(d)
  PROVE  NextNode(d, n) \in Places(d)
  <1>1. CASE n \in ByEdges(d)
    BY <1>1, NextByEdge
  <1>2. CASE n \notin ByEdges(d)
    <2>1. n \in Capabilities(d) /\ Supervisors(d) # {}
      BY <1>2 DEF ByEdges
    <2>2. NextNode(d, n) \in Supervisors(d)
      BY <2>1, NextReturns
    <2> QED
      BY <2>2 DEF Supervisors, OfType, Places
  <1> QED
    BY <1>1, <1>2

-----------------------------------------------------------------------------
(* The search of the validator and the executor the runnable replaced. *)

\* NodesHaveRoutes for every definition: as long as edges are declared as in
\* graphs/default.yaml, the runnable can reach what the validator found.
THEOREM EveryNodeHasRoutes ==
  ASSUME NEW d, WellFormed(d)
  PROVE  NodesHaveRoutes(d)
  <1> SUFFICES ASSUME Accepted(d), PlainDispatch(d)
               PROVE  Seen({d.entry}, RuntimeEdges(d), Ids(d)) = Ids(d)
    BY DEF NodesHaveRoutes
  <1> DEFINE R == Seen({d.entry}, RuntimeEdges(d), Ids(d))
  <1>1. /\ d.entry \in R /\ R \subseteq Ids(d)
        /\ Successors(R, RuntimeEdges(d), Ids(d)) \subseteq R
    <2>1. {d.entry} \subseteq Ids(d)
      BY AllSeen
    <2> QED
      BY <2>1, IdsFinite, SeenClosed
  <1> HIDE DEF R
  <1>2. ASSUME NEW m \in R, NEW n \in Ids(d), <<m, n>> \in Adjacency(d)
        PROVE  n \in NextNodes(d, m)
    <2>1. ASSUME m \in Supervisors(d), n \in Capabilities(d)
          PROVE  n \in NextNodes(d, m)
      BY <2>1 DEF NextNodes
    <2>2. ASSUME m \in Capabilities(d), n \in Supervisors(d)
          PROVE  n \in NextNodes(d, m)
      BY <2>2, NextReturns
    <2>3. ASSUME NEW i \in DOMAIN d.edges, d.edges[i].source = m, d.edges[i].target = n
          PROVE  n \in NextNodes(d, m)
      <3>1. m \notin Capabilities(d) /\ (m \in Supervisors(d) => n \in Capabilities(d))
        BY <2>3 DEF PlainDispatch, Edges
      <3>2. CASE m \in Supervisors(d)
        BY <3>1, <3>2, <2>1
      <3>3. CASE m \notin Supervisors(d)
        <4>1. m \in ByEdges(d)
          BY <1>1, <3>1, <3>3 DEF ByEdges
        <4> QED
          BY <2>3, <4>1, NextByEdge DEF EdgesFrom
      <3> QED
        BY <3>2, <3>3
    <2> QED
      BY <1>2, <2>1, <2>2, <2>3, EdgeOfSearch
  <1>3. Successors(R, Adjacency(d), Ids(d)) \subseteq R
    <2> SUFFICES ASSUME NEW m \in R, NEW n \in Ids(d), <<m, n>> \in Adjacency(d)
                 PROVE  n \in R
      BY DEF Successors
    <2>1. <<m, n>> \in RuntimeEdges(d)
      BY <1>1, <1>2 DEF RuntimeEdges
    <2> QED
      BY <1>1, <2>1 DEF Successors
  <1>4. Ids(d) \subseteq R
    <2>1. {d.entry} \subseteq R
      BY <1>1
    <2>2. Seen({d.entry}, Adjacency(d), Ids(d)) \subseteq R
      BY <1>3, <2>1, IdsFinite, SeenWithin
    <2> QED
      BY <2>2, AllSeen
  <1> QED
    BY <1>1, <1>4 DEF R

-----------------------------------------------------------------------------
(* The thread.  The inductive invariant: where an invocation is, and what   *)
(* its decision and its answer have to do with that.                        *)

\* A capability is at the node its own, fresh decision selected.
Own == /\ at \in Capabilities(graph)
       /\ decision \in Decision /\ decision.node = at /\ decision.action = TypeOf(graph, at)
       /\ decidedIn = invocation

\* It is one whose action is put before the client.
AtGate == /\ Own
          /\ \/ TypeOf(graph, at) = "approval"
             \/ TypeOf(graph, at) = "tool" /\ RequiresApproval(decision.tool)

\* What the supervisor's decision can have led to.
Dispatched == /\ decision # Unset /\ decidedIn = invocation
              /\ at \in Supervisors(graph) \/ Own \/ (at = End /\ decision = FinalDecision)

Admitted == IF phase \in {"new", "refused"} THEN outcome = "none" ELSE Accepted(graph)

\* Once anything was ever decided, an invocation that starts over meets no
\* capability before it meets the supervisor.
Decided == decision # Unset =>
             /\ Supervisors(graph) # {}
             /\ Lead(graph, graph.entry) \cap Capabilities(graph) = {}

Located == phase \in Running =>
             /\ at \in Places(graph)
             /\ phase # "check" => at \in Ids(graph)
             /\ phase = "start" => left # 0
             /\ at \in Lead(graph, graph.entry) \/ Dispatched

Acting == /\ phase \in {"gate", "asking", "tool", "rag", "subagent"} => Own
          /\ phase \in {"gate", "asking"} => AtGate
          /\ phase = "tool" => TypeOf(graph, at) = "tool"

\* The row of an action is committed before its thread is interrupted.
Pausing == /\ phase = "asking" => approval[ActionId] # "absent"
           /\ phase = "idle" /\ outcome = "paused" =>
                AtGate /\ asked = ActionId /\ approval[ActionId] # "absent"

Answering == resume # Unset => /\ phase \in {"check", "start", "node", "gate", "asking"}
                               /\ AtGate /\ approval[ActionId] # "absent"

\* An answer not yet spent on a call.
Unspent == IF \/ resume = "approved"
              \/ phase = "tool" /\ RequiresApproval(decision.tool)
           THEN 1 ELSE 0
Budget  == calls.gated + Unspent <= calls.granted

\* What resumptions hand over was resolved, as granted only if approved.
Licensed == /\ latest # Unset => approval[latest] \in Reply
            /\ calls.granted > 0 => \E a \in Action : approval[a] = "approved"

Stopping == calls.late \in {0, 1} /\ (calls.late = 1 => cancelled /\ phase # "start")

Untroubled == phase \in Running => cause = "none" /\ outcome \in Open

Invariant == /\ TypeOK /\ Admitted /\ Decided /\ Located /\ Acting /\ Pausing /\ Answering
             /\ Budget /\ Licensed /\ Stopping /\ Untroubled
             /\ EndsBySupervisor /\ OnlyTransientRetried

\* The definition of a run.
LEMMA RunGraph ==
  ASSUME graph \in Definitions
  PROVE  WellFormed(graph) /\ Ids(graph) \subseteq Node
  BY DefinitionsAssumption DEF WellFormed, Node

\* The type of a node says how it is left.
LEMMA NodeKind ==
  ASSUME NEW d, NEW n \in Ids(d)
  PROVE  /\ TypeOf(d, n) = "supervisor" <=> n \in Supervisors(d)
         /\ TypeOf(d, n) \in CapabilityType <=> n \in Capabilities(d)
         /\ TypeOf(d, n) \in {"llm", "transform"} => n \in ByEdges(d)
  BY DEF Supervisors, Capabilities, OfType, ByEdges, CapabilityType

\* Decisions for a capability, the final one and none at all differ.
LEMMA DecisionParts ==
  /\ \A d \in Decision : /\ d.action \in CapabilityType /\ d.input \in Inputs
                         /\ d # FinalDecision /\ d # Unset
  /\ FinalDecision # Unset
  <1>1. ASSUME NEW d \in Decision
        PROVE  d.action \in CapabilityType /\ d.input \in Inputs
    BY DEF Decision, CapabilityType
  <1>2. FinalDecision.action \notin CapabilityType
    BY DEF FinalDecision, CapabilityType
  <1> QED
    BY <1>1, <1>2, UnsetAssumption

\* How each exception ends an attempt.
LEMMA Endings ==
  /\ OutcomeOf(Cancelled) = "cancelled"
  /\ OutcomeOf(OutOfSteps) = "fatal"
  /\ OutcomeOf(OtherException) = "retryable"
  /\ \A f \in Failure :
       /\ OutcomeOf(LlmFailed(f)) = IF f \in {"timeout", "ratelimit"} THEN "retryable" ELSE "fatal"
       /\ OutcomeOf(SupervisorFailed(f)) = "fatal"
  /\ \A f \in {"timeout", "ratelimit"} : NormalizeModelError(f).recoverable
  <1>1. /\ ClassifyFailure(Cancelled) = "cancelled"
        /\ ClassifyFailure(OutOfSteps) = "max_steps"
        /\ ClassifyFailure(OtherException) = "error"
    BY DEF ClassifyFailure, Cancelled, OutOfSteps, OtherException
  <1>2. ASSUME NEW f \in Failure
        PROVE  /\ ClassifyFailure(LlmFailed(f)) =
                    IF f \in {"timeout", "ratelimit"} THEN "model_error:recoverable" ELSE "model_error"
               /\ ClassifyFailure(SupervisorFailed(f)) \in {"model_error:fatal", "model_error"}
    <2> DEFINE e == NormalizeModelError(f)
               l == LlmFailed(f)
               s == SupervisorFailed(f)
    <2>1. /\ e.category = IF f = "timeout" THEN "timeout"
                          ELSE IF f = "ratelimit" THEN "rate_limit"
                          ELSE IF f = "denied" THEN "permission_denied" ELSE "provider_error"
          /\ f \in {"timeout", "ratelimit"} => e.recoverable = TRUE
      BY <1>2 DEF NormalizeModelError, Failure
    <2>2. /\ l.class = "ModelCallError" /\ l.category = e.category /\ l.recoverable = e.recoverable
          /\ s.class = "ModelCallError" /\ s.category = e.category /\ s.recoverable = FALSE
      BY DEF LlmFailed, SupervisorFailed, ModelCallError, NormalizeModelError
    <2> HIDE DEF e, l, s
    <2>3. /\ ClassifyFailure(l) = IF f \in {"timeout", "ratelimit"} THEN "model_error:recoverable"
                                  ELSE "model_error"
          /\ ClassifyFailure(s) \in {"model_error:fatal", "model_error"}
      BY <1>2, <2>1, <2>2 DEF ClassifyFailure, Failure
    <2> QED
      BY <2>3 DEF l, s
  <1>3. \A f \in {"timeout", "ratelimit"} : NormalizeModelError(f).recoverable
    BY DEF NormalizeModelError
  <1> QED
    BY <1>1, <1>2, <1>3 DEF OutcomeOf, ExecutionIsRetryable

\* A node under way is one of the graph's; what follows it is one of its places.
LEMMA AtNode ==
  ASSUME TypeOK, Admitted, Located, phase \in Running, phase # "check"
  PROVE  /\ Accepted(graph) /\ WellFormed(graph) /\ Ids(graph) \subseteq Node
         /\ at \in Ids(graph) /\ at # End
         /\ at \notin Supervisors(graph) => NextNode(graph, at) \in Places(graph)
  <1>1. Accepted(graph) /\ at \in Ids(graph)
    BY DEF Admitted, Located, Running
  <1>2. WellFormed(graph) /\ Ids(graph) \subseteq Node
    BY RunGraph DEF TypeOK
  <1> QED
    BY <1>1, <1>2, NextPlace DEF WellFormed

\* A capability that finds a decision is the one it selected.
LEMMA FindsOwn ==
  ASSUME TypeOK, Admitted, Decided, Located, phase = "node",
         at \in Capabilities(graph), decision # Unset
  PROVE  Own
  <1>1. at \notin Lead(graph, graph.entry) /\ at \notin Supervisors(graph)
    BY StopsBeside DEF Decided
  <1>2. at # End
    BY AtNode DEF Running
  <1> QED
    BY <1>1, <1>2 DEF Located, Dispatched, Running

\* Beside a supervisor it returns to it.
LEMMA Returns ==
  ASSUME TypeOK, Admitted, Decided, Own
  PROVE  /\ decision # Unset /\ decision # FinalDecision
         /\ at \in Ids(graph) /\ at # End /\ at \notin Supervisors(graph)
         /\ NextNode(graph, at) \in Supervisors(graph)
         /\ NextNode(graph, at) \in Ids(graph)
         /\ ActionId \in Action
  <1>1. decision # Unset /\ decision # FinalDecision /\ decision.input \in Inputs
    BY DecisionParts DEF Own
  <1>2. at \in Ids(graph) /\ at # End /\ Ids(graph) \subseteq Node
    BY RunGraph DEF Own, Capabilities, OfType, TypeOK, WellFormed
  <1>3. NextNode(graph, at) \in Supervisors(graph) /\ at \notin Supervisors(graph)
    BY <1>1, NextReturns DEF Own, Decided
  <1> QED
    BY <1>1, <1>2, <1>3 DEF Supervisors, OfType, ActionId, Action

\* Types.
LEMMA TypeStep ==
  ASSUME TypeOK, Admitted, Decided, Located, Acting, Licensed, [Next]_vars
  PROVE  TypeOK'
  <1> USE DEF TypeOK, Running, Open, Outcome
  <1> USE DEF Runs, Completes, Fails, Raises, Ends, Kept, client, history
  <1>1. CASE CreateRun
    BY <1>1 DEF CreateRun
  <1>2. CASE Ainvoke
    <2>1. graph.entry \in Node
      BY <1>2, AllSeen, RunGraph DEF Ainvoke, Begins, Admitted
    <2> QED
      BY <1>2, <2>1, ProgramAssumption DEF Ainvoke, Begins
  <1>3. CASE Aresume
    <2>2. resume' \in Reply
      BY <1>3 DEF Aresume, Licensed
    <2>3. calls' \in [granted : Nat, gated : Nat, ungated : Nat, late : Nat]
      BY <1>3 DEF Aresume
    <2> QED
      BY <1>3, <2>2, <2>3, ProgramAssumption DEF Aresume, Begins
  <1>4. CASE Reaches
    BY <1>4 DEF Reaches
  <1>5. CASE Exceeds
    BY <1>5, Endings DEF Exceeds
  <1>6. CASE CheckCancel
    BY <1>6, Endings DEF CheckCancel, OutOfBudget
  <1>7. CASE StartNode
    <2>1. left # 0
      BY <1>7 DEF StartNode, Located
    <2>2. calls' \in [granted : Nat, gated : Nat, ungated : Nat, late : Nat]
      BY <1>7 DEF StartNode
    <2>3. left' \in 0 .. MaxSteps
      BY <1>7, <2>1, ProgramAssumption DEF StartNode
    <2> QED
      BY <1>7, <2>2, <2>3 DEF StartNode
  <1>8. CASE RunLlm
    <2>1. NextNode(graph, at) \in Node \cup {End}
      BY <1>8, AtNode, NodeKind DEF RunLlm, Running, Places, CapabilityType
    <2> QED
      BY <1>8, <2>1, Endings DEF RunLlm, Completion
  <1>9. CASE RunTransform
    <2>1. NextNode(graph, at) \in Node \cup {End}
      BY <1>9, AtNode, NodeKind DEF RunTransform, Running, Places, CapabilityType
    <2> QED
      BY <1>9, <2>1, Endings DEF RunTransform
  <1>10. CASE RunSupervisor
    <2>1. Ids(graph) \subseteq Node
      BY RunGraph
    <2>2. ASSUME NEW d \in Decision \cup {FinalDecision}, d = FinalDecision \/ ValidDecision(d)
          PROVE  d.node \in Node \cup {End}
      BY <2>1, <2>2 DEF ValidDecision, FinalDecision
    <2> QED
      BY <1>10, <2>2, Endings DEF RunSupervisor, Completion
  <1>11. CASE RunTool
    BY <1>11, Endings DEF RunTool
  <1>12. CASE RunApproval
    BY <1>12, Endings DEF RunApproval, Dispatch
  <1>13. CASE RunRag
    BY <1>13, Endings DEF RunRag, Dispatch
  <1>14. CASE RunSubagent
    <2>1. NextNode(graph, at) \in Node \cup {End}
      BY <1>14, AtNode, NodeKind DEF RunSubagent, Running, Places, CapabilityType
    <2> QED
      BY <1>14, <2>1, Endings, ProgramAssumption DEF RunSubagent
  <1>26. CASE CreatePending
    <2>1. approval' \in [Action -> {"absent", "pending", "approved", "rejected", "expired"}]
      BY <1>26 DEF CreatePending
    <2> QED
      BY <1>26, <2>1 DEF CreatePending
  <1>15. CASE Interrupt
    <2>1. ActionId \in Action
      BY <1>15, Returns DEF Interrupt, Acting
    <2> QED
      BY <1>15, <2>1 DEF Interrupt
  <1>16. CASE Answer
    <2>1. NextNode(graph, at) \in Node \cup {End}
      BY <1>16, AtNode, Returns DEF Answer, Acting, Running, Places
    <2> QED
      BY <1>16, <2>1 DEF Answer
  <1>17. CASE InvokeTool
    <2>1. NextNode(graph, at) \in Node \cup {End}
      BY <1>17, AtNode, Returns DEF InvokeTool, Acting, Running, Places
    <2>2. calls' \in [granted : Nat, gated : Nat, ungated : Nat, late : Nat]
      BY <1>17 DEF InvokeTool, Sensitive
    <2> QED
      BY <1>17, <2>1, <2>2, Endings DEF InvokeTool
  <1>18. CASE Retrieve
    <2>1. NextNode(graph, at) \in Node \cup {End}
      BY <1>18, AtNode, Returns DEF Retrieve, Acting, Running, Places
    <2> QED
      BY <1>18, <2>1, Endings DEF Retrieve
  <1>19. CASE SubagentReturns
    <2>1. NextNode(graph, at) \in Node \cup {End}
      BY <1>19, AtNode, Returns DEF SubagentReturns, Acting, Running, Places
    <2> QED
      BY <1>19, <2>1, Endings DEF SubagentReturns
  <1>20. CASE SubagentCalls
    <2>1. calls' \in [granted : Nat, gated : Nat, ungated : Nat, late : Nat]
      BY <1>20 DEF SubagentCalls
    <2>2. subSteps' \in 0 .. MaxSubSteps
      BY <1>20, ProgramAssumption DEF SubagentCalls
    <2> QED
      BY <1>20, <2>1, <2>2, Endings DEF SubagentCalls
  <1>21. CASE DbFault
    BY <1>21, Endings DEF DbFault
  <1>22. CASE Abandon
    BY <1>22 DEF Abandon
  <1>23. CASE Cancel
    BY <1>23 DEF Cancel, thread
  <1>24. ASSUME NEW a \in Action, Resolve(a)
        PROVE  TypeOK'
    BY <1>24 DEF Resolve, thread
  <1>25. CASE UNCHANGED vars
    BY <1>25 DEF vars, thread
  <1> QED
    BY <1>1, <1>2, <1>3, <1>4, <1>5, <1>6, <1>7, <1>8, <1>9, <1>10, <1>11, <1>12, <1>13,
       <1>14, <1>15, <1>16, <1>17, <1>18, <1>19, <1>20, <1>21, <1>22, <1>23, <1>24, <1>25,
       <1>26 DEF Next, ProgramStep, Loop, NodeStep, Capability

\* The graph is admitted before the thread is invoked, and never changes.
LEMMA AdmittedStep ==
  ASSUME Admitted, [Next]_vars
  PROVE  Admitted'
  <1> USE DEF Admitted, Running
  <1> USE DEF Runs, Completes, Fails, Raises, Ends, Kept, client, history
  <1>1. CASE CreateRun
    BY <1>1 DEF CreateRun
  <1>2. CASE Ainvoke
    BY <1>2 DEF Ainvoke, Begins
  <1>3. CASE Aresume
    BY <1>3 DEF Aresume, Begins
  <1>4. CASE Reaches
    BY <1>4 DEF Reaches
  <1>5. CASE Exceeds
    BY <1>5 DEF Exceeds
  <1>6. CASE CheckCancel
    BY <1>6 DEF CheckCancel, OutOfBudget
  <1>7. CASE StartNode
    BY <1>7 DEF StartNode
  <1>8. CASE RunLlm
    BY <1>8 DEF RunLlm, Completion
  <1>9. CASE RunTransform
    BY <1>9 DEF RunTransform
  <1>10. CASE RunSupervisor
    BY <1>10 DEF RunSupervisor, Completion
  <1>11. CASE RunTool
    BY <1>11 DEF RunTool
  <1>12. CASE RunApproval
    BY <1>12 DEF RunApproval, Dispatch
  <1>13. CASE RunRag
    BY <1>13 DEF RunRag, Dispatch
  <1>14. CASE RunSubagent
    BY <1>14 DEF RunSubagent
  <1>26. CASE CreatePending
    BY <1>26 DEF CreatePending
  <1>15. CASE Interrupt
    BY <1>15 DEF Interrupt
  <1>16. CASE Answer
    BY <1>16 DEF Answer
  <1>17. CASE InvokeTool
    BY <1>17 DEF InvokeTool
  <1>18. CASE Retrieve
    BY <1>18 DEF Retrieve
  <1>19. CASE SubagentReturns
    BY <1>19 DEF SubagentReturns
  <1>20. CASE SubagentCalls
    BY <1>20 DEF SubagentCalls
  <1>21. CASE DbFault
    BY <1>21 DEF DbFault
  <1>22. CASE Abandon
    BY <1>22 DEF Abandon
  <1>23. CASE Cancel
    BY <1>23 DEF Cancel, thread
  <1>24. ASSUME NEW a \in Action, Resolve(a)
        PROVE  Admitted'
    BY <1>24 DEF Resolve, thread
  <1>25. CASE UNCHANGED vars
    BY <1>25 DEF vars, thread
  <1> QED
    BY <1>1, <1>2, <1>3, <1>4, <1>5, <1>6, <1>7, <1>8, <1>9, <1>10, <1>11, <1>12, <1>13,
       <1>14, <1>15, <1>16, <1>17, <1>18, <1>19, <1>20, <1>21, <1>22, <1>23, <1>24, <1>25,
       <1>26 DEF Next, ProgramStep, Loop, NodeStep, Capability

\* Only a supervisor decides, and then the edges from the entry lead to it.
LEMMA DecidedStep ==
  ASSUME TypeOK, Admitted, Decided, Located, [Next]_vars
  PROVE  Decided'
  <1> USE DEF Decided
  <1> USE DEF Runs, Completes, Fails, Raises, Ends, Kept, client, history
  <1>1. CASE CreateRun
    BY <1>1 DEF CreateRun
  <1>2. CASE Ainvoke
    BY <1>2 DEF Ainvoke, Begins
  <1>3. CASE Aresume
    BY <1>3 DEF Aresume, Begins
  <1>4. CASE Reaches
    BY <1>4 DEF Reaches
  <1>5. CASE Exceeds
    BY <1>5 DEF Exceeds
  <1>6. CASE CheckCancel
    BY <1>6 DEF CheckCancel, OutOfBudget
  <1>7. CASE StartNode
    BY <1>7 DEF StartNode
  <1>8. CASE RunLlm
    BY <1>8 DEF RunLlm, Completion
  <1>9. CASE RunTransform
    BY <1>9 DEF RunTransform
  <1>10. CASE RunSupervisor
    <2>1. at \in Supervisors(graph) /\ WellFormed(graph) /\ Accepted(graph)
      BY <1>10, AtNode, NodeKind DEF RunSupervisor, Running
    <2>2. Lead(graph, graph.entry) \cap Capabilities(graph) = {}
      BY <1>10, <2>1, EntryDispatchesFirst DEF RunSupervisor, Running, Located, Dispatched
    <2>3. graph' = graph
      BY <1>10 DEF RunSupervisor
    <2> QED
      BY <2>1, <2>2, <2>3
  <1>11. CASE RunTool
    BY <1>11 DEF RunTool
  <1>12. CASE RunApproval
    BY <1>12 DEF RunApproval, Dispatch
  <1>13. CASE RunRag
    BY <1>13 DEF RunRag, Dispatch
  <1>14. CASE RunSubagent
    BY <1>14 DEF RunSubagent
  <1>26. CASE CreatePending
    BY <1>26 DEF CreatePending
  <1>15. CASE Interrupt
    BY <1>15 DEF Interrupt
  <1>16. CASE Answer
    BY <1>16 DEF Answer
  <1>17. CASE InvokeTool
    BY <1>17 DEF InvokeTool
  <1>18. CASE Retrieve
    BY <1>18 DEF Retrieve
  <1>19. CASE SubagentReturns
    BY <1>19 DEF SubagentReturns
  <1>20. CASE SubagentCalls
    BY <1>20 DEF SubagentCalls
  <1>21. CASE DbFault
    BY <1>21 DEF DbFault
  <1>22. CASE Abandon
    BY <1>22 DEF Abandon
  <1>23. CASE Cancel
    BY <1>23 DEF Cancel, thread
  <1>24. ASSUME NEW a \in Action, Resolve(a)
        PROVE  Decided'
    BY <1>24 DEF Resolve, thread
  <1>25. CASE UNCHANGED vars
    BY <1>25 DEF vars, thread
  <1> QED
    BY <1>1, <1>2, <1>3, <1>4, <1>5, <1>6, <1>7, <1>8, <1>9, <1>10, <1>11, <1>12, <1>13,
       <1>14, <1>15, <1>16, <1>17, <1>18, <1>19, <1>20, <1>21, <1>22, <1>23, <1>24, <1>25,
       <1>26 DEF Next, ProgramStep, Loop, NodeStep, Capability

\* Every step goes where the edges from the entry, or the decision, lead.
LEMMA LocatedStep ==
  ASSUME TypeOK, Admitted, Decided, Located, Acting, Pausing, [Next]_vars
  PROVE  Located'
  <1> USE DEF Located, Dispatched, Own, Running
  <1> USE DEF Runs, Completes, Fails, Raises, Ends, Kept, client, history
  <1>1. CASE CreateRun
    BY <1>1 DEF CreateRun
  <1>2. CASE Ainvoke
    <2>1. WellFormed(graph) /\ Accepted(graph)
      BY <1>2, RunGraph DEF Ainvoke, Begins, Admitted, TypeOK
    <2>2. graph.entry \in Ids(graph) /\ graph.entry \in Lead(graph, graph.entry)
      BY <2>1, AllSeen, LeadFollows DEF Places
    <2> QED
      BY <1>2, <2>2 DEF Ainvoke, Begins, Places
  <1>3. CASE Aresume
    <2>1. AtGate
      BY <1>3 DEF Aresume, Begins, Pausing
    <2>2. at \in Ids(graph) /\ decision # Unset
      BY <2>1, Returns DEF AtGate
    <2>3. decidedIn' = invocation'
      BY <1>3, <2>1 DEF Aresume, Begins, AtGate, Own
    <2> QED
      BY <1>3, <2>1, <2>2, <2>3 DEF Aresume, Begins, AtGate, Own, Dispatched, Places
  <1>4. CASE Reaches
    BY <1>4 DEF Reaches
  <1>5. CASE Exceeds
    BY <1>5, Endings DEF Exceeds
  <1>6. CASE CheckCancel
    BY <1>6, Endings DEF Places, CheckCancel, OutOfBudget
  <1>7. CASE StartNode
    BY <1>7 DEF StartNode
  <1>8. CASE RunLlm
    <2>1. at \in ByEdges(graph) /\ at \notin Supervisors(graph) /\ at # End
      BY <1>8, AtNode, NodeKind DEF RunLlm, Running, ByEdges
    <2>2. ~ Dispatched
      BY <2>1, StopsBeside DEF Dispatched, Own, Decided, Stops
    <2>3. NextNode(graph, at) \in Places(graph) /\ NextNode(graph, at) \in Lead(graph, graph.entry)
      <3>1. WellFormed(graph) /\ Accepted(graph) /\ graph.entry \in Places(graph)
        BY <1>8, AtNode, AllSeen DEF RunLlm, Running, Places
      <3>2. at \in Lead(graph, graph.entry)
        BY <1>8, <2>2 DEF RunLlm, Running
      <3> QED
        BY <2>1, <3>1, <3>2, LeadFollows, NextByEdge DEF Follows
    <2> QED
      BY <1>8, <2>3, Endings DEF RunLlm, Completion
  <1>9. CASE RunTransform
    <2>1. at \in ByEdges(graph) /\ at \notin Supervisors(graph) /\ at # End
      BY <1>9, AtNode, NodeKind DEF RunTransform, Running, ByEdges
    <2>2. ~ Dispatched
      BY <2>1, StopsBeside DEF Dispatched, Own, Decided, Stops
    <2>3. NextNode(graph, at) \in Places(graph) /\ NextNode(graph, at) \in Lead(graph, graph.entry)
      <3>1. WellFormed(graph) /\ Accepted(graph) /\ graph.entry \in Places(graph)
        BY <1>9, AtNode, AllSeen DEF RunTransform, Running, Places
      <3>2. at \in Lead(graph, graph.entry)
        BY <1>9, <2>2 DEF RunTransform, Running
      <3> QED
        BY <2>1, <3>1, <3>2, LeadFollows, NextByEdge DEF Follows
    <2> QED
      BY <1>9, <2>3, Endings DEF RunTransform
  <1>10. CASE RunSupervisor
    <2>1. ASSUME NEW d \in Decision, ValidDecision(d)
          PROVE  /\ d.node \in Capabilities(graph) /\ d.node \in Ids(graph)
                 /\ d.action = TypeOf(graph, d.node)
                 /\ d # Unset
      BY <2>1, DecisionParts, NodeKind DEF ValidDecision
    <2>2. FinalDecision.node = End /\ FinalDecision # Unset
      BY DecisionParts DEF FinalDecision
    <2> QED
      BY <1>10, <2>1, <2>2, Endings DEF Dispatched, Own, Places, RunSupervisor, Completion
  <1>11. CASE RunTool
    BY <1>11, Endings DEF RunTool
  <1>12. CASE RunApproval
    BY <1>12, Endings DEF RunApproval, Dispatch
  <1>13. CASE RunRag
    BY <1>13, Endings DEF RunRag, Dispatch
  <1>14. CASE RunSubagent
    <2>1. decision # Unset => Own
      BY <1>14, FindsOwn, AtNode, NodeKind DEF RunSubagent, Running, CapabilityType
    <2> QED
      BY <1>14, <2>1, Returns, Endings DEF Dispatched, Own, Places, RunSubagent
  <1>26. CASE CreatePending
    BY <1>26 DEF CreatePending
  <1>15. CASE Interrupt
    BY <1>15 DEF Interrupt
  <1>16. CASE Answer
    <2>1. Own
      BY <1>16 DEF Answer, Acting
    <2> QED
      BY <1>16, <2>1, Returns, Endings DEF Dispatched, Own, Places, Answer
  <1>17. CASE InvokeTool
    <2>1. Own
      BY <1>17 DEF InvokeTool, Acting
    <2> QED
      BY <1>17, <2>1, Returns, Endings DEF Dispatched, Own, Places, InvokeTool
  <1>18. CASE Retrieve
    <2>1. Own
      BY <1>18 DEF Retrieve, Acting
    <2> QED
      BY <1>18, <2>1, Returns, Endings DEF Dispatched, Own, Places, Retrieve
  <1>19. CASE SubagentReturns
    <2>1. Own
      BY <1>19 DEF SubagentReturns, Acting
    <2> QED
      BY <1>19, <2>1, Returns, Endings DEF Dispatched, Own, Places, SubagentReturns
  <1>20. CASE SubagentCalls
    <2>1. Own
      BY <1>20 DEF SubagentCalls, Acting
    <2> QED
      BY <1>20, <2>1, Returns, Endings DEF Dispatched, Own, Places, SubagentCalls
  <1>21. CASE DbFault
    BY <1>21, Endings DEF DbFault
  <1>22. CASE Abandon
    BY <1>22 DEF Abandon
  <1>23. CASE Cancel
    BY <1>23 DEF Cancel, thread
  <1>24. ASSUME NEW a \in Action, Resolve(a)
        PROVE  Located'
    BY <1>24 DEF Resolve, thread
  <1>25. CASE UNCHANGED vars
    BY <1>25 DEF vars, thread
  <1> QED
    BY <1>1, <1>2, <1>3, <1>4, <1>5, <1>6, <1>7, <1>8, <1>9, <1>10, <1>11, <1>12, <1>13,
       <1>14, <1>15, <1>16, <1>17, <1>18, <1>19, <1>20, <1>21, <1>22, <1>23, <1>24, <1>25,
       <1>26 DEF Next, ProgramStep, Loop, NodeStep, Capability

\* A capability starts only on the decision that selected it.
LEMMA ActingStep ==
  ASSUME TypeOK, Admitted, Decided, Located, Acting, Answering, [Next]_vars
  PROVE  Acting'
  <1> USE DEF Acting, AtGate, Own
  <1> USE DEF Runs, Completes, Fails, Raises, Ends, Kept, client, history
  <1>1. CASE CreateRun
    BY <1>1 DEF CreateRun
  <1>2. CASE Ainvoke
    BY <1>2 DEF Ainvoke, Begins
  <1>3. CASE Aresume
    BY <1>3 DEF Aresume, Begins
  <1>4. CASE Reaches
    BY <1>4 DEF Reaches
  <1>5. CASE Exceeds
    BY <1>5, Endings DEF Exceeds
  <1>6. CASE CheckCancel
    BY <1>6, Endings DEF CheckCancel, OutOfBudget
  <1>7. CASE StartNode
    BY <1>7 DEF StartNode
  <1>8. CASE RunLlm
    BY <1>8, Endings DEF RunLlm, Completion
  <1>9. CASE RunTransform
    BY <1>9, Endings DEF RunTransform
  <1>10. CASE RunSupervisor
    BY <1>10, Endings DEF RunSupervisor, Completion
  <1>11. CASE RunTool
    <2>1. decision # Unset => Own
      BY <1>11, FindsOwn, AtNode, NodeKind DEF RunTool, Running, CapabilityType
    <2> QED
      BY <1>11, <2>1, Endings DEF RunTool
  <1>12. CASE RunApproval
    <2>1. decision # Unset => Own
      BY <1>12, FindsOwn, AtNode, NodeKind DEF RunApproval, Dispatch, Running,
         CapabilityType
    <2> QED
      BY <1>12, <2>1, Endings DEF RunApproval, Dispatch
  <1>13. CASE RunRag
    <2>1. decision # Unset => Own
      BY <1>13, FindsOwn, AtNode, NodeKind DEF RunRag, Dispatch, Running, CapabilityType
    <2> QED
      BY <1>13, <2>1, Endings DEF RunRag, Dispatch
  <1>14. CASE RunSubagent
    <2>1. decision # Unset => Own
      BY <1>14, FindsOwn, AtNode, NodeKind DEF RunSubagent, Running, CapabilityType
    <2> QED
      BY <1>14, <2>1, Endings DEF RunSubagent
  <1>26. CASE CreatePending
    BY <1>26 DEF CreatePending
  <1>15. CASE Interrupt
    BY <1>15 DEF Interrupt
  <1>16. CASE Answer
    BY <1>16 DEF Answer
  <1>17. CASE InvokeTool
    BY <1>17, Endings DEF InvokeTool
  <1>18. CASE Retrieve
    BY <1>18, Endings DEF Retrieve
  <1>19. CASE SubagentReturns
    BY <1>19 DEF SubagentReturns
  <1>20. CASE SubagentCalls
    BY <1>20, Endings DEF SubagentCalls
  <1>21. CASE DbFault
    BY <1>21, Endings DEF DbFault
  <1>22. CASE Abandon
    BY <1>22 DEF Abandon
  <1>23. CASE Cancel
    BY <1>23 DEF Cancel, thread
  <1>24. ASSUME NEW a \in Action, Resolve(a)
        PROVE  Acting'
    BY <1>24 DEF Resolve, thread
  <1>25. CASE UNCHANGED vars
    BY <1>25 DEF vars, thread
  <1> QED
    BY <1>1, <1>2, <1>3, <1>4, <1>5, <1>6, <1>7, <1>8, <1>9, <1>10, <1>11, <1>12, <1>13,
       <1>14, <1>15, <1>16, <1>17, <1>18, <1>19, <1>20, <1>21, <1>22, <1>23, <1>24, <1>25,
       <1>26 DEF Next, ProgramStep, Loop, NodeStep, Capability

\* A thread is paused only at the gate, for the action it computed there.
LEMMA PausingStep ==
  ASSUME TypeOK, Admitted, Decided, Located, Acting, Pausing, [Next]_vars
  PROVE  Pausing'
  <1> USE DEF Pausing, AtGate, Own, ActionId
  <1> USE DEF Runs, Completes, Fails, Raises, Ends, Kept, client, history
  <1>1. CASE CreateRun
    BY <1>1 DEF CreateRun, Admitted
  <1>2. CASE Ainvoke
    BY <1>2 DEF Ainvoke, Begins
  <1>3. CASE Aresume
    BY <1>3 DEF Aresume, Begins
  <1>4. CASE Reaches
    BY <1>4 DEF Reaches
  <1>5. CASE Exceeds
    BY <1>5, Endings DEF Exceeds
  <1>6. CASE CheckCancel
    BY <1>6, Endings DEF CheckCancel, OutOfBudget
  <1>7. CASE StartNode
    BY <1>7 DEF StartNode
  <1>8. CASE RunLlm
    BY <1>8, Endings DEF RunLlm, Completion
  <1>9. CASE RunTransform
    BY <1>9, Endings DEF RunTransform
  <1>10. CASE RunSupervisor
    BY <1>10, Endings DEF RunSupervisor, Completion
  <1>11. CASE RunTool
    BY <1>11, Endings DEF RunTool
  <1>12. CASE RunApproval
    BY <1>12, Endings DEF RunApproval, Dispatch
  <1>13. CASE RunRag
    BY <1>13, Endings DEF RunRag, Dispatch
  <1>14. CASE RunSubagent
    BY <1>14, Endings DEF RunSubagent
  <1>26. CASE CreatePending
    <2>1. ActionId \in Action
      BY <1>26, Returns DEF CreatePending, Acting
    <2> QED
      BY <1>26, <2>1 DEF CreatePending, TypeOK
  <1>15. CASE Interrupt
    BY <1>15 DEF Acting, Interrupt
  <1>16. CASE Answer
    BY <1>16 DEF Answer
  <1>17. CASE InvokeTool
    BY <1>17, Endings DEF InvokeTool
  <1>18. CASE Retrieve
    BY <1>18, Endings DEF Retrieve
  <1>19. CASE SubagentReturns
    BY <1>19 DEF SubagentReturns
  <1>20. CASE SubagentCalls
    BY <1>20, Endings DEF SubagentCalls
  <1>21. CASE DbFault
    BY <1>21, Endings DEF DbFault
  <1>22. CASE Abandon
    BY <1>22 DEF Abandon
  <1>23. CASE Cancel
    BY <1>23 DEF Cancel, thread
  <1>24. ASSUME NEW a \in Action, Resolve(a)
        PROVE  Pausing'
    <2>1. phase = "asking" \/ (phase = "idle" /\ outcome = "paused") => ActionId \in Action
      BY Returns DEF Acting
    <2> QED
      BY <1>24, <2>1 DEF Resolve, thread, TypeOK
  <1>25. CASE UNCHANGED vars
    BY <1>25 DEF vars, thread
  <1> QED
    BY <1>1, <1>2, <1>3, <1>4, <1>5, <1>6, <1>7, <1>8, <1>9, <1>10, <1>11, <1>12, <1>13,
       <1>14, <1>15, <1>16, <1>17, <1>18, <1>19, <1>20, <1>21, <1>22, <1>23, <1>24, <1>25,
       <1>26 DEF Next, ProgramStep, Loop, NodeStep, Capability

\* An answer is used up at the gate that was interrupted for it, or lost with
\* the attempt.
LEMMA AnsweringStep ==
  ASSUME TypeOK, Admitted, Decided, Located, Acting, Pausing, Answering, [Next]_vars
  PROVE  Answering'
  <1> USE DEF Answering, AtGate, Own, ActionId
  <1> USE DEF Runs, Completes, Fails, Raises, Ends, Kept, client, history
  <1>1. CASE CreateRun
    BY <1>1 DEF CreateRun
  <1>2. CASE Ainvoke
    BY <1>2 DEF Ainvoke, Begins
  <1>3. CASE Aresume
    BY <1>3 DEF Aresume, Begins, Pausing
  <1>4. CASE Reaches
    BY <1>4 DEF Reaches
  <1>5. CASE Exceeds
    BY <1>5, Endings DEF Exceeds
  <1>6. CASE CheckCancel
    BY <1>6, Endings DEF CheckCancel, OutOfBudget
  <1>7. CASE StartNode
    BY <1>7 DEF StartNode
  <1>8. CASE RunLlm
    BY <1>8, Endings DEF RunLlm, Completion
  <1>9. CASE RunTransform
    BY <1>9, Endings DEF RunTransform
  <1>10. CASE RunSupervisor
    BY <1>10, Endings DEF RunSupervisor, Completion
  <1>11. CASE RunTool
    BY <1>11, Endings DEF RunTool
  <1>12. CASE RunApproval
    BY <1>12, Endings DEF RunApproval, Dispatch
  <1>13. CASE RunRag
    BY <1>13, Endings DEF RunRag, Dispatch
  <1>14. CASE RunSubagent
    BY <1>14, Endings DEF RunSubagent
  <1>26. CASE CreatePending
    <2>1. ActionId \in Action
      BY <1>26, Returns DEF CreatePending, Acting
    <2> QED
      BY <1>26, <2>1 DEF CreatePending, TypeOK
  <1>15. CASE Interrupt
    BY <1>15 DEF Interrupt
  <1>16. CASE Answer
    BY <1>16 DEF Answer
  <1>17. CASE InvokeTool
    BY <1>17, Endings DEF InvokeTool
  <1>18. CASE Retrieve
    BY <1>18, Endings DEF Retrieve
  <1>19. CASE SubagentReturns
    BY <1>19 DEF SubagentReturns
  <1>20. CASE SubagentCalls
    BY <1>20, Endings DEF SubagentCalls
  <1>21. CASE DbFault
    BY <1>21, Endings DEF DbFault
  <1>22. CASE Abandon
    BY <1>22 DEF Abandon
  <1>23. CASE Cancel
    BY <1>23 DEF Cancel, thread
  <1>24. ASSUME NEW a \in Action, Resolve(a)
        PROVE  Answering'
    <2>1. resume # Unset => ActionId \in Action
      BY Returns
    <2> QED
      BY <1>24, <2>1 DEF Resolve, thread, TypeOK
  <1>25. CASE UNCHANGED vars
    BY <1>25 DEF vars, thread
  <1> QED
    BY <1>1, <1>2, <1>3, <1>4, <1>5, <1>6, <1>7, <1>8, <1>9, <1>10, <1>11, <1>12, <1>13,
       <1>14, <1>15, <1>16, <1>17, <1>18, <1>19, <1>20, <1>21, <1>22, <1>23, <1>24, <1>25,
       <1>26 DEF Next, ProgramStep, Loop, NodeStep, Capability

\* A call spends an answer that was given.
LEMMA BudgetStep ==
  ASSUME TypeOK, Acting, Pausing, Answering, Budget, [Next]_vars
  PROVE  Budget'
  <1> USE DEF Budget, Unspent, TypeOK
  <1> USE DEF Runs, Completes, Fails, Raises, Ends, Kept, client, history
  <1>0. Unset # "approved"
    BY UnsetAssumption DEF Reply
  <1> USE <1>0
  <1>1. CASE CreateRun
    BY <1>1 DEF CreateRun
  <1>2. CASE Ainvoke
    BY <1>2 DEF Ainvoke, Begins
  <1>3. CASE Aresume
    <2>1. /\ calls'.gated = calls.gated
          /\ calls'.granted = IF approval[latest] = "approved" THEN calls.granted + 1 ELSE calls.granted
      BY <1>3 DEF Aresume
    <2>2. (approval[latest] # "approved" => resume' # "approved") /\ phase' # "tool"
      BY <1>3 DEF Aresume, Begins
    <2>3. calls.gated \in Nat /\ calls.granted \in Nat /\ calls.gated <= calls.granted
      OBVIOUS
    <2>4. Unspent' \in {0, 1} /\ (Unspent' = 1 => approval[latest] = "approved")
      BY <2>2
    <2> HIDE DEF Unspent
    <2> QED
      BY <2>1, <2>3, <2>4
  <1>4. CASE Reaches
    BY <1>4 DEF Reaches
  <1>5. CASE Exceeds
    BY <1>5, Endings DEF Exceeds
  <1>6. CASE CheckCancel
    BY <1>6, Endings DEF CheckCancel, OutOfBudget
  <1>7. CASE StartNode
    BY <1>7 DEF StartNode
  <1>8. CASE RunLlm
    BY <1>8, Endings DEF RunLlm, Completion
  <1>9. CASE RunTransform
    BY <1>9, Endings DEF RunTransform
  <1>10. CASE RunSupervisor
    BY <1>10, Endings DEF RunSupervisor, Completion
  <1>11. CASE RunTool
    BY <1>11, Endings DEF RunTool
  <1>12. CASE RunApproval
    BY <1>12, Endings DEF RunApproval, Dispatch
  <1>13. CASE RunRag
    BY <1>13, Endings DEF RunRag, Dispatch
  <1>14. CASE RunSubagent
    BY <1>14, Endings DEF RunSubagent
  <1>26. CASE CreatePending
    BY <1>26 DEF CreatePending
  <1>15. CASE Interrupt
    BY <1>15 DEF Interrupt
  <1>16. CASE Answer
    BY <1>16 DEF Answer
  <1>17. CASE InvokeTool
    <2>1. resume = Unset /\ resume' = Unset /\ phase' # "tool" /\ phase = "tool"
      BY <1>17, Endings DEF Answering, InvokeTool
    <2>2. /\ calls'.gated \in {calls.gated, calls.gated + Sensitive(decision.tool)}
          /\ calls'.granted = calls.granted
      BY <1>17 DEF InvokeTool
    <2>3. Unspent' = 0
      BY <2>1
    <2>4. Unspent = Sensitive(decision.tool) /\ Sensitive(decision.tool) \in Nat
      BY <2>1 DEF Sensitive
    <2>5. calls.gated \in Nat /\ calls.granted \in Nat
      OBVIOUS
    <2> HIDE DEF Unspent
    <2> QED
      BY <2>2, <2>3, <2>4, <2>5
  <1>18. CASE Retrieve
    BY <1>18, Endings DEF Retrieve
  <1>19. CASE SubagentReturns
    BY <1>19 DEF SubagentReturns
  <1>20. CASE SubagentCalls
    BY <1>20, Endings DEF SubagentCalls
  <1>21. CASE DbFault
    BY <1>21, Endings DEF DbFault
  <1>22. CASE Abandon
    BY <1>22 DEF Abandon
  <1>23. CASE Cancel
    BY <1>23 DEF Cancel, thread
  <1>24. ASSUME NEW a \in Action, Resolve(a)
        PROVE  Budget'
    BY <1>24 DEF Resolve, thread
  <1>25. CASE UNCHANGED vars
    BY <1>25 DEF vars, thread
  <1> QED
    BY <1>1, <1>2, <1>3, <1>4, <1>5, <1>6, <1>7, <1>8, <1>9, <1>10, <1>11, <1>12, <1>13,
       <1>14, <1>15, <1>16, <1>17, <1>18, <1>19, <1>20, <1>21, <1>22, <1>23, <1>24, <1>25,
       <1>26 DEF Next, ProgramStep, Loop, NodeStep, Capability

\* A resolved approval stays resolved; only a resumption with an approved one
\* counts as granted.
LEMMA LicensedStep ==
  ASSUME TypeOK, Licensed, [Next]_vars
  PROVE  Licensed'
  <1> USE DEF Licensed, TypeOK, Reply
  <1>1. CASE Aresume
    BY <1>1 DEF Aresume, client, Begins
  <1>2. CASE CreatePending
    BY <1>2 DEF CreatePending, history
  <1>3. ASSUME NEW a \in Action, Resolve(a)
        PROVE  Licensed'
    BY <1>3 DEF Resolve, history
  <1>4. CASE approval' = approval /\ latest' = latest /\ calls'.granted = calls.granted
    BY <1>4
  <1>5. \/ Aresume \/ CreatePending \/ \E a \in Action : Resolve(a)
        \/ approval' = approval /\ latest' = latest /\ calls'.granted = calls.granted
    BY DEF Next, vars, ProgramStep, Loop, NodeStep, Capability, CreateRun, Ainvoke, Reaches, Exceeds,
           CheckCancel, StartNode, RunLlm, RunTransform, RunSupervisor, RunTool, RunApproval, RunRag,
           Dispatch, RunSubagent, Interrupt, Answer, InvokeTool, Retrieve, SubagentReturns,
           SubagentCalls, DbFault, Abandon, Cancel, Kept, client, history
  <1> QED
    BY <1>1, <1>2, <1>3, <1>4, <1>5

\* A cancellation that was not noticed in time is at the next node.
LEMMA StoppingStep ==
  ASSUME TypeOK, Stopping, [Next]_vars
  PROVE  Stopping'
  <1> USE DEF Stopping, TypeOK
  <1> USE DEF Runs, Completes, Fails, Raises, Ends, Kept, client, history
  <1>1. CASE CreateRun
    BY <1>1 DEF CreateRun
  <1>2. CASE Ainvoke
    BY <1>2 DEF Ainvoke, Begins
  <1>3. CASE Aresume
    BY <1>3 DEF Aresume, Begins
  <1>4. CASE Reaches
    BY <1>4 DEF Reaches
  <1>5. CASE Exceeds
    BY <1>5, Endings DEF Exceeds
  <1>6. CASE CheckCancel
    BY <1>6, Endings DEF CheckCancel, OutOfBudget
  <1>7. CASE StartNode
    BY <1>7 DEF StartNode
  <1>8. CASE RunLlm
    BY <1>8, Endings DEF RunLlm, Completion
  <1>9. CASE RunTransform
    BY <1>9, Endings DEF RunTransform
  <1>10. CASE RunSupervisor
    BY <1>10, Endings DEF RunSupervisor, Completion
  <1>11. CASE RunTool
    BY <1>11, Endings DEF RunTool
  <1>12. CASE RunApproval
    BY <1>12, Endings DEF RunApproval, Dispatch
  <1>13. CASE RunRag
    BY <1>13, Endings DEF RunRag, Dispatch
  <1>14. CASE RunSubagent
    BY <1>14, Endings DEF RunSubagent
  <1>26. CASE CreatePending
    BY <1>26 DEF CreatePending
  <1>15. CASE Interrupt
    BY <1>15 DEF Interrupt
  <1>16. CASE Answer
    BY <1>16 DEF Answer
  <1>17. CASE InvokeTool
    BY <1>17, Endings DEF InvokeTool
  <1>18. CASE Retrieve
    BY <1>18, Endings DEF Retrieve
  <1>19. CASE SubagentReturns
    BY <1>19 DEF SubagentReturns
  <1>20. CASE SubagentCalls
    BY <1>20, Endings DEF SubagentCalls
  <1>21. CASE DbFault
    BY <1>21, Endings DEF DbFault
  <1>22. CASE Abandon
    BY <1>22 DEF Abandon
  <1>23. CASE Cancel
    BY <1>23 DEF Cancel, thread
  <1>24. ASSUME NEW a \in Action, Resolve(a)
        PROVE  Stopping'
    BY <1>24 DEF Resolve, thread
  <1>25. CASE UNCHANGED vars
    BY <1>25 DEF vars, thread
  <1> QED
    BY <1>1, <1>2, <1>3, <1>4, <1>5, <1>6, <1>7, <1>8, <1>9, <1>10, <1>11, <1>12, <1>13,
       <1>14, <1>15, <1>16, <1>17, <1>18, <1>19, <1>20, <1>21, <1>22, <1>23, <1>24, <1>25,
       <1>26 DEF Next, ProgramStep, Loop, NodeStep, Capability

\* A thread is done only where a decision of this attempt ended it.
LEMMA EndsStep ==
  ASSUME TypeOK, Admitted, Decided, Located, Pausing, Untroubled, EndsBySupervisor, [Next]_vars
  PROVE  EndsBySupervisor'
  <1> USE DEF EndsBySupervisor, Running
  <1> USE DEF Runs, Completes, Fails, Raises, Ends, Kept, client, history
  <1>1. CASE CreateRun
    BY <1>1 DEF CreateRun
  <1>2. CASE Ainvoke
    BY <1>2 DEF Ainvoke, Begins, Open
  <1>3. CASE Aresume
    BY <1>3 DEF Aresume, Begins
  <1>4. CASE Reaches
    <2>1. WellFormed(graph) /\ Accepted(graph)
      BY <1>4, RunGraph DEF Reaches, Admitted, TypeOK
    <2>2. at \notin Ids(graph) /\ (Supervisors(graph) # {} => at \notin Lead(graph, graph.entry))
      BY <1>4, <2>1, EntryNeverEnds DEF Reaches, WellFormed
    <2>3. Supervisors(graph) # {} => decision = FinalDecision /\ decidedIn = invocation
      BY <1>4, <2>2 DEF Reaches, Located, Dispatched, Own, Supervisors, Capabilities, OfType
    <2> QED
      BY <1>4, <2>3 DEF Reaches
  <1>5. CASE Exceeds
    BY <1>5, Endings DEF Exceeds
  <1>6. CASE CheckCancel
    BY <1>6, Endings DEF CheckCancel, OutOfBudget
  <1>7. CASE StartNode
    BY <1>7 DEF StartNode
  <1>8. CASE RunLlm
    BY <1>8, Endings DEF RunLlm, Completion
  <1>9. CASE RunTransform
    BY <1>9, Endings DEF RunTransform
  <1>10. CASE RunSupervisor
    BY <1>10, Endings DEF Untroubled, Open, RunSupervisor, Completion
  <1>11. CASE RunTool
    BY <1>11, Endings DEF RunTool
  <1>12. CASE RunApproval
    BY <1>12, Endings DEF RunApproval, Dispatch
  <1>13. CASE RunRag
    BY <1>13, Endings DEF RunRag, Dispatch
  <1>14. CASE RunSubagent
    BY <1>14, Endings DEF RunSubagent
  <1>26. CASE CreatePending
    BY <1>26 DEF CreatePending
  <1>15. CASE Interrupt
    BY <1>15 DEF Interrupt
  <1>16. CASE Answer
    BY <1>16 DEF Answer
  <1>17. CASE InvokeTool
    BY <1>17, Endings DEF InvokeTool
  <1>18. CASE Retrieve
    BY <1>18, Endings DEF Retrieve
  <1>19. CASE SubagentReturns
    BY <1>19 DEF SubagentReturns
  <1>20. CASE SubagentCalls
    BY <1>20, Endings DEF SubagentCalls
  <1>21. CASE DbFault
    BY <1>21, Endings DEF DbFault
  <1>22. CASE Abandon
    BY <1>22 DEF Abandon
  <1>23. CASE Cancel
    BY <1>23 DEF Cancel, thread
  <1>24. ASSUME NEW a \in Action, Resolve(a)
        PROVE  EndsBySupervisor'
    BY <1>24 DEF Resolve, thread
  <1>25. CASE UNCHANGED vars
    BY <1>25 DEF vars, thread
  <1> QED
    BY <1>1, <1>2, <1>3, <1>4, <1>5, <1>6, <1>7, <1>8, <1>9, <1>10, <1>11, <1>12, <1>13,
       <1>14, <1>15, <1>16, <1>17, <1>18, <1>19, <1>20, <1>21, <1>22, <1>23, <1>24, <1>25,
       <1>26 DEF Next, ProgramStep, Loop, NodeStep, Capability

\* A failure ends the attempt.
LEMMA UntroubledStep ==
  ASSUME Untroubled, [Next]_vars
  PROVE  Untroubled'
  <1> USE DEF Untroubled, Running, Open
  <1> USE DEF Runs, Completes, Fails, Raises, Ends, Kept, client, history
  <1>1. CASE CreateRun
    BY <1>1 DEF CreateRun
  <1>2. CASE Ainvoke
    BY <1>2 DEF Ainvoke, Begins
  <1>3. CASE Aresume
    BY <1>3 DEF Aresume, Begins
  <1>4. CASE Reaches
    BY <1>4 DEF Reaches
  <1>5. CASE Exceeds
    BY <1>5, Endings DEF Exceeds
  <1>6. CASE CheckCancel
    BY <1>6, Endings DEF CheckCancel, OutOfBudget
  <1>7. CASE StartNode
    BY <1>7 DEF StartNode
  <1>8. CASE RunLlm
    BY <1>8, Endings DEF RunLlm, Completion
  <1>9. CASE RunTransform
    BY <1>9, Endings DEF RunTransform
  <1>10. CASE RunSupervisor
    BY <1>10, Endings DEF RunSupervisor, Completion
  <1>11. CASE RunTool
    BY <1>11, Endings DEF RunTool
  <1>12. CASE RunApproval
    BY <1>12, Endings DEF RunApproval, Dispatch
  <1>13. CASE RunRag
    BY <1>13, Endings DEF RunRag, Dispatch
  <1>14. CASE RunSubagent
    BY <1>14, Endings DEF RunSubagent
  <1>26. CASE CreatePending
    BY <1>26 DEF CreatePending
  <1>15. CASE Interrupt
    BY <1>15 DEF Interrupt
  <1>16. CASE Answer
    BY <1>16 DEF Answer
  <1>17. CASE InvokeTool
    BY <1>17, Endings DEF InvokeTool
  <1>18. CASE Retrieve
    BY <1>18, Endings DEF Retrieve
  <1>19. CASE SubagentReturns
    BY <1>19 DEF SubagentReturns
  <1>20. CASE SubagentCalls
    BY <1>20, Endings DEF SubagentCalls
  <1>21. CASE DbFault
    BY <1>21, Endings DEF DbFault
  <1>22. CASE Abandon
    BY <1>22 DEF Abandon
  <1>23. CASE Cancel
    BY <1>23 DEF Cancel, thread
  <1>24. ASSUME NEW a \in Action, Resolve(a)
        PROVE  Untroubled'
    BY <1>24 DEF Resolve, thread
  <1>25. CASE UNCHANGED vars
    BY <1>25 DEF vars, thread
  <1> QED
    BY <1>1, <1>2, <1>3, <1>4, <1>5, <1>6, <1>7, <1>8, <1>9, <1>10, <1>11, <1>12, <1>13,
       <1>14, <1>15, <1>16, <1>17, <1>18, <1>19, <1>20, <1>21, <1>22, <1>23, <1>24, <1>25,
       <1>26 DEF Next, ProgramStep, Loop, NodeStep, Capability

\* An attempt that is retried failed of something that may pass.
LEMMA RetryStep ==
  ASSUME TypeOK, Admitted, Untroubled, OnlyTransientRetried, [Next]_vars
  PROVE  OnlyTransientRetried'
  <1> USE DEF OnlyTransientRetried, Running, Failure
  <1> USE DEF Runs, Completes, Fails, Raises, Ends, Kept, client, history
  <1>1. CASE CreateRun
    BY <1>1 DEF CreateRun, Admitted
  <1>2. CASE Ainvoke
    BY <1>2 DEF Ainvoke, Begins
  <1>3. CASE Aresume
    BY <1>3 DEF Aresume, Begins
  <1>4. CASE Reaches
    BY <1>4 DEF Reaches
  <1>5. CASE Exceeds
    BY <1>5, Endings DEF Untroubled, Exceeds
  <1>6. CASE CheckCancel
    BY <1>6, Endings DEF CheckCancel, OutOfBudget
  <1>7. CASE StartNode
    BY <1>7 DEF StartNode
  <1>8. CASE RunLlm
    BY <1>8, Endings DEF RunLlm, Completion
  <1>9. CASE RunTransform
    BY <1>9, Endings DEF RunTransform
  <1>10. CASE RunSupervisor
    BY <1>10, Endings DEF RunSupervisor, Completion
  <1>11. CASE RunTool
    BY <1>11, Endings DEF RunTool
  <1>12. CASE RunApproval
    BY <1>12, Endings DEF RunApproval, Dispatch
  <1>13. CASE RunRag
    BY <1>13, Endings DEF RunRag, Dispatch
  <1>14. CASE RunSubagent
    BY <1>14, Endings DEF RunSubagent
  <1>26. CASE CreatePending
    BY <1>26 DEF CreatePending
  <1>15. CASE Interrupt
    BY <1>15 DEF Interrupt
  <1>16. CASE Answer
    BY <1>16 DEF Answer
  <1>17. CASE InvokeTool
    BY <1>17, Endings DEF InvokeTool
  <1>18. CASE Retrieve
    BY <1>18, Endings DEF Retrieve
  <1>19. CASE SubagentReturns
    BY <1>19 DEF SubagentReturns
  <1>20. CASE SubagentCalls
    BY <1>20, Endings DEF SubagentCalls
  <1>21. CASE DbFault
    BY <1>21, Endings DEF DbFault
  <1>22. CASE Abandon
    BY <1>22 DEF Abandon
  <1>23. CASE Cancel
    BY <1>23 DEF Cancel, thread
  <1>24. ASSUME NEW a \in Action, Resolve(a)
        PROVE  OnlyTransientRetried'
    BY <1>24 DEF Resolve, thread
  <1>25. CASE UNCHANGED vars
    BY <1>25 DEF vars, thread
  <1> QED
    BY <1>1, <1>2, <1>3, <1>4, <1>5, <1>6, <1>7, <1>8, <1>9, <1>10, <1>11, <1>12, <1>13,
       <1>14, <1>15, <1>16, <1>17, <1>18, <1>19, <1>20, <1>21, <1>22, <1>23, <1>24, <1>25,
       <1>26 DEF Next, ProgramStep, Loop, NodeStep, Capability

-----------------------------------------------------------------------------
(* What holds of every run. *)

LEMMA InitInvariant ==
  ASSUME Init
  PROVE  Invariant
  <1>1. TypeOK
    <2>1. calls \in [granted : Nat, gated : Nat, ungated : Nat, late : Nat]
      BY DEF Init
    <2>2. approval \in [Action -> {"absent", "pending", "approved", "rejected", "expired"}]
      BY DEF Init
    <2>3. 0 \in 0 .. MaxSteps /\ 0 \in 0 .. MaxSubSteps /\ 0 \in 0 .. MaxInvocations
      BY ProgramAssumption
    <2> QED
      BY <2>1, <2>2, <2>3 DEF Init, TypeOK, Outcome, Open
  <1>2. Admitted /\ Decided /\ Located /\ Acting
    BY DEF Init, Running, Admitted, Decided, Located, Acting
  <1>3. Pausing /\ Answering /\ Stopping /\ Untroubled /\ EndsBySupervisor /\ OnlyTransientRetried
    BY DEF Init, Pausing, Answering, Stopping, Untroubled, Running, EndsBySupervisor,
           OnlyTransientRetried
  <1>4. Budget /\ Licensed
    BY UnsetAssumption DEF Init, Budget, Unspent, Licensed, Reply
  <1> QED
    BY <1>1, <1>2, <1>3, <1>4 DEF Invariant

LEMMA NextInvariant ==
  ASSUME Invariant, [Next]_vars
  PROVE  Invariant'
  <1>1. TypeOK' /\ Admitted' /\ Decided' /\ Located'
    BY TypeStep, AdmittedStep, DecidedStep, LocatedStep DEF Invariant
  <1>2. Acting' /\ Pausing' /\ Answering' /\ Budget' /\ Licensed'
    BY ActingStep, PausingStep, AnsweringStep, BudgetStep, LicensedStep DEF Invariant
  <1>3. Stopping' /\ Untroubled' /\ EndsBySupervisor' /\ OnlyTransientRetried'
    BY StoppingStep, EndsStep, UntroubledStep, RetryStep DEF Invariant
  <1> QED
    BY <1>1, <1>2, <1>3 DEF Invariant

\* Whatever the models decide, and however failures, cancellations, approvals
\* and lost workers interleave, the thread of a run is where its graph or its
\* decision puts it (compile_langgraph, _decision_from_state).
THEOREM ProgramInvariant == Spec => []Invariant
  BY InitInvariant, NextInvariant, PTL DEF Spec

\* Every variable keeps its type; the recursion limit and the step limit of a
\* subagent are never overrun.
THEOREM TypeCorrect == Spec => []TypeOK
  <1>1. Invariant => TypeOK
    BY DEF Invariant
  <1> QED
    BY <1>1, ProgramInvariant, PTL

\* No capability acts on a decision of an earlier attempt, or of another node.
THEOREM OwnDecisions == Spec => []ActsOnOwnDecision
  <1>1. Invariant => ActsOnOwnDecision
    BY DEF Invariant, Acting, Own, ActsOnOwnDecision
  <1> QED
    BY <1>1, ProgramInvariant, PTL

\* A resumed thread finds the row of the action it is about to ask for.
THEOREM ReaskFindsRow == Spec => []ReaskCreatesNothing
  <1>1. Invariant => ReaskCreatesNothing
    BY DEF Invariant, Answering, ReaskCreatesNothing
  <1> QED
    BY <1>1, ProgramInvariant, PTL

\* Tool nodes make no more sensitive calls than there were answers to let them
\* through, and none while nothing was approved.
THEOREM AnswersCoverCalls == Spec => []OneCallPerAnswer
  <1>1. Invariant => OneCallPerAnswer
    <2>1. TypeOK => calls.gated \in Nat /\ calls.granted \in Nat
      BY DEF TypeOK
    <2>2. Unspent \in Nat
      BY DEF Unspent
    <2> QED
      BY <2>1, <2>2 DEF Invariant, Budget, Licensed, OneCallPerAnswer
  <1> QED
    BY <1>1, ProgramInvariant, PTL

\* A graph with a supervisor ends by its final decision and in no other way.
THEOREM SupervisorEnds == Spec => []EndsBySupervisor
  <1>1. Invariant => EndsBySupervisor
    BY DEF Invariant
  <1> QED
    BY <1>1, ProgramInvariant, PTL

\* At most one node is started after a cancellation, over all attempts.
THEOREM CancellationStops == Spec => []StopsAfterCancel
  <1>1. Invariant => StopsAfterCancel
    BY DEF Invariant, Stopping, StopsAfterCancel
  <1> QED
    BY <1>1, ProgramInvariant, PTL

\* Neither the recursion limit nor a permanent model failure burns an attempt.
THEOREM PermanentNotRetried == Spec => []OnlyTransientRetried
  <1>1. Invariant => OnlyTransientRetried
    BY DEF Invariant
  <1> QED
    BY <1>1, ProgramInvariant, PTL

\* Whatever definition is submitted, the runnable reaches what the search of
\* the validator found.
THEOREM SearchAlwaysMatches == Spec => []SearchMatchesRunnable
  <1>1. Invariant => SearchMatchesRunnable
    BY RunGraph, EveryNodeHasRoutes DEF Invariant, TypeOK, SearchMatchesRunnable
  <1> QED
    BY <1>1, ProgramInvariant, PTL

-----------------------------------------------------------------------------
(* The thread as the worker sees it. *)

LEMMA ThreadInit ==
  ASSUME Init
  PROVE  Thread!Init
  BY DEF Init, Thread!Init, Running

\* Every step is one of the contract or none.
\*   An interrupt is Ask, its answer Consume, the end of an attempt Finish.
LEMMA ThreadStep ==
  ASSUME TypeOK, Admitted, Decided, Acting, Pausing, Licensed, [Next]_vars
  PROVE  [Thread!Next]_(Thread!vars)
  <1> USE DEF Thread!Next, Thread!vars, Running
  <1> USE DEF Runs, Completes, Fails, Raises, Ends, Kept, client, history
  <1>1. CASE CreateRun
    BY <1>1 DEF CreateRun
  <1>2. CASE Ainvoke
    BY <1>2 DEF Ainvoke, Begins, Open, Thread!Open, Thread!Invoke
  <1>3. CASE Aresume
    <2>1. asked # Unset
      BY <1>3, Returns, UnsetAssumption DEF Aresume, Begins, Pausing, AtGate
    <2> QED
      BY <1>3, <2>1 DEF Aresume, Begins, Licensed, Reply, Thread!Resume
  <1>4. CASE Reaches
    BY <1>4, Endings DEF Reaches, Thread!Finish, Thread!Open, Thread!Final
  <1>5. CASE Exceeds
    BY <1>5, Endings DEF Exceeds, Thread!Finish, Thread!Open, Thread!Final
  <1>6. CASE CheckCancel
    BY <1>6, Endings DEF CheckCancel, OutOfBudget, Thread!Finish, Thread!Open, Thread!Final
  <1>7. CASE StartNode
    BY <1>7 DEF StartNode
  <1>8. CASE RunLlm
    BY <1>8, Endings DEF RunLlm, Completion, Thread!Finish, Thread!Open, Thread!Final
  <1>9. CASE RunTransform
    BY <1>9, Endings DEF RunTransform, Thread!Finish, Thread!Open, Thread!Final
  <1>10. CASE RunSupervisor
    BY <1>10, Endings DEF RunSupervisor, Completion, Thread!Finish, Thread!Open,
       Thread!Final
  <1>11. CASE RunTool
    BY <1>11, Endings DEF RunTool, Thread!Finish, Thread!Open, Thread!Final
  <1>12. CASE RunApproval
    BY <1>12, Endings DEF RunApproval, Dispatch, Thread!Finish, Thread!Open, Thread!Final
  <1>13. CASE RunRag
    BY <1>13, Endings DEF RunRag, Dispatch, Thread!Finish, Thread!Open, Thread!Final
  <1>14. CASE RunSubagent
    BY <1>14, Endings DEF RunSubagent, Thread!Finish, Thread!Open, Thread!Final
  <1>26. CASE CreatePending
    BY <1>26 DEF CreatePending
  <1>15. CASE Interrupt
    <2>1. ActionId \in Action
      BY <1>15, Returns DEF Interrupt, Acting
    <2> QED
      BY <1>15, <2>1 DEF Interrupt, Thread!Ask
  <1>16. CASE Answer
    BY <1>16 DEF Answer, Thread!Consume
  <1>17. CASE InvokeTool
    BY <1>17, Endings DEF InvokeTool, Thread!Finish, Thread!Open, Thread!Final
  <1>18. CASE Retrieve
    BY <1>18, Endings DEF Retrieve, Thread!Finish, Thread!Open, Thread!Final
  <1>19. CASE SubagentReturns
    BY <1>19 DEF SubagentReturns
  <1>20. CASE SubagentCalls
    BY <1>20, Endings DEF SubagentCalls, Thread!Finish, Thread!Open, Thread!Final
  <1>21. CASE DbFault
    BY <1>21, Endings DEF DbFault, Thread!Finish, Thread!Open, Thread!Final
  <1>22. CASE Abandon
    BY <1>22 DEF Abandon, Thread!Finish, Thread!Open, Thread!Final
  <1>23. CASE Cancel
    BY <1>23 DEF Cancel, thread
  <1>24. ASSUME NEW a \in Action, Resolve(a)
        PROVE  [Thread!Next]_(Thread!vars)
    BY <1>24 DEF Resolve, thread
  <1>25. CASE UNCHANGED vars
    BY <1>25 DEF vars, thread
  <1> QED
    BY <1>1, <1>2, <1>3, <1>4, <1>5, <1>6, <1>7, <1>8, <1>9, <1>10, <1>11, <1>12, <1>13,
       <1>14, <1>15, <1>16, <1>17, <1>18, <1>19, <1>20, <1>21, <1>22, <1>23, <1>24, <1>25,
       <1>26 DEF Next, ProgramStep, Loop, NodeStep, Capability

\* The program's thread implements ThreadContract, which is all the model of
\* the worker assumes of it.
THEOREM ProgramImplementsThread == Spec => ImplementsThread
  <1>1. Invariant /\ [Next]_vars => [Thread!Next]_(Thread!vars)
    BY ThreadStep DEF Invariant
  <1> QED
    BY <1>1, ThreadInit, ProgramInvariant, PTL DEF Spec, ImplementsThread, Thread!Spec
=============================================================================

------------------------------ MODULE GraphDsl ------------------------------
(***************************************************************************)
(* The graph language: what validate_graph accepts, and the edges          *)
(* compile_langgraph builds for what it accepts.  A definition is a record *)
(* of its nodes and its edges, both lists, and its entry.                  *)
(***************************************************************************)
EXTENDS Naturals, Sequences, FiniteSets

\* The legacy marker of an entry, and LangGraph's sentinel for the end.
Start == "START"
End   == "__end__"

CapabilityType == {"tool", "rag", "subagent", "approval"}
NodeType       == {"llm", "supervisor", "transform"} \cup CapabilityType

\* nests: a subagent node whose config declares a subagent node.
NodeDef(Ids) == [id : Ids, type : NodeType, nests : BOOLEAN]
\* conditional: an edge with a condition, whatever it says.
EdgeDef(Ids) == [source : Ids, target : Ids, conditional : BOOLEAN]
-----------------------------------------------------------------------------
Ids(d)          == {d.nodes[i].id : i \in DOMAIN d.nodes}
Edges(d)        == {d.edges[i] : i \in DOMAIN d.edges}
EdgesFrom(d, n) == {i \in DOMAIN d.edges : d.edges[i].source = n}
FirstTarget(d, n) ==
  d.edges[CHOOSE i \in EdgesFrom(d, n) : \A k \in EdgesFrom(d, n) : i <= k].target

TypeOf(d, n)      == d.nodes[CHOOSE i \in DOMAIN d.nodes : d.nodes[i].id = n].type
OfType(d, types)  == {n \in Ids(d) : TypeOf(d, n) \in types}
Supervisors(d)    == OfType(d, {"supervisor"})
Capabilities(d)   == OfType(d, CapabilityType)
-----------------------------------------------------------------------------
(* validator.py *)

NoDuplicateIds(d) ==
  \A i, j \in DOMAIN d.nodes : d.nodes[i].id = d.nodes[j].id => i = j

AllEdgesValid(d) == \A e \in Edges(d) : {e.source, e.target} \subseteq Ids(d)

AtMostOneSupervisor(d) ==
  \A i, j \in DOMAIN d.nodes :
    d.nodes[i].type = "supervisor" /\ d.nodes[j].type = "supervisor" => i = j

NoNestedSubagent(d) ==
  \A i \in DOMAIN d.nodes : ~(d.nodes[i].type = "subagent" /\ d.nodes[i].nests)

\* Declared edges, and dispatch and return between the supervisor and every
\* capability.
Adjacency(d) ==
  {<<e.source, e.target>> : e \in Edges(d)}
  \cup UNION {{<<s, c>>, <<c, s>>} : s \in Supervisors(d), c \in Capabilities(d)}

\* The legacy START marker stands for the nodes no edge leads to, or for all.
Roots(d) ==
  LET sources == {n \in Ids(d) : \A e \in Edges(d) : e.target # n}
  IN IF d.entry \in Ids(d) THEN {d.entry}
     ELSE IF sources # {}  THEN sources
     ELSE Ids(d)

\* What a search from roots along a relation has seen after k rounds.
Seen(roots, relation, nodes) ==
  LET Round[k \in 0 .. Cardinality(nodes)] ==
        IF k = 0 THEN roots
        ELSE Round[k - 1] \cup {n \in nodes : \E m \in Round[k - 1] : <<m, n>> \in relation}
  IN Round[Cardinality(nodes)]

\* Mutant: only the entry is looked up, nothing is searched.
EntryExists(d) == d.entry \in Ids(d) \cup {Start}

EntryReachable(d) ==
  /\ d.entry \in Ids(d) \cup {Start}
  /\ Seen(Roots(d), Adjacency(d), Ids(d)) = Ids(d)

ValidGraph(d) ==
  /\ NoDuplicateIds(d) /\ AllEdgesValid(d)
  /\ AtMostOneSupervisor(d) /\ NoNestedSubagent(d)
  /\ EntryReachable(d)
-----------------------------------------------------------------------------
(* compiler.py and compile_langgraph *)

\* Nodes whose declared edges count: the supervisor is dispatched by its
\* decision and a capability returns to it.
ByEdges(d) == {n \in Ids(d) : /\ n \notin Supervisors(d)
                              /\ n \in Capabilities(d) => Supervisors(d) = {}}

Compilable(d) ==
  /\ d.entry \in Ids(d)
  /\ \A n \in ByEdges(d) : \A i \in EdgesFrom(d, n) : /\ EdgesFrom(d, n) = {i}
                                                      /\ ~d.edges[i].conditional

\* Mutant: a capability goes where its own edge leads.
NextByEdges(d, n) ==
  IF n \in Supervisors(d)      THEN Capabilities(d) \cup {End}
  ELSE IF EdgesFrom(d, n) = {} THEN {End}
  ELSE {FirstTarget(d, n)}

\* The edges of the runnable.
NextNodes(d, n) ==
  IF n \in Supervisors(d)      THEN Capabilities(d) \cup {End}
  ELSE IF n \notin ByEdges(d)  THEN Supervisors(d)
  ELSE IF EdgesFrom(d, n) = {} THEN {End}
  ELSE {FirstTarget(d, n)}

\* The node a superstep of n is followed by; the supervisor's is in its
\* decision.
NextNode(d, n) == CHOOSE m \in NextNodes(d, n) : TRUE
-----------------------------------------------------------------------------
(* What must hold of every definition create_run accepts *)

Accepted(d) == ValidGraph(d) /\ Compilable(d)

\* Edges are declared as in graphs/default.yaml: none leaves a capability,
\* and the supervisor's lead to capabilities.
PlainDispatch(d) ==
  \A e \in Edges(d) : /\ e.source \notin Capabilities(d)
                      /\ e.source \in Supervisors(d) => e.target \in Capabilities(d)

RuntimeEdges(d) == {e \in Ids(d) \X Ids(d) : e[2] \in NextNodes(d, e[1])}

\* Every node the validator finds reachable can be reached along the edges the
\* runnable has (_check_entry_reachable against compile_langgraph).
NodesHaveRoutes(d) ==
  Accepted(d) /\ PlainDispatch(d) => Seen({d.entry}, RuntimeEdges(d), Ids(d)) = Ids(d)
=============================================================================

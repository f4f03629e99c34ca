--------------------------- MODULE MCGraphProgram ---------------------------
(***************************************************************************)
(* Instances of GraphProgram for TLC.                                      *)
(***************************************************************************)
EXTENDS GraphProgram

Named(id, type) == [id |-> id, type |-> type, nests |-> FALSE]
Nesting(id)     == [id |-> id, type |-> "subagent", nests |-> TRUE]
Edge(m, n)      == [source |-> m, target |-> n, conditional |-> FALSE]
When(m, n)      == [source |-> m, target |-> n, conditional |-> TRUE]
Graph(nodes, edges, entry) == [nodes |-> nodes, edges |-> edges, entry |-> entry]

\* One definition per case of the compiler, and per reason to refuse one.
Supervised ==
  {Graph(<<Named("s", "supervisor"), Named("p", "approval")>>, <<Edge("p", "s"), When("s", "p")>>, "s"),
   Graph(<<Named("x", "transform"), Named("s", "supervisor"), Named("r", "rag"), Named("u", "subagent")>>,
         <<Edge("x", "s"), Edge("u", "r")>>, "x"),
   Graph(<<Named("s", "supervisor"), Named("t", "tool"), Named("l", "llm")>>,
         <<Edge("t", "l"), Edge("l", "s")>>, "s")}
Unsupervised ==
  {Graph(<<Named("l", "llm")>>, << >>, "l"),
   Graph(<<Named("l", "llm"), Named("x", "transform")>>, <<Edge("l", "x"), Edge("x", "l")>>, "l"),
   Graph(<<Named("l", "llm"), Named("p", "approval")>>, <<Edge("l", "p")>>, "l"),
   Graph(<<Named("t", "tool")>>, << >>, "t")}
Refused ==
  {Graph(<<Named("l", "llm")>>, << >>, Start),
   Graph(<<Named("l", "llm"), Named("x", "transform")>>, << >>, "l"),
   Graph(<<Named("l", "llm"), Named("l", "llm")>>, << >>, "l"),
   Graph(<<Named("s", "supervisor"), Named("l", "supervisor")>>, <<Edge("s", "l")>>, "s"),
   Graph(<<Named("s", "supervisor"), Nesting("u")>>, << >>, "s"),
   Graph(<<Named("l", "llm"), Named("x", "transform")>>, <<When("l", "x")>>, "l"),
   Graph(<<Named("l", "llm")>>, <<Edge("l", "t")>>, "l")}

\* Two llm nodes and a third node with every choice of at most two of the
\* edges between them, in one order; of at most one if the nodes are an llm
\* node, a supervisor and a tool.
Between == <<Edge("l", "s"), Edge("s", "l"), Edge("l", "t"), Edge("t", "l"),
             Edge("s", "t"), Edge("t", "s")>>
One == {<< >>} \cup {<<Between[i]>> : i \in DOMAIN Between}
Two == {<<Between[p[1]], Between[p[2]]>> :
          p \in {q \in (1 .. 6) \X (1 .. 6) : q[1] < q[2]}}
Small ==
  {Graph(<<Named("l", "llm"), Named("s", type), Named("t", "llm")>>, es, e) :
     type \in {"llm", "supervisor"}, es \in One \cup Two, e \in {"l", "s", Start}}
  \cup {Graph(<<Named("l", "llm"), Named("s", "supervisor"), Named("t", "tool")>>, es, e) :
          es \in One, e \in {"l", "s", "t", Start}}

MCDefinitions == Supervised \cup Unsupervised \cup Refused \cup Small
\* A tool that only reads; one that a second server declares again; a denied one.
MCOffers == <<[name |-> "find", source |-> "builtin", hint |-> "none"],
              [name |-> "wipe", source |-> "mcp", hint |-> "readOnly"],
              [name |-> "wipe", source |-> "mcp", hint |-> "destructive"],
              [name |-> "post", source |-> "openapi", hint |-> "none"]>>
=============================================================================

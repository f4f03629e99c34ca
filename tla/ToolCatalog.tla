----------------------------- MODULE ToolCatalog -----------------------------
(***************************************************************************)
(* The tool registry of a process: what build_tool_registry puts into it   *)
(* and what an invocation finds there.  The servers behind the adapters    *)
(* are external: CONSTANT Offers lists what they declare, in the order in  *)
(* which it is registered (builtin, then MCP, then OpenAPI).               *)
(***************************************************************************)
EXTENDS Naturals, Sequences

CONSTANTS
  Offers,       (* declared tools: name, source and what is said of them   *)
  Denied        (* names ToolScope does not allow                          *)

\* An annotation of an MCP tool, the method of an OpenAPI operation.
Hint == {"destructive", "readOnly", "get", "none"}

ASSUME OffersAssumption ==
  /\ \A i \in DOMAIN Offers : /\ Offers[i].source \in {"builtin", "mcp", "openapi"}
                              /\ Offers[i].hint \in Hint
  /\ \A i, j \in DOMAIN Offers : Offers[i].source = "openapi" /\ i < j => Offers[j].source = "openapi"
  /\ Denied \subseteq {Offers[i].name : i \in DOMAIN Offers}

McpRisk(hint) == CASE hint = "destructive" -> "sensitive"
                   [] hint = "readOnly"    -> "read"
                   [] OTHER                -> "write"

\* Never sensitive.
OpenApiRisk(hint) == IF hint = "get" THEN "read" ELSE "write"

\* The builtin tools, calculator and datetime, only read.
Risk(offer) == CASE offer.source = "mcp"     -> McpRisk(offer.hint)
                 [] offer.source = "openapi" -> OpenApiRisk(offer.hint)
                 [] OTHER                    -> "read"

Registered == {Offers[i].name : i \in DOMAIN Offers}

\* register and register_callable overwrite: the last offer of a name counts.
Registration(name) ==
  Offers[CHOOSE i \in DOMAIN Offers : /\ Offers[i].name = name
                                      /\ \A k \in DOMAIN Offers :
                                           Offers[k].name = name => k <= i]

\* _tool_requires_approval: a tool nobody knows needs none.
RequiresApproval(name) ==
  name \in Registered /\ Risk(Registration(name)) = "sensitive"

IsAllowed(name) == name \notin Denied

\* ainvoke raises for an unknown or denied tool; any other call ends in a
\* ToolResult, of success or of an error.
Invocable(name) == name \in Registered /\ IsAllowed(name)
=============================================================================

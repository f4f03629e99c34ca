--------------------------- MODULE MCAgentRuntime ---------------------------
(***************************************************************************)
(* Instances of AgentRuntime for TLC.                                      *)
(***************************************************************************)
EXTENDS AgentRuntime, TLC

\* Worker ids and canonical actions are opaque to the code.
Symmetry == Permutations(Workers) \cup Permutations(Actions)
=============================================================================

--------------------------- MODULE MCModelServices ---------------------------
(***************************************************************************)
(* An instance of ModelServices for TLC.                                   *)
(***************************************************************************)
EXTENDS ModelServices

\* One model is withdrawn, with it the balanced tier; in between the proxy
\* publishes an empty list.
MCLists == <<{"small", "large", "embed"}, {}, {"large", "embed"}>>
MCTierMap == [balanced |-> "small", performance |-> "embed"]
MCPolicies == {[mode |-> "specific", model_id |-> "large"], [mode |-> "auto"],
               [mode |-> "tier", tier |-> "performance"]}
=============================================================================

---------------------------- MODULE ModelProvider ----------------------------
(***************************************************************************)
(* The LiteLLM proxy, external to the repository, as its clients see it:   *)
(* reachable or not, with the list of models it publishes.                 *)
(***************************************************************************)
EXTENDS Naturals, Sequences

CONSTANTS Lists     (* the lists it publishes, one after the other          *)

\* Models are named by strings; there is always a list, if an empty one.
ASSUME ProviderAssumption == Lists \in Seq(SUBSET STRING) /\ Lists # << >>

VARIABLES
  up,           (* it answers; not so: refused, timed out or malformed      *)
  published     (* index of the current list                                *)

provider == <<up, published>>

ProviderInit == up \in BOOLEAN /\ published = 1

Outage  == up /\ up' = FALSE /\ UNCHANGED published
Recover == ~up /\ up' = TRUE /\ UNCHANGED published
Publish == published < Len(Lists) /\ published' = published + 1 /\ UNCHANGED up

ProviderStep == Outage \/ Recover \/ Publish
=============================================================================

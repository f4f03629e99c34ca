---------------------------- MODULE ModelServices ----------------------------
(***************************************************************************)
(* The services of an API process that depend on the model provider, side  *)
(* by side with its outages: the catalog under create_run, and ingestion.  *)
(***************************************************************************)
EXTENDS ModelCatalog, Knowledge

vars == <<provider, catalog, knowledge>>

TypeOK == CatalogTypeOK /\ KnowledgeTypeOK

Init == ProviderInit /\ CatalogInit /\ KnowledgeInit

Next == \/ CatalogNext /\ UNCHANGED knowledge
        \/ KnowledgeNext /\ UNCHANGED catalog
        \/ ProviderStep /\ UNCHANGED <<catalog, knowledge>>

Spec == Init /\ [][Next]_vars /\ CatalogFairness
=============================================================================

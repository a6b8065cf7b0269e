------------------------- MODULE MCCatalogPromotion -------------------------
(* TLC instance of CatalogPromotion: one target stands for the required    *)
(* catalog, DAG and registry; the other two are triggers, which share the  *)
(* name SKILL.md.                                                          *)
EXTENDS CatalogPromotion, TLC

CONSTANTS a, b

MCText == {a, b}
MCBaseName == <<"workflow-catalog.yaml", "SKILL.md", "SKILL.md">>
MCBundle == {<<a>>, <<b>>, <<a, b, a>>, <<b, a, b>>}
MCValid == MCBundle \ {<<a>>}

\* By hand somebody says that the first proposal was applied.
MCHandLine == {[Event("applied", 1) EXCEPT !.by = "user"]}
=============================================================================

------------------------------ MODULE MCTopology ------------------------------
(***************************************************************************)
(* Small instances of the two adapters under the same calls, and so of        *)
(* GraphTopology.  A behaviour is of one part:                               *)
(*   "writes"     two deployments write, to the other graph as well              *)
(*   "catalog"    a reader walks the catalog while authors come and go          *)
(***************************************************************************)
EXTENDS TopologyAdapters

CONSTANT r1  \* a reader

VARIABLE part

mcVars == <<part, adapterVars>>

\* Documents 1 and 3 are works, document 2 is a person; 4 is of another graph.
MCDoc == 1..3
MCForeign == {4}
MCDocs == 1..4
MCGraphOf == [d \in MCDocs |-> IF d \in MCDoc THEN "a" ELSE "b"]
MCKindOf == [d \in MCDocs |-> IF d = 2 THEN "person" ELSE "work"]
MCKind == [d \in MCDoc |-> MCKindOf[d]]

CitesOld == [id |-> "cites", version |-> 1, from |-> "work", to |-> "work"]
CitesNew == [id |-> "cites", version |-> 2, from |-> "work", to |-> "work"]
Author == [id |-> "author", version |-> 1, from |-> "work", to |-> "person"]
MCDefinition == {CitesOld, CitesNew, Author}

\* An old deployment and a new one that changed one relation.
MCManifests == {{CitesOld, Author}, {CitesNew}}
MCForeignManifests == {{CitesOld}, {CitesNew}}

MCQueries == {[kinds |-> {}, states |-> {}],
              [kinds |-> {"work"}, states |-> {"Referenced"}]}
-----------------------------------------------------------------------------
MCInit ==
  /\ BothInit
  /\ part \in {"writes", "catalog"}

\* In the catalog works do not cite themselves.
Bounded ==
  /\ part = "writes" => scan' = scan
  /\ part = "catalog" =>
       /\ \A e \in edges' : e.src # e.tgt /\ e.def # CitesNew
       /\ DOMAIN nodeMap' \subseteq Doc

MCNext ==
  /\ BothNext
  /\ Bounded
  /\ UNCHANGED part

MCSpec == MCInit /\ [][MCNext]_mcVars
=============================================================================

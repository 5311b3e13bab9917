--------------------------- MODULE LinkedDocuments ---------------------------
(***************************************************************************)
(* What a graph topology store promises (GraphTopologyStoreService in       *)
(* graph/graph-topology.ts), without tables: the documents that were        *)
(* indexed, each with the outgoing relations of its last indexing, less      *)
(* those that a deletion of the target or a pruning took away.               *)
(***************************************************************************)
EXTENDS FiniteSets

CONSTANTS
  Doc,         \* document keys
  Definition,  \* relation definitions
  Manifests    \* the definitions registered by each deployed manifest

VARIABLE outgoing  \* of each document, Option of its outgoing relations

LinksOf(d) == [def : Definition, src : {d}, tgt : Doc]

Init == outgoing = [d \in Doc |-> {}]

\* One complete outgoing set replaces the former one, and nothing else.
Replace(d) ==
  \E links \in SUBSET LinksOf(d) : outgoing' = [outgoing EXCEPT ![d] = {links}]

\* The document and every relation to it are gone.
Delete(d) ==
  outgoing' = [s \in Doc |-> IF s = d THEN {}
                             ELSE {{l \in links : l.tgt # d} : links \in outgoing[s]}]

\* Only relations of the registered definitions stay.
Prune(registered) ==
  outgoing' = [s \in Doc |-> {{l \in links : l.def \in registered} : links \in outgoing[s]}]

Next ==
  \/ \E d \in Doc : Replace(d) \/ Delete(d)
  \/ \E registered \in Manifests : Prune(registered)

Spec == Init /\ [][Next]_outgoing
=============================================================================

--------------------------- MODULE InMemoryTopology ---------------------------
(***************************************************************************)
(* The in-memory graph topology store (storage/in-memory.ts): two Maps that  *)
(* hold the nodes and edges of every graph, changed by synchronous calls,     *)
(* and what each call answers.                                              *)
(*                                                                         *)
(* A document key is a hash of graph, kind and id: numbers stand for keys in   *)
(* their order, and graph and kind follow from the key.                      *)
(***************************************************************************)
EXTENDS Integers, FiniteSets

CONSTANTS
  Docs,     \* document keys of all graphs
  GraphOf,  \* the graph of each key
  KindOf    \* the kind of each key

VARIABLES
  nodeMap,  \* the state of each key that has a node
  edgeMap   \* [graph, relation, source, target] keys with their definition

NoNodes == [d \in {} |-> "Referenced"]
EdgeKey(d, link) == [graph |-> GraphOf[d], relation |-> link.def.id, source |-> d, target |-> link.tgt]

\* Writes of a Map: set, over whatever the key had, and delete.
SetAll(map, changes) ==
  [k \in DOMAIN map \union DOMAIN changes |-> IF k \in DOMAIN changes THEN changes[k] ELSE map[k]]
DeleteAll(map, keys) == [k \in DOMAIN map \ keys |-> map[k]]

InitMaps == nodeMap = NoNodes /\ edgeMap = [k \in {} |-> {}]
-----------------------------------------------------------------------------
(* Writes: the next maps and the answer of each call.                        *)

\* Mutant of Orphaned: nodes of other graphs look orphaned.
OrphanedAnywhere(graph, ns, es) ==
  {d \in DOMAIN ns : /\ ns[d] = "Referenced"
                     /\ \A k \in DOMAIN es : k.graph = graph => k.source # d /\ k.target # d}

\* collectOrphanedReferencedNodes.
Orphaned(graph, ns, es) ==
  {d \in DOMAIN ns : /\ GraphOf[d] = graph /\ ns[d] = "Referenced"
                     /\ \A k \in DOMAIN es : k.graph = graph => k.source # d /\ k.target # d}

\* A target keeps its state when it is materialised: it may be the source itself.
Upserts(d, links) ==
  LET source == SetAll(nodeMap, [x \in {d} |-> "Materialized"])
      state(t) == IF t \in DOMAIN source /\ source[t] = "Materialized"
                  THEN "Materialized" ELSE "Referenced"
  IN  SetAll(source, [t \in {l.tgt : l \in links} |-> state(t)])

Outgoing(d) == {k \in DOMAIN edgeMap : k.graph = GraphOf[d] /\ k.source = d}

Planned(d, links) == [k \in {EdgeKey(d, l) : l \in links} |->
                      {l.def : l \in {x \in links : EdgeKey(d, x) = k}}]

ReplacedEdges(d, links) == SetAll(DeleteAll(edgeMap, Outgoing(d)), Planned(d, links))

\* replaceDocumentTopology; a well-formed replacement has no edge key twice.
MemoryReplace(d, links) ==
  /\ nodeMap' = DeleteAll(Upserts(d, links),
                          Orphaned(GraphOf[d], Upserts(d, links), ReplacedEdges(d, links)))
  /\ edgeMap' = ReplacedEdges(d, links)
MemoryReplaceAnswer(d, links) ==
  LET next == DOMAIN Planned(d, links)
  IN  [inserted |-> Cardinality(next \ Outgoing(d)),
       retained |-> Cardinality(next \intersect Outgoing(d)),
       deleted |-> Cardinality(Outgoing(d) \ next)]

\* Mutant of Touching: only relations of the document itself.
TouchingSource(d) == {k \in DOMAIN edgeMap : k.graph = GraphOf[d] /\ k.source = d}

Touching(d) == {k \in DOMAIN edgeMap : k.graph = GraphOf[d] /\ (k.source = d \/ k.target = d)}

\* deleteNode.
AfterDelete(d) == DeleteAll(nodeMap, {d})
MemoryDelete(d) ==
  /\ edgeMap' = DeleteAll(edgeMap, Touching(d))
  /\ nodeMap' = DeleteAll(AfterDelete(d), Orphaned(GraphOf[d], AfterDelete(d), edgeMap'))
MemoryDeleteAnswer(d) ==
  [nodes |-> Cardinality(DOMAIN nodeMap \intersect {d}),
   relations |-> Cardinality(Touching(d)),
   referenced |-> Cardinality(Orphaned(GraphOf[d], AfterDelete(d), DeleteAll(edgeMap, Touching(d))))]

\* pruneTopology.
Inactive(graph, registered) ==
  {k \in DOMAIN edgeMap : k.graph = graph /\ edgeMap[k] \intersect registered = {}}
MemoryPrune(graph, registered) ==
  /\ edgeMap' = DeleteAll(edgeMap, Inactive(graph, registered))
  /\ nodeMap' = DeleteAll(nodeMap, Orphaned(graph, nodeMap, edgeMap'))
MemoryPruneAnswer(graph, registered) ==
  [relations |-> Cardinality(Inactive(graph, registered)),
   referenced |-> Cardinality(Orphaned(graph, nodeMap,
                    DeleteAll(edgeMap, Inactive(graph, registered))))]
-----------------------------------------------------------------------------
(* Reads.                                                                  *)

FirstOf(set, n) == {x \in set : Cardinality({y \in set : y < x}) < n}

\* listNodes: one node more than the page tells whether there are more.
MemoryPage(graph, q, after, limit) ==
  LET matching == {d \in DOMAIN nodeMap :
                     /\ GraphOf[d] = graph /\ d > after
                     /\ q.kinds = {} \/ KindOf[d] \in q.kinds
                     /\ q.states = {} \/ nodeMap[d] \in q.states}
      page == FirstOf(matching, limit)
  IN  [nodes |-> page,
       next |-> {d \in page : Cardinality(matching) > limit /\ \A e \in page : e <= d}]

\* Mutant of MemoryRelated: the version of the relation is not compared.
MemoryRelatedById(d, def, outward, limit) ==
  LET keys == {k \in DOMAIN edgeMap :
                 /\ k.graph = GraphOf[d] /\ k.relation = def.id
                 /\ d = (IF outward THEN k.source ELSE k.target)}
      related == {IF outward THEN k.target ELSE k.source : k \in keys}
  IN  FirstOf(related, limit) \intersect DOMAIN nodeMap

\* findRelatedNodes, of one document: the first related keys, then their nodes.
MemoryRelated(d, def, outward, limit) ==
  LET keys == {k \in DOMAIN edgeMap :
                 /\ k.graph = GraphOf[d] /\ def \in edgeMap[k]
                 /\ d = (IF outward THEN k.source ELSE k.target)}
      related == {IF outward THEN k.target ELSE k.source : k \in keys}
  IN  FirstOf(related, limit) \intersect DOMAIN nodeMap
=============================================================================

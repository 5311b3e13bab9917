---------------------------- MODULE GraphTopology ----------------------------
(***************************************************************************)
(* The D1 graph topology store (storage/d1/runtime.ts) for one graph.       *)
(*                                                                         *)
(* Every write is one D1 batch, that is one transaction, whose statements   *)
(* run in order: the actions compute the tables after each statement.       *)
(* Writers of different manifests (two deployments of the application)      *)
(* share the database.  Readers walk the node catalog page by page while    *)
(* writers change it.                                                      *)
(*                                                                         *)
(* A document key is a hash of graph, kind and id; keys are ordered, and    *)
(* numbers stand for them.  The kind of a document follows from its key.     *)
(*                                                                         *)
(* The tables are modelled without their primary and foreign keys, and the   *)
(* invariants show that no batch runs into them: a batch is never rejected   *)
(* for a conflicting or dangling edge, and no deletion cascades.             *)
(***************************************************************************)
EXTENDS Integers, FiniteSets

CONSTANTS
  Doc,         \* document keys
  Kind,        \* the document kind of each key
  Definition,  \* relation definitions of all manifests
  Manifests,   \* the relation definitions of each deployed manifest
  Reader,      \* clients that walk the catalog
  Queries,     \* the filters they use
  PageLimit    \* the limit of a page

\* A definition is [id, version, from, to]; a manifest lists one for each id.
ASSUME TopologyAssumption ==
  /\ Doc \subseteq Nat /\ IsFiniteSet(Doc)
  /\ Manifests \subseteq SUBSET Definition
  /\ \A m \in Manifests : IsFiniteSet(m) /\ \A r, s \in m : r.id = s.id => r = s
  /\ PageLimit \in Nat \ {0}

VARIABLES
  nodes,   \* document_graph_nodes: node_state, or "Absent" without a row
  edges,   \* document_graph_relations
  counts,  \* history: the commit counts reported so far, summed up
  scan     \* the catalog walk of each reader

tables == <<nodes, edges>>
vars == <<nodes, edges, counts, scan>>

States == {"Absent", "Referenced", "Materialized"}

\* The primary key leaves the version out; the kinds follow from the keys.
SameKey(e, f) == e.def.id = f.def.id /\ e.src = f.src /\ e.tgt = f.tgt

Link == [def : Definition, src : Doc, tgt : Doc]

NotReading == [at |-> "idle", query |-> {}, after |-> -1, seen |-> {}, page |-> {}, steady |-> {}]

Init ==
  /\ nodes = [d \in Doc |-> "Absent"]
  /\ edges = {}
  /\ counts = 0
  /\ scan = [r \in Reader |-> NotReading]
-----------------------------------------------------------------------------
(* Statements the batches share.                                           *)

\* Referenced nodes without any edge.
Orphans(ns, es) ==
  {d \in Doc : ns[d] = "Referenced" /\ \A e \in es : e.src # d /\ e.tgt # d}

Without(ns, gone) == [d \in Doc |-> IF d \in gone THEN "Absent" ELSE ns[d]]

\* Mutant of Upserted: a reference resets the state of its target.
UpsertedPlainly(ns, source, targets) ==
  [d \in Doc |-> IF d \in targets THEN "Referenced"
                 ELSE IF d = source THEN "Materialized" ELSE ns[d]]

\* The two node upserts of a replacement: a target is never downgraded.
Upserted(ns, source, targets) ==
  [d \in Doc |-> IF d = source THEN "Materialized"
                 ELSE IF d \in targets /\ ns[d] # "Materialized" THEN "Referenced"
                 ELSE ns[d]]

OutgoingOf(es, d) == {e \in es : e.src = d}

\* Mutant of Replaced: only relations of the writer's versions are cleared.
ReplacedByVersion(es, d, links) ==
  (es \ {e \in OutgoingOf(es, d) : \E l \in links : l.def = e.def}) \cup links

\* Every outgoing edge is cleared, those of other manifests included.
Replaced(es, d, links) == (es \ OutgoingOf(es, d)) \cup links

Incident(es, d) == {e \in es : e.src = d \/ e.tgt = d}

\* Mutant of Stale: the version is not compared.
StaleById(es, registered) == {e \in es : \A r \in registered : r.id # e.def.id}

\* Edges whose id, version and kinds no registered relation has.
Stale(es, registered) == {e \in es : e.def \notin registered}
-----------------------------------------------------------------------------
(* Reads.                                                                  *)

\* ORDER BY key LIMIT n over the rows S.
LimitedTo(n, S, rows) ==
  /\ rows \subseteq S
  /\ \A d \in rows, e \in S \ rows : d < e
  /\ \/ Cardinality(rows) = n
     \/ rows = S /\ Cardinality(rows) <= n

Matches(ns, d, q) ==
  /\ ns[d] # "Absent"
  /\ q.kinds = {} \/ Kind[d] \in q.kinds
  /\ q.states = {} \/ ns[d] \in q.states

\* Mutant of Remaining: the cursor is inclusive.
RemainingFrom(q, after) == {d \in Doc : Matches(nodes, d, q) /\ d >= after}

Remaining(q, after) == {d \in Doc : Matches(nodes, d, q) /\ d > after}

\* Nodes that matched a reader's filter in every state since it began.
Observed(ns) ==
  [r \in Reader |->
     [at |-> scan[r].at, query |-> scan[r].query, after |-> scan[r].after,
      seen |-> scan[r].seen, page |-> scan[r].page,
      steady |-> {d \in scan[r].steady : \A q \in scan[r].query : Matches(ns, d, q)}]]

\* findRelatedNodes: the first edges by related key, joined with the nodes.
EdgeKeys(d, def, outward) ==
  IF outward THEN {e.tgt : e \in {f \in edges : f.def = def /\ f.src = d}}
  ELSE {e.src : e \in {f \in edges : f.def = def /\ f.tgt = d}}

\* Mutant of Related: nodes that are merely referenced are dropped after the limit.
RelatedMaterialized(d, def, outward, limit) ==
  {k \in Doc : /\ nodes[k] = "Materialized"
               /\ \E keys \in SUBSET Doc :
                    LimitedTo(limit, EdgeKeys(d, def, outward), keys) /\ k \in keys}

Related(d, def, outward, limit) ==
  {k \in Doc : /\ nodes[k] # "Absent"
               /\ \E keys \in SUBSET Doc :
                    LimitedTo(limit, EdgeKeys(d, def, outward), keys) /\ k \in keys}
-----------------------------------------------------------------------------
(* Writes.                                                                 *)

\* The links a manifest may project from a document.
Projectable(m, d) ==
  {l \in [def : m, src : {d}, tgt : Doc] :
     Kind[d] = l.def.from /\ Kind[l.tgt] = l.def.to}

\* countGraphRelationReplacement compares ids and targets, not versions.
Inserted(old, new) == {e \in new : \A f \in old : ~SameKey(e, f)}

\* Mutant of ReplacementCount: a relation of another version is counted as
\* deleted, although the new one is counted as retained.
ReplacementCountByValue(old, new) ==
  Cardinality(Inserted(old, new)) - Cardinality(old \ new)

ReplacementCount(old, new) ==
  Cardinality(Inserted(old, new)) - Cardinality(Inserted(new, old))

ReplaceDocumentTopology(m, d, links) ==
  LET upserted == Upserted(nodes, d, {l.tgt : l \in links})
      replaced == Replaced(edges, d, links)
      ns == Without(upserted, Orphans(upserted, replaced))
  IN  /\ links \subseteq Projectable(m, d)
      /\ nodes' = ns
      /\ edges' = replaced
      /\ counts' = counts + ReplacementCount(OutgoingOf(edges, d), links)
      /\ scan' = Observed(ns)

DeleteNode(d) ==
  LET kept == edges \ Incident(edges, d)
      deleted == Without(nodes, {d})
      ns == Without(deleted, Orphans(deleted, kept))
  IN  /\ edges' = kept
      /\ nodes' = ns
      /\ counts' = counts - Cardinality(Incident(edges, d))
      /\ scan' = Observed(ns)

PruneTopology(m) ==
  LET kept == edges \ Stale(edges, m)
      ns == Without(nodes, Orphans(nodes, kept))
  IN  /\ edges' = kept
      /\ nodes' = ns
      /\ counts' = counts - Cardinality(Stale(edges, m))
      /\ scan' = Observed(ns)
-----------------------------------------------------------------------------
(* Walking the catalog.                                                    *)

BeginScan(r) ==
  /\ scan[r].at = "idle"
  /\ \E q \in Queries :
       scan' = [scan EXCEPT ![r] =
                  [at |-> "open", query |-> {q}, after |-> -1, seen |-> {}, page |-> {},
                   steady |-> {d \in Doc : Matches(nodes, d, q)}]]
  /\ UNCHANGED <<nodes, edges, counts>>

\* Mutant of LastPage: a full page is taken for the last one.
LastPageAtLimit(rows) == Cardinality(rows) >= PageLimit

\* One row more than the page is fetched to learn whether there are more.
LastPage(rows) == Cardinality(rows) <= PageLimit

LastOf(S) == {d \in S : \A e \in S : e <= d}

\* Mutant of Cursor: the row that was fetched in excess is passed over.
CursorAtRows(rows, page) == LastOf(rows)

Cursor(rows, page) == LastOf(page)

NextPage(r) ==
  /\ scan[r].at = "open"
  /\ \E q \in scan[r].query, rows \in SUBSET Doc, page \in SUBSET Doc :
       /\ LimitedTo(PageLimit + 1, Remaining(q, scan[r].after), rows)
       /\ LimitedTo(PageLimit, rows, page)
       /\ \E next \in IF LastPage(rows) THEN {scan[r].after} ELSE Cursor(rows, page) :
            scan' = [scan EXCEPT ![r] =
              [at |-> IF LastPage(rows) THEN "done" ELSE "open",
               query |-> scan[r].query, after |-> next,
               seen |-> scan[r].seen \cup scan[r].page,
               page |-> page, steady |-> scan[r].steady]]
  /\ UNCHANGED <<nodes, edges, counts>>

EndScan(r) ==
  /\ scan[r].at # "idle"
  /\ scan' = [scan EXCEPT ![r] = NotReading]
  /\ UNCHANGED <<nodes, edges, counts>>

Write ==
  \/ \E m \in Manifests : \/ \E d \in Doc : \E links \in SUBSET Projectable(m, d) :
                                ReplaceDocumentTopology(m, d, links)
                          \/ PruneTopology(m)
  \/ \E d \in Doc : DeleteNode(d)

Next == Write \/ \E r \in Reader : BeginScan(r) \/ NextPage(r) \/ EndScan(r)

Spec == Init /\ [][Next]_vars
-----------------------------------------------------------------------------
(* Safety.                                                                 *)

\* Every variable has its type; the cursor of a reader that goes on is in the
\* page it was given last.
TypeOK ==
  /\ nodes \in [Doc -> States]
  /\ edges \subseteq Link
  /\ counts \in Int
  /\ \A r \in Reader :
       /\ scan[r].at \in {"idle", "open", "done"}
       /\ scan[r].query \subseteq Queries
       /\ scan[r].after \in Doc \cup {-1}
       /\ scan[r].seen \subseteq Doc /\ scan[r].page \subseteq Doc /\ scan[r].steady \subseteq Doc
       /\ scan[r].at = "open" => scan[r].after \in scan[r].page \cup {-1}

\* The node table is a function of the indexed documents and the edges: every
\* edge starts at a materialised node and ends at a node, and a node that is
\* merely referenced still is.  No sequence of partial removals, replacements
\* and prunings of several deployments leaves a dangling edge or an orphan.
GraphClosed ==
  /\ \A e \in edges : nodes[e.src] = "Materialized" /\ nodes[e.tgt] # "Absent"
  /\ \A d \in Doc : nodes[d] = "Referenced" => \E e \in edges : e.tgt = d

\* Two deployments that index the same document never leave two versions of
\* one relation between the same documents, which the primary key would refuse.
EdgesKeyed == \A e, f \in edges : SameKey(e, f) => e = f

\* What callers were told adds up: all insertions reported so far less all
\* deletions are the edges there are.
CountsAddUp == counts = Cardinality(edges)

\* A walk of the catalog that reached its end has returned every node that
\* was there and matched all the while, however the table changed between
\* its pages.
CatalogComplete ==
  \A r \in Reader : scan[r].at = "done" => scan[r].steady \subseteq scan[r].seen \cup scan[r].page

\* It never returned a node twice, and its pages ascend.
CatalogAscends ==
  \A r \in Reader : \A d \in scan[r].seen, e \in scan[r].page : d < e

\* A bounded neighbour query is full: it returns the first neighbours, and as
\* many as there are up to its limit, although it cuts off the edges before
\* it looks up their nodes.
NeighboursComplete ==
  \A d \in Doc, def \in Definition, outward \in BOOLEAN, limit \in 1..2 :
    LimitedTo(limit, EdgeKeys(d, def, outward), Related(d, def, outward, limit))
-----------------------------------------------------------------------------
(* The tables implement the linked documents.                              *)

Linked == INSTANCE LinkedDocuments WITH
  outgoing <- [d \in Doc |-> IF nodes[d] = "Materialized" THEN {OutgoingOf(edges, d)} ELSE {}]

\* Batches on nodes, edges and orphans amount to replacing or deleting one
\* document with its relations.  A document is only ever lost by its own
\* deletion, and a relation only by a new indexing of its source, by the
\* deletion of an end or by pruning.
ImplementsLinked == Linked!Spec
=============================================================================

----------------------- MODULE TopologyAdapters_proofs -----------------------
(***************************************************************************)
(* GraphTopology keeps its graph closed, its counts true, its catalog walks  *)
(* complete, and implements LinkedDocuments; and the in-memory store answers   *)
(* and returns what it does.  All of it for every set of documents,           *)
(* definitions, manifests, readers and queries, and every page limit.        *)
(***************************************************************************)
EXTENDS TopologyAdapters, FiniteSetTheorems, WellFoundedInduction, TLAPS

TablesOK == nodes \in [Doc -> States] /\ edges \subseteq Link

\* Edges start at materialised nodes and end at nodes.
Anchored(ns, es) == \A e \in es : ns[e.src] = "Materialized" /\ ns[e.tgt] # "Absent"

Swept(ns, es) == Without(ns, Orphans(ns, es))

\* Collecting orphans of anchored tables closes them and keeps exactly the
\* materialised nodes.
LEMMA SweptIsClosed ==
  ASSUME NEW ns \in [Doc -> States], NEW es, es \subseteq Link, Anchored(ns, es)
  PROVE  /\ Swept(ns, es) \in [Doc -> States]
         /\ Anchored(Swept(ns, es), es)
         /\ \A d \in Doc : Swept(ns, es)[d] = "Referenced" => \E e \in es : e.tgt = d
         /\ \A d \in Doc : Swept(ns, es)[d] = "Materialized" <=> ns[d] = "Materialized"
<1>1. \A e \in es : e.src \in Doc /\ e.tgt \in Doc
  BY DEF Link
<1> QED
  BY <1>1 DEF Swept, Without, Orphans, Anchored, States

\* The tables before orphans are collected, one lemma for each write.
LEMMA ReplacedAnchored ==
  ASSUME TablesOK, GraphClosed, NEW m \in Manifests, NEW d \in Doc,
         NEW links \in SUBSET Projectable(m, d)
  PROVE  LET upserted == Upserted(nodes, d, {l.tgt : l \in links})
             replaced == Replaced(edges, d, links)
         IN  /\ upserted \in [Doc -> States]
             /\ replaced \subseteq Link
             /\ Anchored(upserted, replaced)
             /\ \A x \in Doc : upserted[x] = "Materialized" <=>
                                 x = d \/ nodes[x] = "Materialized"
             /\ \A x \in Doc : OutgoingOf(replaced, x) =
                                 IF x = d THEN links ELSE OutgoingOf(edges, x)
<1> DEFINE upserted == Upserted(nodes, d, {l.tgt : l \in links})
           replaced == Replaced(edges, d, links)
<1>1. \A l \in links : l \in Link /\ l.src = d /\ l.tgt \in Doc
  BY TopologyAssumption DEF Projectable, Link
<1>2. upserted \in [Doc -> States]
  BY DEF TablesOK, Upserted, States
<1>3. replaced \subseteq Link
  BY <1>1 DEF TablesOK, Replaced
<1>4. \A e \in edges : e.src \in Doc /\ e.tgt \in Doc
  BY DEF TablesOK, Link
<1>5. Anchored(upserted, replaced)
  BY <1>1, <1>4 DEF Anchored, Upserted, Replaced, GraphClosed
<1>6. \A x \in Doc : upserted[x] = "Materialized" <=> x = d \/ nodes[x] = "Materialized"
  BY DEF Upserted
<1>7. \A x \in Doc : OutgoingOf(replaced, x) = IF x = d THEN links ELSE OutgoingOf(edges, x)
  BY <1>1 DEF OutgoingOf, Replaced
<1> QED
  BY <1>2, <1>3, <1>5, <1>6, <1>7

LEMMA DeletedAnchored ==
  ASSUME TablesOK, GraphClosed, NEW d \in Doc
  PROVE  LET deleted == Without(nodes, {d})
             kept == edges \ Incident(edges, d)
         IN  /\ deleted \in [Doc -> States]
             /\ kept \subseteq Link
             /\ Anchored(deleted, kept)
             /\ \A x \in Doc : deleted[x] = "Materialized" <=>
                                 x # d /\ nodes[x] = "Materialized"
             /\ \A x \in Doc : x # d =>
                  OutgoingOf(kept, x) = {l \in OutgoingOf(edges, x) : l.tgt # d}
<1>1. \A e \in edges : e.src \in Doc /\ e.tgt \in Doc
  BY DEF TablesOK, Link
<1>2. Anchored(Without(nodes, {d}), edges \ Incident(edges, d))
  BY <1>1 DEF Anchored, Without, Incident, GraphClosed
<1>3. \A x \in Doc : x # d =>
        OutgoingOf(edges \ Incident(edges, d), x) = {l \in OutgoingOf(edges, x) : l.tgt # d}
  BY DEF OutgoingOf, Incident
<1> QED
  BY <1>2, <1>3 DEF TablesOK, Without, States

LEMMA PrunedAnchored ==
  ASSUME TablesOK, GraphClosed, NEW m \in Manifests
  PROVE  LET kept == edges \ Stale(edges, m)
         IN  /\ kept \subseteq Link
             /\ Anchored(nodes, kept)
             /\ \A x \in Doc :
                  OutgoingOf(kept, x) = {l \in OutgoingOf(edges, x) : l.def \in m}
BY DEF TablesOK, GraphClosed, Anchored, OutgoingOf, Stale

\* Each write leaves closed tables.
LEMMA WriteCloses ==
  ASSUME TablesOK, GraphClosed, Write
  PROVE  TablesOK' /\ GraphClosed'
<1>1. ASSUME NEW ns \in [Doc -> States], NEW es, es \subseteq Link, Anchored(ns, es),
             nodes' = Swept(ns, es), edges' = es
      PROVE  TablesOK' /\ GraphClosed'
  BY <1>1, SweptIsClosed DEF TablesOK, GraphClosed, Anchored
<1>2. ASSUME NEW m \in Manifests, NEW d \in Doc, NEW links \in SUBSET Projectable(m, d),
             ReplaceDocumentTopology(m, d, links)
      PROVE  TablesOK' /\ GraphClosed'
  <2> DEFINE upserted == Upserted(nodes, d, {l.tgt : l \in links})
             replaced == Replaced(edges, d, links)
  <2>1. nodes' = Swept(upserted, replaced) /\ edges' = replaced
    BY <1>2 DEF ReplaceDocumentTopology, Swept
  <2>2. upserted \in [Doc -> States] /\ replaced \subseteq Link /\ Anchored(upserted, replaced)
    BY ReplacedAnchored, ZenonT(30)
  <2> HIDE DEF upserted, replaced
  <2> QED BY <1>1, <2>1, <2>2
<1>3. ASSUME NEW d \in Doc, DeleteNode(d)
      PROVE  TablesOK' /\ GraphClosed'
  <2> DEFINE deleted == Without(nodes, {d})
             kept == edges \ Incident(edges, d)
  <2>1. nodes' = Swept(deleted, kept) /\ edges' = kept
    BY <1>3 DEF DeleteNode, Swept
  <2>2. deleted \in [Doc -> States] /\ kept \subseteq Link /\ Anchored(deleted, kept)
    BY DeletedAnchored
  <2> HIDE DEF deleted, kept
  <2> QED BY <1>1, <2>1, <2>2
<1>4. ASSUME NEW m \in Manifests, PruneTopology(m)
      PROVE  TablesOK' /\ GraphClosed'
  <2> DEFINE kept == edges \ Stale(edges, m)
  <2>1. nodes' = Swept(nodes, kept) /\ edges' = kept
    BY <1>4 DEF PruneTopology, Swept
  <2>2. nodes \in [Doc -> States] /\ kept \subseteq Link /\ Anchored(nodes, kept)
    BY PrunedAnchored DEF TablesOK
  <2> HIDE DEF kept
  <2> QED BY <1>1, <2>1, <2>2
<1> QED
  BY <1>2, <1>3, <1>4 DEF Write
-----------------------------------------------------------------------------
LEMMA TablesStep == TablesOK /\ GraphClosed /\ [Next]_vars => TablesOK' /\ GraphClosed'
<1> SUFFICES ASSUME TablesOK, GraphClosed, [Next]_vars
             PROVE  TablesOK' /\ GraphClosed'
  OBVIOUS
<1>1. CASE UNCHANGED <<nodes, edges>>
  BY <1>1 DEF TablesOK, GraphClosed
<1>2. CASE Write
  BY <1>2, WriteCloses
<1> QED
  BY <1>1, <1>2 DEF Next, vars, BeginScan, NextPage, EndScan

LEMMA TablesClosed == Spec => [](TablesOK /\ GraphClosed)
<1>1. Init => TablesOK /\ GraphClosed
  BY DEF Init, TablesOK, GraphClosed, States
<1> QED
  BY <1>1, TablesStep, PTL DEF Spec

\* Whatever is indexed, deleted and pruned by whichever deployments, no edge
\* dangles and no referenced node is an orphan.
THEOREM TopologyIsClosed == Spec => []GraphClosed
BY TablesClosed, PTL
-----------------------------------------------------------------------------
(* Refinement.                                                             *)

\* The linked documents that tables stand for.
LinkedOf(ns, es) ==
  [d \in Doc |-> IF ns[d] = "Materialized" THEN {OutgoingOf(es, d)} ELSE {}]

LEMMA WriteIsLinked ==
  ASSUME TablesOK, GraphClosed, Write
  PROVE  Linked!Next
<1> DEFINE old == LinkedOf(nodes, edges)
           new == LinkedOf(nodes', edges')
<1>1. ASSUME NEW m \in Manifests, NEW d \in Doc, NEW links \in SUBSET Projectable(m, d),
             ReplaceDocumentTopology(m, d, links)
      PROVE  Linked!Replace(d)
  <2> DEFINE upserted == Upserted(nodes, d, {l.tgt : l \in links})
             replaced == Replaced(edges, d, links)
  <2>1. nodes' = Swept(upserted, replaced) /\ edges' = replaced
    BY <1>1 DEF ReplaceDocumentTopology, Swept
  <2>2. /\ upserted \in [Doc -> States] /\ replaced \subseteq Link
        /\ Anchored(upserted, replaced)
        /\ \A x \in Doc : upserted[x] = "Materialized" <=> x = d \/ nodes[x] = "Materialized"
        /\ \A x \in Doc : OutgoingOf(replaced, x) =
                            IF x = d THEN links ELSE OutgoingOf(edges, x)
    BY ReplacedAnchored, ZenonT(30)
  <2>3. \A x \in Doc : nodes'[x] = "Materialized" <=> x = d \/ nodes[x] = "Materialized"
    <3> HIDE DEF upserted, replaced
    <3> QED BY <2>1, <2>2, SweptIsClosed
  <2>4. \A x \in Doc : OutgoingOf(edges', x) = IF x = d THEN links ELSE OutgoingOf(edges, x)
    BY <2>1, <2>2
  <2>5. new = [old EXCEPT ![d] = {links}]
    BY <2>3, <2>4 DEF LinkedOf
  <2>6. links \in SUBSET [def : Definition, src : {d}, tgt : Doc]
    BY TopologyAssumption DEF Projectable
  <2> QED
    BY <2>5, <2>6 DEF Linked!Replace, Linked!LinksOf, LinkedOf
<1>2. ASSUME NEW d \in Doc, DeleteNode(d)
      PROVE  Linked!Delete(d)
  <2> DEFINE deleted == Without(nodes, {d})
             kept == edges \ Incident(edges, d)
  <2>1. nodes' = Swept(deleted, kept) /\ edges' = kept
    BY <1>2 DEF DeleteNode, Swept
  <2>2. /\ deleted \in [Doc -> States] /\ kept \subseteq Link /\ Anchored(deleted, kept)
        /\ \A x \in Doc : deleted[x] = "Materialized" <=> x # d /\ nodes[x] = "Materialized"
        /\ \A x \in Doc : x # d =>
             OutgoingOf(kept, x) = {l \in OutgoingOf(edges, x) : l.tgt # d}
    BY DeletedAnchored
  <2>3. \A x \in Doc : nodes'[x] = "Materialized" <=> x # d /\ nodes[x] = "Materialized"
    <3> HIDE DEF deleted, kept
    <3> QED BY <2>1, <2>2, SweptIsClosed
  <2>4. new = [s \in Doc |-> IF s = d THEN {}
                             ELSE {{l \in links : l.tgt # d} : links \in old[s]}]
    <3>1. \A s \in Doc : new[s] = IF s = d THEN {}
                                  ELSE {{l \in links : l.tgt # d} : links \in old[s]}
      BY <2>1, <2>2, <2>3 DEF LinkedOf
    <3> QED BY <3>1 DEF LinkedOf
  <2> QED
    BY <2>4 DEF Linked!Delete, LinkedOf
<1>3. ASSUME NEW m \in Manifests, PruneTopology(m)
      PROVE  Linked!Prune(m)
  <2> DEFINE kept == edges \ Stale(edges, m)
  <2>1. nodes' = Swept(nodes, kept) /\ edges' = kept
    BY <1>3 DEF PruneTopology, Swept
  <2>2. /\ kept \subseteq Link /\ Anchored(nodes, kept)
        /\ \A x \in Doc : OutgoingOf(kept, x) = {l \in OutgoingOf(edges, x) : l.def \in m}
    BY PrunedAnchored
  <2>3. \A x \in Doc : nodes'[x] = "Materialized" <=> nodes[x] = "Materialized"
    <3> HIDE DEF kept
    <3> QED BY <2>1, <2>2, SweptIsClosed DEF TablesOK
  <2>4. new = [s \in Doc |-> {{l \in links : l.def \in m} : links \in old[s]}]
    <3>1. \A s \in Doc : new[s] = {{l \in links : l.def \in m} : links \in old[s]}
      BY <2>1, <2>2, <2>3 DEF LinkedOf
    <3> QED BY <3>1 DEF LinkedOf
  <2> QED
    BY <2>4 DEF Linked!Prune, LinkedOf
<1> QED
  BY <1>1, <1>2, <1>3 DEF Write, Linked!Next

\* The batches on nodes, edges and orphans implement one map from documents
\* to their relations.
THEOREM TopologyImplementsLinked == Spec => ImplementsLinked
<1>1. Init => Linked!Init
  BY DEF Init, Linked!Init
<1>2. TablesOK /\ GraphClosed /\ [Next]_vars =>
        [Linked!Next]_([d \in Doc |-> IF nodes[d] = "Materialized" THEN {OutgoingOf(edges, d)}
                                     ELSE {}])
  <2> SUFFICES ASSUME TablesOK, GraphClosed, [Next]_vars
               PROVE  \/ Linked!Next
                      \/ UNCHANGED [d \in Doc |-> IF nodes[d] = "Materialized"
                                                    THEN {OutgoingOf(edges, d)} ELSE {}]
    OBVIOUS
  <2>1. CASE UNCHANGED <<nodes, edges>>
    BY <2>1 DEF OutgoingOf
  <2>2. CASE Write
    BY <2>2, WriteIsLinked
  <2> QED
    BY <2>1, <2>2 DEF Next, vars, BeginScan, NextPage, EndScan
<1> QED
  BY <1>1, <1>2, TablesClosed, PTL DEF Spec, ImplementsLinked, Linked!Spec
-----------------------------------------------------------------------------
(* Catalog walks.                                                          *)

\* What a reader that is still under way knows: its pages ascend, end at its
\* cursor, and hold every steady node up to there.
ScanInv(r) ==
  /\ scan[r].at \in {"idle", "open", "done"}
  /\ scan[r].after \in Doc \cup {-1}
  /\ scan[r].seen \subseteq Doc /\ scan[r].page \subseteq Doc /\ scan[r].steady \subseteq Doc
  /\ \A d \in scan[r].steady, q \in scan[r].query : Matches(nodes, d, q)
  /\ \A d \in scan[r].seen, e \in scan[r].page : d < e
  /\ scan[r].at = "open" =>
       /\ \A d \in scan[r].seen \cup scan[r].page : d <= scan[r].after
       /\ \A d \in scan[r].steady : d <= scan[r].after => d \in scan[r].seen \cup scan[r].page
  /\ scan[r].at = "done" => scan[r].steady \subseteq scan[r].seen \cup scan[r].page

CatalogInv == DOMAIN scan = Reader /\ \A r \in Reader : ScanInv(r)

\* A page that ends the walk holds every row that was left.
LEMMA LastPageIsAll ==
  ASSUME NEW S \in SUBSET Doc, NEW rows \in SUBSET Doc, NEW page \in SUBSET Doc,
         LimitedTo(PageLimit + 1, S, rows), LimitedTo(PageLimit, rows, page),
         LastPage(rows)
  PROVE  page = S
<1>1. IsFiniteSet(rows) /\ Cardinality(rows) \in Nat
  BY TopologyAssumption, FS_Subset, FS_CardinalityType
<1>2. rows = S
  BY <1>1, TopologyAssumption DEF LimitedTo, LastPage
<1>3. page = rows
  <2>1. CASE Cardinality(page) = PageLimit
    <3>1. page \subseteq rows /\ Cardinality(rows) <= Cardinality(page)
      BY <2>1 DEF LimitedTo, LastPage
    <3>2. Cardinality(page) <= Cardinality(rows)
          /\ (Cardinality(page) = Cardinality(rows) => page = rows)
      BY <1>1, <3>1, FS_Subset
    <3>3. Cardinality(page) \in Nat
      BY <2>1, TopologyAssumption
    <3> QED BY <1>1, <3>1, <3>2, <3>3
  <2> QED BY <2>1 DEF LimitedTo
<1> QED
  BY <1>2, <1>3

\* A page is the whole of what was left up to its last row.
LEMMA PageIsPrefix ==
  ASSUME NEW S \in SUBSET Doc, NEW rows \in SUBSET Doc, NEW page \in SUBSET Doc,
         LimitedTo(PageLimit + 1, S, rows), LimitedTo(PageLimit, rows, page),
         NEW next \in Cursor(rows, page), NEW d \in S, d <= next
  PROVE  d \in page
<1>1. next \in page /\ next \in rows /\ next \in Nat /\ d \in Nat
  BY TopologyAssumption DEF Cursor, LastOf, LimitedTo
<1>2. d \in rows
  BY <1>1 DEF LimitedTo
<1> QED
  BY <1>1, <1>2 DEF LimitedTo

LEMMA PageKeepsScan ==
  ASSUME CatalogInv, NEW r \in Reader, NextPage(r)
  PROVE  ScanInv(r)'
<1> USE DEF CatalogInv
<1>1. PICK q \in scan[r].query, rows \in SUBSET Doc, page \in SUBSET Doc :
        /\ LimitedTo(PageLimit + 1, Remaining(q, scan[r].after), rows)
        /\ LimitedTo(PageLimit, rows, page)
        /\ \E next \in IF LastPage(rows) THEN {scan[r].after} ELSE Cursor(rows, page) :
             scan' = [scan EXCEPT ![r] =
               [at |-> IF LastPage(rows) THEN "done" ELSE "open",
                query |-> scan[r].query, after |-> next,
                seen |-> scan[r].seen \cup scan[r].page,
                page |-> page, steady |-> scan[r].steady]]
  BY DEF NextPage
<1>2. PICK next \in IF LastPage(rows) THEN {scan[r].after} ELSE Cursor(rows, page) :
        scan' = [scan EXCEPT ![r] =
               [at |-> IF LastPage(rows) THEN "done" ELSE "open",
                query |-> scan[r].query, after |-> next,
                seen |-> scan[r].seen \cup scan[r].page,
                page |-> page, steady |-> scan[r].steady]]
  BY <1>1
<1> DEFINE S == Remaining(q, scan[r].after)
<1>3. scan[r].at = "open" /\ nodes' = nodes /\ ScanInv(r)
  BY DEF NextPage
<1>4. /\ scan'[r].at = IF LastPage(rows) THEN "done" ELSE "open"
      /\ scan'[r].query = scan[r].query
      /\ scan'[r].after = next
      /\ scan'[r].seen = scan[r].seen \cup scan[r].page
      /\ scan'[r].page = page
      /\ scan'[r].steady = scan[r].steady
  BY <1>2
<1>5. S \subseteq Doc /\ \A d \in S : d > scan[r].after
  BY DEF Remaining
<1>6. rows \subseteq S /\ page \subseteq S
  BY <1>1 DEF LimitedTo
<1>7. \A d \in scan[r].steady : d > scan[r].after => d \in S
  BY <1>3 DEF Remaining, ScanInv
<1>8. \A d \in Doc \cup {-1} : d \in Int
  BY TopologyAssumption
<1>9. \A d \in scan'[r].seen, e \in scan'[r].page : d < e
  BY <1>3, <1>4, <1>5, <1>6, <1>8 DEF ScanInv
<1>10. next \in Doc \cup {-1}
  BY <1>3 DEF ScanInv, Cursor, LastOf
<1>11. ASSUME LastPage(rows) PROVE scan[r].steady \subseteq scan'[r].seen \cup page
  <2>1. page = S
    BY <1>1, <1>5, <1>11, LastPageIsAll
  <2> QED
    BY <2>1, <1>3, <1>4, <1>7, <1>8 DEF ScanInv
<1>12. ASSUME ~LastPage(rows)
       PROVE  /\ \A d \in scan'[r].seen \cup page : d <= next
              /\ \A d \in scan[r].steady : d <= next => d \in scan'[r].seen \cup page
  <2>1. next \in Cursor(rows, page) /\ next \in page
    BY <1>12 DEF Cursor, LastOf
  <2>2. \A d \in S : d <= next => d \in page
    BY <1>1, <1>5, <2>1, PageIsPrefix
  <2>3. next > scan[r].after
    BY <2>1, <1>5, <1>6
  <2>4. \A d \in page : d <= next
    BY <2>1 DEF Cursor, LastOf
  <2> QED
    BY <2>2, <2>3, <2>4, <1>3, <1>4, <1>7, <1>8, <1>10 DEF ScanInv
<1> QED
  BY <1>3, <1>4, <1>9, <1>10, <1>11, <1>12 DEF ScanInv, Matches

\* A write only takes nodes out of what a reader counts as steady.
LEMMA WriteKeepsScans ==
  ASSUME CatalogInv, Write
  PROVE  CatalogInv'
<1>1. scan' = Observed(nodes')
  BY DEF Write, ReplaceDocumentTopology, DeleteNode, PruneTopology
<1>2. ASSUME NEW r \in Reader PROVE ScanInv(r)'
  <2>1. ScanInv(r)
    BY DEF CatalogInv
  <2>2. /\ scan'[r].at = scan[r].at /\ scan'[r].query = scan[r].query
        /\ scan'[r].after = scan[r].after
        /\ scan'[r].seen = scan[r].seen /\ scan'[r].page = scan[r].page
        /\ scan'[r].steady =
             {d \in scan[r].steady : \A q \in scan[r].query : Matches(nodes', d, q)}
    BY <1>1 DEF Observed
  <2> QED
    BY <2>1, <2>2 DEF ScanInv, Matches
<1>3. DOMAIN scan' = Reader
  BY <1>1 DEF Observed
<1> QED
  BY <1>2, <1>3 DEF CatalogInv

LEMMA CatalogStep ==
  ASSUME CatalogInv, [Next]_vars
  PROVE  CatalogInv'
<1>1. CASE UNCHANGED <<nodes, scan>>
  BY <1>1 DEF CatalogInv, ScanInv, Matches
<1>2. CASE Write
  BY <1>2, WriteKeepsScans
<1>3. ASSUME NEW r \in Reader, BeginScan(r) \/ NextPage(r) \/ EndScan(r)
      PROVE  CatalogInv'
  <2>1. ASSUME NEW s \in Reader, s # r PROVE ScanInv(s)'
    <3>1. scan'[s] = scan[s] /\ nodes' = nodes /\ ScanInv(s)
      BY <1>3, <2>1 DEF CatalogInv, BeginScan, NextPage, EndScan
    <3> QED BY <3>1 DEF ScanInv, Matches
  <2>2. ScanInv(r)'
    <3>1. CASE BeginScan(r)
      <4>1. PICK q \in Queries :
              scan'[r] = [at |-> "open", query |-> {q}, after |-> -1, seen |-> {},
                          page |-> {}, steady |-> {d \in Doc : Matches(nodes, d, q)}]
        BY <3>1 DEF BeginScan, CatalogInv
      <4>2. nodes' = nodes
        BY <3>1 DEF BeginScan
      <4>3. /\ scan'[r].at = "open" /\ scan'[r].query = {q} /\ scan'[r].after = -1
            /\ scan'[r].seen = {} /\ scan'[r].page = {}
            /\ scan'[r].steady = {d \in Doc : Matches(nodes, d, q)}
        BY <4>1
      <4>4. \A d \in Doc : ~(d <= -1)
        BY TopologyAssumption
      <4>5. \A d \in scan'[r].steady, p \in scan'[r].query : Matches(nodes, d, p)'
        BY <4>2, <4>3 DEF Matches
      <4> QED BY <4>3, <4>4, <4>5 DEF ScanInv
    <3>2. CASE NextPage(r)
      BY <3>2, PageKeepsScan
    <3>3. CASE EndScan(r)
      BY <3>3 DEF EndScan, CatalogInv, ScanInv, NotReading
    <3> QED BY <1>3, <3>1, <3>2, <3>3
  <2>3. DOMAIN scan' = Reader
    BY <1>3 DEF CatalogInv, BeginScan, NextPage, EndScan
  <2> QED BY <2>1, <2>2, <2>3 DEF CatalogInv
<1> QED
  BY <1>1, <1>2, <1>3 DEF Next, vars

\* A walk that reached its end returned every node that was there and matched
\* throughout, for any interleaving of writes and pages.
THEOREM CatalogIsComplete == Spec => [](CatalogComplete /\ CatalogAscends)
<1>1. Init => CatalogInv
  BY DEF Init, CatalogInv, ScanInv, NotReading
<1>2. CatalogInv => CatalogComplete /\ CatalogAscends
  BY DEF CatalogInv, ScanInv, CatalogComplete, CatalogAscends
<1> QED
  BY <1>1, <1>2, CatalogStep, PTL DEF Spec
-----------------------------------------------------------------------------
(* Counting.                                                               *)

\* Edges that no two have one key.
Keyed(es) == \A e, f \in es : SameKey(e, f) => e = f

\* The edges of one set that have a counterpart in another.
Retained(es, others) == {e \in es : \E f \in others : SameKey(e, f)}

LEMMA RetainedMatch ==
  ASSUME NEW old, NEW new, Keyed(old), Keyed(new)
  PROVE  ExistsBijection(Retained(old, new), Retained(new, old))
<1> DEFINE S == Retained(old, new)
           T == Retained(new, old)
           match == [e \in S |-> CHOOSE f \in new : SameKey(e, f)]
<1>1. \A e, f : SameKey(e, f) => SameKey(f, e)
  BY DEF SameKey
<1>2. \A e, f, g : SameKey(e, f) /\ SameKey(f, g) => SameKey(e, g)
  BY DEF SameKey
<1>3. ASSUME NEW e \in S PROVE match[e] \in T /\ SameKey(e, match[e])
  <2>1. match[e] \in new /\ SameKey(e, match[e])
    BY DEF Retained
  <2> QED
    BY <1>1, <2>1 DEF Retained
<1>4. ASSUME NEW e \in S, NEW f \in S, match[e] = match[f] PROVE e = f
  <2>1. SameKey(e, f)
    BY <1>1, <1>2, <1>3, <1>4
  <2> QED
    BY <2>1 DEF Retained, Keyed
<1>5. ASSUME NEW f \in T PROVE \E e \in S : match[e] = f
  <2>1. PICK e \in old : SameKey(f, e)
    BY DEF Retained
  <2>2. e \in S
    BY <1>1, <2>1 DEF Retained
  <2>3. SameKey(f, match[e]) /\ f \in new /\ match[e] \in new
    BY <1>2, <1>3, <2>1, <2>2 DEF Retained
  <2> QED
    BY <2>2, <2>3 DEF Keyed
<1>6. match \in [S -> T]
  BY <1>3
<1> HIDE DEF match, S, T
<1>7. match \in Bijection(S, T)
  BY <1>4, <1>5, <1>6 DEF Bijection, Injection, Surjection, IsInjective
<1> QED
  BY <1>7 DEF ExistsBijection, S, T

\* countGraphRelationReplacement reports the difference in size, whichever
\* relations are taken for retained.
LEMMA ReplacementIsCounted ==
  ASSUME NEW old, NEW new, IsFiniteSet(old), IsFiniteSet(new), Keyed(old), Keyed(new)
  PROVE  ReplacementCount(old, new) = Cardinality(new) - Cardinality(old)
<1>1. /\ Inserted(old, new) = new \ Retained(new, old)
      /\ Inserted(new, old) = old \ Retained(old, new)
  BY DEF Inserted, Retained
<1>2. /\ new \cap Retained(new, old) = Retained(new, old)
      /\ old \cap Retained(old, new) = Retained(old, new)
  BY DEF Retained
<1>3. IsFiniteSet(Retained(old, new))
  BY FS_Subset DEF Retained
<1>4. Cardinality(Retained(new, old)) = Cardinality(Retained(old, new))
  BY <1>3, RetainedMatch, FS_Bijection
<1>5. /\ Cardinality(Inserted(old, new)) = Cardinality(new) - Cardinality(Retained(new, old))
      /\ Cardinality(Inserted(new, old)) = Cardinality(old) - Cardinality(Retained(old, new))
  BY <1>1, <1>2, FS_Difference
<1>6. /\ Cardinality(new) \in Nat /\ Cardinality(old) \in Nat
      /\ Cardinality(Retained(old, new)) \in Nat
  BY <1>3, FS_CardinalityType
<1> QED
  BY <1>4, <1>5, <1>6 DEF ReplacementCount

LEMMA ProjectableIsFinite ==
  ASSUME NEW m \in Manifests, NEW d \in Doc PROVE IsFiniteSet(Projectable(m, d))
<1> DEFINE pairs == [l \in Projectable(m, d) |-> <<l.def, l.tgt>>]
<1>1. IsFiniteSet(m \X Doc)
  BY TopologyAssumption, FS_Product
<1>2. pairs \in Injection(Projectable(m, d), m \X Doc)
  BY DEF Projectable, Injection, IsInjective
<1> QED
  BY <1>1, <1>2, FS_Injection

LEMMA ProjectedAreKeyed ==
  ASSUME NEW m \in Manifests, NEW d \in Doc, NEW links \in SUBSET Projectable(m, d)
  PROVE  Keyed(links)
BY TopologyAssumption DEF Keyed, SameKey, Projectable

EdgesCounted ==
  /\ IsFiniteSet(edges)
  /\ EdgesKeyed
  /\ counts = Cardinality(edges)

\* A write that takes some edges away reports how many.
LEMMA FewerCounted ==
  ASSUME EdgesCounted, NEW cut \in SUBSET edges, edges' = edges \ cut,
         counts' = counts - Cardinality(cut)
  PROVE  EdgesCounted'
<1>1. IsFiniteSet(edges \ cut) /\ Cardinality(edges \ cut) = Cardinality(edges) - Cardinality(edges \cap cut)
  BY FS_Difference DEF EdgesCounted
<1>2. edges \cap cut = cut
  OBVIOUS
<1> QED
  BY <1>1, <1>2 DEF EdgesCounted, EdgesKeyed

LEMMA ReplacedCounted ==
  ASSUME EdgesCounted, NEW m \in Manifests, NEW d \in Doc, NEW links \in SUBSET Projectable(m, d),
         ReplaceDocumentTopology(m, d, links)
  PROVE  EdgesCounted'
<1> DEFINE old == OutgoingOf(edges, d)
           kept == edges \ old
<1>1. edges' = kept \cup links /\ counts' = counts + ReplacementCount(old, links)
  BY DEF ReplaceDocumentTopology, Replaced
<1>2. Keyed(old) /\ Keyed(links) /\ Keyed(edges)
  BY ProjectedAreKeyed DEF EdgesCounted, EdgesKeyed, Keyed, OutgoingOf
<1>3. \A l \in links : l.src = d
  BY DEF Projectable
<1>4. \A e \in kept : e \in edges /\ e.src # d
  BY DEF OutgoingOf
<1>5. Keyed(kept \cup links) /\ kept \cap links = {}
  BY <1>2, <1>3, <1>4 DEF Keyed, SameKey
<1>6. IsFiniteSet(old) /\ IsFiniteSet(links) /\ IsFiniteSet(edges)
  BY ProjectableIsFinite, FS_Subset DEF EdgesCounted, OutgoingOf
<1>7. IsFiniteSet(kept) /\ Cardinality(kept) = Cardinality(edges) - Cardinality(old)
  <2>1. edges \cap old = old
    BY DEF OutgoingOf
  <2> QED
    BY <1>6, <2>1, FS_Difference
<1>8. IsFiniteSet(kept \cup links)
      /\ Cardinality(kept \cup links) = Cardinality(kept) + Cardinality(links)
  <2>1. Cardinality(kept) \in Nat /\ Cardinality(links) \in Nat
    BY <1>6, <1>7, FS_CardinalityType
  <2>2. Cardinality(kept \cap links) = 0
    BY <1>5, FS_EmptySet
  <2> HIDE DEF kept
  <2>3. /\ IsFiniteSet(kept \cup links)
        /\ Cardinality(kept \cup links) =
             Cardinality(kept) + Cardinality(links) - Cardinality(kept \cap links)
    BY <1>6, <1>7, FS_Union
  <2> QED
    BY <2>1, <2>2, <2>3
<1>9. ReplacementCount(old, links) = Cardinality(links) - Cardinality(old)
  BY <1>2, <1>6, ReplacementIsCounted
<1>10. /\ Cardinality(edges) \in Nat /\ Cardinality(links) \in Nat /\ Cardinality(old) \in Nat
       /\ counts = Cardinality(edges)
  BY <1>6, FS_CardinalityType DEF EdgesCounted
<1>11. counts' = Cardinality(kept \cup links)
  BY <1>1, <1>7, <1>8, <1>9, <1>10
<1> HIDE DEF kept
<1> QED
  BY <1>1, <1>5, <1>8, <1>11 DEF EdgesCounted, EdgesKeyed, Keyed

LEMMA CountingStep == EdgesCounted /\ [Next]_vars => EdgesCounted'
<1> SUFFICES ASSUME EdgesCounted, [Next]_vars PROVE EdgesCounted'
  OBVIOUS
<1>1. CASE UNCHANGED <<edges, counts>>
  BY <1>1 DEF EdgesCounted, EdgesKeyed
<1>2. ASSUME NEW d \in Doc, DeleteNode(d) PROVE EdgesCounted'
  BY <1>2, FewerCounted DEF DeleteNode, Incident
<1>3. ASSUME NEW m \in Manifests, PruneTopology(m) PROVE EdgesCounted'
  BY <1>3, FewerCounted DEF PruneTopology, Stale
<1> QED
  BY <1>1, <1>2, <1>3, ReplacedCounted DEF Next, Write, vars, BeginScan, NextPage, EndScan

\* However writers with different relation versions follow each other, no two
\* edges have one primary key, and the insertions reported so far less the
\* deletions are the edges there are.
THEOREM CountsStayTrue == Spec => [](EdgesKeyed /\ CountsAddUp)
<1>1. Init => EdgesCounted
  BY FS_EmptySet DEF Init, EdgesCounted, EdgesKeyed
<1>2. EdgesCounted => EdgesKeyed /\ CountsAddUp
  BY DEF EdgesCounted, CountsAddUp
<1> QED
  BY <1>1, <1>2, CountingStep, PTL DEF Spec
-----------------------------------------------------------------------------
(* The first rows of an ordered set.                                        *)

Below(S, x) == {y \in S : y < x}

LEMMA LeastKey ==
  ASSUME NEW S \in SUBSET Nat, S # {}
  PROVE  \E x \in S : \A y \in S : x <= y
<1>1. PICK x \in S : \A y \in S : ~ (<<y, x>> \in OpToRel(<, Nat))
  BY NatLessThanWellFounded, WFMin
<1>2. \A y \in S : y \in Nat
  OBVIOUS
<1>3. \A y \in S : ~ (y < x)
  BY <1>1, <1>2 DEF OpToRel
<1> QED
  BY <1>2, <1>3

LEMMA GreatestKey ==
  ASSUME NEW S \in SUBSET Nat, IsFiniteSet(S), S # {}
  PROVE  \E x \in S : \A y \in S : y <= x
<1> DEFINE above(x) == Cardinality(S) - Cardinality(Below(S, x))
           counted == {above(x) : x \in S}
<1>1. ASSUME NEW x \in S
      PROVE  /\ Below(S, x) \in SUBSET S /\ IsFiniteSet(Below(S, x))
             /\ Cardinality(Below(S, x)) \in Nat /\ Cardinality(S) \in Nat
             /\ Cardinality(Below(S, x)) <= Cardinality(S)
  <2>1. Below(S, x) \in SUBSET S
    BY DEF Below
  <2> QED BY <2>1, FS_Subset, FS_CardinalityType
<1>2. counted \in SUBSET Nat /\ counted # {}
  <2>1. \A x \in S : above(x) \in Nat
    BY <1>1
  <2> HIDE DEF above
  <2> QED BY <2>1
<1>3. PICK least \in counted : \A c \in counted : least <= c
  <2> HIDE DEF counted
  <2> QED BY <1>2, LeastKey
<1>4. PICK x \in S : \A y \in S : above(x) <= above(y)
  <2> HIDE DEF above
  <2> QED BY <1>3
<1>5. ASSUME NEW y \in S, x < y PROVE FALSE
  <2>1. Below(S, x) \cup {x} \in SUBSET Below(S, y)
    <3>1. \A z \in S : z \in Nat
      OBVIOUS
    <3>2. \A z \in S : z < x => z < y
      BY <1>5, <3>1
    <3> QED BY <1>5, <3>2 DEF Below
  <2>2. x \notin Below(S, x)
    BY DEF Below
  <2>3. Cardinality(Below(S, x) \cup {x}) = Cardinality(Below(S, x)) + 1
    BY <1>1, <2>2, FS_AddElement
  <2>4. Cardinality(Below(S, x) \cup {x}) <= Cardinality(Below(S, y))
    BY <1>1, <2>1, FS_Subset
  <2> QED BY <1>1, <1>4, <2>3, <2>4
<1> QED
  BY <1>5

\* FirstOf is what ORDER BY key LIMIT n returns.
LEMMA FirstAreLimited ==
  ASSUME NEW S \in SUBSET Nat, IsFiniteSet(S), NEW n \in Nat
  PROVE  LimitedTo(n, S, FirstOf(S, n))
<1> DEFINE first == FirstOf(S, n)
<1>1. \A x \in S : /\ Below(S, x) \in SUBSET S /\ IsFiniteSet(Below(S, x))
                   /\ Cardinality(Below(S, x)) \in Nat
  <2> SUFFICES ASSUME NEW x \in S
               PROVE  /\ Below(S, x) \in SUBSET S /\ IsFiniteSet(Below(S, x))
                      /\ Cardinality(Below(S, x)) \in Nat
    OBVIOUS
  <2>1. Below(S, x) \in SUBSET S
    BY DEF Below
  <2> QED BY <2>1, FS_Subset, FS_CardinalityType
<1>2. first = {x \in S : Cardinality(Below(S, x)) < n}
  BY DEF FirstOf, Below
<1> HIDE DEF first
<1>3. first \in SUBSET S /\ IsFiniteSet(first) /\ Cardinality(first) \in Nat
  <2>1. first \in SUBSET S
    BY <1>2
  <2> QED BY <2>1, FS_Subset, FS_CardinalityType
<1>4. ASSUME NEW d \in first, NEW e \in S \ first PROVE d < e
  <2>1. CASE e <= d
    <3>1. Below(S, e) \in SUBSET Below(S, d) /\ d \in S
      <4>1. d \in Nat /\ e \in Nat /\ d \in S /\ \A y \in S : y \in Nat
        BY <1>3
      <4>2. \A y \in S : y < e => y < d
        BY <2>1, <4>1
      <4> QED BY <4>1, <4>2 DEF Below
    <3>2. Cardinality(Below(S, e)) <= Cardinality(Below(S, d))
      BY <1>1, <3>1, FS_Subset
    <3> QED BY <1>1, <1>2, <3>1, <3>2
  <2> QED BY <2>1, <1>3
<1>5. Cardinality(first) <= n
  <2>1. CASE first = {}
    BY <2>1, FS_EmptySet
  <2>2. CASE first # {}
    <3>1. first \in SUBSET Nat
      BY <1>3
    <3>2. PICK x \in first : \A y \in first : y <= x
      BY <1>3, <2>2, <3>1, GreatestKey
    <3>3. first \in SUBSET (Below(S, x) \cup {x})
      BY <1>3, <3>2 DEF Below
    <3>4. x \in S /\ Cardinality(Below(S, x)) < n /\ x \notin Below(S, x)
      BY <1>2 DEF Below
    <3>5. /\ IsFiniteSet(Below(S, x) \cup {x})
          /\ Cardinality(Below(S, x) \cup {x}) = Cardinality(Below(S, x)) + 1
      BY <1>1, <3>4, FS_AddElement
    <3>6. Cardinality(first) <= Cardinality(Below(S, x) \cup {x})
      BY <3>3, <3>5, FS_Subset
    <3> QED BY <1>1, <1>3, <3>4, <3>5, <3>6
  <2> QED BY <2>1, <2>2
<1>6. ASSUME first # S PROVE Cardinality(first) >= n
  <2>1. S \ first \in SUBSET Nat /\ S \ first # {}
    BY <1>3, <1>6
  <2>2. PICK x \in S \ first : \A y \in S \ first : x <= y
    BY <2>1, LeastKey
  <2>3. Below(S, x) \in SUBSET first
    <3>1. x \in Nat /\ \A y \in S : y \in Nat
      BY <2>2
    <3>2. \A y \in S : y < x => ~ (x <= y)
      BY <3>1
    <3> QED BY <2>2, <3>2 DEF Below
  <2>4. Cardinality(Below(S, x)) <= Cardinality(first)
    BY <1>3, <2>3, FS_Subset
  <2> QED BY <1>1, <1>2, <1>3, <2>2, <2>4
<1>7. Cardinality(first) = n \/ (first = S /\ Cardinality(first) <= n)
  BY <1>3, <1>5, <1>6
<1>8. \A d \in first, e \in S \ first : d < e
  BY <1>4
<1>9. LimitedTo(n, S, first)
  BY <1>3, <1>7, <1>8 DEF LimitedTo
<1> QED
  BY <1>9 DEF first

LEMMA LimitedAreFirst ==
  ASSUME NEW S \in SUBSET Nat, IsFiniteSet(S), NEW n \in Nat, NEW rows, LimitedTo(n, S, rows)
  PROVE  rows = FirstOf(S, n)
<1>1. ASSUME NEW P, NEW Q, LimitedTo(n, S, P), LimitedTo(n, S, Q), P \subseteq Q
      PROVE  P = Q
  <2>1. P \in SUBSET S /\ Q \in SUBSET S
    BY <1>1 DEF LimitedTo
  <2>2. /\ IsFiniteSet(Q) /\ Cardinality(P) \in Nat /\ Cardinality(Q) \in Nat
        /\ Cardinality(P) <= Cardinality(Q) /\ (Cardinality(Q) = Cardinality(P) => Q = P)
    BY <1>1, <2>1, FS_Subset, FS_CardinalityType
  <2>3. Cardinality(Q) <= n
    BY <1>1, <2>2 DEF LimitedTo
  <2>4. CASE P = S
    BY <1>1, <2>1, <2>4
  <2>5. CASE Cardinality(P) = n
    BY <2>2, <2>3, <2>5
  <2> QED BY <1>1, <2>4, <2>5 DEF LimitedTo
<1>2. LimitedTo(n, S, FirstOf(S, n))
  BY FirstAreLimited
<1>3. rows \subseteq FirstOf(S, n) \/ FirstOf(S, n) \subseteq rows
  <2> SUFFICES ASSUME NEW d \in rows, d \notin FirstOf(S, n), NEW e \in FirstOf(S, n), e \notin rows
               PROVE  FALSE
    OBVIOUS
  <2>1. d \in S /\ e \in S
    BY <1>2 DEF LimitedTo
  <2>2. d < e /\ e < d
    BY <1>2, <2>1 DEF LimitedTo
  <2> QED BY <2>1, <2>2
<1> QED
  BY <1>1, <1>2, <1>3
-----------------------------------------------------------------------------
(* The maps of the in-memory store hold what the tables of D1 hold.           *)

LEMMA OneGraph ==
  /\ \A d \in Doc : GraphOf[d] = TheGraph
  /\ \A d \in Foreign : GraphOf[d] # TheGraph /\ d \notin Doc
  /\ \A d \in Docs : GraphOf[d] = TheGraph => d \in Doc
<1>1. (CHOOSE d \in Doc : TRUE) \in Doc
  BY AdaptersAssumption
<1> QED
  BY <1>1, AdaptersAssumption DEF TheGraph

KeyOf(e) == EdgeKey(e.src, e)

SameNodes(ns, map) ==
  /\ DOMAIN map \subseteq Docs
  /\ \A d \in Doc : ns[d] = IF d \in DOMAIN map THEN map[d] ELSE "Absent"
  /\ \A d \in Doc : d \in DOMAIN map => map[d] # "Absent"

SameEdges(es, map) ==
  /\ \A e \in es : KeyOf(e) \in DOMAIN map /\ map[KeyOf(e)] = {e.def}
  /\ \A k \in DOMAIN map : k.graph = TheGraph => \E e \in es : k = KeyOf(e)

LEMMA KeyFields ==
  ASSUME NEW e, e.src \in Doc
  PROVE  /\ KeyOf(e).graph = TheGraph /\ KeyOf(e).relation = e.def.id
         /\ KeyOf(e).source = e.src /\ KeyOf(e).target = e.tgt
BY OneGraph DEF KeyOf, EdgeKey

LEMMA KeysTellApart ==
  ASSUME NEW e, NEW f, KeyOf(e) = KeyOf(f)
  PROVE  SameKey(e, f)
BY DEF KeyOf, EdgeKey, SameKey

\* Edges and their keys pair up one to one.
LEMMA KeysAreCounted ==
  ASSUME NEW es, IsFiniteSet(es), Keyed(es)
  PROVE  /\ IsFiniteSet({KeyOf(e) : e \in es})
         /\ Cardinality({KeyOf(e) : e \in es}) = Cardinality(es)
<1> DEFINE keys == {KeyOf(e) : e \in es}
           key == [e \in es |-> KeyOf(e)]
<1>1. key \in [es -> keys]
  OBVIOUS
<1>2. \A e, f \in es : key[e] = key[f] => e = f
  BY KeysTellApart DEF Keyed
<1>3. \A k \in keys : \E e \in es : key[e] = k
  OBVIOUS
<1> HIDE DEF keys, key
<1>4. key \in Bijection(es, keys)
  BY <1>1, <1>2, <1>3 DEF Bijection, Injection, Surjection, IsInjective
<1>5. IsFiniteSet(keys) /\ Cardinality(keys) = Cardinality(es)
  BY <1>4, FS_Bijection DEF ExistsBijection
<1> QED
  BY <1>5 DEF keys

LEMMA SameOrphans ==
  ASSUME NEW ns, NEW es, es \subseteq Link, NEW nm, NEW em, SameNodes(ns, nm), SameEdges(es, em)
  PROVE  Orphaned(TheGraph, nm, em) = Orphans(ns, es)
<1>1. \A e \in es : e.src \in Doc /\ e.tgt \in Doc
  BY DEF Link
<1>2. ASSUME NEW d \in Doc
      PROVE  (\A k \in DOMAIN em : k.graph = TheGraph => k.source # d /\ k.target # d)
             <=> (\A e \in es : e.src # d /\ e.tgt # d)
  <2>1. ASSUME \A k \in DOMAIN em : k.graph = TheGraph => k.source # d /\ k.target # d, NEW e \in es
        PROVE  e.src # d /\ e.tgt # d
    <3>1. KeyOf(e) \in DOMAIN em
      BY DEF SameEdges
    <3> QED BY <1>1, <2>1, <3>1, KeyFields
  <2>2. ASSUME \A e \in es : e.src # d /\ e.tgt # d, NEW k \in DOMAIN em, k.graph = TheGraph
        PROVE  k.source # d /\ k.target # d
    <3>1. PICK e \in es : k = KeyOf(e)
      BY <2>2 DEF SameEdges
    <3> QED BY <1>1, <2>2, <3>1, KeyFields
  <2> QED BY <2>1, <2>2
<1>3. \A d : d \in DOMAIN nm /\ GraphOf[d] = TheGraph <=> d \in Doc /\ d \in DOMAIN nm
  BY OneGraph DEF SameNodes
<1>4. \A d \in Doc : ns[d] = "Referenced" <=> d \in DOMAIN nm /\ nm[d] = "Referenced"
  BY DEF SameNodes
<1> QED
  BY <1>2, <1>3, <1>4 DEF Orphaned, Orphans

LEMMA SameSwept ==
  ASSUME NEW ns, NEW es, es \subseteq Link, NEW nm, NEW em, SameNodes(ns, nm), SameEdges(es, em)
  PROVE  SameNodes(Swept(ns, es), DeleteAll(nm, Orphaned(TheGraph, nm, em)))
<1>1. Orphaned(TheGraph, nm, em) = Orphans(ns, es)
  BY SameOrphans
<1> QED
  BY <1>1 DEF SameNodes, Swept, Without, DeleteAll

\* Deleting edges and their keys.
LEMMA SameCut ==
  ASSUME NEW es, es \subseteq Link, Keyed(es), NEW em, SameEdges(es, em),
         NEW cut \in SUBSET es, NEW keys, keys = {KeyOf(e) : e \in cut}
  PROVE  SameEdges(es \ cut, DeleteAll(em, keys))
<1>1. \A e \in es : KeyOf(e) \in keys <=> e \in cut
  BY KeysTellApart DEF Keyed
<1> QED
  BY <1>1 DEF SameEdges, DeleteAll

\* The keys of the edges of the graph that have some property.
LEMMA KeysOfSome ==
  ASSUME NEW es, es \subseteq Link, NEW em, SameEdges(es, em), NEW cut \in SUBSET es,
         NEW keys \in SUBSET DOMAIN em,
         \A k \in keys : k.graph = TheGraph,
         \A e \in es : KeyOf(e) \in keys <=> e \in cut
  PROVE  keys = {KeyOf(e) : e \in cut}
BY DEF SameEdges
-----------------------------------------------------------------------------
(* Both stores after each write, and their answers.                          *)

MapsHold == SameNodes(nodes, nodeMap) /\ SameEdges(edges, edgeMap)

BothInv == TablesOK /\ GraphClosed /\ EdgesCounted /\ MapsHold

LEMMA EdgesOfDoc ==
  ASSUME BothInv
  PROVE  /\ \A e \in edges : e.src \in Doc /\ e.tgt \in Doc
         /\ Keyed(edges) /\ IsFiniteSet(edges)
BY DEF BothInv, TablesOK, Link, EdgesCounted, EdgesKeyed, Keyed

LEMMA OutgoingKeys ==
  ASSUME BothInv, NEW d \in Doc
  PROVE  Outgoing(d) = {KeyOf(e) : e \in OutgoingOf(edges, d)}
<1>1. \A e \in edges : KeyOf(e) \in Outgoing(d) <=> e \in OutgoingOf(edges, d)
  <2> SUFFICES ASSUME NEW e \in edges
               PROVE  KeyOf(e) \in Outgoing(d) <=> e \in OutgoingOf(edges, d)
    OBVIOUS
  <2>1. KeyOf(e) \in DOMAIN edgeMap
    BY DEF BothInv, MapsHold, SameEdges
  <2>2. KeyOf(e).graph = GraphOf[d] /\ KeyOf(e).source = e.src
    BY EdgesOfDoc, KeyFields, OneGraph
  <2> QED BY <2>1, <2>2 DEF Outgoing, OutgoingOf
<1>2. \A k \in Outgoing(d) : k.graph = TheGraph
  BY OneGraph DEF Outgoing
<1>3. Outgoing(d) \in SUBSET DOMAIN edgeMap /\ OutgoingOf(edges, d) \in SUBSET edges
  BY DEF Outgoing, OutgoingOf
<1>4. edges \subseteq Link /\ SameEdges(edges, edgeMap)
  BY DEF BothInv, MapsHold, TablesOK
<1> QED
  BY <1>1, <1>2, <1>3, <1>4, KeysOfSome

LEMMA TouchingKeys ==
  ASSUME BothInv, NEW d \in Doc
  PROVE  Touching(d) = {KeyOf(e) : e \in Incident(edges, d)}
<1>1. \A e \in edges : KeyOf(e) \in Touching(d) <=> e \in Incident(edges, d)
  <2> SUFFICES ASSUME NEW e \in edges
               PROVE  KeyOf(e) \in Touching(d) <=> e \in Incident(edges, d)
    OBVIOUS
  <2>1. KeyOf(e) \in DOMAIN edgeMap
    BY DEF BothInv, MapsHold, SameEdges
  <2>2. /\ KeyOf(e).graph = GraphOf[d]
        /\ KeyOf(e).source = e.src /\ KeyOf(e).target = e.tgt
    BY EdgesOfDoc, KeyFields, OneGraph
  <2> QED BY <2>1, <2>2 DEF Touching, Incident
<1>2. \A k \in Touching(d) : k.graph = TheGraph
  BY OneGraph DEF Touching
<1>3. Touching(d) \in SUBSET DOMAIN edgeMap /\ Incident(edges, d) \in SUBSET edges
  BY DEF Touching, Incident
<1>4. edges \subseteq Link /\ SameEdges(edges, edgeMap)
  BY DEF BothInv, MapsHold, TablesOK
<1> QED
  BY <1>1, <1>2, <1>3, <1>4, KeysOfSome

LEMMA InactiveKeys ==
  ASSUME BothInv, NEW m
  PROVE  Inactive(TheGraph, m) = {KeyOf(e) : e \in Stale(edges, m)}
<1>1. \A e \in edges : KeyOf(e) \in Inactive(TheGraph, m) <=> e \in Stale(edges, m)
  <2> SUFFICES ASSUME NEW e \in edges
               PROVE  KeyOf(e) \in Inactive(TheGraph, m) <=> e \in Stale(edges, m)
    OBVIOUS
  <2>1. KeyOf(e) \in DOMAIN edgeMap /\ edgeMap[KeyOf(e)] = {e.def}
    BY DEF BothInv, MapsHold, SameEdges
  <2>2. KeyOf(e).graph = TheGraph
    BY EdgesOfDoc, KeyFields
  <2> QED BY <2>1, <2>2 DEF Inactive, Stale
<1>2. \A k \in Inactive(TheGraph, m) : k.graph = TheGraph
  BY DEF Inactive
<1>3. Inactive(TheGraph, m) \in SUBSET DOMAIN edgeMap /\ Stale(edges, m) \in SUBSET edges
  BY DEF Inactive, Stale
<1>4. edges \subseteq Link /\ SameEdges(edges, edgeMap)
  BY DEF BothInv, MapsHold, TablesOK
<1> QED
  BY <1>1, <1>2, <1>3, <1>4, KeysOfSome

LEMMA DeletedAlike ==
  ASSUME BothInv, NEW d \in Doc, DeleteNode(d), MemoryDelete(d)
  PROVE  MapsHold' /\ D1DeleteAnswer(d) = MemoryDeleteAnswer(d)
<1> DEFINE deleted == Without(nodes, {d})
           kept == edges \ Incident(edges, d)
           keptMap == DeleteAll(edgeMap, Touching(d))
<1>1. kept \subseteq Link /\ Incident(edges, d) \in SUBSET edges
  BY DEF BothInv, TablesOK, Incident
<1>2. SameNodes(deleted, AfterDelete(d))
  BY DEF BothInv, MapsHold, SameNodes, Without, AfterDelete, DeleteAll
<1>3. SameEdges(kept, keptMap)
  BY <1>1, TouchingKeys, EdgesOfDoc, SameCut DEF BothInv, MapsHold, TablesOK
<1>4. nodes' = Swept(deleted, kept) /\ edges' = kept
  BY DEF DeleteNode, Swept
<1>5. /\ nodeMap' = DeleteAll(AfterDelete(d), Orphaned(TheGraph, AfterDelete(d), keptMap))
      /\ edgeMap' = keptMap
  BY OneGraph DEF MemoryDelete
<1>6. MapsHold'
  <2> HIDE DEF deleted, kept, keptMap
  <2> QED BY <1>1, <1>2, <1>3, <1>4, <1>5, SameSwept DEF MapsHold
<1>7. Cardinality(DOMAIN nodeMap \cap {d}) = IF nodes[d] = "Absent" THEN 0 ELSE 1
  <2>1. nodes[d] = "Absent" <=> d \notin DOMAIN nodeMap
    BY DEF BothInv, MapsHold, SameNodes
  <2>2. CASE d \in DOMAIN nodeMap
    <3>1. DOMAIN nodeMap \cap {d} = {d}
      BY <2>2
    <3> QED BY <2>1, <2>2, <3>1, FS_Singleton
  <2>3. CASE d \notin DOMAIN nodeMap
    <3>1. DOMAIN nodeMap \cap {d} = {}
      BY <2>3
    <3> QED BY <2>1, <2>3, <3>1, FS_EmptySet
  <2> QED BY <2>2, <2>3
<1>8. Cardinality(Touching(d)) = Cardinality(Incident(edges, d))
  <2>1. IsFiniteSet(Incident(edges, d)) /\ Keyed(Incident(edges, d))
    BY <1>1, EdgesOfDoc, FS_Subset DEF Keyed
  <2> QED BY <2>1, TouchingKeys, KeysAreCounted
<1>9. Orphaned(GraphOf[d], AfterDelete(d), keptMap) = Orphans(deleted, kept)
  <2> HIDE DEF deleted, kept, keptMap
  <2> QED BY <1>1, <1>2, <1>3, SameOrphans, OneGraph
<1> QED
  BY <1>6, <1>7, <1>8, <1>9 DEF D1DeleteAnswer, MemoryDeleteAnswer

LEMMA PrunedAlike ==
  ASSUME BothInv, NEW m \in Manifests, PruneTopology(m), MemoryPrune(TheGraph, m)
  PROVE  MapsHold' /\ D1PruneAnswer(m) = MemoryPruneAnswer(TheGraph, m)
<1> DEFINE kept == edges \ Stale(edges, m)
           keptMap == DeleteAll(edgeMap, Inactive(TheGraph, m))
<1>1. kept \subseteq Link /\ Stale(edges, m) \in SUBSET edges
  BY DEF BothInv, TablesOK, Stale
<1>2. SameNodes(nodes, nodeMap)
  BY DEF BothInv, MapsHold
<1>3. SameEdges(kept, keptMap)
  BY <1>1, InactiveKeys, EdgesOfDoc, SameCut DEF BothInv, MapsHold, TablesOK
<1>4. nodes' = Swept(nodes, kept) /\ edges' = kept
  BY DEF PruneTopology, Swept
<1>5. nodeMap' = DeleteAll(nodeMap, Orphaned(TheGraph, nodeMap, keptMap)) /\ edgeMap' = keptMap
  BY DEF MemoryPrune
<1>6. MapsHold'
  <2> HIDE DEF kept, keptMap
  <2> QED BY <1>1, <1>2, <1>3, <1>4, <1>5, SameSwept DEF MapsHold
<1>7. Cardinality(Inactive(TheGraph, m)) = Cardinality(Stale(edges, m))
  <2>1. IsFiniteSet(Stale(edges, m)) /\ Keyed(Stale(edges, m))
    BY <1>1, EdgesOfDoc, FS_Subset DEF Keyed
  <2> QED BY <2>1, InactiveKeys, KeysAreCounted
<1>8. Orphaned(TheGraph, nodeMap, keptMap) = Orphans(nodes, kept)
  <2> HIDE DEF kept, keptMap
  <2> QED BY <1>1, <1>2, <1>3, SameOrphans
<1> QED
  BY <1>6, <1>7, <1>8 DEF D1PruneAnswer, MemoryPruneAnswer

LEMMA UpsertedAlike ==
  ASSUME BothInv, NEW m \in Manifests, NEW d \in Doc, NEW links \in SUBSET Projectable(m, d)
  PROVE  SameNodes(Upserted(nodes, d, {l.tgt : l \in links}), Upserts(d, links))
<1> DEFINE targets == {l.tgt : l \in links}
           source == SetAll(nodeMap, [x \in {d} |-> "Materialized"])
           state(t) == IF t \in DOMAIN source /\ source[t] = "Materialized"
                       THEN "Materialized" ELSE "Referenced"
           upserts == SetAll(source, [t \in targets |-> state(t)])
<1>1. Upserts(d, links) = upserts
  BY DEF Upserts
<1>2. targets \in SUBSET Doc
  BY DEF Projectable
<1>3. /\ DOMAIN nodeMap \subseteq Docs
      /\ \A x \in Doc : nodes[x] = IF x \in DOMAIN nodeMap THEN nodeMap[x] ELSE "Absent"
      /\ \A x \in Doc : x \in DOMAIN nodeMap => nodeMap[x] # "Absent"
  BY DEF BothInv, MapsHold, SameNodes
<1>4. /\ DOMAIN source = DOMAIN nodeMap \cup {d}
      /\ \A x \in DOMAIN source : source[x] = IF x = d THEN "Materialized" ELSE nodeMap[x]
  BY DEF SetAll
<1> HIDE DEF source
<1>5. /\ DOMAIN upserts = DOMAIN source \cup targets
      /\ \A x \in DOMAIN upserts : upserts[x] = IF x \in targets THEN state(x) ELSE source[x]
  BY DEF SetAll
<1> HIDE DEF upserts, targets
<1>6. DOMAIN upserts \subseteq Docs
  BY <1>2, <1>3, <1>4, <1>5, AdaptersAssumption
<1>7. \A x \in Doc : Upserted(nodes, d, targets)[x] =
                       IF x \in DOMAIN upserts THEN upserts[x] ELSE "Absent"
  BY <1>3, <1>4, <1>5 DEF Upserted
<1>8. \A x \in Doc : x \in DOMAIN upserts => upserts[x] # "Absent"
  BY <1>3, <1>4, <1>5
<1>9. SameNodes(Upserted(nodes, d, targets), upserts)
  BY <1>6, <1>7, <1>8 DEF SameNodes
<1> QED
  BY <1>1, <1>9 DEF targets

LEMMA LinkFields ==
  ASSUME NEW m \in Manifests, NEW d \in Doc, NEW links \in SUBSET Projectable(m, d), NEW l \in links
  PROVE  /\ KeyOf(l).graph = TheGraph /\ KeyOf(l).source = d
         /\ EdgeKey(d, l) = KeyOf(l)
<1>1. l.src = d
  BY DEF Projectable
<1> QED BY <1>1, KeyFields DEF KeyOf

LEMMA PlannedKeys ==
  ASSUME NEW m \in Manifests, NEW d \in Doc, NEW links \in SUBSET Projectable(m, d)
  PROVE  DOMAIN Planned(d, links) = {KeyOf(l) : l \in links}
<1>1. \A l \in links : EdgeKey(d, l) = KeyOf(l)
  BY LinkFields
<1>2. {EdgeKey(d, l) : l \in links} = {KeyOf(l) : l \in links}
  BY <1>1
<1> QED
  BY <1>2 DEF Planned

LEMMA PlannedValues ==
  ASSUME NEW m \in Manifests, NEW d \in Doc, NEW links \in SUBSET Projectable(m, d), NEW l \in links
  PROVE  Planned(d, links)[KeyOf(l)] = {l.def}
<1>1. \A x \in links : EdgeKey(d, x) = KeyOf(x)
  BY LinkFields
<1>2. KeyOf(l) \in {EdgeKey(d, x) : x \in links}
  BY <1>1
<1>3. Planned(d, links)[KeyOf(l)] = {k.def : k \in {x \in links : EdgeKey(d, x) = KeyOf(l)}}
  BY <1>2 DEF Planned
<1>4. {x \in links : EdgeKey(d, x) = KeyOf(l)} = {l}
  BY <1>1, KeysTellApart, ProjectedAreKeyed DEF Keyed
<1> QED
  BY <1>3, <1>4

LEMMA EdgesReplacedAlike ==
  ASSUME BothInv, NEW m \in Manifests, NEW d \in Doc, NEW links \in SUBSET Projectable(m, d)
  PROVE  SameEdges(Replaced(edges, d, links), ReplacedEdges(d, links))
<1> DEFINE kept == edges \ OutgoingOf(edges, d)
           keptMap == DeleteAll(edgeMap, Outgoing(d))
           planned == Planned(d, links)
           map == ReplacedEdges(d, links)
<1>1. SameEdges(kept, keptMap)
  <2>1. OutgoingOf(edges, d) \in SUBSET edges /\ edges \subseteq Link /\ SameEdges(edges, edgeMap)
    BY DEF BothInv, MapsHold, TablesOK, OutgoingOf
  <2> QED BY <2>1, OutgoingKeys, EdgesOfDoc, SameCut
<1>2. /\ DOMAIN map = DOMAIN keptMap \cup DOMAIN planned
      /\ \A k \in DOMAIN map : map[k] = IF k \in DOMAIN planned THEN planned[k] ELSE keptMap[k]
  BY DEF ReplacedEdges, SetAll
<1>3. \A e \in kept : KeyOf(e).source # d
  BY EdgesOfDoc, KeyFields DEF OutgoingOf
<1>4. /\ DOMAIN planned = {KeyOf(l) : l \in links}
      /\ \A l \in links : planned[KeyOf(l)] = {l.def} /\ KeyOf(l).source = d
  <2>1. DOMAIN planned = {KeyOf(l) : l \in links}
    BY PlannedKeys
  <2>2. \A l \in links : planned[KeyOf(l)] = {l.def}
    BY PlannedValues
  <2>3. \A l \in links : KeyOf(l).source = d
    BY LinkFields
  <2> QED BY <2>1, <2>2, <2>3
<1> HIDE DEF kept, keptMap, planned, map
<1>5. \A k \in DOMAIN planned : k.source = d
  BY <1>4
<1>6. ASSUME NEW e \in kept PROVE KeyOf(e) \in DOMAIN map /\ map[KeyOf(e)] = {e.def}
  BY <1>1, <1>2, <1>3, <1>5 DEF SameEdges
<1>7. ASSUME NEW l \in links PROVE KeyOf(l) \in DOMAIN map /\ map[KeyOf(l)] = {l.def}
  BY <1>2, <1>4
<1>8. ASSUME NEW k \in DOMAIN map, k.graph = TheGraph PROVE \E e \in kept \cup links : k = KeyOf(e)
  <2>1. CASE k \in DOMAIN planned
    BY <2>1, <1>4
  <2>2. CASE k \in DOMAIN keptMap
    BY <1>1, <1>8, <2>2 DEF SameEdges
  <2> QED BY <1>2, <2>1, <2>2
<1>9. SameEdges(kept \cup links, map)
  BY <1>6, <1>7, <1>8 DEF SameEdges
<1> QED
  BY <1>9 DEF kept, map, Replaced

\* Both stores compare old and new relations by id and target.
LEMMA ReplacementsAnsweredAlike ==
  ASSUME BothInv, NEW m \in Manifests, NEW d \in Doc, NEW links \in SUBSET Projectable(m, d)
  PROVE  D1ReplaceAnswer(d, links) = MemoryReplaceAnswer(d, links)
<1> DEFINE previous == OutgoingOf(edges, d)
           next == DOMAIN Planned(d, links)
           gone == Outgoing(d)
<1>1. IsFiniteSet(previous) /\ Keyed(previous) /\ IsFiniteSet(links) /\ Keyed(links)
  <2>1. previous \in SUBSET edges
    BY DEF OutgoingOf
  <2>2. IsFiniteSet(links) /\ Keyed(links)
    BY ProjectableIsFinite, ProjectedAreKeyed, FS_Subset
  <2> HIDE DEF previous
  <2>3. IsFiniteSet(previous) /\ Keyed(previous)
    BY <2>1, EdgesOfDoc, FS_Subset DEF Keyed
  <2> QED BY <2>2, <2>3
<1>2. next = {KeyOf(l) : l \in links} /\ gone = {KeyOf(e) : e \in previous}
  BY PlannedKeys, OutgoingKeys
<1> HIDE DEF previous, next, gone
<1>3. ASSUME NEW e, NEW f, SameKey(e, f) PROVE KeyOf(e) = KeyOf(f)
  BY <1>3 DEF SameKey, KeyOf, EdgeKey
<1>4. /\ next \ gone = {KeyOf(l) : l \in Inserted(previous, links)}
      /\ gone \ next = {KeyOf(l) : l \in Inserted(links, previous)}
  <2>1. \A e, f : KeyOf(e) = KeyOf(f) <=> SameKey(e, f)
    BY <1>3, KeysTellApart
  <2>2. \A l \in links : KeyOf(l) \in gone <=> \E f \in previous : SameKey(l, f)
    BY <1>2, <2>1
  <2>3. \A e \in previous : KeyOf(e) \in next <=> \E f \in links : SameKey(e, f)
    BY <1>2, <2>1
  <2> QED BY <1>2, <2>2, <2>3 DEF Inserted
<1>5. /\ Cardinality(next \ gone) = Cardinality(Inserted(previous, links))
      /\ Cardinality(gone \ next) = Cardinality(Inserted(links, previous))
  <2>1. Inserted(previous, links) \in SUBSET links /\ Inserted(links, previous) \in SUBSET previous
    BY DEF Inserted
  <2>2. /\ IsFiniteSet(Inserted(previous, links)) /\ Keyed(Inserted(previous, links))
        /\ IsFiniteSet(Inserted(links, previous)) /\ Keyed(Inserted(links, previous))
    BY <1>1, <2>1, FS_Subset DEF Keyed
  <2> QED BY <1>4, <2>2, KeysAreCounted
<1>6. IsFiniteSet(next) /\ Cardinality(next) = Cardinality(links)
  BY <1>1, <1>2, KeysAreCounted
<1>7. Cardinality(next \ gone) = Cardinality(next) - Cardinality(next \cap gone)
  BY <1>6, FS_Difference
<1>8. /\ Cardinality(next) \in Nat /\ Cardinality(next \cap gone) \in Nat
  BY <1>6, FS_Intersection, FS_CardinalityType
<1>9. Cardinality(next \cap gone) = Cardinality(links) - Cardinality(Inserted(previous, links))
  BY <1>5, <1>6, <1>7, <1>8
<1>10. /\ MemoryReplaceAnswer(d, links) =
            [inserted |-> Cardinality(next \ gone), retained |-> Cardinality(next \cap gone),
             deleted |-> Cardinality(gone \ next)]
       /\ D1ReplaceAnswer(d, links) =
            [inserted |-> Cardinality(Inserted(previous, links)),
             retained |-> Cardinality(links) - Cardinality(Inserted(previous, links)),
             deleted |-> Cardinality(Inserted(links, previous))]
  BY DEF MemoryReplaceAnswer, D1ReplaceAnswer, next, gone, previous
<1> QED
  BY <1>5, <1>9, <1>10

LEMMA ReplacedAlike ==
  ASSUME BothInv, NEW m \in Manifests, NEW d \in Doc, NEW links \in SUBSET Projectable(m, d),
         ReplaceDocumentTopology(m, d, links), MemoryReplace(d, links)
  PROVE  MapsHold'
<1> DEFINE upserted == Upserted(nodes, d, {l.tgt : l \in links})
           replaced == Replaced(edges, d, links)
           map == ReplacedEdges(d, links)
<1>1. nodes' = Swept(upserted, replaced) /\ edges' = replaced
  BY DEF ReplaceDocumentTopology, Swept
<1>2. nodeMap' = DeleteAll(Upserts(d, links), Orphaned(TheGraph, Upserts(d, links), map))
      /\ edgeMap' = map
  BY OneGraph DEF MemoryReplace
<1>3. SameNodes(upserted, Upserts(d, links)) /\ SameEdges(replaced, map)
  BY UpsertedAlike, EdgesReplacedAlike
<1>4. replaced \subseteq Link
  BY ReplacedAnchored, ZenonT(30) DEF BothInv
<1> HIDE DEF upserted, replaced, map
<1> QED
  BY <1>1, <1>2, <1>3, <1>4, SameSwept DEF MapsHold

\* What is written to another graph is not seen in this one.
LEMMA ForeignUnseen ==
  ASSUME BothInv, WriteForeign
  PROVE  MapsHold'
<1>1. nodes' = nodes /\ edges' = edges
  BY DEF WriteForeign, vars
<1>2. PICK m \in ForeignManifests, f \in Foreign :
        \/ \E links \in SUBSET [def : m, src : {f}, tgt : Foreign] : MemoryReplace(f, links)
        \/ MemoryDelete(f)
        \/ MemoryPrune(GraphOf[f], m)
  BY DEF WriteForeign
<1>3. /\ GraphOf[f] # TheGraph /\ f \notin Doc /\ f \in Docs
      /\ \A d \in Doc : GraphOf[d] # GraphOf[f]
      /\ \A x \in Foreign : x \notin Doc /\ x \in Docs
  BY OneGraph, AdaptersAssumption
<1>4. /\ DOMAIN nodeMap \subseteq Docs
      /\ \A d \in Doc : nodes[d] = IF d \in DOMAIN nodeMap THEN nodeMap[d] ELSE "Absent"
      /\ \A d \in Doc : d \in DOMAIN nodeMap => nodeMap[d] # "Absent"
  BY DEF BothInv, MapsHold, SameNodes
<1>5. \A e \in edges : KeyOf(e).graph = TheGraph
  BY EdgesOfDoc, KeyFields
<1>6. ASSUME NEW map, DOMAIN map \subseteq Docs,
             \A d \in Doc : d \in DOMAIN map <=> d \in DOMAIN nodeMap,
             \A d \in Doc : d \in DOMAIN map => map[d] = nodeMap[d]
      PROVE  SameNodes(nodes, map)
  BY <1>4, <1>6 DEF SameNodes
<1>7. ASSUME NEW map,
             \A k \in DOMAIN edgeMap : k.graph = TheGraph => k \in DOMAIN map /\ map[k] = edgeMap[k],
             \A k \in DOMAIN map : k.graph = TheGraph => k \in DOMAIN edgeMap
      PROVE  SameEdges(edges, map)
  BY <1>5, <1>7 DEF BothInv, MapsHold, SameEdges
<1>8. ASSUME NEW map, DOMAIN map \subseteq Docs,
             \A d \in Doc : d \in DOMAIN map <=> d \in DOMAIN nodeMap,
             \A d \in Doc : d \in DOMAIN map => map[d] = nodeMap[d],
             NEW es, nodeMap' = DeleteAll(map, Orphaned(GraphOf[f], map, es))
      PROVE  SameNodes(nodes, nodeMap')
  <2>1. \A d \in Doc : d \notin Orphaned(GraphOf[f], map, es)
    BY <1>3 DEF Orphaned
  <2>2. /\ DOMAIN nodeMap' = DOMAIN map \ Orphaned(GraphOf[f], map, es)
        /\ \A d \in DOMAIN nodeMap' : nodeMap'[d] = map[d]
    BY <1>8 DEF DeleteAll
  <2> HIDE DEF Orphaned
  <2>3. /\ DOMAIN nodeMap' \subseteq Docs
        /\ \A d \in Doc : d \in DOMAIN nodeMap' <=> d \in DOMAIN nodeMap
        /\ \A d \in Doc : d \in DOMAIN nodeMap' => nodeMap'[d] = nodeMap[d]
    BY <1>8, <2>1, <2>2
  <2> QED BY <1>6, <2>3
<1>9. CASE MemoryPrune(GraphOf[f], m)
  <2>1. SameNodes(nodes, nodeMap')
    BY <1>4, <1>8, <1>9 DEF MemoryPrune
  <2>2. SameEdges(edges, edgeMap')
    BY <1>3, <1>7, <1>9 DEF MemoryPrune, DeleteAll, Inactive
  <2> QED BY <1>1, <2>1, <2>2 DEF MapsHold
<1>10. CASE MemoryDelete(f)
  <2>1. /\ DOMAIN AfterDelete(f) \subseteq Docs
        /\ \A d \in Doc : d \in DOMAIN AfterDelete(f) <=> d \in DOMAIN nodeMap
        /\ \A d \in Doc : d \in DOMAIN AfterDelete(f) => AfterDelete(f)[d] = nodeMap[d]
    BY <1>3, <1>4 DEF AfterDelete, DeleteAll
  <2>2. nodeMap' = DeleteAll(AfterDelete(f), Orphaned(GraphOf[f], AfterDelete(f), edgeMap'))
    BY <1>10 DEF MemoryDelete
  <2>3. SameNodes(nodes, nodeMap')
    BY <1>8, <2>1, <2>2
  <2>4. SameEdges(edges, edgeMap')
    BY <1>3, <1>7, <1>10 DEF MemoryDelete, DeleteAll, Touching
  <2> QED BY <1>1, <2>3, <2>4 DEF MapsHold
<1>11. ASSUME NEW links \in SUBSET [def : m, src : {f}, tgt : Foreign], MemoryReplace(f, links)
       PROVE  MapsHold'
  <2>1. \A l \in links : l.tgt \in Foreign
    OBVIOUS
  <2>2. /\ DOMAIN Upserts(f, links) = DOMAIN nodeMap \cup {f} \cup {l.tgt : l \in links}
        /\ \A d \in Doc : d \in DOMAIN nodeMap => Upserts(f, links)[d] = nodeMap[d]
    BY <1>3, <2>1 DEF Upserts, SetAll
  <2>3. /\ DOMAIN Upserts(f, links) \subseteq Docs
        /\ \A d \in Doc : d \in DOMAIN Upserts(f, links) <=> d \in DOMAIN nodeMap
        /\ \A d \in Doc : d \in DOMAIN Upserts(f, links) => Upserts(f, links)[d] = nodeMap[d]
    BY <1>3, <1>4, <2>1, <2>2
  <2>4. nodeMap' = DeleteAll(Upserts(f, links),
                             Orphaned(GraphOf[f], Upserts(f, links), ReplacedEdges(f, links)))
    BY <1>11 DEF MemoryReplace
  <2>5. SameNodes(nodes, nodeMap')
    BY <1>8, <2>3, <2>4
  <2>6. \A k \in DOMAIN Planned(f, links) : k.graph # TheGraph
    BY <1>3 DEF Planned, EdgeKey
  <2>7. \A k \in Outgoing(f) : k.graph # TheGraph
    BY <1>3 DEF Outgoing
  <2>8. /\ DOMAIN edgeMap' = (DOMAIN edgeMap \ Outgoing(f)) \cup DOMAIN Planned(f, links)
        /\ \A k \in DOMAIN edgeMap \ Outgoing(f) :
             k \notin DOMAIN Planned(f, links) => edgeMap'[k] = edgeMap[k]
    BY <1>11 DEF MemoryReplace, ReplacedEdges, SetAll, DeleteAll
  <2>9. SameEdges(edges, edgeMap')
    BY <1>7, <2>6, <2>7, <2>8
  <2> QED BY <1>1, <2>5, <2>9 DEF MapsHold
<1> QED
  BY <1>2, <1>9, <1>10, <1>11
-----------------------------------------------------------------------------
LEMMA OneAnswer ==
  ASSUME NEW a, NEW b, a = b PROVE Cardinality({a, b}) = 1
<1>1. {a, b} = {a}
  OBVIOUS
<1> QED BY <1>1, FS_Singleton

LEMMA BothKeepsMaps ==
  ASSUME BothInv, BothNext
  PROVE  MapsHold' /\ answers' \in {0, 1, answers}
<1>1. ASSUME NEW m \in Manifests, NEW d \in Doc, NEW links \in SUBSET Projectable(m, d),
             ReplaceBoth(m, d, links)
      PROVE  MapsHold' /\ answers' = 1
  <2>1. D1ReplaceAnswer(d, links) = MemoryReplaceAnswer(d, links)
    BY ReplacementsAnsweredAlike
  <2>2. MapsHold'
    BY <1>1, ReplacedAlike DEF ReplaceBoth
  <2> QED BY <1>1, <2>1, <2>2, OneAnswer DEF ReplaceBoth
<1>2. ASSUME NEW d \in Doc, DeleteBoth(d)
      PROVE  MapsHold' /\ answers' = 1
  BY <1>2, DeletedAlike, OneAnswer DEF DeleteBoth
<1>3. ASSUME NEW m \in Manifests, PruneBoth(m)
      PROVE  MapsHold' /\ answers' = 1
  BY <1>3, PrunedAlike, OneAnswer DEF PruneBoth
<1>4. CASE WriteForeign
  BY <1>4, ForeignUnseen DEF WriteForeign
<1>5. CASE Walk
  BY <1>5 DEF Walk, BeginScan, NextPage, EndScan, BothInv, MapsHold
<1> QED
  BY <1>1, <1>2, <1>3, <1>4, <1>5 DEF BothNext

\* D1's side of a step of both is a step of GraphTopology.
LEMMA D1Steps == BothNext => [Next]_vars
BY DEF BothNext, ReplaceBoth, DeleteBoth, PruneBoth, WriteForeign, Walk, Next, Write, vars

LEMMA BothStart == BothInit => BothInv /\ answers = 0
<1> SUFFICES ASSUME BothInit PROVE BothInv /\ answers = 0
  OBVIOUS
<1>1. TablesOK /\ GraphClosed
  BY DEF BothInit, Init, TablesOK, GraphClosed, States
<1>2. EdgesCounted
  BY FS_EmptySet DEF BothInit, Init, EdgesCounted, EdgesKeyed
<1>3. SameNodes(nodes, nodeMap) /\ SameEdges(edges, edgeMap)
  BY DEF BothInit, Init, InitMaps, NoNodes, SameNodes, SameEdges
<1> QED
  BY <1>1, <1>2, <1>3 DEF BothInit, BothInv, MapsHold

LEMMA BothStep ==
  BothInv /\ answers \in {0, 1} /\ [BothNext]_adapterVars => BothInv' /\ answers' \in {0, 1}
<1> SUFFICES ASSUME BothInv, answers \in {0, 1}, [BothNext]_adapterVars
             PROVE  BothInv' /\ answers' \in {0, 1}
  OBVIOUS
<1>1. [Next]_vars
  BY D1Steps DEF adapterVars
<1>2. TablesOK' /\ GraphClosed' /\ EdgesCounted'
  BY <1>1, TablesStep, CountingStep DEF BothInv
<1>3. CASE BothNext
  BY <1>2, <1>3, BothKeepsMaps DEF BothInv
<1>4. CASE UNCHANGED adapterVars
  <2>1. MapsHold'
    BY <1>4 DEF adapterVars, vars, BothInv, MapsHold
  <2> QED BY <1>2, <1>4, <2>1 DEF BothInv, adapterVars
<1> QED
  BY <1>3, <1>4
-----------------------------------------------------------------------------
(* Reads of both stores.                                                    *)

\* The rows of a page, one more than it holds, and the page cut from them.
LEMMA PageOfRows ==
  ASSUME NEW S \in SUBSET Doc, NEW rows, NEW page,
         LimitedTo(PageLimit + 1, S, rows), LimitedTo(PageLimit, rows, page)
  PROVE  /\ page = FirstOf(S, PageLimit)
         /\ LastPage(rows) <=> ~ (Cardinality(S) > PageLimit)
<1>1. rows \in SUBSET S /\ page \in SUBSET rows /\ S \in SUBSET Nat
  BY TopologyAssumption DEF LimitedTo
<1>2. IsFiniteSet(S) /\ IsFiniteSet(rows) /\ IsFiniteSet(page) /\ Cardinality(rows) <= Cardinality(S)
  <2>1. IsFiniteSet(S)
    BY TopologyAssumption, FS_Subset
  <2> QED BY <1>1, <2>1, FS_Subset
<1>3. /\ Cardinality(S) \in Nat /\ Cardinality(rows) \in Nat
      /\ Cardinality(page) \in Nat /\ PageLimit \in Nat
  BY <1>2, FS_CardinalityType, TopologyAssumption
<1>4. Cardinality(rows) <= PageLimit => rows = S
  BY <1>3 DEF LimitedTo
<1>5. \A d \in page, e \in S \ page : d < e
  BY <1>1 DEF LimitedTo
<1>6. Cardinality(page) = PageLimit \/ (page = S /\ Cardinality(page) <= PageLimit)
  BY <1>4 DEF LimitedTo
<1>7. LimitedTo(PageLimit, S, page)
  BY <1>1, <1>5, <1>6 DEF LimitedTo
<1>8. page = FirstOf(S, PageLimit)
  BY <1>1, <1>2, <1>3, <1>7, LimitedAreFirst
<1>9. LastPage(rows) <=> ~ (Cardinality(S) > PageLimit)
  BY <1>2, <1>3, <1>4 DEF LastPage
<1> QED
  BY <1>8, <1>9

LEMMA SamePages ==
  ASSUME BothInv, NEW q \in Queries, NEW after \in Doc \union {-1}
  PROVE  D1Page(q, after) = MemoryPage(TheGraph, q, after, PageLimit)
<1> DEFINE left == Remaining(q, after)
           matching == {d \in DOMAIN nodeMap :
                          /\ GraphOf[d] = TheGraph /\ d > after
                          /\ q.kinds = {} \/ KindOf[d] \in q.kinds
                          /\ q.states = {} \/ nodeMap[d] \in q.states}
           rows == CHOOSE x \in SUBSET Doc : LimitedTo(PageLimit + 1, left, x)
           page == CHOOSE x \in SUBSET Doc : LimitedTo(PageLimit, rows, x)
<1>1. left = matching
  <2>1. \A d : d \in DOMAIN nodeMap /\ GraphOf[d] = TheGraph <=> d \in Doc /\ d \in DOMAIN nodeMap
    BY OneGraph DEF BothInv, MapsHold, SameNodes
  <2>2. \A d \in Doc : /\ nodes[d] # "Absent" <=> d \in DOMAIN nodeMap
                       /\ d \in DOMAIN nodeMap => nodeMap[d] = nodes[d]
                       /\ Kind[d] = KindOf[d]
    BY AdaptersAssumption DEF BothInv, MapsHold, SameNodes
  <2>3. \A d : d \in left <=> d \in matching
    BY <2>1, <2>2 DEF Remaining, Matches
  <2> QED BY <2>3
<1>2. left \in SUBSET Doc
  BY DEF Remaining
<1>3. D1Page(q, after) = [nodes |-> page, next |-> IF LastPage(rows) THEN {} ELSE Cursor(rows, page)]
  BY DEF D1Page
<1>4. MemoryPage(TheGraph, q, after, PageLimit)
      = [nodes |-> FirstOf(matching, PageLimit),
         next |-> {d \in FirstOf(matching, PageLimit) :
                     /\ Cardinality(matching) > PageLimit
                     /\ \A e \in FirstOf(matching, PageLimit) : e <= d}]
  BY DEF MemoryPage
<1> HIDE DEF left, matching
<1>5. \A S \in SUBSET Doc, n \in Nat : FirstOf(S, n) \in SUBSET Doc /\ LimitedTo(n, S, FirstOf(S, n))
  <2> SUFFICES ASSUME NEW S \in SUBSET Doc, NEW n \in Nat
               PROVE  FirstOf(S, n) \in SUBSET Doc /\ LimitedTo(n, S, FirstOf(S, n))
    OBVIOUS
  <2>1. S \in SUBSET Nat /\ IsFiniteSet(S)
    BY TopologyAssumption, FS_Subset
  <2>2. FirstOf(S, n) \in SUBSET Doc
    BY DEF FirstOf
  <2> QED BY <2>1, <2>2, FirstAreLimited
<1>6. PageLimit \in Nat /\ PageLimit + 1 \in Nat
  BY TopologyAssumption
<1>7. rows \in SUBSET Doc /\ LimitedTo(PageLimit + 1, left, rows)
  BY <1>2, <1>5, <1>6
<1> HIDE DEF rows
<1>8. page \in SUBSET Doc /\ LimitedTo(PageLimit, rows, page)
  BY <1>5, <1>6, <1>7
<1> HIDE DEF page
<1>9. page = FirstOf(left, PageLimit) /\ (LastPage(rows) <=> ~ (Cardinality(left) > PageLimit))
  BY <1>2, <1>7, <1>8, PageOfRows
<1> QED
  BY <1>1, <1>3, <1>4, <1>9 DEF Cursor, LastOf

LEMMA RelatedKeys ==
  ASSUME BothInv, NEW d \in Doc, NEW def \in Definition, NEW outward \in BOOLEAN
  PROVE  EdgeKeys(d, def, outward)
         = {IF outward THEN k.target ELSE k.source :
              k \in {k \in DOMAIN edgeMap :
                       /\ k.graph = GraphOf[d] /\ def \in edgeMap[k]
                       /\ d = (IF outward THEN k.source ELSE k.target)}}
<1> DEFINE keys == {k \in DOMAIN edgeMap :
                      /\ k.graph = GraphOf[d] /\ def \in edgeMap[k]
                      /\ d = (IF outward THEN k.source ELSE k.target)}
           mine == {e \in edges : e.def = def /\ d = IF outward THEN e.src ELSE e.tgt}
<1>1. \A e \in edges : /\ KeyOf(e) \in DOMAIN edgeMap /\ edgeMap[KeyOf(e)] = {e.def}
                       /\ KeyOf(e).graph = GraphOf[d]
                       /\ KeyOf(e).source = e.src /\ KeyOf(e).target = e.tgt
  <2> SUFFICES ASSUME NEW e \in edges
               PROVE  /\ KeyOf(e) \in DOMAIN edgeMap /\ edgeMap[KeyOf(e)] = {e.def}
                      /\ KeyOf(e).graph = GraphOf[d]
                      /\ KeyOf(e).source = e.src /\ KeyOf(e).target = e.tgt
    OBVIOUS
  <2>1. KeyOf(e) \in DOMAIN edgeMap /\ edgeMap[KeyOf(e)] = {e.def}
    BY DEF BothInv, MapsHold, SameEdges
  <2> QED BY <2>1, EdgesOfDoc, KeyFields, OneGraph
<1>2. keys = {KeyOf(e) : e \in mine}
  <2>1. \A e \in edges : KeyOf(e) \in keys <=> e \in mine
    BY <1>1
  <2>2. \A k \in keys : k.graph = TheGraph
    BY OneGraph
  <2>3. keys \in SUBSET DOMAIN edgeMap /\ mine \in SUBSET edges
    OBVIOUS
  <2>4. edges \subseteq Link /\ SameEdges(edges, edgeMap)
    BY DEF BothInv, MapsHold, TablesOK
  <2> HIDE DEF keys, mine
  <2> QED BY <2>1, <2>2, <2>3, <2>4, KeysOfSome
<1>3. EdgeKeys(d, def, outward) = {IF outward THEN e.tgt ELSE e.src : e \in mine}
  <2>1. CASE outward
    BY <2>1 DEF EdgeKeys
  <2>2. CASE ~outward
    BY <2>2 DEF EdgeKeys
  <2> QED BY <2>1, <2>2
<1>4. mine \subseteq edges
  OBVIOUS
<1> HIDE DEF keys, mine
<1>5. {IF outward THEN e.tgt ELSE e.src : e \in mine}
      = {IF outward THEN k.target ELSE k.source : k \in keys}
  BY <1>1, <1>2, <1>4
<1> QED
  BY <1>3, <1>5 DEF keys

\* Both ends of every edge have a node.
LEMMA RelatedAreNodes ==
  ASSUME BothInv, NEW d \in Doc, NEW def \in Definition, NEW outward \in BOOLEAN
  PROVE  /\ EdgeKeys(d, def, outward) \in SUBSET Doc
         /\ \A k \in EdgeKeys(d, def, outward) : nodes[k] # "Absent"
<1>1. \A e \in edges : /\ e.src \in Doc /\ e.tgt \in Doc
                       /\ nodes[e.src] # "Absent" /\ nodes[e.tgt] # "Absent"
  BY EdgesOfDoc DEF BothInv, GraphClosed
<1> QED
  BY <1>1 DEF EdgeKeys

LEMMA SameNeighbours ==
  ASSUME BothInv, NEW d \in Doc, NEW def \in Definition, NEW outward \in BOOLEAN, NEW limit \in 1..2
  PROVE  /\ LimitedTo(limit, EdgeKeys(d, def, outward), Related(d, def, outward, limit))
         /\ Related(d, def, outward, limit) = MemoryRelated(d, def, outward, limit)
<1> DEFINE related == EdgeKeys(d, def, outward)
<1>1. related \in SUBSET Doc /\ \A k \in related : nodes[k] # "Absent"
  BY RelatedAreNodes
<1>2. MemoryRelated(d, def, outward, limit) = FirstOf(related, limit) \intersect DOMAIN nodeMap
  BY RelatedKeys DEF MemoryRelated
<1>3. Related(d, def, outward, limit)
      = {k \in Doc : /\ nodes[k] # "Absent"
                     /\ \E keys \in SUBSET Doc : LimitedTo(limit, related, keys) /\ k \in keys}
  BY DEF Related
<1> HIDE DEF related
<1>4. limit \in Nat /\ related \in SUBSET Nat /\ IsFiniteSet(related)
  <2>1. limit \in Nat
    OBVIOUS
  <2>2. related \in SUBSET Nat
    BY <1>1, TopologyAssumption
  <2>3. IsFiniteSet(related)
    BY <1>1, TopologyAssumption, FS_Subset
  <2> QED BY <2>1, <2>2, <2>3
<1>5. LimitedTo(limit, related, FirstOf(related, limit))
  BY <1>4, FirstAreLimited
<1>6. FirstOf(related, limit) \in SUBSET related
  BY DEF FirstOf
<1>7. \A keys : LimitedTo(limit, related, keys) => keys = FirstOf(related, limit)
  BY <1>4, LimitedAreFirst
<1>8. Related(d, def, outward, limit) = FirstOf(related, limit)
  BY <1>1, <1>3, <1>5, <1>6, <1>7
<1>9. FirstOf(related, limit) \subseteq DOMAIN nodeMap
  <2>1. \A k \in Doc : nodes[k] # "Absent" => k \in DOMAIN nodeMap
    BY DEF BothInv, MapsHold, SameNodes
  <2> QED BY <1>1, <1>6, <2>1
<1> QED
  BY <1>2, <1>5, <1>8, <1>9 DEF related

LEMMA BothRead == BothInv => SameReads /\ NeighboursComplete
<1> SUFFICES ASSUME BothInv PROVE SameReads /\ NeighboursComplete
  OBVIOUS
<1>1. \A d \in Doc : nodes[d] = IF d \in DOMAIN nodeMap THEN nodeMap[d] ELSE "Absent"
  BY DEF BothInv, MapsHold, SameNodes
<1>2. \A q \in Queries, after \in Doc \union {-1} :
        D1Page(q, after) = MemoryPage(TheGraph, q, after, PageLimit)
  BY SamePages
<1>3. \A d \in Doc, def \in Definition, outward \in BOOLEAN, limit \in 1..2 :
        Related(d, def, outward, limit) = MemoryRelated(d, def, outward, limit)
  BY SameNeighbours
<1>4. NeighboursComplete
  BY SameNeighbours DEF NeighboursComplete
<1> QED
  BY <1>1, <1>2, <1>3, <1>4 DEF SameReads

\* The in-memory store (storage/in-memory.ts) and the D1 store (storage/d1)
\* answer every replacement, deletion and pruning with the same counts, and
\* return the same nodes, pages, cursors and bounded neighbours, however long
\* both have been written to and whatever else the memory holds.
THEOREM AdaptersStayAlike == BothSpec => []AdaptersAgree
<1> DEFINE Inv == BothInv /\ answers \in {0, 1}
<1>1. BothInit => Inv
  BY BothStart
<1>2. Inv /\ [BothNext]_adapterVars => Inv'
  BY BothStep
<1>3. Inv => AdaptersAgree
  BY BothRead DEF AdaptersAgree, SameAnswers
<1> QED
  BY <1>1, <1>2, <1>3, PTL DEF BothSpec
=============================================================================

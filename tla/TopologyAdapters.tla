--------------------------- MODULE TopologyAdapters ---------------------------
(***************************************************************************)
(* Two adapters under the same calls: the D1 topology store, whose database   *)
(* holds one graph, and the in-memory store, which holds another graph too.    *)
(* An application that is tested over the one must behave the same over the    *)
(* other ("Every in-memory Layer ... implements the same replacement,          *)
(* filtering, vector-reuse, relation, and optimistic-concurrency contracts      *)
(* as a production adapter", README.md).                                    *)
(***************************************************************************)
EXTENDS GraphTopology, InMemoryTopology

CONSTANTS
  Foreign,          \* document keys of another graph in memory
  ForeignManifests  \* the relation definitions its deployments register

ASSUME AdaptersAssumption ==
  /\ Doc # {} /\ Docs = Doc \union Foreign
  /\ \A d, e \in Doc : GraphOf[d] = GraphOf[e]
  /\ \A d \in Doc, e \in Foreign : GraphOf[d] # GraphOf[e]
  /\ \A d \in Doc : KindOf[d] = Kind[d]

VARIABLE answers  \* how many different answers the last write was given

adapterVars == <<vars, nodeMap, edgeMap, answers>>

BothInit == Init /\ InitMaps /\ answers = 0
-----------------------------------------------------------------------------
(* What D1 answers, from the tables before the batch.                        *)

D1ReplaceAnswer(d, links) ==
  LET previous == OutgoingOf(edges, d)
      inserted == Cardinality(Inserted(previous, links))
  IN  [inserted |-> inserted,
       retained |-> Cardinality(links) - inserted,
       deleted |-> Cardinality(Inserted(links, previous))]

\* Mutant of D1DeleteAnswer: orphans are counted before the relations are gone.
D1DeleteAnswerEarly(d) ==
  [nodes |-> IF nodes[d] = "Absent" THEN 0 ELSE 1,
   relations |-> Cardinality(Incident(edges, d)),
   referenced |-> Cardinality(Orphans(Without(nodes, {d}), edges))]

D1DeleteAnswer(d) ==
  [nodes |-> IF nodes[d] = "Absent" THEN 0 ELSE 1,
   relations |-> Cardinality(Incident(edges, d)),
   referenced |-> Cardinality(Orphans(Without(nodes, {d}), edges \ Incident(edges, d)))]

D1PruneAnswer(m) ==
  [relations |-> Cardinality(Stale(edges, m)),
   referenced |-> Cardinality(Orphans(nodes, edges \ Stale(edges, m)))]
-----------------------------------------------------------------------------
TheGraph == GraphOf[CHOOSE d \in Doc : TRUE]

ReplaceBoth(m, d, links) ==
  /\ ReplaceDocumentTopology(m, d, links)
  /\ MemoryReplace(d, links)
  /\ answers' = Cardinality({D1ReplaceAnswer(d, links), MemoryReplaceAnswer(d, links)})

DeleteBoth(d) ==
  /\ DeleteNode(d)
  /\ MemoryDelete(d)
  /\ answers' = Cardinality({D1DeleteAnswer(d), MemoryDeleteAnswer(d)})

PruneBoth(m) ==
  /\ PruneTopology(m)
  /\ MemoryPrune(TheGraph, m)
  /\ answers' = Cardinality({D1PruneAnswer(m), MemoryPruneAnswer(TheGraph, m)})

\* A call for the other graph, which D1 keeps in another database.
WriteForeign ==
  /\ \E m \in ForeignManifests, d \in Foreign :
       \/ \E links \in SUBSET [def : m, src : {d}, tgt : Foreign] : MemoryReplace(d, links)
       \/ MemoryDelete(d)
       \/ MemoryPrune(GraphOf[d], m)
  /\ answers' = 0
  /\ UNCHANGED vars

\* A reader goes on with its walk of the catalog of D1.
Walk ==
  /\ \E r \in Reader : BeginScan(r) \/ NextPage(r) \/ EndScan(r)
  /\ UNCHANGED <<nodeMap, edgeMap, answers>>

BothNext ==
  \/ \E m \in Manifests, d \in Doc : \E links \in SUBSET Projectable(m, d) : ReplaceBoth(m, d, links)
  \/ \E d \in Doc : DeleteBoth(d)
  \/ \E m \in Manifests : PruneBoth(m)
  \/ WriteForeign
  \/ Walk

BothSpec == BothInit /\ [][BothNext]_adapterVars
-----------------------------------------------------------------------------
\* Every write is answered with the same counts.
SameAnswers == answers <= 1

D1Page(q, after) ==
  LET rows == CHOOSE rows \in SUBSET Doc : LimitedTo(PageLimit + 1, Remaining(q, after), rows)
      page == CHOOSE page \in SUBSET Doc : LimitedTo(PageLimit, rows, page)
  IN  [nodes |-> page, next |-> IF LastPage(rows) THEN {} ELSE Cursor(rows, page)]

\* After any sequence of writes, to the other graph as well, every page of every
\* catalog query and every bounded neighbour query returns the same.
SameReads ==
  /\ \A d \in Doc : nodes[d] = IF d \in DOMAIN nodeMap THEN nodeMap[d] ELSE "Absent"
  /\ \A q \in Queries, after \in Doc \union {-1} :
       D1Page(q, after) = MemoryPage(TheGraph, q, after, PageLimit)
  /\ \A d \in Doc, def \in Definition, outward \in BOOLEAN, limit \in 1..2 :
       Related(d, def, outward, limit) = MemoryRelated(d, def, outward, limit)

\* An application tested over the in-memory store behaves the same over D1: every
\* write is answered with the same counts and every read returns the same, a
\* bounded neighbour query is full in both (storage/in-memory.ts, storage/d1).
AdaptersAgree == SameAnswers /\ SameReads /\ NeighboursComplete
=============================================================================

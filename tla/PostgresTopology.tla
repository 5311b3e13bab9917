--------------------------- MODULE PostgresTopology ---------------------------
(***************************************************************************)
(* The PostgreSQL graph topology store (storage/postgres/runtime.ts) for     *)
(* one graph, statement by statement.                                       *)
(*                                                                         *)
(* Each write is one READ COMMITTED transaction of a pooled session: every   *)
(* statement reads what is committed when it starts and what its own         *)
(* transaction wrote, rows are locked until the transaction ends, and a      *)
(* statement waits for a row that another transaction holds.  A row that a   *)
(* committed transaction deleted is skipped by the statements that waited    *)
(* for it.  A session may lose its connection, and the server aborts one     *)
(* session of a cycle of waiting ones: both roll back.                       *)
(*                                                                         *)
(* The tables are modelled without their foreign keys: EdgesAreAnchored      *)
(* shows that no deletion of a node would cascade.  Statements that only     *)
(* write rows which the session holds already (the insertion of edges, the   *)
(* deletion of a locked node) are taken together with the one before them.   *)
(***************************************************************************)
EXTENDS Integers, FiniteSets

CONSTANTS
  Doc,         \* document keys; numbers stand for their order
  Definition,  \* relation definitions
  Manifests,   \* the definitions registered by each deployed manifest
  Session,     \* connections of the pools
  Writes,      \* replacements and deletions that the application asks for
  MaxWrites,   \* bound: how many of them it starts
  MaxFailures  \* bound: connections lost

Link == [def : Definition, src : Doc, tgt : Doc]

\* A replacement of the topology of doc, its deletion, or a pruning.
Job == [kind : {"replace", "delete", "prune"}, doc : Doc, links : SUBSET Link,
        registered : SUBSET Definition]

ASSUME PostgresAssumption ==
  /\ Doc \subseteq Nat /\ Doc # {}
  /\ IsFiniteSet(Session)
  /\ Manifests \subseteq SUBSET Definition /\ Manifests # {}
  /\ Writes \subseteq {j \in Job : j.kind # "prune" /\ \A l \in j.links : l.src = j.doc}
  /\ MaxWrites \in Nat /\ MaxFailures \in Nat

AnyDoc == CHOOSE d \in Doc : TRUE

Pruning(m) == [kind |-> "prune", doc |-> AnyDoc, links |-> {}, registered |-> m]

Prunings == {Pruning(m) : m \in Manifests}

NoJob == CHOOSE j \in Prunings : TRUE

VARIABLES
  nodes,    \* graph_nodes as committed: node_state, or "Absent"
  edges,    \* graph_relations as committed
  at,       \* of each session: the statement it comes to
  job,      \* what it executes
  former,   \* candidates for the collection of orphans
  held,     \* node rows it has locked
  rows,     \* edge rows its deletion statement has yet to reach
  taken,    \* edge rows it has deleted
  picked,   \* orphans it has selected, then those it has locked
  gone,     \* node rows it has deleted
  writes,   \* how many writes were started
  failures  \* how many connections were lost

tables == <<nodes, edges>>
session == <<at, job, former, held, rows, taken, picked, gone>>
vars == <<tables, session, writes, failures>>

States == {"Absent", "Referenced", "Materialized"}

Phases == {"idle", "member", "read", "upsert", "node", "scan", "take",
           "select", "lock", "collect", "commit"}

Init ==
  /\ nodes = [d \in Doc |-> "Absent"]
  /\ edges = {}
  /\ at = [w \in Session |-> "idle"]
  /\ job = [w \in Session |-> NoJob]
  /\ former = [w \in Session |-> {}]
  /\ held = [w \in Session |-> {}]
  /\ rows = [w \in Session |-> {}]
  /\ taken = [w \in Session |-> {}]
  /\ picked = [w \in Session |-> {}]
  /\ gone = [w \in Session |-> {}]
  /\ writes = 0
  /\ failures = 0
-----------------------------------------------------------------------------
(* What a session locks, writes and sees.                                  *)

Targets(links) == {l.tgt : l \in links}

\* The nodes a replacement upserts: its source and the targets.
Touched(j) == IF j.kind = "replace" THEN {j.doc} \cup Targets(j.links) ELSE {}

HeldByOthers(w) == UNION {held[v] : v \in Session \ {w}}

TakenByOthers(w) == UNION {taken[v] : v \in Session \ {w}}

\* The lock on ("relations", graph, source), until the end of the transaction.
HasMemberLock(v, d) ==
  job[v].kind = "replace" /\ job[v].doc = d /\ at[v] \notin {"idle", "member"}

\* Mutant of NextNode: the source is written before its targets.
SourceFirst(w) ==
  LET left == Touched(job[w]) \ held[w]
  IN {k \in left : \/ k = job[w].doc
                   \/ job[w].doc \notin left /\ \A l \in left : k <= l}

\* The node a replacement comes to: sources and targets in one key order.
NextNode(w) ==
  {k \in Touched(job[w]) \ held[w] : \A l \in Touched(job[w]) \ held[w] : k <= l}

\* Mutant of WithUpserts: the CASE of node_state has no ELSE.
WithUpsertsOrNull(w) ==
  [d \in Doc |->
     IF d \in held[w] \cap Touched(job[w]) /\ nodes[d] # "Materialized"
     THEN IF d = job[w].doc THEN "Materialized" ELSE "Null"
     ELSE nodes[d]]

\* The node table with the upserts of a session: no state is downgraded.
WithUpserts(w) ==
  [d \in Doc |->
     IF d \in held[w] \cap Touched(job[w]) /\ nodes[d] # "Materialized"
     THEN IF d = job[w].doc THEN "Materialized" ELSE "Referenced"
     ELSE nodes[d]]

NodesSeen(w) == [d \in Doc |-> IF d \in gone[w] THEN "Absent" ELSE WithUpserts(w)[d]]

\* A replacement inserts its edges when it has deleted the former ones.
Inserted(w) ==
  IF job[w].kind = "replace" /\ at[w] \in {"select", "lock", "collect", "commit"}
  THEN job[w].links ELSE {}

EdgesSeen(w) == (edges \ taken[w]) \cup Inserted(w)

\* Referenced nodes without any edge.
Orphans(ns, es) ==
  {d \in Doc : ns[d] = "Referenced" /\ \A e \in es : e.src # d /\ e.tgt # d}

\* Mutant of Doomed: only edges of the writer's own definitions are cleared.
DoomedByVersion(j) ==
  CASE j.kind = "replace" -> {e \in edges : e.src = j.doc /\ \E l \in j.links : l.def = e.def}
    [] j.kind = "delete" -> {e \in edges : e.src = j.doc \/ e.tgt = j.doc}
    [] j.kind = "prune" -> {e \in edges : e.def \notin j.registered}

\* The rows that the deletion statement of a job finds.
Doomed(j) ==
  CASE j.kind = "replace" -> {e \in edges : e.src = j.doc}
    [] j.kind = "delete" -> {e \in edges : e.src = j.doc \/ e.tgt = j.doc}
    [] j.kind = "prune" -> {e \in edges : e.def \notin j.registered}
-----------------------------------------------------------------------------
(* The statements of a transaction, in their order.                        *)

Start(w, j, first) ==
  /\ at[w] = "idle"
  /\ at' = [at EXCEPT ![w] = first]
  /\ job' = [job EXCEPT ![w] = j]
  /\ UNCHANGED <<tables, former, held, rows, taken, picked, gone, failures>>

BeginWrite(w) ==
  /\ writes < MaxWrites
  /\ writes' = writes + 1
  /\ \E j \in Writes : Start(w, j, IF j.kind = "replace" THEN "member" ELSE "node")

BeginPrune(w) ==
  /\ \E j \in Prunings : Start(w, j, "scan")
  /\ UNCHANGED writes

\* lockMutationInTransaction: writers of one source follow each other.
LockMember(w) ==
  /\ at[w] = "member"
  /\ \A v \in Session \ {w} : ~HasMemberLock(v, job[w].doc)
  /\ at' = [at EXCEPT ![w] = "read"]
  /\ UNCHANGED <<tables, job, former, held, rows, taken, picked, gone, writes, failures>>

\* The former targets are the only nodes that a replacement may orphan.
ReadFormer(w) ==
  /\ at[w] = "read"
  /\ at' = [at EXCEPT ![w] = "upsert"]
  /\ former' = [former EXCEPT ![w] = Targets({e \in edges : e.src = job[w].doc})]
  /\ UNCHANGED <<tables, job, held, rows, taken, picked, gone, writes, failures>>

\* Each row of the upsert is locked as the statement comes to it.
UpsertNode(w) ==
  /\ at[w] = "upsert"
  /\ \E k \in NextNode(w) :
       /\ k \notin HeldByOthers(w)
       /\ held' = [held EXCEPT ![w] = @ \cup {k}]
       /\ at' = [at EXCEPT ![w] = IF Touched(job[w]) \subseteq held[w] \cup {k}
                                  THEN "scan" ELSE "upsert"]
  /\ UNCHANGED <<tables, job, former, rows, taken, picked, gone, writes, failures>>

\* A deletion returns at once when its node has no row.
LockNode(w) ==
  /\ at[w] = "node"
  /\ \/ /\ nodes[job[w].doc] = "Absent"
        /\ at' = [at EXCEPT ![w] = "commit"]
        /\ UNCHANGED held
     \/ /\ nodes[job[w].doc] # "Absent"
        /\ job[w].doc \notin HeldByOthers(w)
        /\ at' = [at EXCEPT ![w] = "scan"]
        /\ held' = [held EXCEPT ![w] = @ \cup {job[w].doc}]
  /\ UNCHANGED <<tables, job, former, rows, taken, picked, gone, writes, failures>>

\* The deletion of edges starts: its snapshot is taken.
ScanEdges(w) ==
  /\ at[w] = "scan"
  /\ at' = [at EXCEPT ![w] = "take"]
  /\ rows' = [rows EXCEPT ![w] = Doomed(job[w])]
  /\ UNCHANGED <<tables, job, former, held, taken, picked, gone, writes, failures>>

\* It reaches its rows in the order of some query plan.
TakeEdge(w) ==
  /\ at[w] = "take"
  /\ \E e \in rows[w] \ TakenByOthers(w) :
       /\ rows' = [rows EXCEPT ![w] = @ \ {e}]
       /\ taken' = [taken EXCEPT ![w] = @ \cup {e}]
  /\ UNCHANGED <<tables, at, job, former, held, picked, gone, writes, failures>>

\* Mutant of Candidates: a pruning collects only what it orphaned itself.
CandidatesOfTaken(w) ==
  IF job[w].kind = "prune" THEN Targets(taken[w])
  ELSE IF job[w].kind = "replace" THEN former[w] ELSE Doc

\* Deletions and prunings collect the orphans of the whole graph.
Candidates(w) == IF job[w].kind = "replace" THEN former[w] ELSE Doc

\* All rows are reached: a replacement inserts its edges, a deletion deletes
\* its node, and the collection of orphans follows.
EndScan(w) ==
  /\ at[w] = "take"
  /\ rows[w] = {}
  /\ gone' = [gone EXCEPT ![w] = IF job[w].kind = "delete" THEN {job[w].doc} ELSE {}]
  /\ former' = [former EXCEPT ![w] = Candidates(w)]
  /\ at' = [at EXCEPT ![w] = "select"]
  /\ UNCHANGED <<tables, job, held, rows, taken, picked, writes, failures>>

\* SELECT ... FOR UPDATE SKIP LOCKED starts: its snapshot is taken.
SelectOrphans(w) ==
  /\ at[w] = "select"
  /\ picked' = [picked EXCEPT ![w] = former[w] \cap Orphans(NodesSeen(w), EdgesSeen(w))]
  /\ at' = [at EXCEPT ![w] = "lock"]
  /\ UNCHANGED <<tables, job, former, held, rows, taken, gone, writes, failures>>

\* A selected row is returned if nobody holds it and its present version
\* still is a reference; the edges are not looked up again.
Lockable(w) == {d \in picked[w] \ HeldByOthers(w) : nodes[d] = "Referenced"}

LockOrphans(w) ==
  /\ at[w] = "lock"
  /\ picked' = [picked EXCEPT ![w] = Lockable(w)]
  /\ held' = [held EXCEPT ![w] = @ \cup Lockable(w)]
  /\ at' = [at EXCEPT ![w] = IF Lockable(w) = {} THEN "commit" ELSE "collect"]
  /\ UNCHANGED <<tables, job, former, rows, taken, gone, writes, failures>>

\* Mutant of CollectOrphans: the orphans are not looked up again.
CollectPicked(w) ==
  /\ at[w] = "collect"
  /\ gone' = [gone EXCEPT ![w] = @ \cup picked[w]]
  /\ at' = [at EXCEPT ![w] = "commit"]
  /\ UNCHANGED <<tables, job, former, held, rows, taken, picked, writes, failures>>

\* The locked nodes that a new snapshot still shows as orphans are deleted.
CollectOrphans(w) ==
  /\ at[w] = "collect"
  /\ gone' = [gone EXCEPT ![w] = @ \cup (picked[w] \cap Orphans(NodesSeen(w), EdgesSeen(w)))]
  /\ at' = [at EXCEPT ![w] = "commit"]
  /\ UNCHANGED <<tables, job, former, held, rows, taken, picked, writes, failures>>

\* The session is idle again and its locks are free.  Of what others wait
\* for, the rows that were deleted no longer count.
Finish(w, edgesGone, nodesGone) ==
  /\ at' = [at EXCEPT ![w] = "idle"]
  /\ job' = [job EXCEPT ![w] = NoJob]
  /\ former' = [former EXCEPT ![w] = {}]
  /\ held' = [held EXCEPT ![w] = {}]
  /\ taken' = [taken EXCEPT ![w] = {}]
  /\ gone' = [gone EXCEPT ![w] = {}]
  /\ rows' = [v \in Session |-> IF v = w THEN {} ELSE rows[v] \ edgesGone]
  /\ picked' = [v \in Session |-> IF v = w THEN {} ELSE picked[v] \ nodesGone]

Commit(w) ==
  /\ at[w] = "commit"
  /\ nodes' = NodesSeen(w)
  /\ edges' = EdgesSeen(w)
  /\ Finish(w, taken[w], gone[w])
  /\ UNCHANGED <<writes, failures>>

RollBack(w) ==
  /\ at[w] # "idle"
  /\ Finish(w, {}, {})
  /\ UNCHANGED <<tables, writes>>

LoseConnection(w) ==
  /\ failures < MaxFailures
  /\ failures' = failures + 1
  /\ RollBack(w)
-----------------------------------------------------------------------------
(* Waiting.                                                                *)

\* w comes to a node row that v holds.
WaitsForNode(w, v) ==
  \/ at[w] = "upsert" /\ NextNode(w) \cap held[v] # {}
  \/ at[w] = "node" /\ nodes[job[w].doc] # "Absent" /\ job[w].doc \in held[v]

WaitsForMember(w, v) == at[w] = "member" /\ HasMemberLock(v, job[w].doc)

WaitsForEdge(w, v) == at[w] = "take" /\ rows[w] \cap taken[v] # {}

Waits(w, v) == v # w /\ (WaitsForNode(w, v) \/ WaitsForMember(w, v) \/ WaitsForEdge(w, v))

\* Each session of S waits for another one of S.
Deadlocked(S) == S # {} /\ \A w \in S : \E v \in S : Waits(w, v)

\* The server ends a deadlock: it aborts one of its sessions.
AbortVictim(w) ==
  /\ \E S \in SUBSET Session : w \in S /\ Deadlocked(S)
  /\ RollBack(w)
  /\ UNCHANGED failures

Statement(w) ==
  \/ LockMember(w) \/ ReadFormer(w) \/ UpsertNode(w) \/ LockNode(w)
  \/ ScanEdges(w) \/ TakeEdge(w) \/ EndScan(w)
  \/ SelectOrphans(w) \/ LockOrphans(w) \/ CollectOrphans(w) \/ Commit(w)

Next ==
  \E w \in Session :
    BeginWrite(w) \/ BeginPrune(w) \/ Statement(w) \/ LoseConnection(w) \/ AbortVictim(w)

Spec == Init /\ [][Next]_vars

\* Statements end when they can, the server resolves deadlocks, and the
\* application goes on reconciling.
FairSpec ==
  /\ Spec
  /\ \A w \in Session : WF_vars(Statement(w)) /\ WF_vars(AbortVictim(w)) /\ WF_vars(BeginPrune(w))
-----------------------------------------------------------------------------
(* Properties.                                                             *)

\* Every variable has its type (the tables of migrations/postgres/0003).
TypeOK ==
  /\ nodes \in [Doc -> States]
  /\ edges \in SUBSET Link
  /\ at \in [Session -> Phases]
  /\ job \in [Session -> Job]
  /\ former \in [Session -> SUBSET Doc]
  /\ held \in [Session -> SUBSET Doc]
  /\ rows \in [Session -> SUBSET Link]
  /\ taken \in [Session -> SUBSET Link]
  /\ picked \in [Session -> SUBSET Doc]
  /\ gone \in [Session -> SUBSET Doc]
  /\ writes \in Nat
  /\ failures \in Nat

\* Whatever the sessions interleave, each committed edge has its source,
\* materialized, and its target: the deletion of a node never cascades to an
\* edge that another publisher has committed meanwhile (the recheck under a
\* new snapshot), and the counts of deleteNode describe the topology that it
\* deleted (it locks the node first).
EdgesAreAnchored ==
  \A e \in edges : nodes[e.src] = "Materialized" /\ nodes[e.tgt] # "Absent"

\* Every deadlock comes down to one among sessions that delete edges, which
\* two reconciliations may enter in opposite orders: publishers that refer to
\* each other take the node rows in the same order, a writer waits for the lock
\* of its source before it holds anything, and nobody waits for a node while it
\* has deleted edges.
NodeWaitsEnd ==
  \A S \in SUBSET Session :
    Deadlocked(S) => Deadlocked({w \in S : at[w] = "take"})

outgoing == [d \in Doc |-> IF nodes[d] = "Materialized" THEN {{e \in edges : e.src = d}} ELSE {}]

Linked == INSTANCE LinkedDocuments

\* A pruning removes edges that are not registered, but those committed after
\* its snapshot may stay.
PartlyPruned(registered) ==
  \A d \in Doc :
    /\ outgoing[d] = {} <=> outgoing'[d] = {}
    /\ \A before \in outgoing[d], after \in outgoing'[d] :
         after \subseteq before /\ \A l \in before \ after : l.def \notin registered

Performs(j) ==
  \/ j.kind = "replace" /\ Linked!Replace(j.doc) /\ outgoing'[j.doc] = {j.links}
  \/ j.kind = "delete" /\ Linked!Delete(j.doc)
  \/ j.kind = "prune" /\ PartlyPruned(j.registered)

\* Transactions at READ COMMITTED act as whole operations on the linked
\* documents that a store promises: a commit replaces one complete outgoing
\* set by the one it was given or deletes one document, nothing else changes,
\* and the collection of orphans is invisible.
CommitsAreWhole == [][\E w \in Session : at[w] = "commit" /\ Performs(job[w])]_outgoing

\* What concurrent publishers left uncollected, a later reconciliation does
\* collect: once the writes have ended no unreferenced node stays for good.
OrphansAreCollected == <>[](Orphans(nodes, edges) = {})
=============================================================================

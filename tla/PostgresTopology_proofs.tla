----------------------- MODULE PostgresTopology_proofs -----------------------
(***************************************************************************)
(* No interleaving of PostgreSQL sessions leaves an edge without its nodes,  *)
(* for any number of documents, sessions, writes and lost connections.       *)
(*                                                                         *)
(* The argument: a node row is locked by one session at a time; whoever      *)
(* inserts an edge holds both its nodes, and whoever deletes a node holds    *)
(* it and has seen, after it had the lock, that no edge is left.  So an      *)
(* edge cannot appear between that look and the commit.                     *)
(*                                                                         *)
(* A replacement and a deletion have the member lock of their document, so   *)
(* that the edges they deleted stay deleted until they commit (Progressing). *)
(* Node rows are locked in ascending order, by sessions that have deleted no *)
(* edge: among those that wait for a node, the one that waits for the        *)
(* greatest waits for none of the others.                                    *)
(***************************************************************************)
EXTENDS PostgresTopology, FiniteSetTheorems, TLAPS

\* One row is locked by one session.
LocksExclude ==
  \A v, w \in Session : v # w => held[v] \cap held[w] = {}

\* Before its first lock a session has neither locked nor deleted anything.
StartsClean ==
  \A w \in Session : at[w] \in {"idle", "member", "read", "node"} =>
    held[w] = {} /\ taken[w] = {} /\ gone[w] = {}

\* Behind its upserts a replacement holds all nodes it refers to.
HoldsItsNodes ==
  \A w \in Session :
    at[w] \in {"scan", "take", "select", "lock", "collect", "commit"} => Touched(job[w]) \subseteq held[w]

\* Each job begins with the statement of its kind.
FitsJob ==
  \A w \in Session :
    /\ at[w] \in {"member", "read", "upsert"} => job[w].kind = "replace"
    /\ at[w] = "node" => job[w].kind = "delete"

\* The edges a replacement inserts are those of its document.
JobsAreOwn ==
  \A w \in Session : \A l \in job[w].links : l.src = job[w].doc

\* A deletion holds its node, and reaches every edge of it.
DeletionReaches ==
  \A w \in Session : job[w].kind = "delete" /\ at[w] \in {"scan", "take"} =>
    /\ job[w].doc \in held[w]
    /\ at[w] = "take" => \A e \in edges :
         e.src = job[w].doc \/ e.tgt = job[w].doc => e \in rows[w] \cup taken[w]

\* What a session has deleted is locked by it, and no edge it sees is there.
GoneIsDetached ==
  \A w \in Session :
    /\ gone[w] \subseteq held[w]
    /\ at[w] \notin {"select", "lock", "collect", "commit"} => gone[w] = {}
    /\ at[w] = "collect" => picked[w] \subseteq held[w]
    /\ \A e \in EdgesSeen(w) : e.src \notin gone[w] /\ e.tgt \notin gone[w]

Locking ==
  /\ TypeOK
  /\ LocksExclude
  /\ StartsClean
  /\ HoldsItsNodes
  /\ FitsJob
  /\ JobsAreOwn
  /\ DeletionReaches
  /\ GoneIsDetached
  /\ EdgesAreAnchored
-----------------------------------------------------------------------------
(* Types.                                                                  *)

LEMMA PruningsAreJobs ==
  /\ NoJob \in Prunings
  /\ Prunings \subseteq Job
  /\ \A j \in Prunings : j.kind = "prune" /\ j.links = {}
<1>1. AnyDoc \in Doc
  BY PostgresAssumption DEF AnyDoc
<1>2. \A m \in Manifests : Pruning(m) \in Job
  BY <1>1, PostgresAssumption DEF Pruning, Job
<1>3. Prunings \subseteq Job
  BY <1>2 DEF Prunings
<1>4. Prunings # {}
  BY PostgresAssumption DEF Prunings
<1>5. \A j \in Prunings : j.kind = "prune" /\ j.links = {}
  BY DEF Prunings, Pruning
<1> QED
  BY <1>3, <1>4, <1>5 DEF NoJob

LEMMA TypesStart == Init => TypeOK
BY PruningsAreJobs DEF Init, TypeOK, States, Phases

LEMMA SeenIsTyped ==
  ASSUME TypeOK, NEW w \in Session
  PROVE  NodesSeen(w) \in [Doc -> States] /\ EdgesSeen(w) \in SUBSET Link
<1>1. job[w] \in Job
  BY DEF TypeOK
<1>2. Inserted(w) \in SUBSET Link
  BY <1>1 DEF Inserted, Job
<1>3. WithUpserts(w) \in [Doc -> States]
  BY DEF TypeOK, WithUpserts, States
<1>4. NodesSeen(w) \in [Doc -> States]
  BY <1>3 DEF NodesSeen, States
<1> QED
  BY <1>2, <1>4 DEF TypeOK, EdgesSeen

LEMMA TypesFinish ==
  ASSUME TypeOK, NEW w \in Session, NEW E, NEW N, Finish(w, E, N)
  PROVE  /\ at' \in [Session -> Phases] /\ job' \in [Session -> Job]
         /\ former' \in [Session -> SUBSET Doc] /\ held' \in [Session -> SUBSET Doc]
         /\ rows' \in [Session -> SUBSET Link] /\ taken' \in [Session -> SUBSET Link]
         /\ picked' \in [Session -> SUBSET Doc] /\ gone' \in [Session -> SUBSET Doc]
BY PruningsAreJobs DEF Finish, TypeOK, Phases

LEMMA TypesStep == TypeOK /\ [Next]_vars => TypeOK'
<1> SUFFICES ASSUME TypeOK, [Next]_vars PROVE TypeOK'
  OBVIOUS
<1>0. CASE UNCHANGED vars
  BY <1>0 DEF vars, tables, session, TypeOK
<1>1. ASSUME NEW w \in Session, BeginWrite(w) PROVE TypeOK'
  <2>1. Writes \subseteq Job
    BY PostgresAssumption
  <2> QED
    BY <1>1, <2>1 DEF BeginWrite, Start, TypeOK, Phases, tables
<1>2. ASSUME NEW w \in Session, BeginPrune(w) PROVE TypeOK'
  BY <1>2, PruningsAreJobs DEF BeginPrune, Start, TypeOK, Phases, tables
<1>3. ASSUME NEW w \in Session, LockMember(w) PROVE TypeOK'
  BY <1>3 DEF LockMember, TypeOK, Phases, tables
<1>4. ASSUME NEW w \in Session, ReadFormer(w) PROVE TypeOK'
  <2>1. Targets({e \in edges : e.src = job[w].doc}) \in SUBSET Doc
    BY DEF Targets, TypeOK, Link
  <2> QED
    BY <1>4, <2>1 DEF ReadFormer, TypeOK, Phases, tables
<1>5. ASSUME NEW w \in Session, UpsertNode(w) PROVE TypeOK'
  <2>1. Touched(job[w]) \subseteq Doc
    BY DEF Touched, Targets, TypeOK, Job, Link
  <2>2. NextNode(w) \subseteq Doc
    BY <2>1 DEF NextNode
  <2> QED
    BY <1>5, <2>2 DEF UpsertNode, TypeOK, Phases, tables
<1>6. ASSUME NEW w \in Session, LockNode(w) PROVE TypeOK'
  <2>1. job[w].doc \in Doc
    BY DEF TypeOK, Job
  <2> QED
    BY <1>6, <2>1 DEF LockNode, TypeOK, Phases, tables
<1>7. ASSUME NEW w \in Session, ScanEdges(w) PROVE TypeOK'
  <2>1. Doomed(job[w]) \in SUBSET Link
    <3>1. job[w].kind \in {"replace", "delete", "prune"}
      BY DEF TypeOK, Job
    <3> QED
      BY <3>1 DEF Doomed, TypeOK
  <2> QED
    BY <1>7, <2>1 DEF ScanEdges, TypeOK, Phases, tables
<1>8. ASSUME NEW w \in Session, TakeEdge(w) PROVE TypeOK'
  BY <1>8 DEF TakeEdge, TypeOK, tables
<1>9. ASSUME NEW w \in Session, EndScan(w) PROVE TypeOK'
  <2>1. job[w].doc \in Doc /\ Candidates(w) \in SUBSET Doc
    BY DEF TypeOK, Job, Candidates
  <2> QED
    BY <1>9, <2>1 DEF EndScan, TypeOK, Phases, tables
<1>10. ASSUME NEW w \in Session, SelectOrphans(w) PROVE TypeOK'
  BY <1>10 DEF SelectOrphans, TypeOK, Phases, tables
<1>11. ASSUME NEW w \in Session, LockOrphans(w) PROVE TypeOK'
  <2>1. Lockable(w) \in SUBSET Doc
    BY DEF Lockable, TypeOK
  <2> QED
    BY <1>11, <2>1 DEF LockOrphans, TypeOK, Phases, tables
<1>12. ASSUME NEW w \in Session, CollectOrphans(w) PROVE TypeOK'
  BY <1>12 DEF CollectOrphans, TypeOK, Phases, tables
<1>13. ASSUME NEW w \in Session, Commit(w) PROVE TypeOK'
  BY <1>13, SeenIsTyped, TypesFinish DEF Commit, TypeOK
<1>14. ASSUME NEW w \in Session, RollBack(w), failures' \in Nat PROVE TypeOK'
  BY <1>14, TypesFinish DEF RollBack, TypeOK, tables
<1>15. ASSUME NEW w \in Session, LoseConnection(w) PROVE TypeOK'
  BY <1>14, <1>15 DEF LoseConnection, TypeOK
<1>16. ASSUME NEW w \in Session, AbortVictim(w) PROVE TypeOK'
  BY <1>14, <1>16 DEF AbortVictim, TypeOK
<1> QED
  BY <1>0, <1>1, <1>2, <1>3, <1>4, <1>5, <1>6, <1>7, <1>8, <1>9, <1>10, <1>11,
     <1>12, <1>13, <1>15, <1>16 DEF Next, Statement

\* The tables and every session keep the types of the schema.
THEOREM TablesAreTyped == Spec => []TypeOK
BY TypesStart, TypesStep, PTL DEF Spec
-----------------------------------------------------------------------------
(* Locks, from statement to statement.                                     *)

LEMMA LockingStarts == Init => Locking
<1> SUFFICES ASSUME Init PROVE Locking
  OBVIOUS
<1>1. TypeOK
  BY TypesStart
<1>2. JobsAreOwn
  BY PruningsAreJobs DEF Init, JobsAreOwn
<1> QED
  BY <1>1, <1>2 DEF Init, Locking, LocksExclude, StartsClean, HoldsItsNodes, FitsJob,
    DeletionReaches, GoneIsDetached, EdgesSeen, Inserted, EdgesAreAnchored

\* A session that begins a job holds nothing, so that only its own job is new.
LEMMA LockingBegins ==
  ASSUME Locking, TypeOK', NEW w \in Session, NEW j, NEW first,
         Start(w, j, first),
         \A l \in j.links : l.src = j.doc,
         \/ j.kind = "replace" /\ first = "member"
         \/ j.kind = "delete" /\ first = "node"
         \/ j.kind = "prune" /\ first = "scan"
  PROVE  Locking'
<1> USE DEF Locking
<1>1. LocksExclude' /\ EdgesAreAnchored'
  BY DEF Start, tables, LocksExclude, EdgesAreAnchored
<1>2. StartsClean' /\ FitsJob' /\ JobsAreOwn' /\ DeletionReaches'
  BY DEF Start, tables, TypeOK, StartsClean, FitsJob, JobsAreOwn, DeletionReaches
<1>3. HoldsItsNodes'
  BY DEF Start, TypeOK, HoldsItsNodes, Touched
<1>4. \A v \in Session : EdgesSeen(v)' \subseteq EdgesSeen(v)
  BY DEF Start, TypeOK, tables, EdgesSeen, Inserted
<1>5. GoneIsDetached'
  BY <1>4 DEF Start, TypeOK, GoneIsDetached, StartsClean
<1> QED
  BY <1>1, <1>2, <1>3, <1>5

\* Statements before the deletion of edges only add locks.
LEMMA LockingPrepares ==
  ASSUME Locking, TypeOK', NEW w \in Session,
         LockMember(w) \/ ReadFormer(w) \/ UpsertNode(w) \/ LockNode(w)
  PROVE  Locking'
<1> USE DEF Locking
<1>1. /\ UNCHANGED <<nodes, edges, job, rows, taken, gone, picked>>
      /\ \A v \in Session \ {w} : at'[v] = at[v] /\ held'[v] = held[v]
      /\ held[w] \subseteq held'[w]
  BY DEF LockMember, ReadFormer, UpsertNode, LockNode, TypeOK, tables
<1>2. /\ at[w] \in {"member", "read", "upsert", "node"}
      /\ at'[w] \in {"read", "upsert", "scan", "commit"}
      /\ at'[w] = "read" => at[w] = "member" /\ held'[w] = held[w]
      /\ at'[w] = "scan" /\ at[w] = "node" => job[w].doc \in held'[w]
      /\ at'[w] = "scan" /\ at[w] # "node" => Touched(job[w]) \subseteq held'[w]
      /\ at'[w] = "commit" => at[w] = "node"
      /\ at'[w] = "upsert" => at[w] \in {"read", "upsert"}
      /\ at[w] = "node" => at'[w] \in {"scan", "commit"}
  BY DEF LockMember, ReadFormer, UpsertNode, LockNode, TypeOK
<1>3. LocksExclude'
  <2>1. \A v \in Session \ {w} : (held'[w] \ held[w]) \cap held[v] = {}
    BY DEF LockMember, ReadFormer, UpsertNode, LockNode, TypeOK, HeldByOthers
  <2> QED
    BY <1>1, <2>1 DEF LocksExclude
<1>4. StartsClean' /\ FitsJob' /\ JobsAreOwn' /\ EdgesAreAnchored'
  BY <1>1, <1>2 DEF StartsClean, FitsJob, JobsAreOwn, EdgesAreAnchored
<1>5. HoldsItsNodes' /\ DeletionReaches'
  BY <1>1, <1>2 DEF HoldsItsNodes, DeletionReaches, FitsJob, Touched
<1>6. \A v \in Session : EdgesSeen(v)' \subseteq EdgesSeen(v)
  BY <1>1, <1>2 DEF EdgesSeen, Inserted, FitsJob
<1>7. GoneIsDetached'
  BY <1>1, <1>2, <1>6 DEF GoneIsDetached
<1> QED
  BY <1>3, <1>4, <1>5, <1>7

\* The deletion of edges, which for a deletion ends with the node.
LEMMA LockingScans ==
  ASSUME Locking, TypeOK', NEW w \in Session,
         ScanEdges(w) \/ TakeEdge(w) \/ EndScan(w)
  PROVE  Locking'
<1> USE DEF Locking
<1>1. /\ UNCHANGED <<nodes, edges, job, held, picked>>
      /\ \A v \in Session \ {w} :
           at'[v] = at[v] /\ rows'[v] = rows[v] /\ taken'[v] = taken[v] /\ gone'[v] = gone[v]
      /\ taken[w] \subseteq taken'[w]
      /\ at[w] \in {"scan", "take"} /\ at'[w] \in {"take", "select"}
  BY DEF ScanEdges, TakeEdge, EndScan, TypeOK, tables
<1>2. LocksExclude' /\ FitsJob' /\ JobsAreOwn' /\ EdgesAreAnchored' /\ StartsClean' /\ HoldsItsNodes'
  BY <1>1 DEF LocksExclude, FitsJob, JobsAreOwn, EdgesAreAnchored, StartsClean, HoldsItsNodes
<1>3. DeletionReaches'
  <2>1. CASE ScanEdges(w)
    BY <1>1, <2>1 DEF ScanEdges, TypeOK, DeletionReaches, Doomed
  <2>2. CASE TakeEdge(w)
    BY <1>1, <2>2 DEF TakeEdge, TypeOK, DeletionReaches
  <2>3. CASE EndScan(w)
    BY <1>1, <2>3 DEF EndScan, TypeOK, DeletionReaches
  <2> QED
    BY <2>1, <2>2, <2>3
<1>4. \A v \in Session \ {w} : EdgesSeen(v)' = EdgesSeen(v)
  BY <1>1 DEF EdgesSeen, Inserted
<1>5. GoneIsDetached'
  <2>1. CASE EndScan(w) /\ job[w].kind = "delete"
    <3>1. gone'[w] = {job[w].doc} /\ job[w].doc \in held[w] /\ at'[w] = "select"
      BY <2>1 DEF EndScan, TypeOK, DeletionReaches
    <3>2. \A e \in EdgesSeen(w)' : e.src # job[w].doc /\ e.tgt # job[w].doc
      BY <1>1, <2>1 DEF EndScan, TypeOK, DeletionReaches, EdgesSeen, Inserted
    <3> QED
      BY <1>1, <1>4, <3>1, <3>2 DEF GoneIsDetached
  <2>2. CASE ~(EndScan(w) /\ job[w].kind = "delete")
    <3>1. gone'[w] = {}
      BY <2>2 DEF ScanEdges, TakeEdge, EndScan, TypeOK, GoneIsDetached
    <3> QED
      BY <1>1, <1>4, <3>1 DEF GoneIsDetached
  <2> QED
    BY <2>1, <2>2
<1> QED
  BY <1>2, <1>3, <1>5

\* The collection of orphans: the second look is taken under the locks.
LEMMA LockingCollects ==
  ASSUME Locking, TypeOK', NEW w \in Session,
         SelectOrphans(w) \/ LockOrphans(w) \/ CollectOrphans(w)
  PROVE  Locking'
<1> USE DEF Locking
<1>1. /\ UNCHANGED <<nodes, edges, job, rows, taken>>
      /\ \A v \in Session \ {w} :
           at'[v] = at[v] /\ held'[v] = held[v] /\ picked'[v] = picked[v] /\ gone'[v] = gone[v]
      /\ held[w] \subseteq held'[w]
      /\ at[w] \in {"select", "lock", "collect"} /\ at'[w] \in {"lock", "collect", "commit"}
      /\ at'[w] = "collect" => picked'[w] \subseteq held'[w]
  BY DEF SelectOrphans, LockOrphans, CollectOrphans, TypeOK, tables
<1>2. LocksExclude'
  <2>1. \A v \in Session \ {w} : (held'[w] \ held[w]) \cap held[v] = {}
    BY DEF SelectOrphans, LockOrphans, CollectOrphans, TypeOK, HeldByOthers, Lockable
  <2> QED
    BY <1>1, <2>1 DEF LocksExclude
<1>3. /\ FitsJob' /\ JobsAreOwn' /\ EdgesAreAnchored' /\ StartsClean' /\ HoldsItsNodes'
      /\ DeletionReaches'
  BY <1>1 DEF FitsJob, JobsAreOwn, EdgesAreAnchored, StartsClean, HoldsItsNodes, DeletionReaches
<1>4. \A v \in Session : EdgesSeen(v)' = EdgesSeen(v)
  BY <1>1 DEF EdgesSeen, Inserted
<1>5. \A e \in EdgesSeen(w) : e.src \notin gone'[w] /\ e.tgt \notin gone'[w]
  BY DEF SelectOrphans, LockOrphans, CollectOrphans, TypeOK, GoneIsDetached, Orphans
<1>6. gone'[w] \subseteq held'[w]
  BY DEF SelectOrphans, LockOrphans, CollectOrphans, TypeOK, GoneIsDetached
<1>7. GoneIsDetached'
  BY <1>1, <1>4, <1>5, <1>6 DEF GoneIsDetached
<1> QED
  BY <1>2, <1>3, <1>7
\* A session that ends frees its locks; edges that it leaves to the others are
\* not at nodes they have deleted.
LEMMA LockingFinishes ==
  ASSUME Locking, TypeOK', NEW w \in Session, NEW E, NEW N, Finish(w, E, N),
         EdgesAreAnchored',
         \A e \in edges' \ edges : {e.src, e.tgt} \subseteq held[w],
         \A e \in edges' : e \in E => {e.src, e.tgt} \subseteq held[w]
  PROVE  Locking'
<1> USE DEF Locking
<1>1. /\ \A v \in Session \ {w} :
           /\ at'[v] = at[v] /\ job'[v] = job[v] /\ held'[v] = held[v]
           /\ taken'[v] = taken[v] /\ gone'[v] = gone[v]
           /\ rows'[v] = rows[v] \ E /\ picked'[v] \subseteq picked[v]
      /\ at'[w] = "idle" /\ job'[w] = NoJob /\ held'[w] = {} /\ taken'[w] = {} /\ gone'[w] = {}
  BY DEF Finish, TypeOK
<1>2. LocksExclude' /\ StartsClean' /\ HoldsItsNodes' /\ FitsJob'
  BY <1>1 DEF LocksExclude, StartsClean, HoldsItsNodes, FitsJob
<1>3. JobsAreOwn' /\ job'[w].kind = "prune"
  BY <1>1, PruningsAreJobs DEF JobsAreOwn
<1>4. DeletionReaches'
  <2> SUFFICES ASSUME NEW v \in Session \ {w}, job[v].kind = "delete", at[v] \in {"scan", "take"}
               PROVE  /\ job[v].doc \in held[v]
                      /\ at[v] = "take" => \A e \in edges' :
                           e.src = job[v].doc \/ e.tgt = job[v].doc => e \in (rows[v] \ E) \cup taken[v]
    BY <1>1 DEF DeletionReaches
  <2>1. job[v].doc \in held[v] /\ job[v].doc \notin held[w]
    BY DEF DeletionReaches, LocksExclude
  <2>2. ASSUME at[v] = "take", NEW e \in edges', e.src = job[v].doc \/ e.tgt = job[v].doc
        PROVE  e \in (rows[v] \ E) \cup taken[v]
    <3>1. e \in edges /\ e \notin E
      BY <2>1, <2>2
    <3> QED
      BY <2>2, <3>1 DEF DeletionReaches
  <2> QED
    BY <2>1, <2>2
<1>5. GoneIsDetached'
  <2>1. ASSUME NEW v \in Session \ {w}, NEW e \in EdgesSeen(v)'
        PROVE  e.src \notin gone[v] /\ e.tgt \notin gone[v]
    <3>1. e \in EdgesSeen(v) \/ e \in edges' \ edges
      BY <1>1, <2>1 DEF EdgesSeen, Inserted
    <3>2. gone[v] \subseteq held[v] /\ held[v] \cap held[w] = {}
      BY DEF GoneIsDetached, LocksExclude
    <3> QED
      BY <3>1, <3>2 DEF GoneIsDetached
  <2> QED
    BY <1>1, <2>1 DEF GoneIsDetached
<1> QED
  BY <1>2, <1>3, <1>4, <1>5

LEMMA LockingCommits ==
  ASSUME Locking, TypeOK', NEW w \in Session, Commit(w)
  PROVE  Locking'
<1> USE DEF Locking
<1>1. edges' = EdgesSeen(w) /\ nodes' = NodesSeen(w) /\ Finish(w, taken[w], gone[w])
  BY DEF Commit
<1>2. \A e \in Inserted(w) : e.src = job[w].doc /\ {e.src, e.tgt} \subseteq held[w] \cap Touched(job[w])
  BY DEF Inserted, JobsAreOwn, HoldsItsNodes, Touched, Targets
<1>3. EdgesAreAnchored'
  <2> SUFFICES ASSUME NEW e \in EdgesSeen(w)
               PROVE  NodesSeen(w)[e.src] = "Materialized" /\ NodesSeen(w)[e.tgt] # "Absent"
    BY <1>1 DEF EdgesAreAnchored
  <2>1. e.src \in Doc /\ e.tgt \in Doc
    BY SeenIsTyped DEF Link
  <2>2. e.src \notin gone[w] /\ e.tgt \notin gone[w]
    BY DEF GoneIsDetached
  <2>3. WithUpserts(w)[e.src] = "Materialized" /\ WithUpserts(w)[e.tgt] # "Absent"
    <3>1. CASE e \in edges
      BY <2>1, <3>1 DEF EdgesAreAnchored, WithUpserts
    <3>2. CASE e \in Inserted(w)
      BY <1>2, <2>1, <3>2 DEF WithUpserts
    <3> QED
      BY <3>1, <3>2 DEF EdgesSeen
  <2> QED
    BY <2>1, <2>2, <2>3 DEF NodesSeen
<1>4. /\ \A e \in edges' \ edges : {e.src, e.tgt} \subseteq held[w]
      /\ \A e \in edges' : e \in taken[w] => {e.src, e.tgt} \subseteq held[w]
  BY <1>1, <1>2 DEF EdgesSeen
<1> QED
  BY <1>1, <1>3, <1>4, LockingFinishes

LEMMA LockingRollsBack ==
  ASSUME Locking, TypeOK', NEW w \in Session, RollBack(w)
  PROVE  Locking'
<1>1. Finish(w, {}, {}) /\ UNCHANGED <<nodes, edges>>
  BY DEF RollBack, tables
<1>2. EdgesAreAnchored'
  BY <1>1 DEF Locking, EdgesAreAnchored
<1> QED
  BY <1>1, <1>2, LockingFinishes

LEMMA LockingStep == Locking /\ [Next]_vars => Locking'
<1> SUFFICES ASSUME Locking, [Next]_vars PROVE Locking'
  OBVIOUS
<1>1. TypeOK'
  BY TypesStep DEF Locking
<1>2. CASE UNCHANGED vars
  BY <1>2 DEF vars, tables, session, Locking, TypeOK, LocksExclude, StartsClean, HoldsItsNodes,
    FitsJob, JobsAreOwn, DeletionReaches, GoneIsDetached, EdgesSeen, Inserted, EdgesAreAnchored
<1>3. ASSUME NEW w \in Session, BeginWrite(w) PROVE Locking'
  <2>1. PICK j \in Writes : Start(w, j, IF j.kind = "replace" THEN "member" ELSE "node")
    BY <1>3 DEF BeginWrite
  <2>2. j.kind \in {"replace", "delete"} /\ \A l \in j.links : l.src = j.doc
    BY PostgresAssumption DEF Job
  <2>3. CASE j.kind = "replace"
    BY <1>1, <2>1, <2>2, <2>3, LockingBegins
  <2>4. CASE j.kind = "delete"
    BY <1>1, <2>1, <2>2, <2>4, LockingBegins
  <2> QED
    BY <2>2, <2>3, <2>4
<1>4. ASSUME NEW w \in Session, BeginPrune(w) PROVE Locking'
  <2>1. PICK j \in Prunings : Start(w, j, "scan")
    BY <1>4 DEF BeginPrune
  <2> QED
    BY <1>1, <2>1, PruningsAreJobs, LockingBegins
<1>5. ASSUME NEW w \in Session, Statement(w) PROVE Locking'
  BY <1>1, <1>5, LockingPrepares, LockingScans, LockingCollects, LockingCommits DEF Statement
<1>6. ASSUME NEW w \in Session, LoseConnection(w) \/ AbortVictim(w) PROVE Locking'
  BY <1>1, <1>6, LockingRollsBack DEF LoseConnection, AbortVictim
<1> QED
  BY <1>2, <1>3, <1>4, <1>5, <1>6 DEF Next

\* For any documents, sessions and writes, and whatever statements of their
\* transactions interleave: no committed edge ever lacks its source or its
\* target, so that the foreign keys never cascade to an edge that somebody
\* published, and a deletion reports every edge that it removed.
THEOREM EdgesStayAnchored == Spec => []EdgesAreAnchored
<1>1. Locking => EdgesAreAnchored
  BY DEF Locking
<1> QED
  BY <1>1, LockingStarts, LockingStep, PTL DEF Spec
-----------------------------------------------------------------------------
(* What a session has deleted and locked so far.                           *)

Behind == {"take", "select", "lock", "collect", "commit"}

\* The edge rows that the deletion statement of a job is about.
Covers(j, e) ==
  \/ j.kind = "replace" /\ e.src = j.doc
  \/ j.kind = "delete" /\ (e.src = j.doc \/ e.tgt = j.doc)
  \/ j.kind = "prune" /\ e.def \notin j.registered

\* The deletion statement reaches rows of its job only, and is the only one
\* that deletes edges.
DeletesItsRows(w) ==
  /\ at[w] # "take" => rows[w] = {}
  /\ at[w] \notin Behind => taken[w] = {}
  /\ \A e \in rows[w] \cup taken[w] : Covers(job[w], e)

\* A replacement misses no edge of its source: others that insert one wait
\* for the lock on the source.
ReplacementReaches(w) ==
  job[w].kind = "replace" /\ at[w] \in Behind =>
    \A e \in edges : e.src = job[w].doc => e \in rows[w] \cup taken[w]

\* The nodes it deletes are not indexed, except the document of a deletion.
CollectsReferences(w) ==
  \A d \in gone[w] :
    \/ nodes[d] # "Materialized" /\ (job[w].kind = "replace" => d # job[w].doc)
    \/ job[w].kind = "delete" /\ d = job[w].doc

\* A deletion deletes its node, unless it did not find it.
DeletionCompletes(w) ==
  job[w].kind = "delete" /\ at[w] \in Behind \ {"take"} =>
    \/ job[w].doc \in gone[w]
    \/ at[w] = "commit" /\ taken[w] = {} /\ gone[w] = {}

\* An upsert locks its rows in the order of their keys.
LocksAscend(w) ==
  at[w] = "upsert" =>
    \A h \in held[w] : \A k \in Touched(job[w]) \ held[w] : h < k

MembersExclude ==
  \A v, w \in Session, d \in Doc : v # w /\ HasMemberLock(v, d) => ~HasMemberLock(w, d)

Progress(w) ==
  /\ DeletesItsRows(w)
  /\ ReplacementReaches(w)
  /\ CollectsReferences(w)
  /\ DeletionCompletes(w)
  /\ LocksAscend(w)

Progressing == MembersExclude /\ \A w \in Session : Progress(w)

LEMMA ProgressingStarts == Init => Progressing
<1> SUFFICES ASSUME Init PROVE Progressing
  OBVIOUS
<1>1. MembersExclude
  BY DEF Init, MembersExclude, HasMemberLock
<1>2. ASSUME NEW w \in Session PROVE Progress(w)
  BY DEF Init, Progress, DeletesItsRows, Behind, ReplacementReaches, CollectsReferences,
         DeletionCompletes, LocksAscend
<1> QED
  BY <1>1, <1>2 DEF Progressing

\* A step that leaves the tables and a session alone leaves its progress alone.
LEMMA ProgressStays ==
  ASSUME NEW v \in Session, Progress(v), UNCHANGED <<nodes, edges>>,
         at'[v] = at[v], job'[v] = job[v], held'[v] = held[v], rows'[v] = rows[v],
         taken'[v] = taken[v], gone'[v] = gone[v]
  PROVE  Progress(v)'
BY DEF Progress, DeletesItsRows, ReplacementReaches, CollectsReferences, DeletionCompletes,
       LocksAscend, Touched

LEMMA MembersStay ==
  ASSUME MembersExclude, NEW w \in Session,
         \A v \in Session \ {w} : at'[v] = at[v] /\ job'[v] = job[v],
         \/ at'[w] \in {"idle", "member"}
         \/ job'[w].kind # "replace"
         \/ job'[w] = job[w] /\ at[w] \notin {"idle", "member"}
  PROVE  MembersExclude'
BY DEF MembersExclude, HasMemberLock

LEMMA ProgressBegins ==
  ASSUME Locking, Progressing, NEW w \in Session, NEW j, NEW first,
         Start(w, j, first),
         \/ j.kind = "replace" /\ first = "member"
         \/ j.kind = "delete" /\ first = "node"
         \/ j.kind = "prune" /\ first = "scan"
  PROVE  Progressing'
<1>1. /\ at[w] = "idle" /\ at'[w] = first /\ job'[w] = j
      /\ UNCHANGED <<nodes, edges, held, rows, taken, gone>>
      /\ \A v \in Session \ {w} : at'[v] = at[v] /\ job'[v] = job[v]
  BY DEF Start, tables, Locking, TypeOK
<1>2. rows[w] = {} /\ taken[w] = {} /\ gone[w] = {}
  BY <1>1 DEF Progressing, Progress, DeletesItsRows, Behind, Locking, StartsClean
<1>3. Progress(w)'
  BY <1>1, <1>2 DEF Progress, DeletesItsRows, Behind, ReplacementReaches, CollectsReferences,
                    DeletionCompletes, LocksAscend
<1>4. ASSUME NEW v \in Session \ {w} PROVE Progress(v)'
  BY <1>1, <1>4, ProgressStays DEF Progressing
<1>5. MembersExclude'
  BY <1>1, MembersStay DEF Progressing
<1> QED
  BY <1>3, <1>4, <1>5 DEF Progressing

\* The next node of an upsert is above those it has locked.
LEMMA UpsertAscends ==
  ASSUME Locking, NEW w \in Session, LocksAscend(w), UpsertNode(w)
  PROVE  LocksAscend(w)'
<1>1. PICK k \in NextNode(w) : held' = [held EXCEPT ![w] = @ \cup {k}]
  BY DEF UpsertNode
<1>2. at[w] = "upsert" /\ job' = job /\ held'[w] = held[w] \cup {k}
  BY <1>1 DEF UpsertNode, Locking, TypeOK
<1>3. Touched(job[w]) \subseteq Nat
  BY PostgresAssumption DEF Touched, Targets, Locking, TypeOK, Job, Link
<1>4. \A l \in Touched(job[w]) \ (held[w] \cup {k}) : k < l
  BY <1>3 DEF NextNode
<1> QED
  BY <1>2, <1>4 DEF LocksAscend, Touched

LEMMA ProgressPrepares ==
  ASSUME Locking, Progressing, NEW w \in Session,
         LockMember(w) \/ ReadFormer(w) \/ UpsertNode(w) \/ LockNode(w)
  PROVE  Progressing'
<1>1. /\ UNCHANGED <<nodes, edges, job, rows, taken, gone>>
      /\ \A v \in Session \ {w} : at'[v] = at[v] /\ held'[v] = held[v]
  BY DEF LockMember, ReadFormer, UpsertNode, LockNode, Locking, TypeOK, tables
<1>2. /\ at[w] \in {"member", "read", "upsert", "node"}
      /\ at'[w] \in {"read", "upsert", "scan", "commit"}
      /\ at'[w] = "upsert" => at[w] = "upsert" \/ (held'[w] = held[w] /\ at[w] = "read")
      /\ at'[w] = "commit" => at[w] = "node"
  BY DEF LockMember, ReadFormer, UpsertNode, LockNode, Locking, TypeOK
<1>3. /\ Progress(w) /\ rows[w] = {} /\ taken[w] = {} /\ gone[w] = {}
      /\ at[w] \in {"member", "read", "node"} => held[w] = {}
      /\ at[w] = "node" => job[w].kind = "delete"
  BY <1>2 DEF Progressing, Progress, DeletesItsRows, Behind, Locking, StartsClean, GoneIsDetached,
              FitsJob
<1>4. LocksAscend(w)'
  <2>1. CASE UpsertNode(w)
    BY <2>1, <1>3, UpsertAscends DEF Progress
  <2>2. CASE ~UpsertNode(w)
    <3>1. at[w] # "upsert"
      BY <2>2 DEF LockMember, ReadFormer, LockNode
    <3> QED
      BY <1>2, <1>3, <3>1 DEF LocksAscend
  <2> QED
    BY <2>1, <2>2
<1>5. Progress(w)'
  BY <1>1, <1>2, <1>3, <1>4 DEF Progress, DeletesItsRows, Behind, ReplacementReaches,
                                CollectsReferences, DeletionCompletes
<1>6. ASSUME NEW v \in Session \ {w} PROVE Progress(v)'
  BY <1>1, <1>6, ProgressStays DEF Progressing
<1>7. MembersExclude'
  <2>1. CASE LockMember(w)
    BY <1>1, <2>1 DEF LockMember, Progressing, MembersExclude, HasMemberLock
  <2>2. CASE ~LockMember(w)
    <3>1. at[w] \notin {"idle", "member"} /\ job'[w] = job[w]
      BY <1>1, <2>2 DEF ReadFormer, UpsertNode, LockNode
    <3> QED
      BY <1>1, <3>1, MembersStay DEF Progressing
  <2> QED
    BY <2>1, <2>2
<1> QED
  BY <1>5, <1>6, <1>7 DEF Progressing

LEMMA ProgressScans ==
  ASSUME Locking, Progressing, NEW w \in Session,
         ScanEdges(w) \/ TakeEdge(w) \/ EndScan(w)
  PROVE  Progressing'
<1>1. /\ UNCHANGED <<nodes, edges, job, held>>
      /\ \A v \in Session \ {w} :
           at'[v] = at[v] /\ rows'[v] = rows[v] /\ taken'[v] = taken[v] /\ gone'[v] = gone[v]
      /\ at[w] \in {"scan", "take"} /\ at'[w] \in {"take", "select"}
  BY DEF ScanEdges, TakeEdge, EndScan, Locking, TypeOK, tables
<1>2. Progress(w) /\ gone[w] = {} /\ job[w].kind \in {"replace", "delete", "prune"}
  BY <1>1 DEF Progressing, Locking, GoneIsDetached, TypeOK, Job
<1>3. /\ DeletesItsRows(w)' /\ ReplacementReaches(w)'
  <2>1. CASE ScanEdges(w)
    <3>1. rows'[w] = Doomed(job[w]) /\ taken'[w] = taken[w] /\ at[w] = "scan" /\ at'[w] = "take"
      BY <2>1 DEF ScanEdges, Locking, TypeOK
    <3>2. \A e \in Doomed(job[w]) : Covers(job[w], e)
      BY <1>2 DEF Doomed, Covers
    <3>3. job[w].kind = "replace" => Doomed(job[w]) = {e \in edges : e.src = job[w].doc}
      BY DEF Doomed
    <3> QED
      BY <1>1, <1>2, <3>1, <3>2, <3>3 DEF Progress, DeletesItsRows, Behind, ReplacementReaches
  <2>2. CASE TakeEdge(w)
    <3>1. PICK e \in rows[w] : rows'[w] = rows[w] \ {e} /\ taken'[w] = taken[w] \cup {e}
      BY <2>2 DEF TakeEdge, Locking, TypeOK
    <3>2. at[w] = "take" /\ at'[w] = "take"
      BY <2>2 DEF TakeEdge
    <3> QED
      BY <1>1, <1>2, <3>1, <3>2 DEF Progress, DeletesItsRows, Behind, ReplacementReaches
  <2>3. CASE EndScan(w)
    <3>1. rows[w] = {} /\ rows' = rows /\ taken' = taken /\ at[w] = "take" /\ at'[w] = "select"
      BY <2>3 DEF EndScan, Locking, TypeOK
    <3> QED
      BY <1>1, <1>2, <3>1 DEF Progress, DeletesItsRows, Behind, ReplacementReaches
  <2> QED
    BY <2>1, <2>2, <2>3
<1>4. /\ CollectsReferences(w)' /\ DeletionCompletes(w)' /\ LocksAscend(w)'
  <2>1. CASE EndScan(w)
    <3>1. gone'[w] = IF job[w].kind = "delete" THEN {job[w].doc} ELSE {}
      BY <2>1 DEF EndScan, Locking, TypeOK
    <3> QED
      BY <1>1, <1>2, <3>1 DEF CollectsReferences, DeletionCompletes, LocksAscend
  <2>2. CASE ~EndScan(w)
    <3>1. gone' = gone /\ at'[w] = "take"
      BY <2>2 DEF ScanEdges, TakeEdge, Locking, TypeOK
    <3> QED
      BY <1>1, <1>2, <3>1 DEF CollectsReferences, DeletionCompletes, LocksAscend, Behind
  <2> QED
    BY <2>1, <2>2
<1>5. ASSUME NEW v \in Session \ {w} PROVE Progress(v)'
  BY <1>1, <1>5, ProgressStays DEF Progressing
<1>6. MembersExclude'
  BY <1>1, MembersStay DEF Progressing
<1> QED
  BY <1>3, <1>4, <1>5, <1>6 DEF Progressing, Progress

\* The orphans that a session finds are references, and never its own source.
LEMMA OrphansAreReferences ==
  ASSUME Locking, NEW w \in Session, at[w] = "collect",
         NEW d \in Orphans(NodesSeen(w), EdgesSeen(w))
  PROVE  nodes[d] # "Materialized" /\ (job[w].kind = "replace" => d # job[w].doc)
<1>1. d \in Doc /\ NodesSeen(w)[d] = "Referenced"
  BY DEF Orphans
<1>2. WithUpserts(w)[d] = "Referenced"
  BY <1>1 DEF NodesSeen
<1>3. nodes[d] # "Materialized"
  BY <1>1, <1>2 DEF WithUpserts
<1>4. ASSUME job[w].kind = "replace", d = job[w].doc PROVE FALSE
  <2>1. d \in Touched(job[w]) /\ d \in held[w]
    BY <1>4 DEF Touched, Locking, HoldsItsNodes
  <2> QED
    BY <1>1, <1>2, <1>3, <1>4, <2>1 DEF WithUpserts
<1> QED
  BY <1>3, <1>4

LEMMA ProgressCollects ==
  ASSUME Locking, Progressing, NEW w \in Session,
         SelectOrphans(w) \/ LockOrphans(w) \/ CollectOrphans(w)
  PROVE  Progressing'
<1>1. /\ UNCHANGED <<nodes, edges, job, rows, taken>>
      /\ \A v \in Session \ {w} : at'[v] = at[v] /\ held'[v] = held[v] /\ gone'[v] = gone[v]
      /\ at[w] \in {"select", "lock", "collect"} /\ at'[w] \in {"lock", "collect", "commit"}
      /\ gone[w] \subseteq gone'[w]
  BY DEF SelectOrphans, LockOrphans, CollectOrphans, Locking, TypeOK, tables
<1>2. Progress(w)
  BY DEF Progressing
<1>3. CollectsReferences(w)'
  <2>1. CASE CollectOrphans(w)
    <3>1. at[w] = "collect"
          /\ gone'[w] = gone[w] \cup (picked[w] \cap Orphans(NodesSeen(w), EdgesSeen(w)))
      BY <2>1 DEF CollectOrphans, Locking, TypeOK
    <3> QED
      BY <1>1, <1>2, <3>1, OrphansAreReferences DEF Progress, CollectsReferences
  <2>2. CASE ~CollectOrphans(w)
    <3>1. gone' = gone
      BY <2>2 DEF SelectOrphans, LockOrphans
    <3> QED
      BY <1>1, <1>2, <3>1 DEF Progress, CollectsReferences
  <2> QED
    BY <2>1, <2>2
<1>4. DeletesItsRows(w)' /\ ReplacementReaches(w)' /\ DeletionCompletes(w)' /\ LocksAscend(w)'
  BY <1>1, <1>2 DEF Progress, DeletesItsRows, ReplacementReaches, DeletionCompletes, LocksAscend,
                    Behind
<1>5. ASSUME NEW v \in Session \ {w} PROVE Progress(v)'
  BY <1>1, <1>5, ProgressStays DEF Progressing
<1>6. MembersExclude'
  BY <1>1, MembersStay DEF Progressing
<1> QED
  BY <1>3, <1>4, <1>5, <1>6 DEF Progressing, Progress

\* What a session that ends leaves to another one: of the nodes and edges that
\* the other has locked, deleted or found, nothing changed.
LEMMA ProgressFinishes ==
  ASSUME Locking, Progressing, NEW w \in Session, NEW E, NEW N, Finish(w, E, N),
         \A e \in edges' : e \in E => e \notin edges \/ HasMemberLock(w, e.src),
         \A e \in edges' \ edges : HasMemberLock(w, e.src),
         \A d \in Doc \ held[w] : nodes'[d] = nodes[d]
  PROVE  Progressing'
<1>1. /\ \A v \in Session \ {w} :
           /\ at'[v] = at[v] /\ job'[v] = job[v] /\ held'[v] = held[v]
           /\ taken'[v] = taken[v] /\ gone'[v] = gone[v]
           /\ rows'[v] = rows[v] \ E
      /\ at'[w] = "idle" /\ job'[w] = NoJob /\ held'[w] = {} /\ taken'[w] = {} /\ gone'[w] = {}
      /\ rows'[w] = {}
  BY DEF Finish, Locking, TypeOK
<1>2. Progress(w)'
  <2>1. job'[w].kind = "prune"
    BY <1>1, PruningsAreJobs
  <2> QED
    BY <1>1, <2>1 DEF Progress, DeletesItsRows, Behind, ReplacementReaches, CollectsReferences,
                      DeletionCompletes, LocksAscend
<1>3. ASSUME NEW v \in Session \ {w} PROVE Progress(v)'
  <2>1. Progress(v)
    BY DEF Progressing
  <2>2. DeletesItsRows(v)' /\ DeletionCompletes(v)' /\ LocksAscend(v)'
    BY <1>1, <2>1 DEF Progress, DeletesItsRows, DeletionCompletes, LocksAscend, Touched
  <2>3. ReplacementReaches(v)'
    <3> SUFFICES ASSUME job[v].kind = "replace", at[v] \in Behind,
                        NEW e \in edges', e.src = job[v].doc
                 PROVE  e \in (rows[v] \ E) \cup taken[v]
      BY <1>1 DEF ReplacementReaches
    <3>1. HasMemberLock(v, e.src)
      BY DEF HasMemberLock, Behind
    <3>2. e.src \in Doc
      BY DEF Locking, TypeOK, Job
    <3>3. ~HasMemberLock(w, e.src)
      BY <3>1, <3>2 DEF Progressing, MembersExclude
    <3>4. e \in edges /\ e \notin E
      BY <3>3
    <3> QED
      BY <2>1, <3>4 DEF Progress, ReplacementReaches
  <2>4. CollectsReferences(v)'
    <3> SUFFICES ASSUME NEW d \in gone[v] PROVE nodes'[d] = nodes[d]
      BY <1>1, <2>1 DEF Progress, CollectsReferences
    <3>1. d \in Doc /\ d \in held[v]
      BY DEF Locking, TypeOK, GoneIsDetached
    <3>2. d \notin held[w]
      BY <3>1 DEF Locking, LocksExclude
    <3> QED
      BY <3>1, <3>2
  <2> QED
    BY <2>2, <2>3, <2>4 DEF Progress
<1>4. MembersExclude'
  BY <1>1, MembersStay DEF Progressing
<1> QED
  BY <1>2, <1>3, <1>4 DEF Progressing

LEMMA ProgressCommits ==
  ASSUME Locking, Progressing, NEW w \in Session, Commit(w)
  PROVE  Progressing'
<1>1. at[w] = "commit" /\ edges' = EdgesSeen(w) /\ nodes' = NodesSeen(w)
      /\ Finish(w, taken[w], gone[w])
  BY DEF Commit
<1>2. \A e \in Inserted(w) : HasMemberLock(w, e.src)
  BY <1>1 DEF Inserted, HasMemberLock, Locking, JobsAreOwn
<1>3. ASSUME NEW d \in Doc \ held[w] PROVE nodes'[d] = nodes[d]
  BY <1>1 DEF NodesSeen, WithUpserts, Locking, GoneIsDetached
<1>4. /\ \A e \in edges' : e \in taken[w] => HasMemberLock(w, e.src)
      /\ \A e \in edges' \ edges : HasMemberLock(w, e.src)
  BY <1>1, <1>2 DEF EdgesSeen
<1> QED
  BY <1>1, <1>3, <1>4, ProgressFinishes

LEMMA ProgressingStep == Locking /\ Progressing /\ [Next]_vars => Progressing'
<1> SUFFICES ASSUME Locking, Progressing, [Next]_vars PROVE Progressing'
  OBVIOUS
<1>1. CASE UNCHANGED vars
  <2>1. ASSUME NEW v \in Session PROVE Progress(v)'
    BY <1>1, <2>1, ProgressStays DEF vars, tables, session, Progressing
  <2>2. MembersExclude'
    BY <1>1 DEF vars, session, Progressing, MembersExclude, HasMemberLock
  <2> QED
    BY <2>1, <2>2 DEF Progressing
<1>2. ASSUME NEW w \in Session, BeginWrite(w) PROVE Progressing'
  <2>1. PICK j \in Writes : Start(w, j, IF j.kind = "replace" THEN "member" ELSE "node")
    BY <1>2 DEF BeginWrite
  <2>2. j.kind \in {"replace", "delete"}
    BY PostgresAssumption DEF Job
  <2>3. CASE j.kind = "replace"
    BY <2>1, <2>3, ProgressBegins
  <2>4. CASE j.kind = "delete"
    BY <2>1, <2>4, ProgressBegins
  <2> QED
    BY <2>2, <2>3, <2>4
<1>3. ASSUME NEW w \in Session, BeginPrune(w) PROVE Progressing'
  <2>1. PICK j \in Prunings : Start(w, j, "scan")
    BY <1>3 DEF BeginPrune
  <2> QED
    BY <2>1, PruningsAreJobs, ProgressBegins
<1>4. ASSUME NEW w \in Session, Statement(w) PROVE Progressing'
  BY <1>4, ProgressPrepares, ProgressScans, ProgressCollects, ProgressCommits DEF Statement
<1>5. ASSUME NEW w \in Session, LoseConnection(w) \/ AbortVictim(w) PROVE Progressing'
  <2>1. Finish(w, {}, {}) /\ UNCHANGED <<nodes, edges>>
    BY <1>5 DEF LoseConnection, AbortVictim, RollBack, tables
  <2> QED
    BY <2>1, ProgressFinishes
<1> QED
  BY <1>1, <1>2, <1>3, <1>4, <1>5 DEF Next

LEMMA SessionsProgress == Spec => [](Locking /\ Progressing)
BY LockingStarts, LockingStep, ProgressingStarts, ProgressingStep, PTL DEF Spec
-----------------------------------------------------------------------------
(* Waiting.                                                                *)

LEMMA FiniteHasGreatest ==
  ASSUME NEW S \in SUBSET Nat, IsFiniteSet(S), S # {}
  PROVE  \E m \in S : \A x \in S : x <= m
<1> DEFINE T == {X \in FiniteSubsetsOf(Nat) : X # {} /\ \A m \in X : \E x \in X : m < x}
<1>1. ASSUME T # {} PROVE FALSE
  <2>1. PICK X \in T : \A Y \in T : ~ (<<Y, X>> \in StrictSubsetOrdering(Nat))
    <3>1. T \subseteq FiniteSubsetsOf(Nat)
      OBVIOUS
    <3> HIDE DEF T
    <3> QED
      BY <1>1, <3>1, FS_StrictSubsetOrderingWellFounded, WFMin
  <2>2. X \in SUBSET Nat /\ IsFiniteSet(X)
    BY DEF FiniteSubsetsOf
  <2>3. PICK x \in X : TRUE
    OBVIOUS
  <2>4. PICK y \in X : x < y
    OBVIOUS
  <2> DEFINE Y == X \ {x}
  <2>5. Y \in FiniteSubsetsOf(Nat) /\ y \in Y
    BY <2>2, <2>4, FS_RemoveElement DEF FiniteSubsetsOf
  <2>6. <<Y, X>> \in StrictSubsetOrdering(Nat)
    BY <2>2 DEF StrictSubsetOrdering
  <2>7. Y \notin T
    BY <2>1, <2>6
  <2>8. PICK m \in Y : \A z \in Y : ~ (m < z)
    BY <2>5, <2>7
  <2>9. PICK z \in X : m < z
    OBVIOUS
  <2>10. z = x /\ m < y
    BY <2>2, <2>4, <2>8, <2>9
  <2> QED
    BY <2>4, <2>5, <2>8, <2>10
<1>2. S \in FiniteSubsetsOf(Nat)
  BY DEF FiniteSubsetsOf
<1> QED
  BY <1>1, <1>2

\* w comes to the row k, which some session holds.
AwaitsRow(w, k) ==
  \/ at[w] = "upsert" /\ k \in NextNode(w)
  \/ at[w] = "node" /\ k = job[w].doc

LEMMA DeadlocksAreOfEdges ==
  ASSUME Locking, Progressing PROVE NodeWaitsEnd
<1> SUFFICES ASSUME NEW S \in SUBSET Session, Deadlocked(S)
             PROVE  Deadlocked({w \in S : at[w] = "take"})
  BY DEF NodeWaitsEnd
<1> DEFINE T == {w \in S : at[w] = "take"}
           Blocked == {w \in S : \E v \in S : WaitsForNode(w, v)}
           awaited == [w \in Blocked |->
                         CHOOSE k \in Doc : AwaitsRow(w, k) /\ \E v \in S : k \in held[v]]
<1>1. \A w \in S : at[w] \in {"member", "upsert", "node", "take"}
  BY DEF Deadlocked, Waits, WaitsForNode, WaitsForMember, WaitsForEdge
<1>2. \A w \in S : at[w] \in {"member", "upsert", "node"} => taken[w] = {}
  BY DEF Progressing, Progress, DeletesItsRows, Behind
<1>3. \A w \in S : held[w] # {} => at[w] \in {"upsert", "take"}
  BY <1>1 DEF Locking, StartsClean
\* Who waits for an edge waits for one that deletes edges as well.
<1>4. ASSUME NEW w \in T PROVE \E v \in T : Waits(w, v)
  <2>1. PICK v \in S : Waits(w, v)
    BY DEF Deadlocked
  <2>2. taken[v] # {}
    BY <2>1 DEF Waits, WaitsForNode, WaitsForMember, WaitsForEdge
  <2> QED
    BY <1>1, <1>2, <2>1, <2>2
<1>5. ASSUME T = {} PROVE FALSE
  <2>1. \A w \in S : at[w] \in {"member", "upsert", "node"}
    BY <1>1, <1>5
  \* Who has the lock of a source is not waiting for one.
  <2>2. Blocked # {}
    <3>1. PICK w \in S, v \in S : Waits(w, v)
      BY DEF Deadlocked
    <3>2. CASE WaitsForMember(w, v)
      <4>1. at[v] = "upsert"
        BY <2>1, <3>2 DEF WaitsForMember, HasMemberLock, Locking, FitsJob
      <4> QED
        BY <4>1 DEF Deadlocked, Waits, WaitsForMember, WaitsForEdge
    <3> QED
      BY <2>1, <3>1, <3>2 DEF Waits, WaitsForEdge
  <2>3. ASSUME NEW w \in Blocked
        PROVE  /\ awaited[w] \in Doc /\ AwaitsRow(w, awaited[w])
               /\ \E v \in S : awaited[w] \in held[v]
    <3>1. PICK v \in S : WaitsForNode(w, v)
      OBVIOUS
    <3>2. PICK k \in held[v] : AwaitsRow(w, k)
      BY <3>1 DEF WaitsForNode, AwaitsRow
    <3>3. k \in Doc
      BY DEF Locking, TypeOK
    <3> QED
      BY <3>2, <3>3
  <2>4. PICK w \in Blocked : \A v \in Blocked : awaited[v] <= awaited[w]
    <3> DEFINE R == {awaited[v] : v \in Blocked}
    <3>1. IsFiniteSet(Blocked)
      BY PostgresAssumption, FS_Subset
    <3>2. awaited \in Surjection(Blocked, R)
      BY DEF Surjection
    <3>3. R \subseteq Nat /\ R # {}
      BY <2>2, <2>3, PostgresAssumption
    <3>4. IsFiniteSet(R)
      <4> HIDE DEF R, awaited, Blocked
      <4> QED
        BY <3>1, <3>2, FS_Surjection
    <3>5. PICK m \in R : \A x \in R : x <= m
      <4> HIDE DEF R
      <4> QED
        BY <3>3, <3>4, FiniteHasGreatest
    <3> HIDE DEF awaited, Blocked
    <3>6. PICK w \in Blocked : m = awaited[w]
      OBVIOUS
    <3>7. \A v \in Blocked : awaited[v] \in R
      OBVIOUS
    <3> QED
      BY <3>5, <3>6, <3>7
  <2>5. PICK v \in S : awaited[w] \in held[v]
    BY <2>3
  <2>6. at[v] = "upsert"
    BY <1>3, <2>1, <2>5
  <2>7. v \in Blocked
    BY <2>6 DEF Deadlocked, Waits, WaitsForMember, WaitsForEdge
  <2>8. awaited[v] \in NextNode(v)
    BY <2>3, <2>6, <2>7 DEF AwaitsRow
  <2>9. awaited[w] < awaited[v]
    BY <2>5, <2>6, <2>8 DEF Progressing, Progress, LocksAscend, NextNode
  <2>10. awaited[w] \in Nat /\ awaited[v] \in Nat /\ awaited[v] <= awaited[w]
    BY <2>3, <2>4, <2>7, PostgresAssumption
  <2> QED
    BY <2>9, <2>10
<1> QED
  BY <1>4, <1>5 DEF Deadlocked

\* For any number of sessions and documents, every deadlock contains one among
\* the sessions that delete edges: the order in which publishers lock sources
\* and node rows never needs the server to abort one of them.
THEOREM NodeWaitsAlwaysEnd == Spec => []NodeWaitsEnd
BY SessionsProgress, DeadlocksAreOfEdges, PTL
-----------------------------------------------------------------------------
(* Commits.                                                                *)

Outgoing(es, d) == {e \in es : e.src = d}

LEMMA ReplacementIsWhole ==
  ASSUME Locking, Progressing, NEW w \in Session, Commit(w), job[w].kind = "replace"
  PROVE  Performs(job[w])
<1> DEFINE D == job[w].doc
           links == job[w].links
<1>1. at[w] = "commit" /\ edges' = EdgesSeen(w) /\ nodes' = NodesSeen(w)
  BY DEF Commit
<1>2. /\ D \in Doc /\ links \in SUBSET Link /\ \A l \in links : l.src = D
      /\ nodes \in [Doc -> States] /\ rows[w] = {} /\ \A e \in taken[w] : e.src = D
      /\ D \in held[w] \cap Touched(job[w])
  BY <1>1 DEF Locking, TypeOK, Job, JobsAreOwn, HoldsItsNodes, Touched, Progressing, Progress,
              DeletesItsRows, Covers
<1>3. \A d \in Doc : nodes'[d] = "Materialized" <=> d = D \/ nodes[d] = "Materialized"
  <2>1. \A d \in gone[w] : nodes[d] # "Materialized" /\ d # D
    BY DEF Progressing, Progress, CollectsReferences
  <2> QED
    BY <1>1, <1>2, <2>1 DEF NodesSeen, WithUpserts
<1>4. Inserted(w) = links
  BY <1>1 DEF Inserted
<1>5. \A d \in Doc : Outgoing(edges', d) = IF d = D THEN links ELSE Outgoing(edges, d)
  <2>1. \A e \in edges : e.src = D => e \in taken[w]
    BY <1>1, <1>2 DEF Progressing, Progress, ReplacementReaches, Behind
  <2> QED
    BY <1>1, <1>2, <1>4, <2>1 DEF EdgesSeen, Outgoing
<1>6. outgoing' = [outgoing EXCEPT ![D] = {links}]
  <2>1. \A d \in Doc : outgoing'[d] = IF d = D THEN {links} ELSE outgoing[d]
    BY <1>3, <1>5 DEF outgoing, Outgoing
  <2> QED
    BY <2>1 DEF outgoing
<1>7. links \in SUBSET Linked!LinksOf(D)
  BY <1>2 DEF Link, Linked!LinksOf
<1> QED
  BY <1>2, <1>6, <1>7 DEF Performs, Linked!Replace, outgoing

LEMMA DeletionIsWhole ==
  ASSUME Locking, Progressing, NEW w \in Session, Commit(w), job[w].kind = "delete"
  PROVE  Performs(job[w]) \/ outgoing' = outgoing
<1> DEFINE D == job[w].doc
<1>1. at[w] = "commit" /\ edges' = EdgesSeen(w) /\ nodes' = NodesSeen(w)
  BY DEF Commit
<1>2. Inserted(w) = {} /\ Touched(job[w]) = {} /\ nodes \in [Doc -> States]
  BY DEF Inserted, Touched, Locking, TypeOK
<1>3. nodes' = [d \in Doc |-> IF d \in gone[w] THEN "Absent" ELSE nodes[d]]
      /\ edges' = edges \ taken[w]
  BY <1>1, <1>2 DEF NodesSeen, WithUpserts, EdgesSeen
<1>4. CASE gone[w] = {} /\ taken[w] = {}
  BY <1>2, <1>3, <1>4 DEF outgoing
<1>5. CASE D \in gone[w]
  <2>1. \A d \in Doc : nodes'[d] = "Materialized" <=> d # D /\ nodes[d] = "Materialized"
    BY <1>3, <1>5 DEF Progressing, Progress, CollectsReferences
  <2>2. \A e \in taken[w] : e.src = D \/ e.tgt = D
    BY DEF Progressing, Progress, DeletesItsRows, Covers
  <2>3. \A e \in edges : e.tgt = D => e \in taken[w]
    BY <1>2, <1>5 DEF Locking, GoneIsDetached, EdgesSeen
  <2>4. \A d \in Doc : d # D =>
          Outgoing(edges', d) = {l \in Outgoing(edges, d) : l.tgt # D}
    BY <1>3, <2>2, <2>3 DEF Outgoing
  <2>5. \A d \in Doc : outgoing'[d] = IF d = D THEN {}
                                      ELSE {{l \in links : l.tgt # D} : links \in outgoing[d]}
    BY <2>1, <2>4 DEF outgoing, Outgoing
  <2>6. outgoing' = [d \in Doc |-> IF d = D THEN {}
                                   ELSE {{l \in links : l.tgt # D} : links \in outgoing[d]}]
    BY <2>5 DEF outgoing
  <2> QED
    BY <2>6 DEF Performs, Linked!Delete
<1> QED
  BY <1>1, <1>4, <1>5 DEF Progressing, Progress, DeletionCompletes, Behind

LEMMA PruningIsPartial ==
  ASSUME Locking, Progressing, NEW w \in Session, Commit(w), job[w].kind = "prune"
  PROVE  Performs(job[w])
<1>1. at[w] = "commit" /\ edges' = EdgesSeen(w) /\ nodes' = NodesSeen(w)
  BY DEF Commit
<1>2. Inserted(w) = {} /\ Touched(job[w]) = {} /\ nodes \in [Doc -> States]
  BY DEF Inserted, Touched, Locking, TypeOK
<1>3. nodes' = [d \in Doc |-> IF d \in gone[w] THEN "Absent" ELSE nodes[d]]
      /\ edges' = edges \ taken[w]
  BY <1>1, <1>2 DEF NodesSeen, WithUpserts, EdgesSeen
<1>4. \A d \in Doc : nodes'[d] = "Materialized" <=> nodes[d] = "Materialized"
  BY <1>3 DEF Progressing, Progress, CollectsReferences
<1>5. \A e \in taken[w] : e.def \notin job[w].registered
  BY DEF Progressing, Progress, DeletesItsRows, Covers
<1>6. \A d \in Doc : outgoing'[d] = IF nodes[d] = "Materialized"
                                    THEN {Outgoing(edges, d) \ taken[w]} ELSE {}
  BY <1>3, <1>4 DEF outgoing, Outgoing
<1>7. \A d \in Doc : outgoing[d] = IF nodes[d] = "Materialized" THEN {Outgoing(edges, d)} ELSE {}
  BY DEF outgoing, Outgoing
<1>8. PartlyPruned(job[w].registered)
  <2>1. ASSUME NEW d \in Doc PROVE outgoing[d] = {} <=> outgoing'[d] = {}
    BY <1>6, <1>7
  <2>2. ASSUME NEW d \in Doc, NEW before \in outgoing[d], NEW after \in outgoing'[d]
        PROVE  /\ after \subseteq before
               /\ \A l \in before \ after : l.def \notin job[w].registered
    <3>1. before = Outgoing(edges, d) /\ after = Outgoing(edges, d) \ taken[w]
      BY <1>6, <1>7, <2>2
    <3> QED
      BY <1>5, <3>1
  <2> QED
    BY <2>1, <2>2 DEF PartlyPruned
<1> QED
  BY <1>8 DEF Performs

LEMMA CommitPerforms ==
  ASSUME Locking, Progressing, [Next]_vars
  PROVE  \/ \E w \in Session : at[w] = "commit" /\ Performs(job[w])
         \/ outgoing' = outgoing
<1>1. CASE UNCHANGED tables
  BY <1>1 DEF tables, outgoing
<1>2. ASSUME NEW w \in Session, Commit(w)
      PROVE  at[w] = "commit" /\ (Performs(job[w]) \/ outgoing' = outgoing)
  <2>1. job[w].kind \in {"replace", "delete", "prune"}
    BY DEF Locking, TypeOK, Job
  <2> QED
    BY <1>2, <2>1, ReplacementIsWhole, DeletionIsWhole, PruningIsPartial DEF Commit
<1>3. ASSUME NEW w \in Session,
             \/ BeginWrite(w) \/ BeginPrune(w) \/ LoseConnection(w) \/ AbortVictim(w)
             \/ Statement(w) /\ ~Commit(w)
      PROVE  UNCHANGED tables
  BY <1>3 DEF BeginWrite, BeginPrune, Start, LoseConnection, AbortVictim, RollBack, Statement,
    LockMember, ReadFormer, UpsertNode, LockNode, ScanEdges, TakeEdge, EndScan, SelectOrphans,
    LockOrphans, CollectOrphans
<1> QED
  BY <1>1, <1>2, <1>3 DEF Next, vars

\* Statement by statement and at READ COMMITTED, a committed transaction is one
\* operation on the linked documents: a replacement leaves exactly the edges it
\* was given and no other document's, a deletion takes exactly one document and
\* the edges at it, a pruning only edges that are not registered.
THEOREM CommitsStayWhole == Spec => CommitsAreWhole
<1>1. Locking /\ Progressing /\ [Next]_vars =>
        [\E w \in Session : at[w] = "commit" /\ Performs(job[w])]_outgoing
  BY CommitPerforms
<1> QED
  BY <1>1, SessionsProgress, PTL DEF Spec, CommitsAreWhole
=============================================================================

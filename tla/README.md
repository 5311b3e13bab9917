# A TLA+ development of the document graph

This directory specifies, model-checks and proves properties of the document
graph library in `src/`: documents are projected into chunks, embedded, and
published into a search index, while their relations are kept in a graph
topology. The hard part is publication. The index lives in two systems that
share no transaction (a D1 database and a Turbopuffer namespace), many workers
publish at the same time, any of them may stop at any point, and the remote
index may answer late, twice or never. The models start there.

Paths below are relative to the repository's own root, so that
`storage/d1/...` is `src/src/storage/d1/...` in `PROJECT.json`.

## 1. The system

| Component | State | Operations |
| --- | --- | --- |
| **Publication coordinator** (`indexing/projection-publication.ts`; D1: `storage/d1/projection-publication.ts`; PostgreSQL: `storage/postgres/projection-publication.ts`) | per document projection and index generation a *head* (active revision, pending publication, last generation, slot high-water), the staged *mutations*, a *journal* of publications | `loadHeads`, `loadRevisions`, `beginPublication`, `finalizePublication`, `supersedePublication`, `listStaleRevisions` |
| **Turbopuffer index store** (`storage/turbopuffer/projection-index.ts`) | the rows of the namespace: per document projection a marker and a row per slot | `replaceRevision`, `deleteRevision`, `pruneGraph` |
| **Turbopuffer client** (`storage/turbopuffer/client.ts`) | none; retries with classified outcomes | `write`, `query`, `multiQuery` |
| **Verified search** (`storage/turbopuffer/projection-search.ts`) | none; reads rows, then active revisions | semantic, text and hybrid candidate search |
| **Indexing workflow** (`indexing/projection-index.ts`) | none; delta plan against the active revision | `indexProjectedRevision` |
| **Prepared mutations** (`indexing/prepared-mutation.ts`) | a frozen list of replacements | `prepareGraphMutation`, `replayPreparedGraphMutation` |
| **Graph topology** (`storage/d1/runtime.ts`, `storage/postgres/runtime.ts`, `storage/in-memory.ts`) | nodes (referenced or materialised) and versioned edges | `replaceDocumentTopology`, `deleteNode`, `pruneTopology`, `listNodes`, `findRelatedNodes` |
| **PostgreSQL storage** (`storage/postgres/runtime.ts`, `connection.ts`) | revisions and chunks, member locks | transactional `replaceRevision`, `deleteRevision`, `pruneGraph`, search |
| **Document graph** (`graph/*.ts`) | the compiled schema | `index`, `remove`, `reconcile`, `nodes`, `neighbours`, `search`, `retrieve` |
| **Retrieval** (`retrieval/*.ts`) | none; pure ranking | routes, reciprocal rank fusion, evidence currency, filters |
| **Documents** (`document/*.ts`) | none; pure | identity, projection, chunking |
| **Request coalescer** (`storage/postgres/coalesce.ts`; used by `turbopuffer/projection-index.ts` and `projection-search.ts`) | open batches | `submit` |
| **Projection copy and mirror** (`storage/postgres/projection-index-copy.ts`, migration `0007`) | change records that a trigger writes | drain the recorded changes, copy a whole graph |

How they interact: `DocumentGraph.index` projects a document, calls
`indexProjectedRevision` for each projection, and replaces the topology last.
`indexProjectedRevision` loads the active revision, embeds what changed and
calls `ProjectionIndexStore.replaceRevision`. The Turbopuffer store reads the
head and the active revision from the coordinator, begins a publication (D1
allocates a generation and a lease), writes marker, slots and tombstones in one
conditional write, and finalises the lease. Searches read rows from Turbopuffer
and then check every candidate against the active revision in D1. A caller may
capture an indexing run as a prepared mutation and replay it from a durable
queue; retries are that caller's job (ADR 0002, section 6).

What is hard:

* **Interleaving.** `beginPublication` is up to five awaits (head, batch,
  cleanup, digest, head again). Other clients run in every gap.
* **Ambiguity.** A provider write that timed out may have happened, or may
  still happen after newer publications.
* **Crashes** between the grant of a lease, the write, and finalisation leave a
  pending publication that only an exact retry may resume.
* **Sharing.** Index generations of one database share mutation rows; pruning
  and collection of one must spare the others.
* **Content-addressed identity.** Mutation ids, tokens and digests are hashes
  of the plan, so that identical plans, and plans that differ only in their
  vectors, meet in the same rows.
* **Statements.** On PostgreSQL an operation is a transaction of several READ
  COMMITTED statements: each sees another snapshot, waits for other locks, and
  may be the victim of a deadlock.
* **Reads of several systems.** A search, a retrieval, a drain and a delta plan
  each read several things one after another while writers go on.
* **Shared requests.** Writes and searches that arrive together travel in one
  request, and each needs its own part of one answer.

What makes each part correct: the coordinator is a compare-and-set register
with exclusive, fenced leases and a bounded journal that never breaks a
reference; the store makes the provider show either the committed revision or
the pending one, whole; search never returns a mixture; the topology has no
dangling edges or orphaned placeholders; a workflow that fails half way
converges when it is retried.

## 2. Modules

Publication and its stores:

| Module | Models |
| --- | --- |
| `PublicationHead` | the shapes of heads and leases and the comparisons of `storage/publication-head.ts` that every coordinator makes |
| `LeaseRegister` | the abstract promise of a coordinator's heads: grant, install, retire |
| `PublicationCoordinator` | the D1 coordinator: tables as variables, each D1 batch and each read as one step, calls as program counters |
| `CoordinatorClients` | the D1 coordinator under the freest use its interface allows; shown to implement `LeaseRegister` |
| `LockedCoordinator` | the PostgreSQL coordinator statement by statement, with row locks and snapshots; shown to implement `LeaseRegister` |
| `ProjectionRegister` | the abstract promise of `ProjectionIndexStore` for one document projection |
| `TurbopufferPublication` | the Turbopuffer store, composed of the D1 coordinator, the workers and the provider; shown to implement `ProjectionRegister` |
| `VectorReuse` | where the vectors of a Turbopuffer publication come from, and what a replay reads back |
| `RetryingTransport` | one request of the Turbopuffer client with its retries |
| `RequestCoalescer`, `CoalescedWrites`, `CoalescedSearches` | the coalescer, and the two that hand its batches to the provider |

Topology and PostgreSQL:

| Module | Models |
| --- | --- |
| `LinkedDocuments` | the abstract promise of a graph topology store: a map from documents to their outgoing relations |
| `GraphTopology` | the D1 topology store: its write batches, its reads, and catalog walks; shown to implement `LinkedDocuments` |
| `InMemoryTopology`, `TopologyAdapters` | the in-memory topology store, and both adapters under the same calls |
| `PostgresTopology` | the topology transactions of PostgreSQL, statement by statement; its commits are compared with `LinkedDocuments` |
| `PostgresRevisions` | the PostgreSQL projection index and the delta indexing that uses it, for one projection of one document |
| `ProjectionMirror` | PostgreSQL's index mirrored to another index: trigger, drain and full copy |

Documents, workflows and searches:

| Module | Models |
| --- | --- |
| `DocumentProjection` | selection, chunking and identity: documents turned into revisions |
| `InMemoryIndex` | delta indexing over the in-memory projection index |
| `DocumentWorkflows` | index, remove, reconcile, prepare and replay as sequences of store calls that may fail |
| `PreparedArtifacts` | a prepared mutation captured, frozen, encoded, stored and decoded |
| `RankFusion`, `FusionOrder` | weighted reciprocal-rank fusion and what its order depends on |
| `SearchChannels`, `HybridSearch` | a search over two channels while the store publishes |
| `GraphRetrieval` | a retrieval policy: direct and relation routes, populations |
| `VerifiedSearch` | searches of the Turbopuffer namespace, verified against the coordinator or not |

`MC...` modules are instances for TLC, `..._proofs` modules hold theorems about the
module they are named after. `PublicationCoordinator_proofs` only has lemmas, which
`CoordinatorClients_proofs` and `TurbopufferPublication_proofs` share, and
`StoreClients_proofs` is about `VerifiedSearch`, `RetryingTransport`, `VectorReuse`,
`CoalescedWrites`, `DocumentWorkflows`, `InMemoryIndex` and `GraphRetrieval`.

### PublicationCoordinator

`heads`, `mutations` and `journal` are the three tables of
`migrations/d1/0002_projection_publications.sql`, restricted to one document
projection; `heads` has one row per index generation (`Partition`). A D1 batch
is a transaction, hence one action: `Begin` is the five statements of
`beginPublication`, `Finalize` and `Supersede` the four of the other two. The
statements keep their order inside the action, because pruning and collection
look at what the earlier ones wrote. A service call spans several actions:
`call[c]` holds the point it has reached, its intent and its lease, and the
result when it has returned. `issued` is a history variable: the leases ever
granted.

Abstracted: hashes are values that are equal exactly when the hashed content
is; chunks of a mutation are stored with it; timestamps, lease deadlines and
`head_version` are omitted, because no guard reads them (the comment at
`projection-publication.ts:473` says why). The count results of a commit are
left out.

### LeaseRegister and CoordinatorClients

`LeaseRegister` has three steps on a head. `Grant` accepts a publication planned
against the active token, under the next generation and a closure that only
grows; `Install` makes the pending publication active; `Retire` drops it.
Nothing else happens to a head, in whichever database and however many
statements it is kept.

Clients of the D1 coordinator ask for any of `Intents`, may finalise or supersede any lease ever
issued (so a lease is used twice, late, or by somebody else) and may stop at
any point (`Leave`). The only assumption is the one the hashes give: intents
with equal mutation id and digest agree in everything but the index generation
they are sent to.

### TurbopufferPublication

A worker runs `replaceAttempt` or `deleteAttempt`: the two concurrent reads
(`ReadToken`, `ReadSlots`), the plan and `beginPublication` (`Submit` and the
coordinator's own steps), the loop over stale plans (`Replan`), the conditional
write (`Send`, `WriteAnswered`), reconciliation by the marker (`AnswerLost`,
`Reconcile`), finalisation or retirement, and the answer. `rows[0]` is the
marker and `rows[s]` slot `s`; a row is represented by the lease whose
publication wrote it, from which its content follows. `sent` is the set of
leases with a request on its way: `WriteLate` applies any of them at any time,
again and again. `Prepare` captures requests as `indexProjectedRevision` makes
them; any captured request may be replayed for ever. `Abandon` is a crash, an
interruption or a call that failed without effect.

The refinement maps `active` to the head's active revision with its stored
inventory, `successor` to the pending publication and `visible` to the live
rows.

### GraphTopology

`nodes` and `edges` are the two tables of `migrations/d1/0001_graph_topology.sql`
for one graph. Each write is one D1 batch and one action
(`ReplaceDocumentTopology`, `DeleteNode`, `PruneTopology`); `Upserted`,
`Replaced`, `Stale`, `Orphans` are its statements, applied in the order of the
batch. Several manifests (`Manifests`) write to the same tables: an old and a
new deployment that disagree about the version of a relation. `counts` is a
history variable, the sum of the commit counts returned so far. `scan` is the
walk of a reader through `listNodes`: its filter, its cursor, the page it has
and the nodes it has seen; the history field `steady` holds the nodes that
matched its filter in every state since it began. `LimitedTo` is `ORDER BY`
with `LIMIT`.

Keys, primary and foreign, are left out on purpose: the invariants show that
no batch is refused by them and no deletion cascades. Requests that exceed a
capacity limit, or whose plan is invalid, return before the batch and change
nothing; they are not actions. The refinement maps a materialised node to its
set of outgoing edges and a referenced node to nothing, so that it also says
that referenced nodes carry no information.

### PostgresTopology

On D1 a write is one batch; on PostgreSQL the same write is a READ COMMITTED
transaction of several statements, and others commit between them. `nodes` and
`edges` are the committed tables; the other variables are what each session has
locked and written so far (`held`, `taken`, `gone`), what its running statement
still has to reach (`rows`, `picked`), and the statement it comes to (`at`).
A statement that can wait is split where it waits: the upsert takes one node
row at a time in key order (`UpsertNode`), the deletion of edges takes a
snapshot (`ScanEdges`) and then its rows in any order (`TakeEdge`), the
collection of orphans selects in one snapshot (`SelectOrphans`), locks what it
can (`LockOrphans`) and looks again in another (`CollectOrphans`). The rules of
PostgreSQL that matter are operators: what a statement sees (`NodesSeen`,
`EdgesSeen`), rows that went meanwhile are skipped (`Finish`), a changed row is
compared again but without a new snapshot for its subquery (`Lockable`), a
cycle of waiting sessions is broken by aborting one (`AbortVictim`).

The foreign keys, with their cascades, are left out on purpose, as above.
Statements that only touch rows which the session already holds are joined to
the one before. Only pooled connections are modelled; a caller-owned
transaction keeps its locks for longer than one operation.

### PostgresRevisions

`revision` and `chunks` are the rows of one document projection. An indexing
loads (`Load`), embeds what it cannot reuse (`supplied`), takes the member lock
(`LockMember`), reads and locks the row (`ReadCurrent`) and replaces it
(`Replace`); a deletion takes the same lock, a pruning does not: it finds the
row in its snapshot (`FindStale`) and waits for the row's own lock
(`RemoveStale`). A vector is represented by the profile and the content it was
computed from. `births` and `removals` are history variables that tell rows
with equal tokens apart.

### LockedCoordinator

The same three calls on PostgreSQL. `txn[c]` is what client `c`'s open
transaction has written and holds; the tables are what is committed, and a
statement sees them under the transaction's own writes. A step is one statement,
or several when later ones touch only rows that are locked already. `Blockers`
are the holders of a row that a statement needs: the head row, the mutation row
that a journal row or a head refers to (foreign-key locks), and rows that
collection deletes. A call may fail or lose its connection at any statement
(`Leave`), before its commit or after it, and collection looks at the snapshot
it takes, which may lack what others are about to commit.

### VectorReuse

An indexer plans against a snapshot and embeds what the snapshot lacks. The
store then reads the head, loads the vectors of unchanged texts back from the
provider's *live* rows (`loadReusableVectors`), and makes the publication's
digest from both. Each of these reads is a step of its own, and any earlier
command is replayed at any time. The coordinator answers in one step and a
publication lands whole, since two other modules are about how.

### RetryingTransport and the coalescers

`RetryingTransport` is one request: attempts go on the `wire`, from which the
provider may apply them now, later or never, also after the request has ended;
`ambiguous` remembers whether an outcome was unknown. `RequestCoalescer` has the
three callbacks JavaScript runs one at a time: submit, timer, settlement.
`CoalescedWrites` merges publications into one conditional write and tells each
how many of its rows were applied; it assumes that the provider refuses a write
that names one row twice, which only a document that is submitted twice in one
batch can bring about. `CoalescedSearches` packs searches into multi-queries of at most sixteen
subqueries, which are answered in any order.

### InMemoryTopology, TopologyAdapters and InMemoryIndex

The in-memory stores are synchronous calls on Maps. `TopologyAdapters` makes the
same call to D1 and to the in-memory store, whose Maps hold another graph as
well, and compares answers and reads. `InMemoryIndex` is the whole of
`indexProjectedRevision` over the in-memory index: load, plan, embed what is
missing (the provider may answer badly), and replace, with other fibers between
any two of these; also deletion and pruning.

### ProjectionMirror

`changes` are the records of the trigger, `target` the mirrored index with its
tokens. A drain reads a batch of records, then for each the revision row and the
chunk rows in *separate* statements, loads the target's token, writes, and
clears the record only if its sequence number is still the one it read. A copy
walks all revisions. Target calls are atomic; a run that crashes may leave one
last write on its way, which lands before the next run begins; one drain or copy
is at work at a time; and versions that the manifest does not know are cleared
without being copied.

### DocumentProjection

A text is a sequence of UTF-16 units, and SHA-256 is the identity on what is
hashed, so that equality of hashes is equality of everything hashed. Splitting
is step by step (`Cut` takes one piece), so that window, blank and surrogate
boundaries can be looked at. Custom chunkers answer from a set that includes
answers they should not give.

### DocumentWorkflows and PreparedArtifacts

A job is one operation on one document, repeated by its caller until it
succeeds. Stores are taken at their contract: a call is atomic, and a
replacement is refused unless the active token is the planned one. A call may
fail before or after its effect (`MaxFaults`), and `alone` records whether
another job wrote since the job planned. Tokens never repeat here, as in the
in-memory store; `PostgresRevisions` shows what it means when they do.
`AnswersReplays` says whether the index answers a mutation that is active
already, as the coordinators do and PostgreSQL's own index does not.

In `PreparedArtifacts` two runs of one program compute objects whose keys are in
any insertion order, capture them in any order, and freeze, encode and store
the result, which may be damaged before it is decoded.

### Search and retrieval

`RankFusion` keeps floating-point numbers in units of 2^-18 and rounds every
quotient and sum to `Precision` bits, ties to even, so that the rounding of IEEE
754 is part of what is checked. `SearchChannels` is one search of one projection
version; blank queries and unusable query vectors are one failure
(`EmbedFails`), each channel is read atomically, and filters are sets of accepted
metadata. `HybridSearch` puts publications between the reads, and verifies the
evidence later. `GraphRetrieval` has a direct route and a relation route, and
resolves populations in batches while relations change.
`VerifiedSearch` reads provider rows first and active revisions afterwards, over
documents that change as `ProjectionRegister` says. How a search is configured,
verified against the journal or not and under strong or eventual reads, is part
of its record and chosen when it is started.

## 3. Runs

A run is one question about one part of the system, or about several that share
it. An MC module may hold several small instances: it declares the variables of
all of them and a variable `part` that is chosen in the initial state and never
changes; each instance's actions are enabled in its own part only, and the
variables of the others stay `Unused`. A property of such a module says
`part = ... => ...` for each part it is about, and its parameters are checked by
the `ASSUME Parameters` of the module.

| Run | Question | Parts and bounds |
| --- | --- | --- |
| `coordinator_free_clients` | Do the D1 and the PostgreSQL coordinator implement a register of leases, and do their tables agree, when clients interleave, replay leases and crash? | 2 index generations, 3 publication ids, 2 clients, `Retained` = 1. D1: *rivals* (two rivals for an empty head, one plan in both generations, a wider successor, a deletion), *reused* (one mutation id with two digests, one plan beyond capacity). PostgreSQL: *generations* (plans that succeed each other in both generations), *twice* (a plan embedded twice, and rivals), *crowd* (3 clients, 2 publication ids) |
| `coordinator_reused_mutation` (violated) | Is a pending publication's mutation always stored with its own payload? | PostgreSQL, part *restaged*: 1 index generation, 4 publication ids, 2 clients, one plan embedded twice and a rival of it |
| `turbopuffer_store` | Does the whole store implement the register of a projection, with lost, late and duplicated writes? | 2 workers, 3 publication ids, revisions of 1 and 2 chunks, `MaxSlots` = 2, at most 2 prepared requests, 1 plan retry |
| `turbopuffer_liveness` | Does every pending publication end? | 2 workers, 2 publication ids, 1 prepared request, 1 plan retry |
| `turbopuffer_repeated_deletion` (violated) | Can an exact retry always resume what is pending? | as `turbopuffer_liveness` |
| `topology_tables` | Do topology stores implement documents with relations, are their catalogs complete, and do the adapters agree? | *tables*: 3 documents of 2 kinds, 3 relation definitions, two of them versions of one relation, 2 manifests. *catalog*: the same with 2 filters and pages of 1 node, 1 reader. *adapters*: the same calls to D1 and to the in-memory store, which holds a document of another graph |
| `postgres_topology` | Do transactions of several statements still act as whole operations, without node deadlocks or cascades, and is what they leave behind collected? | 3 documents, 2 versions of one relation, 2 manifests, 2 connections, at most 4 writes, any number of prunings. *crossing*: 8 kinds of writes, 1 lost connection. *shared*: the 4 writes around one shared target |
| `postgres_revisions` | Is the stored revision whole and replaced only as planned, and does an indexing that is run again end? | 2 workers, 3 revisions of 2 versions and 2 contents, 2 embedding profiles, 2 manifests, at most 4 operations |
| `postgres_tokens` (violated) | Do tokens prevent lost updates? | as `postgres_revisions` |
| `searches` | Is what searches return sound, explained and complete, and do their checks raise no false alarm? | *verified*: searches with and without journal, under strong and eventual reads, 2 documents, 3 revisions, 3 changes. *apart*, *at once*: hybrid searches, 2 documents of 2 parts, up to 2 publications, 3 targets, 3 strategies. *related*, *wide*: 3 sources, 2 goals, one change of relations, populations of up to 2, topology reads of 1 document. *fusion*: 2 streams over 3 keys, 3 pairs of weights, 5 bits |
| `requests_and_retries` | Is a request that shares a batch or is retried answered once, with its own result, and truthfully? Do retried workflows converge, and is what decoding accepts sound? | *collected*: 6 requests under 2 keys, batches of 3. *written*: 4 publications of 2 documents, one of them sent twice. *searched*: 4 searches of 1 or 2 subqueries, 3 to a request. *retried*: up to 3 retries. *compete*: 4 jobs of 2 manifests on one document, 1 fault. *replay*: a prepared mutation beside 2 jobs, 2 faults. *twins*, *damage*: artifacts of 2 and 3 programs |
| `indexing` | Do identities follow edits, do deltas suffice, do replays resume, and is a mirror current? | *texts*: all texts of ink, blanks and tabs up to 6 units, budgets 1, 2, 5, 6. *edits*: pairs of documents of up to 2 sections, 3 policies, faulty selectors and chunkers. *memory*: 2 workers, 2 graphs, 2 versions, 2 profiles, 4 operations. *reuse*: 2 workers, 2 revisions that share a text, 3 commands, 4 publications. *mirror*: 2 projections, 3 contents, 3 changes, batches of 1 |

### Bounds

Two clients are enough for the races of the D1 coordinator, because its guards
compare one call with one head and a third client only repeats the second; the
PostgreSQL coordinator has waits, so that *crowd* adds a third. Three
publication ids let a publication be retired, replaced and overtaken; revisions
of one and two chunks make the slot closure grow, be inherited, and be covered
by a narrower revision. `Retained` = 1 prunes on every second publication.
`PublicationId` also bounds the number of publications: when the ids are used up
a call can no longer begin a publication and is abandoned. Every other bound is
a constant named `Max...` and called a bound where it is declared.

The *tables* and *adapters* parts cut off no behaviour: their tables are finite. Three
documents give a source, a target and a bystander, one of them of another kind.
In *catalog* no work cites itself and one version of a relation is left out,
which leaves walks of several pages with writers before and behind the cursor.
Two PostgreSQL connections are enough for every pair of transactions, and four
writes build crossing relations, take them apart and let two of them meet.

In *texts* a budget of 1 cuts at every unit, 5 and 6 put blanks in and beside the
last part of the window in which the splitter looks for one. In *searches* contents
differ in which channel prefers them, a target may have more neighbours than are
read, and a population may be too large. Precision is 5 or 6 bits, coarse enough
for the sums of two streams to be rounded. In *mirror* three changes overtake a
drain between any two of its reads. In *reuse* four publications let a revision be
published, deleted, published again and replaced; with three, which an earlier
version of this run had, no token recurs.

Symmetry is over clients, workers, publication ids or documents, where the part
uses them alike, and never in runs with liveness properties. Deadlock is checked
except in `postgres_revisions`, `postgres_tokens`, `searches` and `indexing`, where
the system rests when its bounded operations are over; deadlock freedom of the
locks of `PostgresRevisions` is part of `IndexingEnds`.

### What they show

* `LeasesFenced`, `NoLostUpdate`: the head read before the D1 batch may be
  arbitrarily stale, but the UPSERT's guards suffice. In particular
  `finalizePublication` need not compare the token again.
* `PayloadIsCommitted`: with two digests of one mutation id, the stored payload
  is the one that was finalised.
* `ImplementsRegister` and `LockedImplementsRegister` (of the coordinators): both
  databases keep one register of leases, in one batch or in many statements.
* `TablesAgree`: references resolve and the active revision is readable, so
  collection in one index generation never removes what another one reads
  (mutants drop the journal, or the active heads, from the reference check); the
  journal and the head agree on what is pending; history keeps its bound.
* `LockedTablesAgree`: the same on PostgreSQL, where collection looks at a
  snapshot that lacks what others are about to commit; foreign-key locks are what
  keeps it from removing too much.
* `WaitsEnd`: no coordinator transactions wait for each other in a circle, although
  they lock heads, mutations and history in several statements.
* `CommittedIsSearchable`, `ProviderNeverRegresses`: late and duplicate writes
  never show anything but the active or the pending revision, whole.
* `PendingIsResumable`, `PendingResolves`: an exact retry finds its plan again
  and ends the pending publication, except for the deletion of section 5.
* `ImplementsRegister` of the store: all of it is one compare-and-set register.
* `GraphClosed`, `ImplementsLinked`: orphan collection of one document's batch
  over the whole graph takes nothing that another document still needs, a
  document that relates to itself stays materialised, and pruning by one
  manifest never takes another document away.
* `CountsAddUp`: what callers are told adds up to what is stored, although a
  replacement counts identities without versions and deletions count rows.
* `CatalogComplete`: a walk returns every node that was there throughout.
* `AdaptersAgree`: D1 and the in-memory store give the same counts and the same
  reads, with another graph in the same Maps; and cutting edges off before
  joining their nodes loses no neighbour, because no node can be missing.
* `EdgesAreAnchored` (PostgreSQL): the recheck under a new snapshot is what keeps
  orphan collection from cascading to an edge that was committed since.
* `NodeWaitsEnd`: key order makes waits for nodes acyclic, also together with
  member locks and edge rows: every circle of waiting sessions contains one whose
  waits are all for edge rows. Section 5 says which deadlocks remain. (That no node
  is waited for in any circle is true of two sessions and false of three: the third
  may wait for a node of a session that is in a circle of edge rows.)
* `CommitsAreWhole`: although statements of several transactions interleave,
  each commit replaces, deletes or prunes as `LinkedDocuments` says and does
  nothing else; a pruning may miss edges committed after its snapshot.
* `OrphansAreCollected`: SKIP LOCKED and concurrent writers leave orphans
  behind, and reconciliation collects them.
* `RevisionIsWhole`: vectors are reused from whatever is stored when the
  replacement runs, not from what the plan saw, and still fit.
* `WritesArePlanned`: a replacement takes the place of the row it was planned
  against, unless that row was removed since (`postgres_tokens` shows why the
  exception is needed), and pruning without the member lock never removes a
  version it has registered.
* `IndexingEnds`: an indexing conflicts only if another writer got through.
* `SearchesAreSound`: an answer verified against the journal holds only revisions
  that were active while the search ran, however old the provider's rows; an
  answer trusted to the provider mixes no two revisions of a document; and under
  strong reads verification fails only when a document of the answer is being
  changed.
* `NoFalseAlarms`: a hybrid search fails only because of a race with a publication,
  and where both channels are read at once not even then.
* `HitsAreCurrent`: hits are in scope and explained by what the channels returned,
  and evidence that is reported current is what is stored.
* `PopulationIsComplete`: a population resolved in batches misses no document that
  was related throughout, or fails; no document of it is crowded out by others.
* `ResultsAreRelated`: what is retrieved is in the population and explained by
  relations that existed while the retrieval ran.
* `OrderIrrelevant`: two fused streams may be given in either order and raising an
  item in one never lowers it, whatever rounding does. Section 5 says why two.
* `BatchesKeepApart`: each request is answered with its own result and run once; a
  publication is told exactly how many of its rows were applied and a merged
  write weakens no fence; a search fails only with its own subqueries.
* `DefiniteIsFinal`: a request reported as definitely not applied was applied by
  none of its attempts and never will be.
* `EveryRequestAnswered`: no request is left in a batch nobody flushes, and no
  retry goes on for ever.
* `EditsAreLocal`: editing one section keeps the identities and hashes of every
  other, identities within a revision are distinct, equal revision hashes mean
  equal revisions, and cutting loses nothing.
* `DeltasSuffice`: an indexer that sends only what its snapshot lacked, and was not
  overtaken, leaves every chunk with one vector, of its own text and profile, over
  both stores; its counts add up; it replaces only what it had seen.
* `ReplaysResume`: a command that is replayed while its publication is pending is
  given its lease, whatever rows are live by then; section 5 has the exception.
* `MirrorIsCurrent`: when no change is recorded and no drain at work, the mirror
  holds PostgreSQL's revisions, whatever changed between the reads of a drain and
  whichever writes failed or were cut off. Section 5 has what it does not say.
* `RetriesConverge`: a job that nobody disturbed since it planned leaves the whole
  document as its input says, over any prefix of earlier attempts, and a replay is
  not refused because of its own earlier attempt where the index answers replays.
* `DecodedIsSound`: whatever decoding accepts could have been prepared; encoding
  and decoding return what was prepared; equal work has equal artifacts whatever
  the order of capture and of keys; and what is prepared does not change with the
  application's objects.

### Fairness

`turbopuffer_liveness`: a worker's own next step is weakly fair, because the
runtime schedules fibers and D1 answers. Starting the retry of the pending
publication is strongly fair: the queue of ADR 0002 delivers it again until it
succeeds, whatever else the worker did in between. Answers stop being lost and
workers stop crashing eventually; without that no retry could ever be guaranteed
to finish. The formula is `<>[][Faultless]_vars` and not `<>[][~Fault]_vars`: a
call that ends normally leaves the same state as a crash, so the second would
forbid workers to end. Nothing is assumed about `Prepare`, fresh requests or late
writes.

PostgreSQL: each session's next statement is weakly fair, since a statement ends
when what it waits for is released, and so is the deadlock detector.
`OrphansAreCollected` also assumes that reconciliations go on, `IndexingEnds`
that callers go on after a conflict, as ADR 0001:204 tells them to. Both are
about what happens when the bounded writes have ended; neither says that one
writer gets through while others go on for ever.

`requests_and_retries`: timers fire, a provider's call settles (it answers, fails or times
out), and a client with a retry left makes its attempt. Nothing says that the
provider ever succeeds.

### Mutants

Each property has a mutant in `PROJECT.json`: a plausible bug in the code the
model translates (a dropped guard, an off-by-one, a missing reset), under
which TLC finds the property violated. The mutants are defined next to the
definitions they replace. Where a property has several parts, the modules hold
further mutants that break others of them. Type invariants (`TypeOK`) are proved for
the coordinators, the Turbopuffer store and the PostgreSQL topology and are not
among the properties of the runs.

## 4. Proofs

Checked by TLAPS for every value of the constants:

| Theorem | States |
| --- | --- |
| **D1 coordinator** (`CoordinatorClients_proofs`) | |
| `LeasesAreFenced` | `Spec => []LeasesFenced` |
| `NoUpdateIsLost` | `Spec => NoLostUpdate` |
| `CoordinatorIsTyped` | `Spec => []TypeOK` |
| `TablesStayInAgreement` | `Spec => []TablesAgree` |
| `PublishedIsCommitted` | `Spec => PayloadIsCommitted` |
| `ClientsImplementRegister` | `Spec => ImplementsRegister`: the batches implement `LeaseRegister` |
| **PostgreSQL coordinator** (`LockedCoordinator_proofs`) | |
| `CoordinatorIsTyped` | `LockedAssumption /\ Spec => []TypeOK` |
| `CommittedTablesAgree` | `LockedAssumption /\ Spec => [](ReferencesResolve /\ ActiveRevisionReadable /\ JournalMatchesHead /\ HistoryBounded)` |
| `TransactionsImplementRegister` | `LockedAssumption /\ Spec => ImplementsRegister`: so do the statements of its transactions |
| `WaitsAlwaysEnd` | `LockedAssumption /\ Spec => []WaitsEnd`, for any number of clients |
| **Turbopuffer store** (`TurbopufferPublication_proofs`) | |
| `StoreIsTyped` | `Spec => []TypeOK` |
| `WritesAreWhole` | `Spec => []WritesAllOrNothing` |
| `OnlyPastLeasesRetired` | `Spec => []FencedIsPast` |
| `StoreTablesAgree` | `Spec => []TablesAgree` |
| `CommittedStaysSearchable` | `Spec => []CommittedIsSearchable` |
| `PendingStaysResumable` | `Spec => []PendingIsResumable` |
| `RowsNeverRegress` | `Spec => ProviderNeverRegresses` |
| `StoreImplementsRegister` | `Spec => ImplementsRegister`: the store implements `ProjectionRegister` |
| **Searches, requests, deltas, workflows and populations** (`StoreClients_proofs`) | |
| `SearchesStaySound` | `SearchSpec => []SearchesAreSound` |
| `DefiniteStaysFinal` | `RequestSpec => []DefiniteIsFinal` |
| `ReplaysStayResumable` | `ReuseSpec => []ReplaysResume` |
| `QuietDeltasSuffice` | `ReuseSpec => [](QuietDeltaSuffices /\ OneVectorPerText)` |
| `VectorsStayKept` | `ReuseSpec => VectorsAreKept` |
| `BatchesStayApart` | `Spec => [](AnsweredByOwn /\ RunOnce /\ TimersFit)` of `RequestCoalescer` |
| `MergedWritesStayFenced` | `WritesAssumption /\ WritesSpec => [](RunOnce /\ AnswersAreTrue /\ MergedWritesKeepFences)` of `CoalescedWrites`, for batches of any size |
| `UndisturbedAttemptsConverge` | `WorkflowAssumption /\ Spec => []RetriesConverge` of `DocumentWorkflows` |
| `UndisturbedReplaysAreTaken` | `WorkflowAssumption /\ AnswersReplays /\ Spec => []ReplayNotRefused` |
| `MemoryDeltasSuffice` | `IndexAssumption /\ Spec => []DeltaSuffices` of `InMemoryIndex`, whatever the provider returns |
| `MemoryUpdatesAreKept` | `IndexAssumption /\ Spec => NoLostUpdate` of `InMemoryIndex` |
| `PopulationStaysComplete` | `RetrievalAssumption /\ Spec => []PopulationIsComplete` of `GraphRetrieval`, for any limits |
| **Topology on D1 and in memory** (`TopologyAdapters_proofs`) | |
| `TopologyIsClosed` | `Spec => []GraphClosed` |
| `TopologyImplementsLinked` | `Spec => ImplementsLinked`: the batches implement the map of `LinkedDocuments` |
| `CatalogIsComplete` | `Spec => [](CatalogComplete /\ CatalogAscends)` |
| `CountsStayTrue` | `Spec => [](EdgesKeyed /\ CountsAddUp)` |
| `AdaptersStayAlike` | `BothSpec => []AdaptersAgree` |
| **PostgreSQL topology, revisions and mirror** (`PostgresTopology_proofs`, `PostgresIndex_proofs`) | |
| `TablesAreTyped` | `Spec => []TypeOK` |
| `EdgesStayAnchored` | `Spec => []EdgesAreAnchored`, for any number of sessions |
| `NodeWaitsAlwaysEnd` | `Spec => []NodeWaitsEnd`, for any number of sessions |
| `CommitsStayWhole` | `Spec => CommitsAreWhole` |
| `RevisionStaysWhole` | `Spec => []RevisionIsWhole`, for any number of workers |
| `WritesStayPlanned` | `Spec => WritesArePlanned` |
| `MirrorStaysCurrent` | `OneRunner /\ MirrorSpec => []MirrorIsCurrent`, for batches of any size |

### The D1 coordinator and its clients

`LeasesFenced` is not inductive: whether a newly granted generation is fresh
depends on what the head's pending publication looks like, and whether a
finalised lease is the current one depends on what clients hold in their
calls. `PublicationCoordinator_proofs` states the strengthening
(`CoordinatorInv`): heads and leases have numeric generations and closures,
leases are fenced, a lease that can be finalised was planned against the token
that is active now, and every intent in a call satisfies the assumption on
intents. The module proves, one lemma per batch, that begin, finalise and
supersede preserve it, and is independent of who drives the coordinator.
`NoLostUpdate` follows from it step by step: only `Finalize` changes the active
revision, and what it installs is a lease that matches the pending publication.

`TablesAgree` needs more (`TablesInv`): every row of the journal, every pending
publication and every stored mutation is the image of a lease that was issued
(`RowsInv`), each call holds only such leases (`LeasesInHand`), and intents with one
mutation id and digest agree in what the tables keep of them (`IntentsAgree`).
That history keeps its bound is arithmetic on finite sets: what a batch keeps has
fewer than `Retained` newer rows in its partition, and generations order them
(`NewestFew`, by their least element). The refinement cites the cases
of the same lemmas: a batch that allocates is `Grant`, one that finds its lease
pending is `Install` or `Retire`, and every other leaves the heads as they are.

### The PostgreSQL coordinator

One statement of a transaction relies on what earlier statements found, while others
commit. `LockedInv` says why it may: whoever is going to write a head holds the lock of its
row and has seen it as it is; whoever found its lease lost holds no lock and
writes nothing; two transactions never hold one head, nor stage one mutation; and
a mutation that one is about to delete is referred to in nothing it sees and
shared by nobody else. The last is what makes collection safe although its
snapshot may be old: what others commit meanwhile refers to what was
referred to before, or to rows they have locked by foreign keys.

`WaitsEnd` says that each set of clients has one that waits for nobody in it. Those that
delete collected mutations are looked at first: `NoCircle`, which is part of
`LockedInv`, says that whoever deletes waits for those that shared its rows since its
snapshot, and never the other way round. Without them, whoever holds the lock of a
head waits for nobody, and whoever has staged a mutation waits only for such a lock.

`LockedAssumption` is what the hashes give: a mutation id is the hash of the plan with
its closure, and the token of a revision is named after it
(`turbopuffer/projection-index.ts:376`, `1150`), so that equal ids have equal operation,
token, revision and closure, but not equal digests. The run `coordinator_free_clients`
checks these formulas on its instances, through `LockedTablesAgree`,
`LockedImplementsRegister` and `WaitsEnd` of `MCCoordinators`; the theorems state them
of the module itself.

### The Turbopuffer store

`StoreInv` adds to the coordinator's invariants what relates them to the provider. The
namespace is the image of *one* publication (`NamespaceInv`: `rows = Image(m)`), which
is the pending or the active one, and every other lease ever issued has been *passed* by
the generation of the marker. A conditional write, however late, therefore finds rows that
are all as old as its own or older, and replaces them by its image, or is fenced off by
every row it names (`WriteCases`). Each intent is what planning made
of some request (`IntentsPlanned`), so that an exact retry plans what is pending; plans
are never made against their own token (`TokensInv`), which leaves deletions as the only
exception of `PendingIsResumable`. What a worker has found out about its own lease, that
it was passed or overtaken, stays true whatever others do (`WorkerInv`).
The refinement needs nothing more: a grant is `Accept`, the write that first shows the
pending publication is `Show`, finalisation is `Commit`.

### Searches

`SearchInv`: what any query can see of one document was written by one publication;
whatever is active when an answer is verified is among what was active since
its query; and a document that nobody changes shows exactly its active rows. The
first gives whole answers whether or not they are verified, however old the
provider's rows; verification gives the second; and the third is why a strong
query of documents at rest passes it. `VerifiedSearch` takes documents to change as
`ProjectionRegister` says, which `StoreImplementsRegister` proves of the store. No
constant fixes the configuration, so that searches of every kind run side by side.

### Requests and the reuse of vectors

`DefiniteIsFinal` relates what a client was told to what is still on its way. Its
invariant (`RequestInv`) says that while no outcome was ambiguous every attempt but the
one being sent was refused, and a refused attempt is neither on the wire nor applied;
an ambiguous outcome is never forgotten, whatever later attempts answer.

`ReuseInv` orders publications by their generation: what was sent is active, pending, or
too late to land, because what is live is not older than what is active (`Ordered`). So
the live rows are those of the active or of the pending publication. A command's token
names a publication not after the active one, and what it reads back is not before
that one (`Commanded`); so a pending publication has the active one's vector of every
text that both have (`Reusing`), and a replay that reads *either* gets the same, which
is `ReplaysResume`. The attempt at the proof showed that the mutation's id names content:
after a deletion the same publication may be made again with other vectors, and what
was planned against the first may be started against the second. The properties
therefore except tokens that have recurred (`Recurred`), and section 5 has what
happens then.

### Shared batches and workflows

A coalescer keeps a request in one open or running batch at most, as long as it has no
answer (`BatchesInv`): batches that run have no request in common, so that each request
is run once and answered from its own place. `WritesInv` adds what the rows of merged
writes are. All live rows of a document come from one publication that has taken all of
its rows (`OneHolds`); so a later one is admitted by every row or by none
(`AllOrNothing`), although the fence is evaluated row by row. The documents of a batch
differ, or the provider refuses it, so that the rows which the provider counts are those
of the publications it admitted, and a publication finds its own among the ids or none
of them. `WritesAssumption` is what the leases of `TurbopufferPublication` guarantee: no
fewer slots than an older lease of the document, and one publication to a generation.

`FlowInv` says what a job that nobody has disturbed has behind it: the projections up to
its position are as it wrote or found them, and the plans it has captured hold their
tokens. A replay installs plans that are of distinct projections, so that none
invalidates another; a plan that is installed already is answered, or is refused, and
then another attempt begins. What the plans do not name had its content when the job
looked, and only a rival can have changed it. The theorems hold over indexes of both
kinds, but that a replay is *taken* needs `AnswersReplays`. `WorkflowAssumption` is what
the schema compiler guarantees, that a manifest names a projection once.

### Indexing into memory, and populations

`MemoryInv` relates a fiber to the store. The sequence of tokens only grows and is never
set back, so a revision that is stored under the token of a fiber's snapshot is the one
the fiber has read (`SnapshotHolds`); over PostgreSQL, where an insertion after a deletion
gets the token 1 again, this is what fails (section 5). What a fiber asks the provider for
is what its content lacks in the snapshot (`EmbeddingsHold`), and an answer is only used
when it is of just those contents; so the plan has a vector for each (`DeltaIsWhole`). It
is the vector of that content, since each stored row has the vectors of its own content
(`RowOK`). `IndexAssumption` is that a revision has finitely many chunks.

`PopulationInv` says of a population that is being resolved that all sources which have
been related to a target *all along* are found once the target is read. A read asks for
the limit, and one that returns fewer has left nothing out (`FirstIsAll`, by the least key
that would be missing); one that returns as many fails the population. `RetrievalAssumption`
has the keys ordered and their number finite.

### The topology on D1

`GraphClosed` is inductive with the type of the tables. Its proof separates
what a batch writes from the orphan collection that ends it: each write leaves
*anchored* tables (edges start at materialised nodes and end at nodes), and
sweeping anchored tables closes them and keeps exactly the materialised nodes.
The refinement cites the same lemmas for what each write does to outgoing
edges. The proof about walks strengthens its two properties by what a reader
under way knows (`ScanInv`): its pages ascend up to the cursor and hold every
steady node up to there; a write only takes nodes out of the steady ones. It
assumes that documents are finitely many numbers (keys are ordered) and that
the page limit is positive (`TopologyAssumption`).

`CountsAddUp` counts what a replacement removes by id and target and what it leaves by
row. The two agree because rows that share an identity pair up one to one as long as both
are keyed by it (`EdgesKeyed`): the proof gives the bijection. It uses that a manifest has
finitely many relations, which is part of `TopologyAssumption`.

`AdaptersAgree` follows from `MapsHold`: the in-memory Maps are images of the tables, each
row under its key, together with rows of the other graph that no call touches. Each
operation keeps the images, and each answer and read is computed from them alike. That
an edge cut off before its node is joined loses nothing uses `GraphClosed` of the tables.

### PostgreSQL's topology and revisions

`EdgesAreAnchored` says nothing about locks, and it is the locks that keep it.
`PostgresTopology_proofs` strengthens it (`Locking`): no two sessions hold one
node; a replacement past its upserts holds its source and every target; a
deletion past its lock holds its node; what a session is about to delete is
held by it and, once its statement has run, has no committed edge that the
session has not deleted itself (`GoneIsDetached`, `DeletionReaches`). A commit
of another session cannot add an edge to such a node, because it would hold the
node too. `Locking` was checked with TLC before it was proved. It assumes only
`PostgresAssumption`.

`Progressing` adds what a session has done by the statement it is at: it deletes edges of
its own job only and misses none of its source, it collects references only, and
its upserts lock nodes in ascending order. With it each commit is one operation of
`LinkedDocuments` (`CommitsAreWhole`), and waits for nodes end: among waiting sessions none of
which deletes edges, the one that awaits the greatest node waits for a session that holds
it and awaits a greater one. `NodeWaitsEnd` as it was first stated,
that no circle contains such a wait, could not be proved; TLC refuted it with three
sessions, and it says now what holds of any number (section 3).

`RevisionIsWhole` is strengthened (`Kept`) by what a replacement relies on
between its checks and its writes: there is one row at most, one worker holds
the member lock, and a plan that was found complete stays complete, because
whoever could change the row waits for the member lock or for the row.
`WritesArePlanned` needs the age of tokens as well (`PlansHold`): while no row is removed
the row is what a worker loaded or has a newer token, so that a match of tokens is a
match of rows, until the replacement has the lock that keeps it so.

### The mirror

`MirrorInv` says that a projection without a record is matched by the target, or has
not been copied by any copy yet. What makes it inductive is what a run knows of the
projections of its batch (`RunHolds`): as long as the record is the one that it read
(`StillAs`), or no record has come up in a copy, the row and the chunks it has read are
PostgreSQL's; the token it holds is the target's, since it runs alone; what it has
written without failure matches; and a copy has taken over all keys it has passed. A
change makes a new record, so that all of this is claimed of fewer projections. Row and
chunks may be of two revisions only where the record was renewed in between, or the
projection was given the row's revision again (`restored`). That pages come in ascending
order and end at their greatest key is proved of `First` by well-founded orders
on the naturals and on finite sets. `OneRunner` is what operations have to ensure
(section 5): nothing in the code keeps two drains apart. The invariant was checked with
TLC, with batches of one and of two, before it was proved.

### Only model-checked

* `LockedTablesAgree` and `WaitsEnd` are proved of the definitions of
  `LockedCoordinator` (`CommittedTablesAgree`, `WaitsAlwaysEnd`), while the run states
  them of its instances;
* `BatchesKeepApart` and `RetriesConverge` are proved of the coalescer, of merged writes
  and of workflows, while the run states them of its instances, together with how
  searches are packed into requests (`CoalescedSearches`), which is not proved;
* `EditsAreLocal`, `OrderIrrelevant` and `DecodedIsSound`, and that packing: how texts are
  cut, how ranks are summed and how artifacts are encoded are folds over sequences or
  recursive definitions, where a proof needs induction over data, which is out of the
  prover's reach;
* `DeltasSuffice` and the first half of `PopulationIsComplete` are proved of the
  in-memory index, of the reuse of vectors and of retrieval, while the runs state them of
  their instances; that what callers of the in-memory index were told adds up to what it
  stores (`CommitsAddUp`) is a sum over sets, which is not proved;
* `NoFalseAlarms` and `HitsAreCurrent` of hybrid searches, `ResultsAreRelated` and
  `NotCrowdedOut` of retrieval: they are about the outcome of sorting, flattening
  and filtering sequences, whose definitions are recursive;
* liveness (`PendingResolves`, `OrphansAreCollected`, `IndexingEnds`,
  `EveryRequestAnswered`), which is out of its reach as well.

## 5. Findings and observations

**A repeated deletion can stay pending for ever** (`RetryFinishes`, run
`turbopuffer_repeated_deletion`). Two workers delete a document that was never
projected in this generation. Both find no head and go on to the batch, with
the same content-addressed mutation id. The first publishes and commits. The
UPSERT of the second still matches, since the token it expects and the active
token are both NULL, and it allocates a new pending publication of the
mutation that is active by now. Should that worker stop before it finalises,
`beginPublication` answers every retry with `AlreadyCommitted`
(`d1/projection-publication.ts:875`) before it compares the pending
publication (line 894), and refuses every other mutation as
`publication_in_progress`: the document can no longer be indexed. ADR 0002
(lines 211-212) promises that retrying the exact mutation finishes the
publication. `PendingIsResumable` and `PendingResolves` state that this is the
only exception: every other pending publication is resumable and ends.

**Tokens do not survive a deletion** (`TokensPreventLostUpdates`, run
`postgres_tokens`). PostgreSQL counts `revision_token` up from the stored row
and gives an absent row the token 1. An indexing that loaded token 1 and was
still embedding while the projection was deleted (or pruned) and indexed again
finds token 1, is accepted, and replaces a revision it has never seen, without
`ProjectionIndexConflict`. ADR 0001:212 says "PostgreSQL projection tokens
prevent lost projection updates." The in-memory store draws its tokens from
one sequence that never starts again. The replaced revision is whole all the
same (`RevisionIsWhole`).

**A reused mutation id may be published with another payload**
(`ReusedPayloadRejected`, run `coordinator_reused_mutation`). On PostgreSQL
`beginPublication` stages its mutation with ON CONFLICT DO NOTHING
(`postgres/projection-publication.ts:499`) and compares the stored digest with its
own (line 513). A row that was there already stays unlocked until the head is
updated, and the head's foreign key names the mutation id alone. In between a rival
may supersede, retire the history that refers to the row, collect it (line 858), and
stage the same id with another payload, after which the first transaction publishes
its own digest over the rival's payload.
`tests/support/projection-publication-coordinator-suite.ts:329` says that the
coordinator "rejects a mutation ID reused with a different payload". It takes a plan
embedded twice, `retainedPublicationHistory` = 1 and four publications of one
document; with three ids TLC finds none. The D1 coordinator compares the digest in
the batch that allocates, where `PayloadIsCommitted` holds and is proved.

Observations that are not findings:

* Two prunings, or a pruning and a replacement or deletion, may delete the same
  edge rows in different orders and wait for each other; PostgreSQL then aborts
  one of them. Node rows are never part of such a circle (`NodeWaitsEnd`).
* An unreferenced node may stay although nobody skipped it: when two writers
  drop the last two references at once, each still sees the other's.
* `pruneGraphInTransaction` and `deleteRevisionInTransaction` count in one
  statement and delete in the next, so that a concurrent commit can make the
  reported counts differ from what was deleted.
* A rejected call can report `ProjectionIndexConflict` although nobody
  replaced the projection: its batch met a pending publication which ended
  before the second head read. The caller replans, so that only the message is
  inexact.
* Finalising a retired D1 lease whose mutation became active again through
  another publication marks the old journal row committed instead of
  superseded (the journal statement compares the mutation, not the
  publication). Nothing reads that status.
* Tokens name content, not events: create, delete and the same create again
  yield the same token, so a duplicate delivery of the first create that
  arrives after the deletion is accepted. The register promises no more than
  compare-and-set on tokens.

The following are shown by properties that are defined in the modules and that no
run checks, because they do not hold. Each says with which constants TLC shows it.

* **A committed replay may be refused while it waits.** `CommittedReplayAnswered`
  (`LockedCoordinator`, part *generations*): ADR 0002
  (lines 201 and 208) says that an exact committed replay reads the original
  outcome. On PostgreSQL `lockHead` joins the head to its active mutation
  (`postgres/projection-publication.ts:544`): a call that waited for the row gets
  the newest head, but the mutation from its older snapshot. A mutation that
  became active meanwhile is missing from it, so the replay is not recognised
  and is answered as a conflict, or fails. Nothing is written, and a retry
  succeeds.
* **A replay over PostgreSQL's own index conflicts with itself.**
  `ReplayNotRefused` (`DocumentWorkflows`, part *replay* with `AnswersReplays`
  FALSE): after an attempt that committed its first replacement and then failed,
  the replay finds a token that is not the planned one, and is refused for good.
  `README.md:1008` and ADR 0001:336 offer pooled replay for convergent
  publication over any storage; over this one the caller has to prepare again.
* **Three fused streams depend on their order.** `SameAnswer` (`FusionOrder` with
  three weights): `rank-fusion.ts:159` adds contributions in the order of the
  streams, and floating-point addition is not associative, whereas the comment at
  line 94 says that stream order cannot affect output order. Two streams commute.
* **A source related to many targets may miss the one in scope.** `NotCrowdedOut`
  (`GraphRetrieval` with `NeighboursPerSource` = 1): a relation route takes the
  first `neighboursPerSource` targets of a source (`document-graph.ts:2259`) before
  it keeps those in scope, although `README.md:727` says that such a source ranks
  only the ones in scope. The run's instance reads all neighbours of a source,
  where the property holds.
* **A cut may split a character.** `HashIsExact` (`DocumentProjection` with texts of
  surrogates): `chunking-strategy.ts:208` slices UTF-16 units; a lone surrogate is
  hashed as U+FFFD, so that chunks of different text have one content hash, which
  `document-identity.ts:43` calls the digest of the exact text.
* **A delta that was overtaken is reported as invalid.** `OvertakenIsConflict`
  (`VectorReuse`): the vectors a delta counted on are gone when the store reads
  live rows, and the caller is told `invalid_replacement`
  (`turbopuffer/projection-index.ts:1099`) rather than a conflict, which ADR 0001:204
  tells it to retry.
* **A replay may be refused after its revision was deleted and indexed again.**
  `ReplaysAlwaysResume` (`VectorReuse` with the constants of the run): the mutation id
  and the token of a publication are hashes of what is published
  (`replacementIdentity`, `turbopuffer/projection-index.ts:368`), without its vectors.
  A worker that has read the live vectors of a revision, which is then deleted and
  published again with vectors embedded anew, begins its publication against the
  recurred token with the old ones. Whoever replays that command reads back the new
  vectors (`loadReusableVectors`, line 256), gets another digest and is refused, whereas
  ADR 0002:205 lets the exact prepared mutation resume. It takes embeddings that differ
  from call to call; replays that supply every vector are not affected.
* **A mirror may keep chunks of another revision.** `RestoredIsCurrent`
  (`ProjectionMirror`): a drain reads the revision row and the chunk rows in two
  statements (`projection-index-copy.ts`), so that the target may get the hash of one
  revision with the chunks of the next. The next drain repairs that, unless the
  projection has been given the first revision again by then: the hash is the
  same, and the copy is taken for current.
* **Mirrors need one runner.** `MirrorIsCurrent` with two runners: a drain loads the
  target's token after it has read the source, so that an older copy may overwrite
  a newer one. A drain with an older manifest also clears changes of versions it
  does not know. And a drain that stops in the middle of a Turbopuffer publication
  has left it pending; once the source has changed again, no later drain can retry
  that plan, and the change stays recorded.

Also:

* A prepared mutation captured when its projections had not changed holds only the
  topology, and its replay compares no token: the last replay wins, as documented.
* A removal that races an indexing may leave projections of a document without a
  node; the next reconciliation of either caller ends that.

## 6. Plan

Done: the publication stack (D1, PostgreSQL and Turbopuffer), the topology stores,
PostgreSQL's revisions and mirror, the in-memory stores, the requests to the
provider, documents, deltas, workflows, prepared mutations, searches, fusion and
retrieval; and the proofs of section 4.

Left, most important first:

1. Proofs about the results of retrieval and of hybrid searches (`ResultsAreRelated`,
   `NoFalseAlarms`), from stated facts about sorting and fusion.
2. Caller-owned PostgreSQL transactions, whose savepoints keep locks for longer
   than one operation, and the counts that PostgreSQL's writes report.
3. `searchWithin` handles and grounding for prompts.
4. Type correctness of `PostgresRevisions`.

### Not modelled

* Hashing, row encoding, request shapes, namespaces and vector formats, the
  compilation of queries and filters, and how text matches: computation without
  state, which the models replace by values that are equal when their inputs are.
* Ranking inside the provider or the database, and vector index building.
* Embedding providers: what they answer is a choice of the models, bad answers
  included; how requests to them are batched is left out.
* Schema decoding, and the types that a document graph's definitions compile to.
* Migrations other than the constraints and the trigger named above, lint rules,
  generated tables, conformance suites, examples and benchmarks.

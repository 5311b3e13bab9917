---------------------------- MODULE InMemoryIndex ----------------------------
(***************************************************************************)
(* Delta indexing (indexing/projection-index.ts) over the in-memory         *)
(* projection index (storage/in-memory.ts), whose calls are atomic: between  *)
(* the call that loads a snapshot and the one that replaces the revision an   *)
(* embedding provider is asked, and others index, delete and prune.          *)
(*                                                                         *)
(* A content stands for its hash, a vector for what it was computed from,    *)
(* and a revision for its own hash, which tells revisions apart.             *)
(***************************************************************************)
EXTENDS Integers, Sequences, FiniteSets, SequencesExt, FiniteSetsExt, Functions

CONSTANTS
  Worker,     \* fibers that index, delete or prune
  Key,        \* document projections: [graph, kind, projection]
  Revisions,  \* [version, chunks], with the content of each chunk
  Profile,    \* embedding profiles
  Manifests,  \* [graph, registered] of deployments that prune
  MaxStarts   \* BOUND on the operations that are started

IndexAssumption ==
  /\ MaxStarts \in Nat
  /\ \A r \in Revisions : IsFiniteSet(DOMAIN r.chunks)

VARIABLES
  revisions,      \* by key, Option of the stored revision
  tokenSequence,
  fiber,          \* by worker, what it does: [at, task, snapshot, embeddings]
  starts,
  replaced,       \* history: the replacements there were
  told,           \* history: chunks inserted less chunks deleted, as reported
  refused         \* history: whether a replacement was refused as invalid

vars == <<revisions, tokenSequence, fiber, starts, replaced, told, refused>>

None == {}
Some(x) == {x}
The(option) == CHOOSE x \in option : TRUE

VectorOf(profile, content) == [profile |-> profile, content |-> content]
Garbage == [profile |-> "none", content |-> "none"]

\* A fiber at work has a task, loads a snapshot and is given embeddings.
Idle == [at |-> "idle", task |-> None, snapshot |-> None, embeddings |-> <<>>]
At(w) == fiber[w].at
Task(w) == The(fiber[w].task)
Snapshot(w) == fiber[w].snapshot
Embeddings(w) == fiber[w].embeddings
Goes(w, next) == fiber' = [fiber EXCEPT ![w] = next]

Init ==
  /\ revisions = [k \in Key |-> None]
  /\ tokenSequence = 0
  /\ fiber = [w \in Worker |-> Idle]
  /\ starts = 0 /\ replaced = 0 /\ told = 0 /\ refused = FALSE

Stored(w) == revisions[Task(w).key]
ChunksOf(rows) == UNION {DOMAIN r.vectors : r \in rows}
-----------------------------------------------------------------------------
(* indexProjectedRevision.                                                 *)

BeginIndex(w) ==
  /\ At(w) = "idle" /\ starts < MaxStarts
  /\ starts' = starts + 1
  /\ \E k \in Key, r \in Revisions, p \in Profile :
       Goes(w, [Idle EXCEPT !.at = "load", !.task = Some([key |-> k, rev |-> r, profile |-> p])])
  /\ UNCHANGED <<revisions, tokenSequence, replaced, told, refused>>

\* snapshotProvesRevision.
Proves(rows, rev, profile) ==
  \E r \in rows : r.rev = rev /\ r.profile = profile /\ r.contents = rev.chunks

\* Mutant of ReusableContent: vectors are reused across embedding profiles.
ReusableContentOfAny(rows, profile) == UNION {Range(r.contents) : r \in rows}

\* The contents whose vectors the store can reuse.
ReusableContent(rows, profile) == UNION {Range(r.contents) : r \in {x \in rows : x.profile = profile}}

Requests(w) == Range(Task(w).rev.chunks) \ ReusableContent(Snapshot(w), Task(w).profile)

\* loadRevisions returns a copy of what is stored.
Load(w) ==
  /\ At(w) = "load"
  /\ Goes(w, IF Proves(Stored(w), Task(w).rev, Task(w).profile) THEN Idle
             ELSE [fiber[w] EXCEPT !.at = "embed", !.snapshot = Stored(w)])
  /\ UNCHANGED <<revisions, tokenSequence, starts, replaced, told, refused>>

\* What the provider may return: what it was asked for, or less, more, an item
\* twice, or a vector that is none.
Embedded(w, contents) ==
  [i \in 1..Len(contents) |->
     [content |-> contents[i], vector |-> VectorOf(Task(w).profile, contents[i])]]
Outputs(w) ==
  LET right == Embedded(w, SetToSeq(Requests(w)))
  IN  {right} \union
      IF right = <<>> THEN {}
      ELSE {Tail(right), Append(right, Head(right)),
            [right EXCEPT ![1].vector = Garbage]}
           \union {Append(right, Embedded(w, <<c>>)[1]) :
                     c \in UNION {Range(r.chunks) : r \in Revisions} \ Requests(w)}

\* Mutant of ValidOutput: it is not noticed that a content is missing.
ValidOutputOfSome(requests, output) ==
  /\ \A i \in DOMAIN output : output[i].content \in requests /\ output[i].vector # Garbage
  /\ \A i, k \in DOMAIN output : output[i].content = output[k].content => i = k

\* validateEmbeddingOutput.
ValidOutput(requests, output) ==
  /\ \A i \in DOMAIN output : output[i].content \in requests /\ output[i].vector # Garbage
  /\ \A i, k \in DOMAIN output : output[i].content = output[k].content => i = k
  /\ requests = {output[i].content : i \in DOMAIN output}

\* The provider is only asked when there is something to embed.
Embed(w) ==
  /\ At(w) = "embed"
  /\ \E output \in Outputs(w) :
       Goes(w, IF ValidOutput(Requests(w), output)
               THEN [fiber[w] EXCEPT !.at = "replace", !.embeddings = output] ELSE Idle)
  /\ UNCHANGED <<revisions, tokenSequence, starts, replaced, told, refused>>
-----------------------------------------------------------------------------
(* replaceRevision.                                                        *)

TokenOf(rows) == {r.token : r \in rows}

\* Mutant of ExpectedTokenMatches: no expectation is no objection.
ExpectedTokenMatchesOrNone(w) ==
  TokenOf(Snapshot(w)) = {} \/ TokenOf(Stored(w)) = TokenOf(Snapshot(w))

ExpectedTokenMatches(w) == TokenOf(Stored(w)) = TokenOf(Snapshot(w))

\* Stored vectors of the same profile, and over them the ones that were sent.
\* Content hashes stand for the vectors of the chunks that share them.
ReusableVectors(w) ==
  UNION {{[content |-> r.contents[c], vector |-> r.vectors[c]] : c \in DOMAIN r.contents} :
           r \in {x \in Stored(w) : x.profile = Task(w).profile}}
Vectors(w) ==
  LET sent == ToSet(Embeddings(w))
  IN  sent \union {v \in ReusableVectors(w) : \A s \in sent : s.content # v.content}

\* planProjectedRevisionReplacement.
Plannable(w) ==
  /\ ValidOutputOfSome(Range(Task(w).rev.chunks), Embeddings(w))
  /\ Range(Task(w).rev.chunks) \subseteq {v.content : v \in Vectors(w)}

\* Mutant of Token: counted for each key.
TokenOfKey(w) == IF Stored(w) = None THEN 1 ELSE 1 + The(TokenOf(Stored(w)))

\* A token is never given twice, whatever was deleted.
Token(w) == tokenSequence + 1

\* Mutant of Count: what a chunk id held before is taken for gone.
CountByContent(w) ==
  Cardinality(DOMAIN Task(w).rev.chunks)
    - Cardinality({c \in ChunksOf(Stored(w)) : c \notin DOMAIN Task(w).rev.chunks
                     \/ \E r \in Stored(w) : r.contents[c] # Task(w).rev.chunks[c]})

\* countProjectedRevisionReplacement: inserted less deleted chunk ids.
Count(w) ==
  Cardinality(DOMAIN Task(w).rev.chunks \ ChunksOf(Stored(w)))
    - Cardinality(ChunksOf(Stored(w)) \ DOMAIN Task(w).rev.chunks)

\* After a conflict the caller indexes the document again.
ReplaceRevision(w) ==
  /\ At(w) = "replace"
  /\ IF ~ExpectedTokenMatches(w)
     THEN /\ Goes(w, [Idle EXCEPT !.at = "load", !.task = fiber[w].task])
          /\ UNCHANGED <<revisions, tokenSequence, replaced, told, refused>>
     ELSE /\ Goes(w, Idle)
          /\ IF ~Plannable(w)
             THEN refused' = TRUE /\ UNCHANGED <<revisions, tokenSequence, replaced, told>>
             ELSE /\ tokenSequence' = tokenSequence + 1
                  /\ replaced' = replaced + 1
                  /\ told' = told + Count(w)
                  /\ revisions' = [revisions EXCEPT ![Task(w).key] = Some(
                       [token |-> Token(w), birth |-> replaced + 1, rev |-> Task(w).rev,
                        profile |-> Task(w).profile, contents |-> Task(w).rev.chunks,
                        vectors |-> [c \in DOMAIN Task(w).rev.chunks |->
                          (CHOOSE v \in Vectors(w) : v.content = Task(w).rev.chunks[c]).vector]])]
                  /\ UNCHANGED refused
  /\ UNCHANGED starts
-----------------------------------------------------------------------------
(* deleteRevision and pruneGraph.                                          *)

Start == starts < MaxStarts /\ starts' = starts + 1

DeleteRevision(k) ==
  /\ Start
  /\ told' = told - Cardinality(ChunksOf(revisions[k]))
  /\ revisions' = [revisions EXCEPT ![k] = None]
  /\ UNCHANGED <<tokenSequence, fiber, replaced, refused>>

\* A registration without versions keeps every version.
KnownVersion(k, r, registered) ==
  \E t \in registered : /\ t.kind = k.kind /\ t.projection = k.projection
                        /\ t.versions = {} \/ r.rev.version \in t.versions

Unregistered(m) ==
  {k \in Key : k.graph = m.graph /\ \E r \in revisions[k] : ~KnownVersion(k, r, m.registered)}

PruneGraph(m) ==
  /\ Start
  /\ told' = told - MapThenSumSet(LAMBDA k : Cardinality(ChunksOf(revisions[k])), Unregistered(m))
  /\ revisions' = [k \in Key |-> IF k \in Unregistered(m) THEN None ELSE revisions[k]]
  /\ UNCHANGED <<tokenSequence, fiber, replaced, refused>>

Proceed(w) == Load(w) \/ Embed(w) \/ ReplaceRevision(w)

Next ==
  \/ \E w \in Worker : BeginIndex(w) \/ Proceed(w)
  \/ \E k \in Key : DeleteRevision(k)
  \/ \E m \in Manifests : PruneGraph(m)

Spec == Init /\ [][Next]_vars
-----------------------------------------------------------------------------
BirthOf(rows) == {r.birth : r \in rows}

ReplacesWhatItSaw ==
  \A w \in Worker : (ReplaceRevision(w) /\ replaced' > replaced) =>
    BirthOf(Stored(w)) \subseteq BirthOf(Snapshot(w))

\* "The same ... optimistic-concurrency contracts": whatever revision a
\* replacement takes the place of, its plan has seen it, also when the revision
\* it had seen was deleted and the projection indexed anew meanwhile.
NoLostUpdate == [][ReplacesWhatItSaw]_vars

\* The delta that the indexer computes from a snapshot is what the store can
\* complete from the vectors it has: a replacement whose token matches is never
\* refused, and every vector stored belongs to its content and profile.
DeltaSuffices ==
  /\ ~refused
  /\ \A k \in Key : \A r \in revisions[k] : \A c \in DOMAIN r.contents :
       r.vectors[c] = VectorOf(r.profile, r.contents[c])

\* What callers were told adds up: all insertions reported less all deletions
\* are the chunks there are, however replacements, deletions and prunings follow
\* each other.
CommitsAddUp ==
  told = MapThenSumSet(LAMBDA k : Cardinality(ChunksOf(revisions[k])), Key)
===============================================================================

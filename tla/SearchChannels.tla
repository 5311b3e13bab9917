---------------------------- MODULE SearchChannels ----------------------------
(***************************************************************************)
(* One search of one projection over two channels: what a store answers      *)
(* (storage/in-memory.ts), how the core checks, cuts and fuses the answers     *)
(* (retrieval/graph-retrieval.ts) and which limits a plan gives the channels    *)
(* (retrieval/projection-search.ts).                                             *)
(*                                                                         *)
(* Documents and parts are numbers; a chunk id is a number made of both.  A    *)
(* stored revision has a content, metadata and the embedding profile its         *)
(* vectors belong to; its parts are its chunks.                                  *)
(***************************************************************************)
EXTENDS RankFusion

CONSTANTS
  Parts,      \* the parts of every document
  Relevance   \* by channel, content and part, the score of the query; 0 if none

Channels == {"semantic", "text"}
Blank == 0

ChunkIdOf(document, part) == 10 * document + part

\* Mutant of RevisionHashOf: the metadata of chunks is not covered.
RevisionTextHashOf(document, revision) == <<document, revision.content>>

\* What a projection revision hash covers: not the vectors.
RevisionHashOf(document, revision) == <<document, revision.content, revision.metadata>>

\* The Option of a stored revision is a set of at most one.
PayloadOf(document, revision, part) ==
  [chunk |-> ChunkIdOf(document, part), document |-> document, part |-> part,
   hash |-> RevisionHashOf(document, revision),
   content |-> 10 * revision.content + part, metadata |-> revision.metadata]
-----------------------------------------------------------------------------
(* Scopes: a target and the metadata that every filter accepts.             *)

AllDocuments == [tag |-> "AllDocuments", keys |-> {}]
DocumentKeys(keys) == [tag |-> "DocumentKeys", keys |-> keys]
NoDocuments == [tag |-> "NoDocuments", keys |-> {}]

TargetMatches(target, document) ==
  target.tag = "AllDocuments" \/ document \in target.keys
InScope(scope, payload) ==
  TargetMatches(scope.target, payload.document) /\ payload.metadata \in scope.where
-----------------------------------------------------------------------------
(* A store's answer.                                                       *)

\* Every vector of the query's profile is similar to some degree; a text
\* match needs a common word.
Scored(channel, revision, part, profile) ==
  IF channel = "semantic" THEN revision.profile = profile
  ELSE Relevance["text"][revision.content][part] > 0

Matches(store, channel, scope, profile) ==
  UNION {UNION {
    {[payload |-> PayloadOf(d, r, p), score |-> Relevance[channel][r.content][p]] :
       p \in {p \in Parts : InScope(scope, PayloadOf(d, r, p)) /\ Scored(channel, r, p, profile)}} :
    r \in store[d]} : d \in DOMAIN store}

Ranked(candidates) ==
  InOrder(candidates, LAMBDA l, r :
    l.score > r.score \/ (l.score = r.score /\ l.payload.chunk < r.payload.chunk))
Cut(sequence, limit) == SubSeq(sequence, 1, IF limit < Len(sequence) THEN limit ELSE Len(sequence))

\* Mutant of StoredCandidates: the scope is applied after the limit.
StoredCandidatesFilteredLast(store, channel, scope, profile, limit) ==
  LET everything == [target |-> AllDocuments, where |-> UNION {{r.metadata : r \in store[d]} : d \in DOMAIN store}]
  IN  SelectSeq(Cut(Ranked(Matches(store, channel, everything, profile)), limit),
                LAMBDA c : InScope(scope, c.payload))

\* collectStoredCandidates.
StoredCandidates(store, channel, scope, profile, limit) ==
  Cut(Ranked(Matches(store, channel, scope, profile)), limit)
-----------------------------------------------------------------------------
(* The core's checks of an answer.                                         *)

ValidScore(channel, score) == score # NotFinite /\ (channel = "text" => score > 0)
ValidIdentity(payload) ==
  /\ payload.part \in Parts
  /\ payload.chunk = ChunkIdOf(payload.document, payload.part)

\* Mutant of ValidCandidates: the adapter is trusted to apply the scope.
ValidCandidatesTrustingScope(channel, scope, limit, candidates) ==
  /\ Len(candidates) <= limit
  /\ \A i \in DOMAIN candidates :
       LET candidate == candidates[i]
       IN  /\ ValidScore(channel, candidate.score)
           /\ candidate.payload.content # Blank
           /\ ValidIdentity(candidate.payload)
           /\ \A k \in 1..(i - 1) : candidates[k].payload.chunk # candidate.payload.chunk
           /\ i > 1 => candidate.score <= candidates[i - 1].score

\* validateCandidates.
ValidCandidates(channel, scope, limit, candidates) ==
  /\ Len(candidates) <= limit
  /\ \A i \in DOMAIN candidates :
       LET candidate == candidates[i]
       IN  /\ ValidScore(channel, candidate.score)
           /\ candidate.payload.content # Blank
           /\ ValidIdentity(candidate.payload)
           /\ \A k \in 1..(i - 1) : candidates[k].payload.chunk # candidate.payload.chunk
           /\ InScope(scope, candidate.payload)
           /\ i > 1 => candidate.score <= candidates[i - 1].score
-----------------------------------------------------------------------------
(* Hits and their fusion.                                                  *)

StreamId(channel) == IF channel = "semantic" THEN 1 ELSE 2

\* selectSearchHits.
Hits(channel, candidates, results) ==
  [i \in 1..Len(Cut(candidates, results)) |->
     [rank |-> i, payload |-> candidates[i].payload,
      signals |-> <<[stream |-> StreamId(channel), rank |-> i, score |-> candidates[i].score]>>]]

\* Mutant of Agree: equal chunk ids are taken for equal chunks.
AgreeById(semanticHits, textHits) == TRUE

\* Mutant of Agree: the hits of a chunk are compared with their ranks.
AgreeOnRanks(semanticHits, textHits) ==
  \A i \in DOMAIN semanticHits : \A k \in DOMAIN textHits :
    semanticHits[i].payload.chunk = textHits[k].payload.chunk
      => semanticHits[i].payload = textHits[k].payload /\ i = k

\* validateHybridCandidateAgreement.
Agree(semanticHits, textHits) ==
  \A i \in DOMAIN semanticHits : \A k \in DOMAIN textHits :
    semanticHits[i].payload.chunk = textHits[k].payload.chunk
      => semanticHits[i].payload = textHits[k].payload

StreamOfHits(channel, weight, hits) ==
  [id |-> StreamId(channel), weight |-> weight,
   items |-> [i \in DOMAIN hits |->
     [key |-> hits[i].payload.chunk, value |-> hits[i].payload,
      score |-> hits[i].signals[1].score]]]

\* fuseHybridSearchHits, of hits that agree.
FusedHits(semanticHits, textHits, weights, results) ==
  LET fused == Cut(Fused(<<StreamOfHits("semantic", weights["semantic"], semanticHits),
                           StreamOfHits("text", weights["text"], textHits)>>), results)
  IN  [n \in DOMAIN fused |->
         [rank |-> n, payload |-> fused[n].value, signals |-> fused[n].signals]]
===============================================================================

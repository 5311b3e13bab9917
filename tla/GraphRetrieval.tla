---------------------------- MODULE GraphRetrieval ----------------------------
(***************************************************************************)
(* A retrieval policy of a document graph (graph/document-graph.ts): a direct *)
(* route over the target documents and a relation route over the documents     *)
(* related to them, optionally within a population of targets resolved          *)
(* beforehand.  The topology is read in batches and may change between any two    *)
(* of its reads.                                                                 *)
(*                                                                         *)
(* Documents are numbers in the order of their keys.  Both channels of a route  *)
(* are read at once and the indexed content does not change: HybridSearch is     *)
(* about that.                                                                  *)
(***************************************************************************)
EXTENDS SearchChannels

CONSTANTS
  Sources,               \* the documents the relation route searches
  Goals,                 \* the documents to retrieve
  Contents,              \* the contents that documents may have, by document
  Populations,           \* the targets that callers pass to within
  Candidates,            \* the candidates of a channel
  NeighboursPerSource,   \* the targets taken of one source
  ScopeNeighbourLimit,   \* the sources taken of one target by within
  MaximumDocuments,      \* the documents that within allows
  BatchSize,             \* the documents of one topology read
  MaximumEvidence,
  Results,
  RouteWeights,
  MaxChanges             \* bound on what is related anew

RetrievalAssumption ==
  /\ Sources \subseteq Nat /\ IsFiniteSet(Sources) /\ Goals \subseteq Nat
  /\ Sources \intersect Goals = {}
  /\ Populations \subseteq SUBSET Goals
  /\ \A n \in {Candidates, NeighboursPerSource, ScopeNeighbourLimit, BatchSize,
               MaximumEvidence, Results} : n \in Nat \ {0}

VARIABLES
  store,       \* by document, its revision
  edges,       \* the <<source, goal>> pairs of the relation
  changes,     \* how often they changed
  caller,      \* what the caller waits for
  scope,       \* Option of the population that within resolved or resolves
  hits,        \* by route, Option of its hits
  neighbours,  \* by source, Option of the goals read for it
  outcome,     \* Option of what search returned
  always,      \* history: the edges there were ever since the caller's first read
  ever         \* history: the edges there were at some moment since then

vars == <<store, edges, changes, caller, scope, hits, neighbours, outcome, always, ever>>

None == {}
Some(x) == {x}
The(option) == CHOOSE x \in option : TRUE
Lesser(left, right) == left < right

Routes == {"direct", "relation"}
DocumentsOf(route) == IF route = "direct" THEN Goals ELSE Sources
First(set, n) == {x \in set : Cardinality({y \in set : y < x}) < n}
Tagged(keys) == IF keys = {} THEN NoDocuments ELSE DocumentKeys(keys)

Init ==
  /\ \E contents \in Contents :
       store = [d \in Sources \union Goals |-> Some([content |-> contents[d], metadata |-> 1, profile |-> 1])]
  /\ edges \in SUBSET (Sources \X Goals)
  /\ changes = 0
  /\ caller = "idle"
  /\ scope = None
  /\ hits = [r \in Routes |-> None]
  /\ neighbours = [s \in Sources |-> None]
  /\ outcome = None
  /\ always = edges
  /\ ever = edges

\* An indexing program replaces what a source relates to.
Relate(s) ==
  /\ changes < MaxChanges
  /\ outcome = None
  /\ changes' = changes + 1
  /\ \E goals \in SUBSET Goals :
       edges' = {e \in edges : e[1] # s} \union ({s} \X goals)
  /\ always' = IF caller = "idle" THEN edges' ELSE always \intersect edges'
  /\ ever' = IF caller = "idle" THEN edges' ELSE ever \union edges'
  /\ UNCHANGED <<store, caller, scope, hits, neighbours, outcome>>
-----------------------------------------------------------------------------
(* within.                                                                 *)

TooLarge == [tag |-> "scope_too_large", results |-> <<>>]

Within ==
  /\ caller = "idle" /\ outcome = None
  /\ \E goals \in Populations :
       IF Cardinality(goals) > MaximumDocuments
       THEN /\ outcome' = Some(TooLarge)
            /\ UNCHANGED <<caller, scope>>
       ELSE /\ caller' = "within"
            /\ scope' = Some([goals |-> goals, unread |-> goals, sources |-> {}])
            /\ UNCHANGED outcome
  /\ UNCHANGED <<store, edges, changes, hits, neighbours, always, ever>>

SourcesOf(goal) == {s \in Sources : <<s, goal>> \in edges}

\* Mutant of MayBeCut: a read that reaches its limit counts as complete.
MayBeCutBeyond(read) == Cardinality(read) > ScopeNeighbourLimit

\* Whether a read may have left out neighbours.
MayBeCut(read) == Cardinality(read) >= ScopeNeighbourLimit

\* The batches of a set of documents.
Batches(set) ==
  {First(set, n * BatchSize) \ First(set, (n - 1) * BatchSize) : n \in 1..Cardinality(set)} \ {{}}

\* relatedSourceKeys: the batches of targets are read in any order.
ResolveBatch ==
  /\ caller = "within" /\ outcome = None
  /\ \E batch \in Batches(The(scope).goals) :
     LET reads == {First(SourcesOf(goal), ScopeNeighbourLimit) : goal \in batch}
     IN  /\ batch \subseteq The(scope).unread
         /\ IF \E read \in reads : MayBeCut(read)
            THEN /\ outcome' = Some(TooLarge)
                 /\ UNCHANGED scope
            ELSE /\ scope' = {[goals |-> s.goals, unread |-> s.unread \ batch,
                               sources |-> s.sources \union (UNION reads)] : s \in scope}
                 /\ UNCHANGED outcome
  /\ UNCHANGED <<store, edges, changes, caller, hits, neighbours, always, ever>>

Resolved ==
  /\ caller = "within" /\ outcome = None /\ The(scope).unread = {}
  /\ IF Cardinality(The(scope).sources) > MaximumDocuments
     THEN outcome' = Some(TooLarge) /\ UNCHANGED caller
     ELSE caller' = "scoped" /\ UNCHANGED outcome
  /\ UNCHANGED <<store, edges, changes, scope, hits, neighbours, always, ever>>
-----------------------------------------------------------------------------
(* search: the routes.                                                     *)

Scoped == scope # None
PopulationOf(route) ==
  IF ~Scoped THEN AllDocuments
  ELSE Tagged(IF route = "direct" THEN The(scope).goals ELSE The(scope).sources)

\* A search within no targets returns nothing.
Search ==
  /\ caller \in {"idle", "scoped"} /\ outcome = None
  /\ caller' = "searching"
  /\ outcome' = IF Scoped /\ The(scope).goals = {}
                THEN Some([tag |-> "results", results |-> <<>>]) ELSE None
  /\ UNCHANGED <<store, edges, changes, scope, hits, neighbours, always, ever>>

\* searchProjectionRuntime, hybrid.
RouteHits(route) ==
  LET indexed == [d \in DocumentsOf(route) |-> store[d]]
      of(channel) ==
        Hits(channel, StoredCandidates(indexed, channel,
               [target |-> PopulationOf(route), where |-> {1}], 1, Candidates), Candidates)
  IN  FusedHits(of("semantic"), of("text"), [c \in Channels |-> 1], 2 * Candidates)

SearchRoute(route) ==
  /\ caller = "searching" /\ outcome = None
  /\ hits[route] = None
  /\ hits' = [hits EXCEPT ![route] = Some(RouteHits(route))]
  /\ UNCHANGED <<store, edges, changes, caller, scope, neighbours, outcome, always, ever>>

\* The sources whose goals are still to be read.
Unread == {hit.payload.document : hit \in ToSet(The(hits["relation"]))}
            \intersect {s \in Sources : neighbours[s] = None}

\* Mutant of GoalsOf: off by one.
GoalsOfButOne(s) == First({g \in Goals : <<s, g>> \in edges}, NeighboursPerSource - 1)

GoalsOf(s) == First({g \in Goals : <<s, g>> \in edges}, NeighboursPerSource)

\* findRuntimeNeighbours of the next batch of sources, in the order of the hits.
Place(source) == CHOOSE i \in DOMAIN The(hits["relation"]) :
  /\ The(hits["relation"])[i].payload.document = source
  /\ \A k \in 1..(i - 1) : The(hits["relation"])[k].payload.document # source
ExpandBatch ==
  /\ caller = "searching" /\ outcome = None
  /\ hits["relation"] # None /\ Unread # {}
  /\ LET batch == ToSet(Cut(InOrder(Unread, LAMBDA l, r : Place(l) < Place(r)), BatchSize))
     IN  neighbours' = [s \in Sources |-> IF s \in batch THEN Some(GoalsOf(s)) ELSE neighbours[s]]
  /\ UNCHANGED <<store, edges, changes, caller, scope, hits, outcome, always, ever>>

Expanded == (\A r \in Routes : hits[r] # None) /\ Unread = {}

\* Mutant of Admitted: a source in scope ranks all it is related to.
AdmittedAll(goals) == goals

\* Of the goals of a source, those in scope.
Admitted(goals) == IF Scoped THEN goals \intersect The(scope).goals ELSE goals

\* The goals a hit ranks, in order.
GoalsOfHit(route, hit) ==
  IF route = "direct" THEN <<hit.payload.document>>
  ELSE InOrder(Admitted(The(neighbours[hit.payload.document])), Lesser)
-----------------------------------------------------------------------------
(* search: streams, fusion and evidence.                                   *)

\* Streams in the order of their ids, and of their construction.
Streams == <<[id |-> 1, route |-> "direct", channel |-> "semantic"],
             [id |-> 2, route |-> "direct", channel |-> "text"],
             [id |-> 3, route |-> "relation", channel |-> "semantic"],
             [id |-> 4, route |-> "relation", channel |-> "text"]>>

Of(hit, channel) == {i \in DOMAIN hit.signals : hit.signals[i].stream = StreamId(channel)}
SignalOf(hit, channel) == hit.signals[The(Of(hit, channel))]

\* The hits that a channel signals, as it ranked them.
RankedHits(stream) ==
  InOrder({hit \in ToSet(The(hits[stream.route])) : Of(hit, stream.channel) # {}},
    LAMBDA l, r : SignalOf(l, stream.channel).rank < SignalOf(r, stream.channel).rank)

\* Mutant of ItemsOf: a goal is ranked once for every hit that supports it.
ItemsOfEveryHit(stream) ==
  LET ranked == RankedHits(stream)
  IN  FlattenSeq([i \in DOMAIN ranked |->
        LET goals == GoalsOfHit(stream.route, ranked[i])
        IN  [g \in DOMAIN goals |->
              [key |-> goals[g], value |-> goals[g],
               score |-> SignalOf(ranked[i], stream.channel).score]]])

\* Every goal at the place of the first hit that supports it.
ItemsOf(stream) ==
  LET ranked == RankedHits(stream)
      items == FlattenSeq([i \in DOMAIN ranked |->
                 LET goals == GoalsOfHit(stream.route, ranked[i])
                 IN  [g \in DOMAIN goals |->
                       [key |-> goals[g], value |-> goals[g],
                        score |-> SignalOf(ranked[i], stream.channel).score]]])
      fresh == {i \in DOMAIN items : \A k \in 1..(i - 1) : items[k].key # items[i].key}
      places == InOrder(fresh, Lesser)
  IN  [n \in DOMAIN places |-> items[places[n]]]

\* buildStreams, without the streams that rank nothing.
BuiltStreams ==
  LET built == [s \in DOMAIN Streams |->
                 [id |-> Streams[s].id, weight |-> RouteWeights[Streams[s].route],
                  items |-> ItemsOf(Streams[s])]]
  IN  SelectSeq(built, LAMBDA s : s.items # <<>>)

\* The hits that support a goal, each once and with the streams it came by.
Supports(goal) ==
  {[rank |-> pair[2].rank, chunk |-> pair[2].payload.chunk, source |-> pair[2].payload.document,
    route |-> pair[1],
    streams |-> {s.id : s \in {s \in ToSet(Streams) : s.route = pair[1] /\ Of(pair[2], s.channel) # {}}}] :
   pair \in UNION {{<<r, h>> : h \in {h \in ToSet(The(hits[r])) : goal \in ToSet(GoalsOfHit(r, h))}} : r \in Routes}}
EvidenceOf(goal) ==
  Cut(InOrder(Supports(goal), LAMBDA l, r :
        l.rank < r.rank \/ (l.rank = r.rank /\ l.chunk < r.chunk)), MaximumEvidence)

\* assembleResults; fusion that refuses its input would be a defect.
Assemble ==
  /\ caller = "searching" /\ outcome = None /\ Expanded
  /\ outcome' = Some(
       IF ~Fusable(BuiltStreams) THEN [tag |-> "died", results |-> <<>>]
       ELSE LET fused == Cut(Fused(BuiltStreams), Results)
            IN  [tag |-> "results", results |->
                  [n \in DOMAIN fused |->
                     [rank |-> n, target |-> fused[n].key, signals |-> fused[n].signals,
                      evidence |-> EvidenceOf(fused[n].key)]]])
  /\ UNCHANGED <<store, edges, changes, caller, scope, hits, neighbours, always, ever>>

Next ==
  \/ \E s \in Sources : Relate(s)
  \/ Within \/ ResolveBatch \/ Resolved
  \/ Search \/ \E r \in Routes : SearchRoute(r)
  \/ ExpandBatch \/ Assemble
Spec == Init /\ [][Next]_vars
-----------------------------------------------------------------------------
Returned == IF outcome = None THEN <<>> ELSE The(outcome).results

\* Every result is in the population asked for, and its evidence is a chunk of
\* its own or of a document that was related to it at some moment since the
\* caller's first read.
ResultsAreRelated ==
  \A n \in DOMAIN Returned :
    LET result == Returned[n]
    IN  /\ Scoped => result.target \in The(scope).goals
        /\ \A i \in DOMAIN result.evidence :
             result.evidence[i].source = result.target
               \/ <<result.evidence[i].source, result.target>> \in ever

\* A result is retained with evidence, best hit first and bounded; unless
\* evidence was cut off it explains the ranking: its streams are the signals.
EvidenceExplains ==
  outcome # None =>
    /\ The(outcome).tag # "died"
    /\ \A n \in DOMAIN Returned :
         LET result == Returned[n]
             streams == UNION {result.evidence[i].streams : i \in DOMAIN result.evidence}
             signals == {result.signals[i].stream : i \in DOMAIN result.signals}
         IN  /\ Len(result.evidence) \in 1..MaximumEvidence
             /\ \A i \in 2..Len(result.evidence) : result.evidence[i - 1].rank <= result.evidence[i].rank
             /\ streams \subseteq signals
             /\ Len(result.evidence) < MaximumEvidence => streams = signals

\* "A larger population fails ... instead of searching an arbitrary subset": a
\* population that within resolves misses no document that was related to one
\* of its targets all along.
PopulationIsComplete ==
  caller = "scoped" =>
    \A e \in always : e[2] \in The(scope).goals => e[1] \in The(scope).sources

\* "A narrow population is not crowded out by better matches outside it.  A
\* source related to several targets ranks only the ones in scope": a document
\* that search retrieves ranks every target in scope to which it was related all
\* along, unless the results are full.
NotCrowdedOut ==
  (outcome # None /\ caller = "searching" /\ Scoped /\ Len(Returned) < Results) =>
    \A goal \in The(scope).goals :
      (\E hit \in UNION {ToSet(h) : h \in hits["relation"]} :
         <<hit.payload.document, goal>> \in always)
      => \E n \in DOMAIN Returned : \E i \in DOMAIN Returned[n].signals :
           Returned[n].target = goal /\ Streams[Returned[n].signals[i].stream].route = "relation"
===============================================================================

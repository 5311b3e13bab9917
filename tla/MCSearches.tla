------------------------------ MODULE MCSearches ------------------------------
(***************************************************************************)
(* The reading side on small instances: verified searches in their three     *)
(* modes, hybrid searches in both ways of reading the channels, retrievals     *)
(* over relations, and rank fusion.  A behaviour is of one part; the           *)
(* variables of the others stay Unused.                                       *)
(***************************************************************************)
EXTENDS VerifiedSearch, TLC

CONSTANTS d1, d2

VARIABLES
  part,
  store, publications, request, embedded, answers, outcome, currency, seen, moved,
  edges, caller, scope, hits, neighbours, always, ever,
  streams, fused

hybridVars == <<store, publications, request, embedded, answers, outcome, currency, seen, moved>>
relatedVars == <<store, edges, changes, caller, scope, hits, neighbours, outcome, always, ever>>
fusionVars == <<streams, fused>>
vars == <<part, searchVars, hybridVars, relatedVars, fusionVars>>
-----------------------------------------------------------------------------
\* B drops a chunk of A and keeps the other, C changes the one B kept.
MCDoc == {d1, d2}
MCInventory == [r \in Revision |->
  CASE r = "A" -> {<<1, "x">>, <<2, "y">>}
    [] r = "B" -> {<<1, "x">>}
    [] r = "C" -> {<<1, "z">>}]

\* Channels agree about the parts of content 1 and differ about content 2,
\* which is the better match.
Relevances == [semantic |-> <<<<3, 1>>, <<4, 5>>>>, text |-> <<<<3, 0>>, <<6, 4>>>>]

Apart == INSTANCE HybridSearch WITH
  Precision <- 6, RankConstant <- 2, Parts <- {1, 2}, Relevance <- Relevances,
  Documents <- {1, 2}, Contents <- {1, 2}, Metadata <- {1, 2}, Profiles <- {1},
  Targets <- {[tag |-> "AllDocuments", keys |-> {}], [tag |-> "DocumentKeys", keys |-> {2}],
              [tag |-> "NoDocuments", keys |-> {}]},
  Filters <- {{1}}, Strategies <- {"semantic", "text", "hybrid"},
  Candidates <- 2, Results <- 2, ReadsAtOnce <- FALSE, MayFail <- FALSE, MaxPublications <- 2
AtOnce == INSTANCE HybridSearch WITH
  Precision <- 6, RankConstant <- 2, Parts <- {1, 2}, Relevance <- Relevances,
  Documents <- {1, 2}, Contents <- {1, 2}, Metadata <- {1, 2}, Profiles <- {1, 2},
  Targets <- {[tag |-> "AllDocuments", keys |-> {}], [tag |-> "DocumentKeys", keys |-> {2}],
              [tag |-> "NoDocuments", keys |-> {}]},
  Filters <- {{1, 2}, {1}}, Strategies <- {"semantic", "text", "hybrid"},
  Candidates <- 2, Results <- 2, ReadsAtOnce <- TRUE, MayFail <- TRUE, MaxPublications <- 1

\* Content 1 is the better match of vectors, content 2 of words; documents 4
\* and 5 are what is retrieved through documents 1 to 3.  A target may
\* have more neighbours than are read, or all of them more than are allowed.
Related == INSTANCE GraphRetrieval WITH
  Precision <- 6, RankConstant <- 3, Parts <- {1},
  Relevance <- [semantic |-> <<<<3>>, <<2>>, <<1>>>>, text |-> <<<<1>>, <<2>>, <<0>>>>],
  Sources <- {1, 2, 3}, Goals <- {4, 5}, Contents <- {<<1, 2, 3, 2, 1>>},
  Populations <- {{}, {5}, {4, 5}}, Candidates <- 2, NeighboursPerSource <- 2,
  ScopeNeighbourLimit <- 2, MaximumDocuments <- 2, BatchSize <- 1, MaximumEvidence <- 2,
  Results <- 3, RouteWeights <- [direct |-> 1, relation |-> 2], MaxChanges <- 1
Wide == INSTANCE GraphRetrieval WITH
  Precision <- 6, RankConstant <- 3, Parts <- {1},
  Relevance <- [semantic |-> <<<<3>>, <<2>>, <<1>>>>, text |-> <<<<1>>, <<2>>, <<0>>>>],
  Sources <- {1, 2, 3}, Goals <- {4, 5}, Contents <- {<<1, 2, 3, 2, 1>>},
  Populations <- {{5}, {4, 5}}, Candidates <- 2, NeighboursPerSource <- 2,
  ScopeNeighbourLimit <- 3, MaximumDocuments <- 2, BatchSize <- 1, MaximumEvidence <- 2,
  Results <- 3, RouteWeights <- [direct |-> 1, relation |-> 2], MaxChanges <- 1

Fusion == INSTANCE FusionOrder WITH
  Precision <- 5, RankConstant <- 2, Keys <- {1, 2, 3}, Weights <- {<<1, 1>>, <<2, 1>>, <<1, 3>>}

ASSUME Parameters ==
  /\ Apart!FusionAssumption /\ AtOnce!FusionAssumption
  /\ Related!RetrievalAssumption /\ Wide!RetrievalAssumption /\ Related!FusionAssumption /\ Fusion!FusionAssumption
-----------------------------------------------------------------------------
Unused == 0

NoSearch == SearchInit
NoStore == store = Unused /\ outcome = Unused
NoHybrid ==
  /\ publications = Unused /\ request = Unused /\ embedded = Unused
  /\ answers = Unused /\ currency = Unused /\ seen = Unused /\ moved = Unused
NoRetrieval ==
  /\ edges = Unused /\ caller = Unused /\ scope = Unused /\ hits = Unused
  /\ neighbours = Unused /\ always = Unused /\ ever = Unused
NoFusion == streams = Unused /\ fused = Unused

Init ==
  \/ /\ part = "verified" /\ SearchInit
     /\ NoStore /\ NoHybrid /\ NoRetrieval /\ NoFusion
  \/ /\ part = "apart" /\ Apart!Init
     /\ NoSearch /\ NoRetrieval /\ NoFusion
  \/ /\ part = "at once" /\ AtOnce!Init
     /\ NoSearch /\ NoRetrieval /\ NoFusion
  \/ /\ part = "related" /\ Related!Init
     /\ NoSearch /\ NoHybrid /\ NoFusion
  \/ /\ part = "wide" /\ Wide!Init
     /\ NoSearch /\ NoHybrid /\ NoFusion
  \/ /\ part = "fusion" /\ Fusion!Init
     /\ NoSearch /\ NoStore /\ NoHybrid /\ NoRetrieval

noRetrievalVars == <<edges, caller, scope, hits, neighbours, always, ever>>
noHybridVars == <<publications, request, embedded, answers, currency, seen, moved>>

Verified ==
  /\ part = "verified" /\ SearchNext
  /\ UNCHANGED <<part, hybridVars, noRetrievalVars, fusionVars>>

Hybrid ==
  /\ (part = "apart" /\ Apart!Next) \/ (part = "at once" /\ AtOnce!Next)
  /\ UNCHANGED <<part, searchVars, noRetrievalVars, fusionVars>>

Retrieved ==
  /\ (part = "related" /\ Related!Next) \/ (part = "wide" /\ Wide!Next)
  /\ UNCHANGED <<part, active, successor, visible, shown, search, noHybridVars, fusionVars>>

Fused ==
  /\ part = "fusion" /\ Fusion!Next
  /\ UNCHANGED <<part, searchVars, hybridVars, noRetrievalVars>>

Next == Verified \/ Hybrid \/ Retrieved \/ Fused
Spec == Init /\ [][Next]_vars

Symmetry == Permutations(MCDoc)
-----------------------------------------------------------------------------
\* The channels of a hybrid search raise no false alarm: it fails only because of
\* a race with a publication, in a store that reads both channels at once not even
\* then (graph-retrieval.ts).
NoFalseAlarms ==
  /\ part = "apart" => Apart!SignalsAgree /\ Apart!OnlyRacesConflict
  /\ part = "at once" => AtOnce!OnlyRacesConflict

\* Hits are in scope and explained by what the channels returned, and evidence
\* reported as current is what is stored (evidence-currency.ts).
HitsAreCurrent ==
  [][part = "at once" => AtOnce!HitsAreSound /\ AtOnce!CurrentReported]_vars

\* A population resolved through several topology reads misses no document that
\* was related throughout, and no route is crowded out of the evidence.
PopulationIsComplete ==
  part \in {"related", "wide"} => Related!PopulationIsComplete /\ Related!NotCrowdedOut

\* Everything retrieved is in the population and explained by relations that
\* existed while the retrieval ran (document-graph.ts).
ResultsAreRelated ==
  part \in {"related", "wide"} => Related!ResultsAreRelated /\ Related!EvidenceExplains

\* Fusing the same streams in another order changes nothing, and ranking an item
\* higher never lowers it, whatever rounding does (rank-fusion.ts).
OrderIrrelevant ==
  [][part = "fusion" => Fusion!SameAnswer /\ Fusion!NoneHurt]_vars
=============================================================================

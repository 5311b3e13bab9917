----------------------------- MODULE HybridSearch -----------------------------
(***************************************************************************)
(* A search of one projection while the store publishes revisions: the query *)
(* is embedded, the channels are read apart or by a store that reads both at    *)
(* once, the answers are checked and fused, and later the evidence is            *)
(* verified (retrieval/graph-retrieval.ts, projection-search.ts,                  *)
(* evidence-currency.ts).                                                        *)
(***************************************************************************)
EXTENDS SearchChannels

CONSTANTS
  Documents,
  Contents,
  Metadata,
  Profiles,          \* embedding profiles; queries are embedded with profile 1
  Targets,           \* the targets searched
  Filters,           \* the sets of metadata that filters accept
  Strategies,        \* "semantic", "text" and "hybrid"
  Candidates,        \* the candidates of a channel
  Results,           \* the results of a search
  ReadsAtOnce,       \* whether the store offers hybrid search
  MayFail,           \* whether adapters answer wrongly or not at all
  MaxPublications    \* bound on what is stored and removed

VARIABLES
  store,          \* by document, Option of its stored revision
  publications,   \* how often the store has changed
  request,        \* Option of the search, with its strategy and scope
  embedded,       \* whether its query is embedded
  answers,        \* by channel, Option of its hits
  outcome,        \* Option of what the search returned
  currency,       \* Option of what verifyEvidenceCurrency reported
  seen,           \* history: every <<document, revision>> stored since it began
  moved           \* history: the documents that changed while it ran

vars == <<store, publications, request, embedded, answers, outcome, currency, seen, moved>>

None == {}
Some(x) == {x}
The(option) == CHOOSE x \in option : TRUE
Weights == [c \in Channels |-> 1]

Revisions == [content : Contents, metadata : Metadata, profile : Profiles]
Stored(s) == {<<d, CHOOSE r \in s[d] : TRUE>> : d \in {d \in Documents : s[d] # None}}

Accepted(hits) == Some([tag |-> "hits", hits |-> hits])
Refused(reason) == Some([tag |-> reason, hits |-> <<>>])

Init ==
  /\ store \in [Documents -> {None} \union {Some(r) : r \in Revisions}]
  /\ publications = 0
  /\ request = None
  /\ embedded = FALSE
  /\ answers = [c \in Channels |-> None]
  /\ outcome = None
  /\ currency = None
  /\ seen = {}
  /\ moved = {}

Running == request # None /\ outcome = None
Scope == [target |-> The(request).target, where |-> The(request).where]
Searches(channel) == The(request).strategy \in {channel, "hybrid"}
-----------------------------------------------------------------------------
(* The store.                                                              *)

Change(d, next) ==
  /\ publications < MaxPublications
  /\ publications' = publications + 1
  /\ store' = [store EXCEPT ![d] = next]
  /\ IF Running
     THEN seen' = seen \union Stored(store') /\ moved' = moved \union {d}
     ELSE UNCHANGED <<seen, moved>>
  /\ UNCHANGED <<request, embedded, answers, outcome, currency>>

Publish(d) == \E r \in Revisions : Some(r) # store[d] /\ Change(d, Some(r))
Withdraw(d) == store[d] # None /\ Change(d, None)
-----------------------------------------------------------------------------
(* The search.                                                             *)

\* A target of no documents is answered at once.
Begin ==
  /\ request = None
  /\ \E strategy \in Strategies : \E target \in Targets : \E where \in Filters :
       /\ request' = Some([strategy |-> strategy, target |-> target, where |-> where])
       /\ outcome' = IF target.tag = "NoDocuments" THEN Accepted(<<>>) ELSE None
  /\ seen' = Stored(store)
  /\ UNCHANGED <<store, publications, embedded, answers, currency, moved>>

\* Whatever fails first fails the search and interrupts the rest.
Fail(reason) ==
  /\ outcome' = Refused(reason)
  /\ UNCHANGED <<store, publications, request, embedded, answers, currency, seen, moved>>

\* prepareSemanticQuery.
Embed ==
  /\ Running /\ ~embedded
  /\ Searches("semantic")
  /\ embedded' = TRUE
  /\ UNCHANGED <<store, publications, request, answers, outcome, currency, seen, moved>>
EmbedFails == Running /\ ~embedded /\ Searches("semantic") /\ MayFail /\ Fail("embedding")

\* The candidates that a projection search plan asks of each channel, and the
\* hits it keeps of them.
Kept == IF The(request).strategy = "hybrid" THEN Candidates ELSE Results

\* What an adapter may answer.
Correct(channel) == StoredCandidates(store, channel, Scope, 1, Candidates)
Wrong(channel) ==
  LET correct == Correct(channel)
      everything == [target |-> AllDocuments, where |-> Metadata]
      First(field, value) ==
        IF correct = <<>> THEN correct
        ELSE [correct EXCEPT ![1].payload = [@ EXCEPT ![field] = value]]
  IN  {StoredCandidates(store, channel, everything, 1, Candidates),
       StoredCandidates(store, channel, Scope, 1, Candidates + 1),
       Reverse(correct),
       IF correct = <<>> THEN correct ELSE Append(correct, Last(correct)),
       IF correct = <<>> THEN correct ELSE [correct EXCEPT ![1].score = NotFinite],
       First("content", Blank), First("chunk", 99)}
Answers(channel) == {Correct(channel)} \union (IF MayFail THEN Wrong(channel) ELSE {})

\* What the search makes of one channel's answer.
Take(channel, candidates) == Hits(channel, candidates, Kept)
Fit(channel, candidates) == ValidCandidates(channel, Scope, Candidates, candidates)

Ready(channel) ==
  /\ Running
  /\ answers[channel] = None
  /\ Searches(channel)
  /\ channel = "semantic" => embedded
TogetherOnly == ReadsAtOnce /\ The(request).strategy = "hybrid"

AskOne(channel) ==
  /\ Ready(channel) /\ ~TogetherOnly
  /\ \E candidates \in Answers(channel) :
       IF Fit(channel, candidates)
       THEN /\ answers' = [answers EXCEPT ![channel] = Some(Take(channel, candidates))]
            /\ UNCHANGED <<store, publications, request, embedded, outcome, currency, seen, moved>>
       ELSE Fail("invalid_output")

\* A store that reads both channels in one snapshot.
AskBoth ==
  /\ Ready("semantic") /\ TogetherOnly
  /\ \E semantic \in Answers("semantic") : \E text \in Answers("text") :
       IF Fit("semantic", semantic) /\ Fit("text", text)
       THEN /\ answers' = [semantic |-> Some(Take("semantic", semantic)),
                           text |-> Some(Take("text", text))]
            /\ UNCHANGED <<store, publications, request, embedded, outcome, currency, seen, moved>>
       ELSE Fail("invalid_output")

AskFails(channel) == Ready(channel) /\ MayFail /\ Fail("unavailable")

Fuse(semanticHits, textHits) ==
  IF Agree(semanticHits, textHits)
  THEN Accepted(FusedHits(semanticHits, textHits, Weights, Results))
  ELSE Refused("conflicting_chunk")

Finish ==
  /\ Running
  /\ \A c \in Channels : Searches(c) => answers[c] # None
  /\ outcome' =
       IF The(request).strategy = "hybrid"
       THEN Fuse(The(answers["semantic"]), The(answers["text"]))
       ELSE Accepted(The(answers[The(request).strategy]))
  /\ UNCHANGED <<store, publications, request, embedded, answers, currency, seen, moved>>

\* verifyEvidenceCurrency, of every hit.
CurrencyOf(payload) ==
  LET revision == store[payload.document]
  IN  IF revision = None THEN "Missing"
      ELSE IF RevisionHashOf(payload.document, The(revision)) = payload.hash THEN "Current"
      ELSE "Stale"
Verify ==
  /\ outcome # None /\ currency = None
  /\ The(outcome).hits # <<>>
  /\ currency' = Some([i \in DOMAIN The(outcome).hits |-> CurrencyOf(The(outcome).hits[i].payload)])
  /\ UNCHANGED <<store, publications, request, embedded, answers, outcome, seen, moved>>

Next ==
  \/ \E d \in Documents : Publish(d) \/ Withdraw(d)
  \/ Begin \/ Embed \/ EmbedFails
  \/ \E c \in Channels : AskOne(c) \/ AskFails(c)
  \/ AskBoth \/ Finish \/ Verify
Spec == Init /\ [][Next]_vars
-----------------------------------------------------------------------------
ResultHits == IF outcome = None THEN <<>> ELSE The(outcome).hits

\* Whatever adapters answer, what a search returns is in its scope, unique,
\* ranked from 1 and within its limit.
HitsAreSound ==
  /\ Len(ResultHits) <= Results
  /\ \A i \in DOMAIN ResultHits :
       LET hit == ResultHits[i]
       IN  /\ InScope(Scope, hit.payload)
           /\ ValidIdentity(hit.payload) /\ hit.payload.content # Blank
           /\ hit.rank = i
           /\ \A k \in 1..(i - 1) : ResultHits[k].payload.chunk # hit.payload.chunk

\* A hit is a chunk as some revision held it while the search ran, and every
\* channel that signals the hit scored that very revision.
SignalsAgree ==
  \A i \in DOMAIN ResultHits :
    LET hit == ResultHits[i]
    IN  \E stored \in seen :
          /\ PayloadOf(stored[1], stored[2], hit.payload.part) = hit.payload
          /\ \A k \in DOMAIN hit.signals :
               hit.signals[k].score =
                 Relevance[IF hit.signals[k].stream = 1 THEN "semantic" ELSE "text"]
                   [stored[2].content][hit.payload.part]

\* A search whose adapters fail neither in answering nor in their answers fails
\* only because a document it found in both channels changed between the two
\* reads, and never if they are one read.
OnlyRacesConflict ==
  outcome # None /\ The(outcome).tag # "hits" =>
    IF The(outcome).tag = "conflicting_chunk" THEN ~ReadsAtOnce /\ moved # {} ELSE MayFail

\* While nothing changes, the chunk in scope that both channels prefer to every
\* other comes first: it is lost neither to the limit of a channel nor to
\* matches outside the scope.
UnanimousIsFirst ==
  (outcome # None /\ publications = 0 /\ The(request).strategy = "hybrid") =>
    \A best \in Matches(store, "semantic", Scope, 1) :
      (\A c \in Channels :
         \E mine \in Matches(store, c, Scope, 1) :
           /\ mine.payload = best.payload
           /\ \A other \in Matches(store, c, Scope, 1) \ {mine} : other.score < mine.score)
      => ResultHits # <<>> /\ ResultHits[1].payload = best.payload

\* Evidence is reported current exactly if its text and metadata are what is
\* stored when it is verified, in whatever vector space.
CurrentReported ==
  Verify => \A i \in DOMAIN ResultHits :
    LET payload == ResultHits[i].payload
    IN  (The(currency')[i] = "Current") <=>
          \E r \in store[payload.document] : PayloadOf(payload.document, r, payload.part) = payload

CurrentIsStored == [][CurrentReported]_vars
===============================================================================

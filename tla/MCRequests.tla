------------------------------ MODULE MCRequests ------------------------------
(***************************************************************************)
(* How requests reach a provider and how work is tried again, on small        *)
(* instances.  A behaviour is of one part:                                    *)
(*   "collected"  RequestCoalescer under two keys, with a run that may fail    *)
(*   "written"    publications that share conditional writes                   *)
(*   "searched"   searches that are packed into multi-queries                  *)
(*   "retried"    one request of the client with its retries                   *)
(*   "compete"    jobs of both manifests compete for one document               *)
(*   "replay"     a prepared mutation is replayed beside the plain workflow      *)
(*   "twins"      two runs of one program persist what they captured              *)
(*   "damage"     what was persisted is damaged before it is decoded               *)
(***************************************************************************)
EXTENDS Integers, Sequences, RetryingTransport

VARIABLES
  part,
  pending, timers, running, answer, rows, written, received,
  revisions, edges, listed, tokens, status, position, read, artifact, faults, alone,
  objects, prepared, stored, damaged, decoded,
  captured    \* both of DocumentWorkflows and of PreparedArtifacts

batchVars == <<pending, timers, running, answer>>
writeVars == <<rows, written>>
retryVars == <<state, left, ambiguous, error, wire>>
providerVars == <<batchVars, writeVars, applied, received, retryVars>>
workflowVars ==
  <<revisions, edges, listed, tokens, status, position, read, artifact, faults, alone>>
artifactVars == <<objects, prepared, stored, damaged, decoded>>
vars == <<part, providerVars, workflowVars, artifactVars, captured>>
-----------------------------------------------------------------------------
Collected == INSTANCE RequestCoalescer WITH
  Request <- {"a1", "a2", "a3", "a4", "b1", "b2"},
  KeyOf <- [a1 |-> "a", a2 |-> "a", a3 |-> "a", a4 |-> "a", b1 |-> "b", b2 |-> "b"],
  MaximumBatch <- 3

\* Two generations of document x, the older one sent twice, and another document.
Publications ==
  [x1 |-> [doc |-> "x", gen |-> 1, pub |-> "p", slots |-> 1],
   x1again |-> [doc |-> "x", gen |-> 1, pub |-> "p", slots |-> 1],
   x2 |-> [doc |-> "x", gen |-> 2, pub |-> "q", slots |-> 2],
   y |-> [doc |-> "y", gen |-> 1, pub |-> "r", slots |-> 0]]

Written == INSTANCE CoalescedWrites WITH
  Publication <- Publications, Request <- DOMAIN Publications,
  KeyOf <- [r \in DOMAIN Publications |-> "write"], MaximumBatch <- 3

\* Single-channel searches have one subquery and hybrid searches two.
Searches == [text |-> 1, semantic |-> 1, hybrid |-> 2, hybrid2 |-> 2]

Searched == INSTANCE CoalescedSearches WITH
  Subqueries <- Searches, Request <- DOMAIN Searches,
  KeyOf <- [r \in DOMAIN Searches |-> "search"], MaximumBatch <- 3, MaximumSubqueries <- 3

\* Two values of a document that share what their second projection holds, and two
\* manifests, the newer of which has dropped a projection and a relation.
ContentsOf ==
  [old |-> [body |-> "body1", title |-> "title"],
   new |-> [body |-> "body2", title |-> "title"]]

Manifest1 == [projections |-> <<"body", "title">>, relations |-> {"cites", "follows"}]
Manifest2 == [projections |-> <<"body">>, relations |-> {"cites"}]
JobOf(op, value, manifest) == [op |-> op, value |-> value, manifest |-> manifest]

Compete == INSTANCE DocumentWorkflows WITH
  Job <- [indexOld |-> JobOf("index", "old", Manifest1),
          indexNew |-> JobOf("index", "new", Manifest1),
          remove |-> JobOf("remove", "old", Manifest1),
          reconcile |-> JobOf("reconcile", "old", Manifest2)],
  Contents <- ContentsOf, AnswersReplays <- FALSE, MaxFaults <- 1

Replays == INSTANCE DocumentWorkflows WITH
  Job <- [prepareOld |-> JobOf("prepare", "old", Manifest1),
          indexOld |-> JobOf("index", "old", Manifest1),
          reconcile |-> JobOf("reconcile", "old", Manifest1)],
  Contents <- ContentsOf, AnswersReplays <- TRUE, MaxFaults <- 2

\* A projection without a predecessor, one that replaces a revision, reuses one of
\* its two vectors and has metadata with two insertion orders, and a topology; a
\* projection that is captured twice and one whose vector nobody supplied.
Null == [kind |-> "null", fields |-> <<>>]
Object(pairs) == [kind |-> "object", fields |-> pairs]

Chunk(document, projection, place, content, ordinal, metadata) ==
  [section |-> 1, part |-> place, id |-> <<document, projection, 1, place>>,
   content |-> content, hash |-> <<"hash", content>>, ordinal |-> ordinal,
   metadata |-> metadata]

Projection(document, projection, expected, chunks, embeddings) ==
  [tag |-> "ReplaceProjectedRevision", document |-> document, projection |-> projection,
   target |-> document, expected |-> expected, policy |-> "disabled",
   chunks |-> chunks, embeddings |-> embeddings]

Captures ==
  [body |-> {Projection(1, 1, {}, <<Chunk(1, 1, 0, 1, 0, {Null})>>, <<<<"hash", 1>>>>)},
   again |-> {Projection(1, 1, {}, <<Chunk(1, 1, 0, 2, 0, {})>>, <<<<"hash", 2>>>>)},
   unembedded |-> {Projection(1, 3, {}, <<Chunk(1, 3, 0, 3, 0, {})>>, <<>>)},
   title |->
     {Projection(1, 2, {"token"},
        <<Chunk(1, 2, 0, 1, 0, {Object(pairs)}), Chunk(1, 2, 1, 4, 1, {})>>, <<<<"hash", 4>>>>) :
        pairs \in {<<<<1, 7>>, <<2, 8>>>>, <<<<2, 8>>, <<1, 7>>>>}},
   topology |->
     {[tag |-> "ReplaceOutgoingGraphRelations", document |-> 1, target |-> 1,
       embeddings |-> <<>>,
       relations |-> <<[id |-> 1, targets |-> <<[key |-> 2, reference |-> 2]>>]>>]}]

Whole == {"topology", "title", "body"}

Twins == INSTANCE PreparedArtifacts WITH
  Program <- [first |-> Whole, second |-> Whole], Forms <- Captures, MayDamage <- FALSE

Damage == INSTANCE PreparedArtifacts WITH
  Program <- [whole |-> Whole, twice |-> {"again", "body"}, unembedded |-> {"unembedded"}],
  Forms <- Captures, MayDamage <- TRUE

ASSUME Parameters ==
  /\ Collected!CoalescerAssumption /\ Written!WritesAssumption /\ Searched!SubqueriesAssumption
  /\ RetriesAssumption
  /\ Compete!WorkflowAssumption /\ Replays!WorkflowAssumption
  /\ Twins!ArtifactAssumption /\ Damage!ArtifactAssumption
-----------------------------------------------------------------------------
Unused == 0

NoBatches == pending = Unused /\ timers = Unused /\ running = Unused /\ answer = Unused
NoWrites == rows = Unused /\ written = Unused
NoRequest ==
  state = Unused /\ left = Unused /\ ambiguous = Unused /\ error = {} /\ wire = Unused
NoProvider ==
  NoBatches /\ NoWrites /\ applied = Unused /\ received = Unused /\ NoRequest
NoWorkflow ==
  /\ revisions = Unused /\ edges = Unused /\ listed = Unused /\ tokens = Unused
  /\ status = Unused /\ position = Unused /\ read = Unused /\ artifact = Unused
  /\ faults = Unused /\ alone = Unused
NoArtifact ==
  /\ objects = Unused /\ prepared = Unused /\ stored = Unused
  /\ damaged = Unused /\ decoded = Unused
NoWork == NoWorkflow /\ NoArtifact /\ captured = Unused

Init ==
  \/ /\ part = "collected" /\ Collected!Init
     /\ NoWrites /\ applied = Unused /\ received = Unused /\ NoRequest /\ NoWork
  \/ /\ part = "written" /\ Written!WritesInit
     /\ received = Unused /\ NoRequest /\ NoWork
  \/ /\ part = "searched" /\ Searched!SearchesInit
     /\ NoWrites /\ applied = Unused /\ NoRequest /\ NoWork
  \/ /\ part = "retried" /\ RequestInit
     /\ NoBatches /\ NoWrites /\ received = Unused /\ NoWork
  \/ part = "compete" /\ Compete!Init /\ NoArtifact /\ NoProvider
  \/ part = "replay" /\ Replays!Init /\ NoArtifact /\ NoProvider
  \/ part = "twins" /\ Twins!Init /\ NoWorkflow /\ NoProvider
  \/ part = "damage" /\ Damage!Init /\ NoWorkflow /\ NoProvider

workVars == <<workflowVars, artifactVars, captured>>
Only(p, others) == part = p /\ UNCHANGED <<part, others>>

Collecting == Only("collected", <<writeVars, applied, received, retryVars, workVars>>)
Writing == Only("written", <<received, retryVars, workVars>>)
Searching == Only("searched", <<writeVars, applied, retryVars, workVars>>)
Retrying == Only("retried", <<batchVars, writeVars, received, workVars>>)
Competing == Only("compete", <<artifactVars, providerVars>>)
Replaying == Only("replay", <<artifactVars, providerVars>>)
Twinned == Only("twins", <<workflowVars, providerVars>>)
Damaging == Only("damage", <<workflowVars, providerVars>>)

Next ==
  \/ Collecting /\ Collected!Next
  \/ Writing /\ Written!WritesNext
  \/ Searching /\ Searched!SearchesNext
  \/ Retrying /\ RequestNext
  \/ Competing /\ Compete!Next
  \/ Replaying /\ Replays!Next
  \/ Twinned /\ Twins!Next
  \/ Damaging /\ Damage!Next

\* Timers fire, and the provider's answers arrive or time out.
Fires ==
  \/ Collecting /\ \E t \in timers : Collected!Fire(t)
  \/ Writing /\ \E t \in timers : Written!Fire(t) /\ UNCHANGED <<rows, written, applied>>
  \/ Searching /\ \E t \in timers : Searched!Fire(t) /\ UNCHANGED received

Answers ==
  \/ Collecting /\ \E b \in running : Collected!Complete(b)
  \/ Writing /\ \E b \in running : Written!Write(b) \/ Written!Refuse(b) \/ Written!Answer(b)
  \/ Searching /\ \E b \in running :
       Searched!Answer(b) \/ \E q \in Searched!ToSet(Searched!Packed(b)) : Searched!Receive(b, q)

Tries == Retrying /\ Client

Spec ==
  /\ Init /\ [][Next]_vars
  /\ WF_vars(Fires) /\ WF_vars(Answers) /\ WF_vars(Tries)
-----------------------------------------------------------------------------
NoneWaits ==
  /\ part = "collected" =>
       \A r \in DOMAIN answer : Collected!Submitted(r) => answer[r].kind # "unsettled"
  /\ part = "written" =>
       \A r \in DOMAIN answer : Written!Submitted(r) => answer[r].kind # "unsettled"
  /\ part = "searched" =>
       \A r \in DOMAIN answer : Searched!Submitted(r) => answer[r].kind # "unsettled"
  /\ part = "retried" => state = "ended"

\* Every request that joins a batch is answered in the end, whichever of its
\* batch's size and timer flushes it and whatever becomes of the batch
\* (storage/postgres/coalesce.ts), and a request that is retried ends however
\* often the provider asks to try again (storage/turbopuffer/client.ts).  As no
\* request is submitted twice, it is enough that time and again none waits.
EveryRequestAnswered == []<>NoneWaits

\* Sharing a batch changes no answer.  Each request is answered with its own
\* result, is in one batch at a time and not run again (coalesce.ts); a
\* publication is told exactly how many of its rows were applied, and a merged
\* write weakens no fence (projection-index.ts); a search is handed the rows of
\* its own subqueries and fails only with them (projection-search.ts).
BatchesKeepApart ==
  /\ part = "collected" => Collected!AnsweredByOwn /\ Collected!RunOnce /\ Collected!TimersFit
  /\ part = "written" => Written!AnswersAreTrue /\ Written!MergedWritesKeepFences
  /\ part = "searched" =>
       Searched!OwnRows /\ Searched!FailuresStayApart /\ Searched!RequestsFit

\* "Once competing writes cease, retries converge to the retried document input"
\* (ADR 0001): a job that no other has disturbed since it planned leaves the whole
\* document as its input says, over whatever prefix of whichever attempt it found,
\* and the replay of a prepared mutation is not refused because of its own earlier
\* attempt where the index answers replays (graph/graph-indexing.ts,
\* graph-maintenance.ts, indexing/prepared-mutation.ts).
RetriesConverge ==
  /\ part = "compete" => Compete!RetriesConverge
  /\ part = "replay" => Replays!RetriesConverge /\ Replays!ReplayNotRefused

ArtifactsAreSound ==
  /\ part = "twins" => Twins!DecodedIsSound /\ Twins!RoundTrip /\ Twins!SameWorkSameArtifact
  /\ part = "damage" => Damage!DecodedIsSound /\ Damage!RoundTrip

LeavesPrepared ==
  /\ part = "twins" => Twins!LeavesPrepared
  /\ part = "damage" => Damage!LeavesPrepared

\* What decoding accepts, whatever is found where an artifact was stored, writes no
\* state twice and no vector under content it was not made from; what was not
\* damaged is what was prepared, and runs of one program persist the same artifact
\* in whatever order they captured it.  Nothing the application does afterwards
\* changes a mutation that is prepared (indexing/prepared-mutation.ts).
DecodedIsSound == []ArtifactsAreSound /\ [][LeavesPrepared]_vars
=============================================================================

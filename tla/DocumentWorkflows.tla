-------------------------- MODULE DocumentWorkflows --------------------------
(***************************************************************************)
(* The workflows over one document that span several stores and several     *)
(* independent writes: indexing and removal (graph/graph-indexing.ts),      *)
(* reconciliation with a manifest (graph/graph-maintenance.ts), and the     *)
(* capture and replay of a prepared mutation (indexing/prepared-mutation.ts) *)
(* over whichever stores are deployed.  The stores are taken at their       *)
(* contract (ProjectionIndexStore, GraphTopologyStore): every call is       *)
(* atomic, and a replacement is refused unless the active token is the one   *)
(* it was planned against.                                                  *)
(*                                                                         *)
(* A job is one operation that its caller repeats until it succeeds, over    *)
(* conflicts with other jobs, failing calls and crashes.                    *)
(***************************************************************************)
EXTENDS Integers, Sequences, SequencesExt

CONSTANTS
  Job,            \* [op, value, manifest] by job
  Contents,       \* what each projection of each document value holds
  AnswersReplays, \* whether the index answers a mutation that is active already
  MaxFaults       \* BOUND on failing calls and crashes

VARIABLES
  revisions,  \* Option of [token, content, by] by projection
  edges,      \* the outgoing edges, <<relation, value>>
  listed,     \* whether the document's node is materialised
  tokens,     \* the tokens issued so far
  status,     \* "queued", "running" or "done" by job
  position,   \* the steps each running job has behind it
  read,       \* Option of the revision a job has loaded for its next write
  artifact,   \* Option of the durable prepared mutation of each job
  captured,   \* the replacements a job has captured so far
  faults,
  alone       \* history: no other job has written since the job's plan

stores == <<revisions, edges, listed, tokens>>
vars == <<stores, status, position, read, artifact, captured, faults, alone>>

None == {}
Some(x) == {x}
Jobs == DOMAIN Job
Projections(j) == Job[j].manifest.projections
Relations(j) == Job[j].manifest.relations
AllProjections == UNION {ToSet(Projections(j)) : j \in Jobs}

\* The projections of a manifest have distinct names.
WorkflowAssumption ==
  /\ AnswersReplays \in BOOLEAN /\ MaxFaults \in Nat
  /\ \A j \in Jobs :
       /\ Job[j].op \in {"index", "prepare", "remove", "reconcile"}
       /\ Projections(j) \in Seq(AllProjections)
       /\ \A m, n \in DOMAIN Projections(j) : Projections(j)[m] = Projections(j)[n] => m = n

Init ==
  /\ revisions = [p \in AllProjections |-> None]
  /\ edges = {}
  /\ listed = FALSE
  /\ tokens = 0
  /\ status = [j \in Jobs |-> "queued"]
  /\ position = [j \in Jobs |-> 0]
  /\ read = [j \in Jobs |-> None]
  /\ artifact = [j \in Jobs |-> None]
  /\ captured = [j \in Jobs |-> <<>>]
  /\ faults = 0
  /\ alone = [j \in Jobs |-> TRUE]
-----------------------------------------------------------------------------
(* The stores.                                                             *)

ActiveToken(p) == {r.token : r \in revisions[p]}

Content(j, p) == Contents[Job[j].value][p]
Edges(j) == {<<r, Job[j].value>> : r \in Relations(j)}

\* A replacement: its plan, which names the mutation, is the token it was
\* planned against and the content it installs.
Plan(p, expected, content) == [projection |-> p, expected |-> expected, content |-> content]

AlreadyActive(plan) ==
  AnswersReplays /\ \E r \in revisions[plan.projection] : r.by = plan

\* Mutant of Accepts: a replay of the active mutation is planned again.
AcceptsActiveOnly(plan) == ActiveToken(plan.projection) = plan.expected

Accepts(plan) == AlreadyActive(plan) \/ ActiveToken(plan.projection) = plan.expected

\* replaceRevision.
Replaced(plan) ==
  IF AlreadyActive(plan) THEN UNCHANGED <<revisions, tokens>>
  ELSE /\ tokens' = tokens + 1
       /\ revisions' = [revisions EXCEPT ![plan.projection] =
            Some([token |-> tokens + 1, content |-> plan.content, by |-> plan])]

\* A job that writes disturbs every other one that is under way.
Disturb(j) == alone' = [i \in Jobs |-> IF i = j THEN alone[i] ELSE FALSE]
-----------------------------------------------------------------------------
(* The steps of a job.                                                     *)

Continue(j) == position' = [position EXCEPT ![j] = @ + 1] /\ read' = [read EXCEPT ![j] = None]

Done(j) ==
  /\ status' = [status EXCEPT ![j] = "done"]
  /\ UNCHANGED <<position, read>>

\* Mutant of Fail: the refused write is repeated as it was planned.
FailAgain(j) == UNCHANGED <<status, read>>

\* The attempt fails; the caller starts another one.
Fail(j) ==
  /\ status' = [status EXCEPT ![j] = "queued"]
  /\ read' = [read EXCEPT ![j] = None]

NextProjection(j) == Projections(j)[position[j] + 1]
Remaining(j) == position[j] < Len(Projections(j))

\* Mutant of Start: an attempt goes on where the last one failed.
StartResuming(j) ==
  /\ status[j] = "queued"
  /\ status' = [status EXCEPT ![j] = "running"]
  /\ read' = [read EXCEPT ![j] = None]
  /\ alone' = [alone EXCEPT ![j] = IF artifact[j] = None THEN TRUE ELSE @]
  /\ UNCHANGED <<stores, position, artifact, captured, faults>>

\* Only a prepared mutation survives its attempts.
Start(j) ==
  /\ status[j] = "queued"
  /\ status' = [status EXCEPT ![j] = "running"]
  /\ position' = [position EXCEPT ![j] = 0]
  /\ read' = [read EXCEPT ![j] = None]
  /\ captured' = [captured EXCEPT ![j] = <<>>]
  /\ alone' = [alone EXCEPT ![j] = IF artifact[j] = None THEN TRUE ELSE @]
  /\ UNCHANGED <<stores, artifact, faults>>

Planning(j) ==
  /\ status[j] = "running"
  /\ Job[j].op = "index" \/ (Job[j].op = "prepare" /\ artifact[j] = None)

\* snapshotProvesRevision.
Stored(j, p) == \E r \in revisions[p] : r.content = Content(j, p)

\* indexProjectedRevision: a revision that is stored already is left alone;
\* otherwise it is planned against the token, and embedded meanwhile.
Load(j) ==
  /\ Planning(j) /\ Remaining(j) /\ read[j] = None
  /\ IF Stored(j, NextProjection(j))
       THEN Continue(j)
       ELSE /\ read' = [read EXCEPT ![j] = Some(ActiveToken(NextProjection(j)))]
            /\ UNCHANGED position
  /\ UNCHANGED <<stores, status, artifact, captured, faults, alone>>

ReplaceRevision(j) ==
  /\ Planning(j) /\ Job[j].op = "index"
  /\ \E expected \in read[j] :
       LET plan == Plan(NextProjection(j), expected, Content(j, NextProjection(j)))
       IN  IF Accepts(plan)
             THEN Replaced(plan) /\ Continue(j) /\ Disturb(j) /\ UNCHANGED status
             ELSE Fail(j) /\ UNCHANGED <<revisions, tokens, position, alone>>
  /\ UNCHANGED <<edges, listed, artifact, captured, faults>>

\* The relations are replaced after every projection.
ReplaceTopology(j) ==
  /\ Planning(j) /\ Job[j].op = "index" /\ ~Remaining(j)
  /\ edges' = Edges(j)
  /\ listed' = TRUE
  /\ Disturb(j)
  /\ Done(j)
  /\ UNCHANGED <<revisions, tokens, artifact, captured, faults>>

\* Capture acknowledges a replacement without writing it.
Capture(j) ==
  /\ Planning(j) /\ Job[j].op = "prepare"
  /\ \E expected \in read[j] :
       captured' = [captured EXCEPT ![j] =
         Append(@, Plan(NextProjection(j), expected, Content(j, NextProjection(j))))]
  /\ Continue(j)
  /\ UNCHANGED <<stores, status, artifact, faults, alone>>

\* The mutation is frozen and stored; replays start from it.
Prepare(j) ==
  /\ Planning(j) /\ Job[j].op = "prepare" /\ ~Remaining(j)
  /\ artifact' = [artifact EXCEPT ![j] = Some(captured[j])]
  /\ position' = [position EXCEPT ![j] = 0]
  /\ UNCHANGED <<stores, status, read, captured, faults, alone>>

\* replayPreparedGraphMutation: one operation after the other, from the first.
Replay(j) ==
  /\ status[j] = "running" /\ Job[j].op = "prepare"
  /\ \E operations \in artifact[j] :
       IF position[j] < Len(operations)
         THEN LET plan == operations[position[j] + 1]
              IN  /\ IF Accepts(plan)
                       THEN Replaced(plan) /\ Continue(j) /\ Disturb(j) /\ UNCHANGED status
                       ELSE Fail(j) /\ UNCHANGED <<revisions, tokens, position, alone>>
                  /\ UNCHANGED <<edges, listed>>
         ELSE /\ edges' = Edges(j) /\ listed' = TRUE
              /\ Disturb(j)
              /\ Done(j)
              /\ UNCHANGED <<revisions, tokens>>
  /\ UNCHANGED <<artifact, captured, faults>>

\* removeGraphDocumentWorkflow: every projection of the manifest, then the node.
DeleteRevision(j) ==
  /\ status[j] = "running" /\ Job[j].op = "remove" /\ Remaining(j)
  /\ revisions' = [revisions EXCEPT ![NextProjection(j)] = None]
  /\ Continue(j)
  /\ Disturb(j)
  /\ UNCHANGED <<edges, listed, tokens, status, artifact, captured, faults>>

DeleteNode(j) ==
  /\ status[j] = "running" /\ Job[j].op = "remove" /\ ~Remaining(j)
  /\ edges' = {}
  /\ listed' = FALSE
  /\ Disturb(j)
  /\ Done(j)
  /\ UNCHANGED <<revisions, tokens, artifact, captured, faults>>

\* reconcileDocumentGraphWorkflow: what the manifest does not register goes.
PruneGraph(j) ==
  /\ status[j] = "running" /\ Job[j].op = "reconcile" /\ position[j] = 0
  /\ revisions' = [p \in AllProjections |->
                     IF p \in ToSet(Projections(j)) THEN revisions[p] ELSE None]
  /\ Continue(j)
  /\ Disturb(j)
  /\ UNCHANGED <<edges, listed, tokens, status, artifact, captured, faults>>

PruneTopology(j) ==
  /\ status[j] = "running" /\ Job[j].op = "reconcile" /\ position[j] = 1
  /\ edges' = {edge \in edges : edge[1] \in Relations(j)}
  /\ Disturb(j)
  /\ Done(j)
  /\ UNCHANGED <<revisions, listed, tokens, artifact, captured, faults>>

\* A store or the embedding provider fails, or the process stops.
Fault(j) ==
  /\ faults < MaxFaults
  /\ status[j] = "running"
  /\ faults' = faults + 1
  /\ Fail(j)
  /\ UNCHANGED <<stores, position, artifact, captured, alone>>

Step(j) ==
  \/ Start(j)
  \/ Load(j) \/ ReplaceRevision(j) \/ ReplaceTopology(j)
  \/ Capture(j) \/ Prepare(j) \/ Replay(j)
  \/ DeleteRevision(j) \/ DeleteNode(j)
  \/ PruneGraph(j) \/ PruneTopology(j)

Finished == (\A j \in Jobs : status[j] = "done") /\ UNCHANGED vars

Next == (\E j \in Jobs : Step(j) \/ Fault(j)) \/ Finished

\* Callers retry, and a job that is under way goes on.
Spec == Init /\ [][Next]_vars /\ \A j \in Jobs : WF_vars(Step(j))
-----------------------------------------------------------------------------
\* What a job is for.
Achieved(j) ==
  CASE Job[j].op \in {"index", "prepare"} ->
         /\ \A p \in ToSet(Projections(j)) :
              {r.content : r \in revisions[p]} = {Content(j, p)}
         /\ edges = Edges(j)
         /\ listed
    [] Job[j].op = "remove" ->
         /\ \A p \in ToSet(Projections(j)) : revisions[p] = None
         /\ edges = {}
         /\ ~listed
    [] Job[j].op = "reconcile" ->
         /\ \A p \in AllProjections : revisions[p] # None => p \in ToSet(Projections(j))
         /\ \A edge \in edges : edge[1] \in Relations(j)

\* ADR 0001: "Once competing writes cease, retries converge to the retried
\* document input".  An attempt that no other job has disturbed leaves the
\* whole document as its input says, whatever prefix of which attempt or rival
\* it found.
RetriesConverge ==
  \A j \in Jobs : status[j] = "done" /\ alone[j] => Achieved(j)

\* Every job that is retried ends in the end.
JobsEnd == \A j \in Jobs : <>(status[j] = "done")

\* README, "Atomic publication with prepared mutations": a prepared mutation
\* replays into any storage, "pooled for convergent publication".  A replay
\* that nobody disturbed is not refused because of its own earlier attempt.
ReplayNotRefused ==
  \A j \in Jobs : \A operations \in artifact[j] :
    status[j] = "running" /\ alone[j] /\ position[j] < Len(operations)
      => Accepts(operations[position[j] + 1])
=============================================================================

------------------------ MODULE PublicationCoordinator -----------------------
(***************************************************************************)
(* The D1 publication coordinator (storage/d1/projection-publication.ts)   *)
(* for one document projection in one workspace database.                  *)
(*                                                                         *)
(* Every D1 batch is one transaction and so one step.  A service call is    *)
(* several steps, because the code reads the head, awaits, runs a batch,    *)
(* awaits and reads again; other clients run in between.  call[c] is the    *)
(* program counter and the locals of the one call client c has in           *)
(* progress; once it returns, call[c].at is its result, until the client    *)
(* takes it.                                                               *)
(***************************************************************************)
EXTENDS PublicationHead

CONSTANTS
  Partition,      \* index generations that share the workspace database
  PublicationId,  \* the values crypto.randomUUID can return
  Client,         \* concurrent users of the service
  Retained        \* retainedPublicationHistory

ASSUME RetainedAssumption == Retained \in Nat \ {0}

VARIABLES
  heads,      \* document_graph_projection_heads, by index generation
  mutations,  \* document_graph_projection_mutations with their chunks
  journal,    \* document_graph_projection_publications
  issued,     \* history: the leases ever allocated, as first allocated
  call        \* the service call each client has in progress

tables == <<heads, mutations, journal, issued>>
coordinatorVars == <<heads, mutations, journal, issued, call>>

Idle == [at |-> "idle", intent |-> None, lease |-> None]

CoordinatorInit ==
  /\ heads = [p \in Partition |-> FreshHead]
  /\ mutations = {}
  /\ journal = {}
  /\ issued = {}
  /\ call = [c \in Client |-> Idle]
-----------------------------------------------------------------------------
(* Stored rows and what they reference.                                    *)

MutationRow(i) ==
  [id |-> i.mutation, digest |-> i.digest, op |-> i.op, rev |-> i.rev,
   required |-> i.required, token |-> i.token]

PublicationRow(i, p) ==
  [pub |-> p.pub, mutation |-> i.mutation, part |-> i.part, gen |-> p.gen,
   slots |-> p.slots, status |-> "pending"]

ActiveDigest(head) == {m.digest : m \in {n \in mutations : head.active = Some(n.id)}}

\* The revision that loadRevisions returns for a head.
ActiveRevision(head) ==
  IF head.status = "revision"
    THEN UNION {m.rev : m \in {n \in mutations : head.active = Some(n.id)}}
    ELSE None

SameActive(i) == SameActiveIntent(heads[i.part], ActiveDigest(heads[i.part]), i)

\* Mutants of Referenced: the journal, or the active heads, are forgotten.
ReferencedByHeads(id, hs, rows) ==
  \E p \in Partition : hs[p].active = Some(id) \/ \E q \in hs[p].pending : q.mutation = id

ReferencedByPublications(id, hs, rows) ==
  \/ \E p \in Partition : \E q \in hs[p].pending : q.mutation = id
  \/ \E j \in rows : j.mutation = id

Referenced(id, hs, rows) ==
  \/ \E p \in Partition : \/ hs[p].active = Some(id)
                          \/ \E q \in hs[p].pending : q.mutation = id
  \/ \E j \in rows : j.mutation = id

Unreferenced(ms, hs, rows) == {m \in ms : ~Referenced(m.id, hs, rows)}

\* Mutant of ExpiredHistory: the offset is off by one.
ExpiredHistoryLate(rows, part) ==
  LET completed == {j \in rows : j.part = part /\ j.status # "pending"}
  IN  {j \in completed :
         Cardinality({k \in completed : k.gen > j.gen}) > Retained}

\* Completed journal rows of a partition beyond the newest Retained ones.
ExpiredHistory(rows, part) ==
  LET completed == {j \in rows : j.part = part /\ j.status # "pending"}
  IN  {j \in completed :
         Cardinality({k \in completed : k.gen > j.gen}) >= Retained}
-----------------------------------------------------------------------------
(* beginPublication's batch.                                               *)

Staged(i) ==
  IF \E m \in mutations : m.id = i.mutation
    THEN mutations
    ELSE mutations \cup {MutationRow(i)}

\* Mutants of BeginAccepts: each guard of the UPSERT is missing once.
BeginAcceptsAnyPayload(i) ==
  LET head == heads[i.part]
  IN  /\ head.pending = None \/ PendingIsMutation(head, i)
      /\ head.token = i.expected
      /\ head.slots <= i.slots
      /\ i.slots <= i.max

BeginAcceptsOverPending(i) ==
  LET head == heads[i.part]
  IN  /\ \E m \in Staged(i) : m.id = i.mutation /\ m.digest = i.digest
      /\ head.token = i.expected
      /\ head.slots <= i.slots
      /\ i.slots <= i.max

BeginAcceptsAnyToken(i) ==
  LET head == heads[i.part]
  IN  /\ \E m \in Staged(i) : m.id = i.mutation /\ m.digest = i.digest
      /\ head.pending = None \/ PendingIsMutation(head, i)
      /\ head.slots <= i.slots
      /\ i.slots <= i.max

BeginAcceptsNarrower(i) ==
  LET head == heads[i.part]
  IN  /\ \E m \in Staged(i) : m.id = i.mutation /\ m.digest = i.digest
      /\ head.pending = None \/ PendingIsMutation(head, i)
      /\ head.token = i.expected
      /\ i.slots <= i.max

\* The guards of the UPSERT.  The lease deadline is deliberately not one.
BeginAccepts(i) ==
  LET head == heads[i.part]
  IN  /\ \E m \in Staged(i) : m.id = i.mutation /\ m.digest = i.digest
      /\ head.pending = None \/ PendingIsMutation(head, i)
      /\ head.token = i.expected
      /\ head.slots <= i.slots
      /\ i.slots <= i.max

Allocates(i) == BeginAccepts(i) /\ ~PendingIsMutation(heads[i.part], i)

BegunPending(i, pub) ==
  LET head == heads[i.part]
      granted(id, gen) == [mutation |-> i.mutation, digest |-> i.digest, pub |-> id,
                           gen |-> gen, op |-> i.op, slots |-> i.slots]
  IN  IF PendingIsMutation(head, i) THEN {granted(p.pub, p.gen) : p \in head.pending}
      ELSE Some(granted(pub, head.gen + 1))

BegunHead(i, pub) ==
  LET head == heads[i.part]
  IN  [status |-> head.status, active |-> head.active, token |-> head.token,
       gen |-> IF PendingIsMutation(head, i) THEN head.gen ELSE head.gen + 1,
       slots |-> i.slots, pending |-> BegunPending(i, pub)]

\* Stage the mutation, upsert the head, journal the pending publication and
\* drop the staged mutation again when nothing came to reference it.
BeginBatch(i, pub) ==
  LET accepted == BeginAccepts(i)
      head == IF accepted THEN BegunHead(i, pub) ELSE heads[i.part]
      hs == [heads EXCEPT ![i.part] = head]
      begun == {p \in head.pending : p.mutation = i.mutation /\ p.digest = i.digest}
      rows == journal \cup {PublicationRow(i, p) :
                p \in {q \in begun : \A j \in journal : j.pub # q.pub}}
      dropped == {m \in Unreferenced(Staged(i), hs, rows) :
                    m.id = i.mutation /\ m.digest = i.digest}
  IN  /\ heads' = hs
      /\ journal' = rows
      /\ mutations' = Staged(i) \ dropped
      /\ issued' = IF accepted
                     THEN issued \cup {LeaseOf(i, p.pub, p.gen, p.slots) : p \in begun}
                     ELSE issued
-----------------------------------------------------------------------------
(* finalizePublication's and supersedePublication's batches.               *)

\* Mutant of FinalizeMatches: the lease is recognised by its mutation alone.
FinalizeMatchesMutation(l) ==
  \E p \in heads[l.intent.part].pending : p.mutation = l.intent.mutation

FinalizeMatches(l) ==
  \E p \in heads[l.intent.part].pending :
     /\ p.mutation = l.intent.mutation
     /\ p.digest = l.intent.digest
     /\ p.pub = l.pub
     /\ p.gen = l.gen

\* Mutants of FinalizedHead: a deletion keeps the active token, or the
\* pending columns are not cleared.
FinalizedHeadKeepsToken(l) ==
  LET head == heads[l.intent.part]
  IN  [status |-> IF l.intent.op = "replace" THEN "revision" ELSE "deleted",
       active |-> Some(l.intent.mutation),
       token |-> IF l.intent.op = "replace" THEN l.intent.token ELSE head.token,
       gen |-> head.gen, slots |-> head.slots, pending |-> None]

FinalizedHeadStaysPending(l) ==
  LET head == heads[l.intent.part]
  IN  [status |-> IF l.intent.op = "replace" THEN "revision" ELSE "deleted",
       active |-> Some(l.intent.mutation), token |-> l.intent.token,
       gen |-> head.gen, slots |-> head.slots, pending |-> head.pending]

FinalizedHead(l) ==
  LET head == heads[l.intent.part]
  IN  [status |-> IF l.intent.op = "replace" THEN "revision" ELSE "deleted",
       active |-> Some(l.intent.mutation), token |-> l.intent.token,
       gen |-> head.gen, slots |-> head.slots, pending |-> None]

MarkPublication(rows, l, status) ==
  {IF j.pub = l.pub /\ j.part = l.intent.part THEN [j EXCEPT !.status = status]
   ELSE j : j \in rows}

\* The last two statements of both batches: bound the history of the
\* partition, then collect the mutations nothing refers to any more.
RetireHistory(hs, rows, part) ==
  LET kept == rows \ ExpiredHistory(rows, part)
  IN  /\ heads' = hs
      /\ journal' = kept
      /\ mutations' = mutations \ Unreferenced(mutations, hs, kept)
      /\ UNCHANGED issued

FinalizeBatch(l) ==
  LET part == l.intent.part
      head == IF FinalizeMatches(l) THEN FinalizedHead(l) ELSE heads[part]
      rows == IF head.active = Some(l.intent.mutation) /\ head.pending = None
                THEN MarkPublication(journal, l, "committed")
                ELSE journal
  IN  RetireHistory([heads EXCEPT ![part] = head], rows, part)

\* Mutant of SupersedeBatch: only the head is updated.
SupersedeBatchLeavesJournal(l) ==
  LET part == l.intent.part
      retired == {p \in heads[part].pending : p.pub = l.pub /\ p.gen = l.gen}
  IN  RetireHistory([heads EXCEPT ![part].pending = @ \ retired], journal, part)

SupersedeBatch(l) ==
  LET part == l.intent.part
      retired == {p \in heads[part].pending : p.pub = l.pub /\ p.gen = l.gen}
      wasPending == \E j \in journal : j.pub = l.pub /\ j.part = part
                                       /\ j.status = "pending"
  IN  RetireHistory(
        [heads EXCEPT ![part].pending = @ \ retired],
        IF wasPending THEN MarkPublication(journal, l, "superseded") ELSE journal,
        part)
-----------------------------------------------------------------------------
(* beginPublication as its caller sees it.                                 *)

Granted(c, leases, at) ==
  call' = [call EXCEPT ![c] = [at |-> at, intent |-> call[c].intent, lease |-> leases]]

Moved(c, at) == Granted(c, call[c].lease, at)

\* Validation, the first loadHeads and its early returns.
BeginRead(c, i) ==
  LET head == heads[i.part]
      at == IF i.op = "replace" /\ i.required > i.slots THEN "Invalid"
            ELSE IF i.slots > i.max THEN "Capacity"
            ELSE IF SameActive(i) THEN "outcome"
            ELSE IF /\ i.op = "delete"
                    /\ head.status = "deleted"
                    /\ head.pending = None THEN "Committed"
            ELSE IF SamePendingIntent(head, i) THEN "Publish"
            ELSE IF PlanIsStale(head, i) THEN "Stale"
            ELSE "batch"
  IN  /\ call[c].at = "idle"
      /\ call' = [call EXCEPT ![c] =
                    [at |-> at, intent |-> Some(i),
                     lease |-> IF at = "Publish" THEN ResumedLeases(head, i)
                               ELSE None]]
      /\ UNCHANGED tables

\* loadCommittedOutcome: the committed row may have been collected meanwhile.
ReadOutcome(c) ==
  /\ call[c].at = "outcome"
  /\ \E i \in call[c].intent :
       Moved(c, IF \E m \in mutations : m.id = i.mutation /\ m.digest = i.digest
                  THEN "Committed" ELSE "Conflict")
  /\ UNCHANGED tables

Begin(c) ==
  /\ call[c].at = "batch"
  /\ \E i \in call[c].intent, pub \in PublicationId :
       /\ Allocates(i) => \A l \in issued : l.pub # pub
       /\ BeginBatch(i, pub)
       /\ IF BeginAccepts(i)
            THEN Granted(c, {LeaseOf(i, p.pub, p.gen, p.slots) : p \in BegunPending(i, pub)},
                         "trim")
            ELSE Moved(c, "digest")

\* The separate UPDATE after a successful batch.
SupersedeOlder(c) ==
  /\ call[c].at = "trim"
  /\ \E l \in call[c].lease :
       journal' = {IF /\ j.part = l.intent.part
                      /\ j.gen < l.gen
                      /\ j.status = "pending"
                     THEN [j EXCEPT !.status = "superseded"] ELSE j : j \in journal}
  /\ Moved(c, "Publish")
  /\ UNCHANGED <<heads, mutations, issued>>

\* The batch installed nothing: was the mutation id reused?
ReadDigest(c) ==
  /\ call[c].at = "digest"
  /\ \E i \in call[c].intent :
       Moved(c, IF \E m \in mutations : m.id = i.mutation /\ m.digest # i.digest
                  THEN "Reused" ELSE "after")
  /\ UNCHANGED tables

\* The second loadHeads decides why nothing was installed.
ReadAfter(c) ==
  /\ call[c].at = "after"
  /\ \E i \in call[c].intent :
       LET head == heads[i.part]
       IN  IF SameActive(i) THEN Moved(c, "outcome")
           ELSE IF SamePendingIntent(head, i)
             THEN Granted(c, ResumedLeases(head, i), "Publish")
           ELSE IF head.pending # None THEN Moved(c, "InProgress")
           ELSE IF PlanIsStale(head, i) THEN Moved(c, "Stale")
           ELSE IF head.slots > i.max THEN Moved(c, "Capacity")
           ELSE Moved(c, "Conflict")
  /\ UNCHANGED tables
-----------------------------------------------------------------------------
(* finalizePublication and supersedePublication.                           *)

Finalize(c, l) ==
  /\ call[c].at = "idle"
  /\ FinalizeBatch(l)
  /\ call' = [call EXCEPT ![c] =
                [at |-> IF FinalizeMatches(l) THEN "Finalized" ELSE "confirm",
                 intent |-> Some(l.intent), lease |-> Some(l)]]

\* Nothing was updated: an exact replay, or a retired lease.
ConfirmFinalized(c) ==
  /\ call[c].at = "confirm"
  /\ \E i \in call[c].intent :
       Moved(c, IF SameActive(i) THEN "Finalized" ELSE "Superseded")
  /\ UNCHANGED tables

Supersede(c, l) ==
  /\ call[c].at = "idle"
  /\ SupersedeBatch(l)
  /\ call' = [call EXCEPT ![c] = [at |-> "Retired", intent |-> Some(l.intent),
                                  lease |-> Some(l)]]

Results == {"Invalid", "Capacity", "Committed", "Publish", "Stale", "Reused",
            "Conflict", "InProgress", "Finalized", "Superseded", "Retired"}

\* The steps of a call that is under way.
CoordinatorStep(c) ==
  \/ ReadOutcome(c)
  \/ Begin(c)
  \/ SupersedeOlder(c)
  \/ ReadDigest(c)
  \/ ReadAfter(c)
  \/ ConfirmFinalized(c)
-----------------------------------------------------------------------------
(* What every use of the coordinator preserves.                            *)

\* Generations fence publications: each generation of a partition belongs to
\* one publication, the pending publication holds the newest one and the
\* whole slot closure, and a newer generation never has a smaller closure
\* than an older one.  The provider's fence is sound only because of this.
LeasesFenced ==
  /\ \A p \in Partition : \A q \in heads[p].pending :
       q.gen = heads[p].gen /\ q.slots = heads[p].slots
  /\ \A l \in issued :
       /\ l.gen <= heads[l.intent.part].gen
       /\ l.slots <= heads[l.intent.part].slots
       /\ \A q \in heads[l.intent.part].pending : l.gen = q.gen => l.pub = q.pub
       /\ \A m \in issued : l.intent.part = m.intent.part =>
            /\ l.gen = m.gen => l.pub = m.pub
            /\ l.gen < m.gen => l.slots <= m.slots

\* A lease that can still be finalised was planned against the token that is
\* active now, although nobody compares the two again after beginPublication.
LeasesCurrent ==
  \A l \in issued : FinalizeMatches(l) => l.intent.expected = heads[l.intent.part].token

\* Foreign keys: whatever the batches of another index generation prune and
\* collect, the mutation an active or pending head or a journal row names is
\* still stored, with the payload the head was given.
ReferencesResolve ==
  /\ \A p \in Partition :
       /\ \A id \in heads[p].active : \E m \in mutations : m.id = id
       /\ \A q \in heads[p].pending :
            \E m \in mutations : m.id = q.mutation /\ m.digest = q.digest
  /\ \A j \in journal : \E m \in mutations : m.id = j.mutation

\* Readers of an active revision find exactly one stored inventory for it,
\* and it is the one the active token was issued for.
ActiveRevisionReadable ==
  \A p \in Partition : heads[p].status = "revision" =>
    \E m \in mutations : /\ {n \in mutations : heads[p].active = Some(n.id)} = {m}
                         /\ m.token = heads[p].token
                         /\ m.rev # None

\* The journal says "pending" of a publication exactly while the head does:
\* no step leaves a pending row behind a retired lease or the reverse.
JournalMatchesHead ==
  \A p \in Partition :
    {j \in journal : j.part = p /\ j.status = "pending"} =
      {[pub |-> q.pub, mutation |-> q.mutation, part |-> p, gen |-> q.gen,
        slots |-> q.slots, status |-> "pending"] : q \in heads[p].pending}

\* Retries and churn keep a bounded history: no more than Retained completed
\* publications of a partition survive the end of a batch.
HistoryBounded ==
  \A p \in Partition :
    Cardinality({j \in journal : j.part = p /\ j.status # "pending"}) <= Retained

\* References, journal, history and the readable active revision agree after
\* every batch (storage/d1/projection-publication.ts), whoever runs it.
TablesAgree ==
  ReferencesResolve /\ ActiveRevisionReadable /\ JournalMatchesHead /\ HistoryBounded
=============================================================================

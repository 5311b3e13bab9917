-------------------------- MODULE LockedCoordinator --------------------------
(***************************************************************************)
(* The PostgreSQL publication coordinator                                  *)
(* (storage/postgres/projection-publication.ts) for one document           *)
(* projection: every call is one READ COMMITTED transaction of several      *)
(* statements, and index generations (partitions) keep heads of their own   *)
(* but share the stored mutations.                                         *)
(*                                                                         *)
(* The three tables hold what is committed.  txn[c] is what client c's open  *)
(* transaction has written and locked; a statement sees the committed        *)
(* tables under its own transaction's writes.  A step is one statement, or   *)
(* several when the rows they touch are locked already.  A statement that    *)
(* needs a row another transaction holds is not enabled (Blockers).          *)
(***************************************************************************)
EXTENDS PublicationHead

CONSTANTS
  Partition,      \* index generations that share the schema
  PublicationId,  \* the values gen_random_uuid can return
  Client,         \* concurrent users of the pool
  Retained,       \* retainedPublicationHistory
  Intents         \* the publications clients ask for

AtMostOne(option) == \A x, y \in option : x = y

\* A mutation id is the hash of the plan, its closure included, and the token
\* of the revision is named after it (turbopuffer/projection-index.ts:376, 1150).
LockedAssumption ==
  /\ Retained \in Nat \ {0}
  /\ \A i \in Intents :
       /\ i.part \in Partition /\ i.slots \in Nat
       /\ i.op \in {"replace", "delete"}
       /\ AtMostOne(i.token) /\ (i.token # None <=> i.op = "replace")
       /\ AtMostOne(i.rev) /\ (i.rev # None <=> i.op = "replace")
  /\ \A i, j \in Intents : i.mutation = j.mutation =>
       i.op = j.op /\ i.token = j.token /\ i.rev = j.rev /\ i.slots = j.slots

VARIABLES
  heads,      \* projection_heads; FreshHead where there is no row
  mutations,  \* projection_mutations with their chunks
  journal,    \* projection_publications
  issued,     \* history: the leases ever returned to a client
  call,       \* program counter and locals of each client's call
  txn         \* writes and row locks of each client's open transaction

tables == <<heads, mutations, journal, issued>>
vars == <<heads, mutations, journal, issued, call, txn>>

Idle == [at |-> "idle", intent |-> None, lease |-> None, seen |-> {}]

\* staged: mutation rows inserted; head: Option of the head row as updated;
\* locks: whether the head row is locked; rows: publication rows inserted or
\* updated; expired: publication ids deleted; dead: mutation ids deleted;
\* shared: mutation ids locked FOR KEY SHARE by a foreign key check.
NoWrites ==
  [staged |-> {}, head |-> None, locks |-> FALSE, rows |-> {}, expired |-> {},
   dead |-> {}, shared |-> {}]

Init ==
  /\ heads = [p \in Partition |-> FreshHead]
  /\ mutations = {} /\ journal = {} /\ issued = {}
  /\ call = [c \in Client |-> Idle]
  /\ txn = [c \in Client |-> NoWrites]
-----------------------------------------------------------------------------
(* Rows, and the tables as a statement of client c sees them.              *)

MutationRow(i) ==
  [id |-> i.mutation, digest |-> i.digest, op |-> i.op, rev |-> i.rev,
   required |-> i.required, token |-> i.token]

PublicationRow(i, q) ==
  [pub |-> q.pub, mutation |-> i.mutation, part |-> i.part, gen |-> q.gen,
   slots |-> q.slots, status |-> "pending"]

IntentOf(c) == CHOOSE i \in call[c].intent : TRUE
PartOf(c) == IntentOf(c).part

HeadsOf(c) ==
  [p \in Partition |->
     IF txn[c].head # None /\ p = PartOf(c) THEN CHOOSE h \in txn[c].head : TRUE
     ELSE heads[p]]

MutationsOf(c) == {m \in mutations : m.id \notin txn[c].dead} \cup txn[c].staged

JournalOf(c) ==
  LET mine == {j.pub : j \in txn[c].rows} \cup txn[c].expired
  IN  {j \in journal : j.pub \notin mine}
        \cup {j \in txn[c].rows : j.pub \notin txn[c].expired}

\* The mutation row a query joins to a head as its active mutation.
JoinedActive(head) == {m \in mutations : head.active = Some(m.id)}

\* loadRevisions: the inventory of the active revision of a partition.
ActiveRevision(p) ==
  IF heads[p].status = "revision" THEN UNION {m.rev : m \in JoinedActive(heads[p])}
  ELSE None

Referenced(id, hs, rows) ==
  \/ \E p \in Partition : \/ hs[p].active = Some(id)
                          \/ \E q \in hs[p].pending : q.mutation = id
  \/ \E j \in rows : j.mutation = id

\* Completed publications of a partition beyond the newest Retained ones.
Expired(rows, p) ==
  LET completed == {j \in rows : j.part = p /\ j.status # "pending"}
  IN  {j \in completed :
         Cardinality({k \in completed : k.gen > j.gen}) >= Retained}
-----------------------------------------------------------------------------
(* Row locks.                                                              *)

Holds(d, p) == txn[d].locks /\ PartOf(d) = p

FinalizeMatches(l) ==
  \E q \in heads[l.intent.part].pending :
     /\ q.mutation = l.intent.mutation /\ q.digest = l.intent.digest
     /\ q.pub = l.pub /\ q.gen = l.gen

SupersedeMatches(l) ==
  \E q \in heads[l.intent.part].pending : q.pub = l.pub /\ q.gen = l.gen

\* The transactions whose end the next statement of c waits for: the inserter
\* or deleter of a row with the same key, the holder of the head row, and for
\* a deletion whoever deletes the row too or holds it FOR KEY SHARE.
Blockers(c) ==
  {d \in Client \ {c} :
     \E i \in call[c].intent :
       LET mutation == i.mutation
           holder == Holds(d, i.part)
           at == call[c].at
       IN  \/ at = "stage" /\ mutation \in {m.id : m \in txn[d].staged}
           \/ at \in {"stage", "chunks", "allocate"} /\ mutation \in txn[d].dead
           \/ at \in {"head", "lock"} /\ holder
                /\ (at = "head" => heads[i.part] = FreshHead)
           \/ at = "install" /\ holder /\ \E l \in call[c].lease : FinalizeMatches(l)
           \/ at = "clear" /\ holder /\ \E l \in call[c].lease : SupersedeMatches(l)
           \/ at = "expire"
                /\ {j.pub : j \in Expired(JournalOf(c), i.part)}
                     \cap (txn[d].expired \cup {j.pub : j \in txn[d].rows}) # {}
           \/ at = "delete" /\ call[c].seen \cap (txn[d].dead \cup txn[d].shared) # {}}
-----------------------------------------------------------------------------
(* Transactions.                                                           *)

Goto(c, at) == call' = [call EXCEPT ![c].at = at]

\* ROLLBACK, whether a decision or an error asked for it.
Rollback(c, result) ==
  /\ txn' = [txn EXCEPT ![c] = NoWrites]
  /\ Goto(c, result)
  /\ UNCHANGED tables

Fail(c) == Rollback(c, "Failed")

Write(c, writes, at) ==
  /\ txn' = [txn EXCEPT ![c] = writes]
  /\ Goto(c, at)
  /\ UNCHANGED tables

Commit(c, writes) ==
  /\ heads' = [p \in Partition |->
       IF p = PartOf(c) /\ writes.head # None THEN CHOOSE h \in writes.head : TRUE
       ELSE heads[p]]
  /\ mutations' = {m \in mutations : m.id \notin writes.dead} \cup writes.staged
  /\ journal' = {j \in journal : /\ j.pub \notin writes.expired
                                 /\ \A r \in writes.rows : r.pub # j.pub}
                  \cup {r \in writes.rows : r.pub \notin writes.expired}
  /\ txn' = [txn EXCEPT ![c] = NoWrites]
-----------------------------------------------------------------------------
(* beginPublication.                                                       *)

\* Validation, then BEGIN.
Ask(c, i) ==
  LET at == IF i.op = "replace" /\ i.required > i.slots THEN "Invalid"
            ELSE IF i.slots > i.max THEN "Capacity"
            ELSE "stage"
  IN  /\ call[c].at = "idle"
      /\ call' = [call EXCEPT ![c] = [Idle EXCEPT !.at = at, !.intent = Some(i)]]
      /\ UNCHANGED <<tables, txn>>

\* INSERT ... ON CONFLICT DO NOTHING: an existing row is left alone, unlocked.
Stage(c) ==
  /\ call[c].at = "stage" /\ Blockers(c) = {}
  /\ LET i == IntentOf(c)
         staged == IF \E m \in mutations : m.id = i.mutation THEN {}
                   ELSE {MutationRow(i)}
     IN  Write(c, [txn[c] EXCEPT !.staged = staged], "digest")

\* Mutant of CheckDigest: the row that was found is locked until the end.
CheckDigestLocking(c) ==
  /\ call[c].at = "digest"
  /\ LET i == IntentOf(c)
         stored == {m \in MutationsOf(c) : m.id = i.mutation}
     IN  IF stored = {} THEN Fail(c)
         ELSE IF \E m \in stored : m.digest # i.digest THEN Rollback(c, "Reused")
         ELSE Write(c, [txn[c] EXCEPT !.shared = {i.mutation}],
                    IF i.op = "replace" THEN "chunks" ELSE "head")

\* Mutant of CheckDigest: the digests are not compared.
CheckDigestSkipped(c) ==
  /\ call[c].at = "digest"
  /\ Write(c, txn[c], IF IntentOf(c).op = "replace" THEN "chunks" ELSE "head")

\* A rival may have collected the row meanwhile, which the decoder refuses.
CheckDigest(c) ==
  /\ call[c].at = "digest"
  /\ LET i == IntentOf(c)
         stored == {m \in MutationsOf(c) : m.id = i.mutation}
     IN  IF stored = {} THEN Fail(c)
         ELSE IF \E m \in stored : m.digest # i.digest THEN Rollback(c, "Reused")
         ELSE Write(c, txn[c], IF i.op = "replace" THEN "chunks" ELSE "head")

\* The chunks of a stored mutation are there; those of a mutation collected
\* since would be inserted again, and their foreign key fails.
StoreChunks(c) ==
  /\ call[c].at = "chunks" /\ Blockers(c) = {}
  /\ IF \E m \in MutationsOf(c) : m.id = IntentOf(c).mutation
       THEN Write(c, txn[c], "head") ELSE Fail(c)

\* Mutants of Decision: the pending publication, or the token, is ignored.
DecisionOverPending(head, digest, i) ==
  IF SameActiveIntent(head, digest, i) THEN "Committed"
  ELSE IF SamePendingIntent(head, i) THEN "Publish"
  ELSE IF ActiveMatchesExpectedToken(head, i) /\ head.slots <= i.slots THEN "allocate"
  ELSE "Conflict"

DecisionAnyToken(head, digest, i) ==
  IF SameActiveIntent(head, digest, i) THEN "Committed"
  ELSE IF SamePendingIntent(head, i) THEN "Publish"
  ELSE IF head.pending = None /\ head.slots <= i.slots THEN "allocate"
  ELSE "Conflict"

\* What begin decides under the head lock.
Decision(head, digest, i) ==
  LET expected == ActiveMatchesExpectedToken(head, i)
  IN  IF SameActiveIntent(head, digest, i) THEN "Committed"
      ELSE IF i.op = "delete" /\ head.status = "deleted" /\ head.pending = None
        THEN "Committed"
      ELSE IF SamePendingIntent(head, i) THEN "Publish"
      ELSE IF PlanIsStale(head, i) THEN "Stale"
      ELSE IF /\ head.pending = None \/ PendingIsMutation(head, i)
              /\ expected /\ head.slots <= i.slots /\ i.slots <= i.max THEN "allocate"
      ELSE IF head.pending # None THEN "InProgress"
      ELSE IF head.slots > i.max THEN "Capacity"
      ELSE "Conflict"

\* A decision that writes nothing more rolls back, a resumed lease included.
Decide(c, joined) ==
  LET i == IntentOf(c)
      head == heads[i.part]
      decision == Decision(head, {m.digest : m \in {n \in joined :
                                    head.active = Some(n.id)}}, i)
  IN  IF decision = "allocate"
        THEN Write(c, [txn[c] EXCEPT !.locks = TRUE], "allocate")
      ELSE /\ call' = [call EXCEPT ![c].at = decision, ![c].seen = {},
                         ![c].lease = IF decision = "Publish" THEN ResumedLeases(head, i)
                                      ELSE None]
           /\ txn' = [txn EXCEPT ![c] = NoWrites]
           /\ issued' = issued \cup call'[c].lease
           /\ UNCHANGED <<heads, mutations, journal>>

\* INSERT of the head, DO NOTHING if there is one, and the snapshot of the
\* SELECT ... FOR UPDATE OF h, with the active mutation it joins.
FindHead(c) ==
  /\ call[c].at = "head" /\ Blockers(c) = {}
  /\ IF heads[PartOf(c)] = FreshHead THEN Decide(c, {})
     ELSE /\ call' = [call EXCEPT ![c].at = "lock",
                        ![c].seen = JoinedActive(heads[PartOf(c)])]
          /\ UNCHANGED <<tables, txn>>

\* Mutant of LockHead: FOR UPDATE is missing.
LockHeadWithoutLock(c) ==
  /\ call[c].at = "lock"
  /\ Decide(c, call[c].seen)

\* The locked row is the newest one, but READ COMMITTED joins it to the rows
\* of the snapshot: a mutation that became active since is not among them.
LockHead(c) ==
  /\ call[c].at = "lock" /\ Blockers(c) = {}
  /\ Decide(c, call[c].seen)

\* Publication ids that were ever generated, by a rolled back call excepted.
Allocated ==
  {l.pub : l \in issued}
    \cup {q.pub : q \in UNION {h.pending : h \in UNION {txn[d].head : d \in Client}}}

\* UPDATE of the head; its foreign key locks the pending mutation.
Allocate(c) ==
  /\ call[c].at = "allocate" /\ Blockers(c) = {}
  /\ LET i == IntentOf(c)
         head == heads[i.part]
         granted(pub, gen) == [mutation |-> i.mutation, digest |-> i.digest, pub |-> pub,
                               gen |-> gen, op |-> i.op, slots |-> i.slots]
     IN  IF \A m \in MutationsOf(c) : m.id # i.mutation THEN Fail(c)
         ELSE \E pub \in PublicationId :
           LET pending == IF head.pending = None THEN {granted(pub, head.gen + 1)}
                          ELSE {granted(q.pub, q.gen) : q \in head.pending}
               gen == IF head.pending = None THEN head.gen + 1 ELSE head.gen
           IN  /\ head.pending = None => pub \notin Allocated
               /\ Write(c, [txn[c] EXCEPT
                    !.head = Some([head EXCEPT !.gen = gen, !.slots = i.slots,
                                               !.pending = pending]),
                    !.shared = {i.mutation}], "journal")

\* Journal the publication, supersede older pending ones, COMMIT.
GrantLease(c) ==
  /\ call[c].at = "journal"
  /\ LET i == IntentOf(c)
         head == HeadsOf(c)[i.part]
         leases == ResumedLeases(head, i)
         begun == {PublicationRow(i, q) : q \in
                     {r \in head.pending : \A j \in journal : j.pub # r.pub}}
         older == {[j EXCEPT !.status = "superseded"] : j \in
                     {k \in journal : /\ k.part = i.part /\ k.gen < head.gen
                                      /\ k.status = "pending"}}
     IN  /\ Commit(c, [txn[c] EXCEPT !.rows = begun \cup older])
         /\ issued' = issued \cup leases
         /\ call' = [call EXCEPT ![c].at = "Publish", ![c].lease = leases, ![c].seen = {}]
-----------------------------------------------------------------------------
(* finalizePublication and supersedePublication.                           *)

StartWith(c, l, at) ==
  /\ call[c].at = "idle"
  /\ call' = [call EXCEPT ![c] = [Idle EXCEPT !.at = at, !.intent = Some(l.intent),
                                              !.lease = Some(l)]]
  /\ UNCHANGED <<tables, txn>>

Finalize(c, l) == StartWith(c, l, "install")
Supersede(c, l) == StartWith(c, l, "clear")

Marked(l, status) == {[j EXCEPT !.status = status] : j \in
                        {k \in journal : k.pub = l.pub /\ k.part = l.intent.part}}

\* UPDATE of the head and of the publication row.
Install(c) ==
  /\ call[c].at = "install" /\ Blockers(c) = {}
  /\ \E l \in call[c].lease :
       LET i == l.intent
       IN  IF FinalizeMatches(l)
             THEN Write(c, [txn[c] EXCEPT
                    !.locks = TRUE, !.shared = {i.mutation},
                    !.rows = Marked(l, "committed"),
                    !.head = Some([heads[i.part] EXCEPT
                       !.status = IF i.op = "replace" THEN "revision" ELSE "deleted",
                       !.active = Some(i.mutation), !.token = i.token,
                       !.pending = None])], "expire")
             ELSE Goto(c, "confirm") /\ UNCHANGED <<tables, txn>>

\* Nothing was updated: an exact replay, or a retired lease.
ConfirmFinalized(c) ==
  /\ call[c].at = "confirm"
  /\ LET head == heads[PartOf(c)]
     IN  Rollback(c, IF SameActiveIntent(head, {m.digest : m \in JoinedActive(head)},
                                         IntentOf(c))
                       THEN "Finalized" ELSE "Superseded")

\* Mutant of Clear: the journal keeps the row pending.
ClearHeadOnly(c) ==
  /\ call[c].at = "clear" /\ Blockers(c) = {}
  /\ \E l \in call[c].lease :
       IF SupersedeMatches(l)
         THEN Write(c, [txn[c] EXCEPT
                !.locks = TRUE,
                !.head = Some([heads[l.intent.part] EXCEPT !.pending = None])], "expire")
         ELSE Write(c, txn[c], "expire")

\* A lease that is not pending any more locks and clears nothing.
Clear(c) ==
  /\ call[c].at = "clear" /\ Blockers(c) = {}
  /\ \E l \in call[c].lease :
       LET rows == {j \in Marked(l, "superseded") :
                      \E k \in journal : k.pub = j.pub /\ k.status = "pending"}
       IN  IF SupersedeMatches(l)
             THEN Write(c, [txn[c] EXCEPT
                    !.locks = TRUE, !.rows = rows,
                    !.head = Some([heads[l.intent.part] EXCEPT !.pending = None])], "expire")
             ELSE Write(c, [txn[c] EXCEPT !.rows = rows], "expire")

\* Mutant of ExpireHistory: only superseded publications are pruned.
ExpireSupersededHistory(c) ==
  /\ call[c].at = "expire" /\ Blockers(c) = {}
  /\ Write(c, [txn[c] EXCEPT !.expired =
                 {j.pub : j \in {k \in Expired(JournalOf(c), PartOf(c)) :
                                   k.status = "superseded"}}], "collect")

\* retireHistory: DELETE of the publications beyond the retained ones ...
ExpireHistory(c) ==
  /\ call[c].at = "expire" /\ Blockers(c) = {}
  /\ Write(c, [txn[c] EXCEPT !.expired =
                 {j.pub : j \in Expired(JournalOf(c), PartOf(c))}], "collect")

\* ... and of the mutations nothing refers to in the snapshot,
Collect(c) ==
  /\ call[c].at = "collect"
  /\ call' = [call EXCEPT ![c].at = "delete",
       ![c].seen = {m.id : m \in {n \in mutations :
                      ~Referenced(n.id, HeadsOf(c), JournalOf(c))}}]
  /\ UNCHANGED <<tables, txn>>

\* Mutant of Delete: the schema has no foreign keys.
DeleteUnchecked(c) ==
  /\ call[c].at = "delete" /\ Blockers(c) = {}
  /\ LET gone == call[c].seen \cap {m.id : m \in mutations}
     IN  Write(c, [txn[c] EXCEPT !.dead = gone], "commit")

\* once their rows are free, unless a foreign key refers to one by now.
Delete(c) ==
  /\ call[c].at = "delete" /\ Blockers(c) = {}
  /\ LET gone == call[c].seen \cap {m.id : m \in mutations}
     IN  IF \E id \in gone : Referenced(id, HeadsOf(c), JournalOf(c)) THEN Fail(c)
         ELSE Write(c, [txn[c] EXCEPT !.dead = gone], "commit")

End(c) ==
  /\ call[c].at = "commit"
  /\ Commit(c, txn[c])
  /\ call' = [call EXCEPT ![c].seen = {},
       ![c].at = IF \E j \in txn[c].rows : j.status = "committed" THEN "Finalized"
                 ELSE "Retired"]
  /\ UNCHANGED issued
-----------------------------------------------------------------------------
\* The client takes its answer, or its connection is lost in the middle.
Leave(c) ==
  /\ call[c].at # "idle"
  /\ call' = [call EXCEPT ![c] = Idle]
  /\ txn' = [txn EXCEPT ![c] = NoWrites]
  /\ UNCHANGED tables

Step(c) ==
  \/ Stage(c) \/ CheckDigest(c) \/ StoreChunks(c) \/ FindHead(c) \/ LockHead(c)
  \/ Allocate(c) \/ GrantLease(c)
  \/ Install(c) \/ ConfirmFinalized(c) \/ Clear(c)
  \/ ExpireHistory(c) \/ Collect(c) \/ Delete(c) \/ End(c)

Next ==
  \E c \in Client :
    \/ \E i \in Intents : Ask(c, i)
    \/ \E l \in issued : Finalize(c, l) \/ Supersede(c, l)
    \/ Step(c) \/ Leave(c)

Spec == Init /\ [][Next]_vars
-----------------------------------------------------------------------------
(* Types.                                                                  *)

Results == {"Invalid", "Capacity", "Committed", "Publish", "Stale", "Reused", "Failed",
            "Conflict", "InProgress", "Finalized", "Superseded", "Retired"}

HeadOK(h) ==
  /\ AtMostOne(h.active) /\ AtMostOne(h.token) /\ AtMostOne(h.pending)
  /\ (h.active = None) <=> (h.status = "never")
  /\ (h.token # None) <=> (h.status = "revision")
  /\ h.gen \in Nat /\ h.slots \in Nat

\* Heads, committed or not, satisfy the CHECK constraints of the schema, keys
\* are unique, and only a call under way has written or locked anything.
TypeOK ==
  /\ \A p \in Partition : HeadOK(heads[p])
  /\ \A c \in Client : /\ \A h \in txn[c].head : HeadOK(h)
                       /\ call[c].intent \subseteq Intents
                       /\ call[c].at \in Results \cup {"idle"} => txn[c] = NoWrites
  /\ \A m, n \in mutations : m.id = n.id => m = n
  /\ \A j, k \in journal :
       j.pub = k.pub \/ (j.part = k.part /\ j.gen = k.gen) => j = k
-----------------------------------------------------------------------------
(* Safety.                                                                 *)

\* The mutation an active or pending head or a journal row names is stored,
\* although transactions of other index generations collect mutations from
\* snapshots that cannot see the reference.
ReferencesResolve ==
  /\ \A p \in Partition :
       /\ \A id \in heads[p].active : \E m \in mutations : m.id = id
       /\ \A q \in heads[p].pending : \E m \in mutations : m.id = q.mutation
  /\ \A j \in journal : \E m \in mutations : m.id = j.mutation

\* What is more, it is stored with the payload the publication was begun for.
PendingHasItsPayload ==
  \A p \in Partition : \A q \in heads[p].pending :
    \E m \in mutations : m.id = q.mutation /\ m.digest = q.digest

\* Readers of an active revision find one inventory, the one the active token
\* was issued for.
ActiveRevisionReadable ==
  \A p \in Partition : heads[p].status = "revision" =>
    /\ Cardinality(ActiveRevision(p)) = 1
    /\ \A m \in JoinedActive(heads[p]) : m.token = heads[p].token

\* The journal says "pending" exactly of the publication the head does.
JournalMatchesHead ==
  \A p \in Partition :
    {<<j.pub, j.mutation, j.gen>> : j \in
       {k \in journal : k.part = p /\ k.status = "pending"}} =
    {<<q.pub, q.mutation, q.gen>> : q \in heads[p].pending}

\* No more than Retained completed publications of a partition survive a
\* commit, although a retirer that lost its lease holds no head lock.
HistoryBounded ==
  \A p \in Partition :
    Cardinality({j \in journal : j.part = p /\ j.status # "pending"}) <= Retained

\* Transactions never wait for each other in a circle: whoever waits, waits
\* in the end for one that can go on, so PostgreSQL aborts none of them.
WaitsEnd ==
  \A S \in (SUBSET Client) \ {{}} : \E c \in S : Blockers(c) \cap S = {}

Register == INSTANCE LeaseRegister

\* The transactions together implement the promise of the coordinator.
ImplementsRegister == Register!Spec

\* A replay of the mutation that is active is told so
\* (docs/decisions/0002-workspace-d1-and-turbopuffer-storage.md:201).
CommittedReplayAnswered ==
  [][\A c \in Client : call[c].at = "lock" /\ call'[c].at # "lock" /\ call'[c].at # "idle"
       /\ SameActiveIntent(heads[PartOf(c)],
                           {m.digest : m \in JoinedActive(heads[PartOf(c)])}, IntentOf(c))
         => call'[c].at = "Committed"]_vars
=============================================================================

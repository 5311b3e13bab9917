-------------------- MODULE TurbopufferPublication_proofs --------------------
(***************************************************************************)
(* What holds of the projection index store for any workers, requests,     *)
(* revisions and embeddings, whatever answers are lost, whatever requests  *)
(* land late or twice and whichever workers crash: the namespace only ever *)
(* holds the rows of one publication, the active or the pending one.        *)
(***************************************************************************)
EXTENDS TurbopufferPublication, PublicationCoordinator_proofs
-----------------------------------------------------------------------------
(* The inductive invariant.                                                *)

RequestsInv == \A q \in prepared : \E r \in Revision, v \in Vector :
                 q = ReplaceRequest(r, v, q.expected)

\* The requests there are to send: those prepared so far, and the deletion.
Sendable == prepared \cup {DeleteRequest}

\* Every intent is what planning made of a request: its closure wide enough for
\* the revision and narrow enough for the store, a replacement planned against
\* the token it was prepared with.
Planned(i) ==
  \E q \in Sendable :
    /\ i = IntentOf(q, i.expected, i.slots)
    /\ i.slots \in 0..MaxSlots
    /\ q.required <= i.slots
    /\ q.op = "replace" => i.expected = q.expected

IntentsPlanned == \A i \in KnownIntents : Planned(i)

\* The CHECK constraints of the head, and the closure the store allows.
HereInv ==
  /\ heads[Here].slots <= MaxSlots
  /\ heads[Here].status \in {"never", "revision", "deleted"}
  /\ heads[Here].active = None <=> heads[Here].status = "never"
  /\ heads[Here].token = None <=> heads[Here].status # "revision"

\* Tokens are those of earlier leases, so no plan is made against its own.
TokensInv ==
  /\ \A t \in heads[Here].token : \E m \in issued : m.intent.mutation = t
  /\ \A l \in issued : \A t \in l.intent.expected :
       \E m \in issued : m.gen < l.gen /\ m.intent.mutation = t

IsPending(l) == \E p \in heads[Here].pending : p.pub = l.pub

ActiveRows == {n \in mutations : heads[Here].active = Some(n.id)}

IsActive(l) ==
  /\ heads[Here].active = Some(l.intent.mutation)
  /\ \E n \in ActiveRows : n.digest = l.intent.digest

\* The namespace once the rows of a publication are all there are.
Image(l) == [s \in RowId |-> IF s \in RowsOf(l) THEN Some(l) ELSE None]

\* The rows are at least as new as a lease, or newer.
Passed(l) == \E m \in rows[0] : l.gen <= m.gen

Overtaken(l) == \E m \in rows[0] : l.gen < m.gen

\* The rows are those of one publication, the pending or the active one, and
\* whatever is not pending has been passed by them.
NamespaceInv ==
  /\ \/ rows = [s \in RowId |-> None] /\ heads[Here].active = None
     \/ \E m \in sent : rows = Image(m) /\ (IsPending(m) \/ IsActive(m))
  /\ \A l \in issued : IsPending(l) \/ Passed(l)

\* An operation is about one request, one plan and one lease, its call about
\* the same, and what it found out about the rows stays so.
WorkerInv(w) ==
  /\ DOMAIN work[w] = {"at", "request", "token", "slots", "tries", "lease"}
  /\ work[w].at \in WorkPoints
  /\ work[w].slots \subseteq 0..MaxSlots
  /\ work[w].tries \in 0..PlanRetries
  /\ work[w].request \subseteq Sendable
  /\ \A x, y \in work[w].request : x = y
  /\ \A q \in work[w].request : q.op = "replace" => work[w].token = Some(q.expected)
  /\ work[w].at = "idle" <=> work[w].request = None
  /\ work[w].lease \subseteq issued
  /\ \A x, y \in work[w].lease : x = y
  /\ \A x, y \in call[w].lease : x = y
  /\ call[w].at # "idle" => work[w].at \in {"begin", "end"}
  /\ work[w].at = "await" => work[w].lease \subseteq sent
  /\ work[w].at = "visible" => \A l \in work[w].lease : Passed(l)
  /\ work[w].at = "fenced" => \A l \in work[w].lease : Overtaken(l)

\* Everything but the operations in progress.
TablesAndRowsInv ==
  /\ CoordinatorInv /\ TablesInv
  /\ RequestsInv
  /\ sent \subseteq issued
  /\ IntentsPlanned
  /\ HereInv
  /\ TokensInv
  /\ NamespaceInv

WorkInv == work = [w \in Client |-> work[w]] /\ \A w \in Client : WorkerInv(w)

StoreInv == TablesAndRowsInv /\ WorkInv
-----------------------------------------------------------------------------
(* Requests and the intents they become.                                   *)

LEMMA SendableRequests ==
  ASSUME RequestsInv, NEW q \in Sendable
  PROVE  /\ q.op \in {"replace", "delete"}
         /\ q.required \in Nat
         /\ q.op = "replace" => q.rev # None
         /\ q.op = "delete" => q = DeleteRequest
  BY StoreAssumption DEF RequestsInv, Sendable, DeleteRequest, ReplaceRequest, Some, None

LEMMA PlannedIntents ==
  ASSUME RequestsInv, NEW i, Planned(i)
  PROVE  /\ i.part = Here /\ i.part \in Partition
         /\ i.mutation = <<i.op, i.expected, i.rev, i.required, i.slots>>
         /\ i.op \in {"replace", "delete"}
         /\ i.token = IF i.op = "replace" THEN Some(i.mutation) ELSE None
         /\ i.slots \in Nat /\ i.slots <= MaxSlots
         /\ i.required \in Nat /\ i.required <= i.slots
         /\ i.op = "replace" => i.rev # None
         /\ i.max = MaxSlots
         /\ i = [part |-> i.part, op |-> i.op, mutation |-> i.mutation,
                 digest |-> i.digest, expected |-> i.expected, token |-> i.token,
                 rev |-> i.rev, required |-> i.required, slots |-> i.slots,
                 max |-> i.max]
  <1>1. PICK q \in Sendable : /\ i = IntentOf(q, i.expected, i.slots)
                              /\ i.slots \in 0..MaxSlots /\ q.required <= i.slots
    BY DEF Planned
  <1>2. /\ i.part = Here /\ i.op = q.op /\ i.rev = q.rev /\ i.required = q.required
        /\ i.mutation = <<q.op, i.expected, q.rev, q.required, i.slots>>
        /\ i.token = IF q.op = "replace" THEN Some(i.mutation) ELSE None
        /\ i.max = MaxSlots
    BY <1>1 DEF IntentOf
  <1>3. i = [part |-> i.part, op |-> i.op, mutation |-> i.mutation,
             digest |-> i.digest, expected |-> i.expected, token |-> i.token,
             rev |-> i.rev, required |-> i.required, slots |-> i.slots, max |-> i.max]
    BY <1>1 DEF IntentOf
  <1> QED
    BY <1>1, <1>2, <1>3, SendableRequests, StoreAssumption

\* The mutation id is a hash of the plan, so one id and digest are one intent.
LEMMA PlannedAgree ==
  ASSUME RequestsInv, NEW i, NEW j, Planned(i), Planned(j)
  PROVE  Agree(i, j)
  <1> SUFFICES ASSUME i.mutation = j.mutation, i.digest = j.digest
               PROVE  i = j
    BY DEF Agree
  <1>1. /\ i.op = j.op /\ i.expected = j.expected /\ i.rev = j.rev
        /\ i.required = j.required /\ i.slots = j.slots
    BY PlannedIntents
  <1>2. i.part = j.part /\ i.token = j.token /\ i.max = j.max
    BY <1>1, PlannedIntents
  <1>3. /\ i = [part |-> i.part, op |-> i.op, mutation |-> i.mutation,
                digest |-> i.digest, expected |-> i.expected, token |-> i.token,
                rev |-> i.rev, required |-> i.required, slots |-> i.slots, max |-> i.max]
        /\ j = [part |-> j.part, op |-> j.op, mutation |-> j.mutation,
                digest |-> j.digest, expected |-> j.expected, token |-> j.token,
                rev |-> j.rev, required |-> j.required, slots |-> j.slots, max |-> j.max]
    BY PlannedIntents
  <1> QED
    BY <1>1, <1>2, <1>3

\* Planning a request against a token it may be planned against.
LEMMA PlanningIsPlanned ==
  ASSUME RequestsInv, NEW q \in Sendable, NEW expected, NEW slots \in 0..MaxSlots,
         q.required <= slots, q.op = "replace" => expected = q.expected
  PROVE  Planned(IntentOf(q, expected, slots))
  <1> DEFINE i == IntentOf(q, expected, slots)
  <1>1. i.expected = expected /\ i.slots = slots
    BY DEF IntentOf
  <1> HIDE DEF i
  <1>2. i = IntentOf(q, i.expected, i.slots)
    BY <1>1 DEF i
  <1>3. Planned(i)
    BY <1>1, <1>2 DEF Planned
  <1> QED
    BY <1>3 DEF i

LEMMA StillPlanned ==
  ASSUME prepared \subseteq prepared', KnownIntents' \subseteq KnownIntents, IntentsPlanned
  PROVE  IntentsPlanned'
  BY DEF IntentsPlanned, Planned, Sendable
-----------------------------------------------------------------------------
(* The leases and the head of this partition.                              *)

\* What is known of any lease.
LEMMA IssuedLeases ==
  ASSUME TablesAndRowsInv, NEW l \in issued
  PROVE  /\ l.intent.part = Here /\ Planned(l.intent)
         /\ l.slots = l.intent.slots /\ l.slots \in Nat /\ l.slots <= MaxSlots
         /\ l.intent.required \in Nat /\ l.intent.required <= l.slots
         /\ l.gen \in Nat /\ l.gen <= heads[Here].gen
         /\ \A m \in issued : /\ l.pub = m.pub => l = m
                              /\ l.gen = m.gen => l = m
                              /\ l.gen < m.gen => l.slots <= m.slots
  <1>1. Planned(l.intent) /\ \A m \in issued : m.intent.part = Here
    BY LeaseIntentsKnown, PlannedIntents DEF TablesAndRowsInv, IntentsPlanned
  <1>2. /\ l.intent.slots <= MaxSlots /\ l.intent.required \in Nat
        /\ l.intent.required <= l.intent.slots
    BY <1>1, PlannedIntents DEF TablesAndRowsInv
  <1>3. l.slots = l.intent.slots /\ \A m \in issued : l.pub = m.pub => l = m
    BY DEF TablesAndRowsInv, TablesInv, RowsInv, LeasesDistinct
  <1>4. LeaseShape(l) /\ l.gen <= heads[l.intent.part].gen
    BY DEF TablesAndRowsInv, CoordinatorInv, FenceInv, LeasesFenced
  <1>5. \A m \in issued : l.intent.part = m.intent.part =>
           /\ l.gen = m.gen => l.pub = m.pub
           /\ l.gen < m.gen => l.slots <= m.slots
    BY DEF TablesAndRowsInv, CoordinatorInv, FenceInv, LeasesFenced
  <1> QED
    BY <1>1, <1>2, <1>3, <1>4, <1>5 DEF LeaseShape

\* The pending lease holds the newest generation.
LEMMA PendingLease ==
  ASSUME TablesAndRowsInv, NEW l \in issued, IsPending(l)
  PROVE  /\ heads[Here].pending = {PendingOf(l)}
         /\ l.gen = heads[Here].gen /\ l.slots = heads[Here].slots
         /\ FinalizeMatches(l)
         /\ PendingLeases = {l}
  <1>1. PICK q \in heads[Here].pending : q.pub = l.pub
    BY DEF IsPending
  <1>2. l.intent.part = Here /\ Here \in Partition
    BY IssuedLeases, StoreAssumption
  <1>3. q = PendingOf(l) /\ heads[Here].pending = {q}
    BY <1>1, <1>2, MatchedLease DEF TablesAndRowsInv, TablesInv, CoordinatorInv
  <1>4. q.gen = heads[Here].gen /\ q.slots = heads[Here].slots
    BY <1>2 DEF TablesAndRowsInv, CoordinatorInv, FenceInv, LeasesFenced
  <1>5. FinalizeMatches(l)
    BY <1>2, <1>3 DEF FinalizeMatches, PendingOf
  <1>6. PendingLeases = {l}
    BY <1>1, <1>2, <1>3, IssuedLeases DEF PendingLeases, PendingOf
  <1> QED
    BY <1>3, <1>4, <1>5, <1>6 DEF PendingOf

\* Whatever is pending is the publication of a lease.
LEMMA PendingHasLease ==
  ASSUME TablesAndRowsInv, heads[Here].pending # None
  PROVE  \E l \in issued : IsPending(l)
  BY StoreAssumption
  DEF TablesAndRowsInv, TablesInv, RowsInv, PendingFromLeases, PendingOf, IsPending, None

LEMMA HeadHere ==
  ASSUME TablesAndRowsInv
  PROVE  /\ Here \in Partition /\ HeadShape(heads[Here]) /\ heads = [p \in Partition |-> heads[p]]
         /\ heads[Here].gen \in Nat /\ heads[Here].slots \in Nat /\ MaxSlots \in Nat
         /\ 0 \in RowId
  BY StoreAssumption DEF TablesAndRowsInv, CoordinatorInv, FenceInv, HeadShape, RowId
-----------------------------------------------------------------------------
(* What the coordinator does to this partition, as the store sees it.      *)

\* The head stays and so does what is stored of the active revision.
Stays ==
  heads'[Here] = heads[Here] /\ issued' = issued /\ ActiveRows' = ActiveRows

\* A lease is granted to a plan made against the active token.
Grants(l) ==
  /\ heads[Here].pending = None
  /\ l.intent \in KnownIntents
  /\ l.intent.expected = heads[Here].token
  /\ l.gen = heads[Here].gen + 1
  /\ l.slots = l.intent.slots
  /\ issued' = issued \cup {l}
  /\ heads'[Here] = [status |-> heads[Here].status, active |-> heads[Here].active,
                     token |-> heads[Here].token, gen |-> l.gen, slots |-> l.slots,
                     pending |-> {PendingOf(l)}]
  /\ ActiveRows' = ActiveRows

\* The pending lease becomes the active mutation.
Commits(l) ==
  /\ IsPending(l)
  /\ issued' = issued
  /\ heads'[Here] = FinalizedHead(l)
  /\ IsActive(l)'

\* The stored row of the active mutation stays the one it is.
LEMMA ActiveRowsStay ==
  ASSUME RowsInv, RowsInv', heads'[Here].active = heads[Here].active,
         \A m \in mutations' : m \in mutations \/ \A n \in mutations : n.id # m.id
  PROVE  ActiveRows' = ActiveRows
  <1>1. ASSUME NEW n \in mutations, heads[Here].active = Some(n.id)
        PROVE  n \in mutations'
    <2>1. PICK m \in mutations' : m.id = n.id
      BY <1>1, StoreAssumption DEF RowsInv, ReferencesResolve, Some
    <2>2. m \in mutations
      BY <2>1
    <2> QED
      BY <2>1, <2>2 DEF RowsInv, MutationsFromLeases
  <1>2. ASSUME NEW n \in mutations', heads[Here].active = Some(n.id)
        PROVE  n \in mutations
    <2>1. \E m \in mutations : m.id = n.id
      BY <1>2, StoreAssumption DEF RowsInv, ReferencesResolve, Some
    <2> QED
      BY <2>1
  <1> QED
    BY <1>1, <1>2 DEF ActiveRows

LEMMA BeginGrants ==
  ASSUME TablesAndRowsInv, RowsInv', NEW i \in KnownIntents, NEW pub, BeginBatch(i, pub),
         Allocates(i), \A l \in issued : l.pub # pub
  PROVE  Grants(LeaseOf(i, pub, heads[Here].gen + 1, i.slots))
  <1> DEFINE old == heads[Here]
             lease == LeaseOf(i, pub, old.gen + 1, i.slots)
  <1>1. i.part = Here /\ i.slots \in Nat
    BY PlannedIntents DEF TablesAndRowsInv, IntentsPlanned
  <1>2. /\ BegunPending(i, pub) = {PendingOf(lease)}
        /\ issued' = issued \cup {lease}
    BY <1>1, HeadHere, AllocateTables DEF TablesAndRowsInv, TablesInv, CoordinatorInv
  <1>3. /\ lease.intent = i /\ lease.gen = old.gen + 1 /\ lease.slots = i.slots
    BY DEF LeaseOf
  <1>4. old.pending = None /\ old.token = i.expected
    BY <1>1 DEF Allocates, BeginAccepts
  <1>5. heads'[Here] = BegunHead(i, pub)
    BY <1>1, HeadHere DEF BeginBatch, Allocates
  <1>6. BegunHead(i, pub) = [status |-> old.status, active |-> old.active,
                             token |-> old.token, gen |-> lease.gen, slots |-> lease.slots,
                             pending |-> {PendingOf(lease)}]
    BY <1>1, <1>2, <1>3 DEF BegunHead, Allocates
  <1>7. \A m \in mutations' : m \in mutations \/ \A n \in mutations : n.id # m.id
    BY DEF BeginBatch, Staged, MutationRow
  <1>8. ActiveRows' = ActiveRows
    BY <1>5, <1>6, <1>7, ActiveRowsStay DEF TablesAndRowsInv, TablesInv
  <1> HIDE DEF lease
  <1>9. Grants(lease)
    BY <1>2, <1>3, <1>4, <1>5, <1>6, <1>8 DEF Grants
  <1> QED
    BY <1>9 DEF lease

LEMMA CoordinateEffect ==
  ASSUME TablesAndRowsInv, RowsInv', NEW w \in Client, CoordinatorStep(w)
  PROVE  Stays \/ \E l : Grants(l)
  <1>1. CASE heads' = heads /\ issued' = issued /\ mutations' \subseteq mutations
    BY <1>1, ActiveRowsStay DEF Stays, TablesAndRowsInv, TablesInv
  <1>2. CASE \E i \in call[w].intent, pub \in PublicationId :
               Allocates(i) /\ BeginBatch(i, pub) /\ \A l \in issued : l.pub # pub
    BY <1>2, OwnIntentsKnown, BeginGrants
  <1> QED
    BY <1>1, <1>2, CoordinatorStepCases DEF TablesAndRowsInv

LEMMA RetiredMutations ==
  ASSUME NEW hs, NEW rs, NEW part, RetireHistory(hs, rs, part)
  PROVE  /\ mutations' \subseteq mutations /\ issued' = issued /\ heads' = hs
         /\ \A m \in mutations : Referenced(m.id, hs, journal') => m \in mutations'
  BY DEF RetireHistory, Unreferenced

LEMMA FinalizeEffect ==
  ASSUME TablesAndRowsInv, RowsInv', NEW l \in issued, FinalizeBatch(l)
  PROVE  Stays \/ Commits(l)
  <1> DEFINE head == IF FinalizeMatches(l) THEN FinalizedHead(l) ELSE heads[Here]
  <1>1. l.intent.part = Here
    BY IssuedLeases
  <1>2. /\ mutations' \subseteq mutations /\ issued' = issued
        /\ heads' = [heads EXCEPT ![Here] = head]
        /\ \A m \in mutations : Referenced(m.id, heads', journal') => m \in mutations'
    BY <1>1, RetiredMutations DEF FinalizeBatch
  <1>3. heads'[Here] = head
    BY <1>2, HeadHere
  <1>4. CASE ~ FinalizeMatches(l)
    BY <1>2, <1>3, <1>4, ActiveRowsStay DEF Stays, TablesAndRowsInv, TablesInv
  <1>5. CASE FinalizeMatches(l)
    <2>1. PICK q \in heads[Here].pending :
            q.pub = l.pub /\ q.mutation = l.intent.mutation /\ q.digest = l.intent.digest
      BY <1>1, <1>5 DEF FinalizeMatches
    <2>2. PICK m \in mutations : m.id = l.intent.mutation /\ m.digest = l.intent.digest
      BY <2>1, HeadHere DEF TablesAndRowsInv, TablesInv, RowsInv, ReferencesResolve
    <2>3. heads'[Here] = FinalizedHead(l) /\ heads'[Here].active = Some(l.intent.mutation)
      BY <1>3, <1>5 DEF FinalizedHead
    <2>4. m \in mutations'
      BY <1>2, <2>2, <2>3, HeadHere DEF Referenced
    <2> QED
      BY <1>2, <2>1, <2>2, <2>3, <2>4 DEF Commits, IsPending, IsActive, ActiveRows
  <1> QED
    BY <1>4, <1>5

\* Retiring a lease that the rows have overtaken changes nothing of the head:
\* it was not pending any more.
LEMMA OvertakenIsPast ==
  ASSUME TablesAndRowsInv, NEW l \in issued, Overtaken(l)
  PROVE  ~ IsPending(l)
  <1>1. PICK m \in rows[0] : l.gen < m.gen
    BY DEF Overtaken
  <1>2. m \in issued
    BY <1>1, HeadHere DEF TablesAndRowsInv, NamespaceInv, Image, Some, None
  <1> QED
    BY <1>1, <1>2, IssuedLeases, PendingLease, HeadHere

LEMMA SupersedeEffect ==
  ASSUME TablesAndRowsInv, RowsInv', NEW l \in issued, Overtaken(l), SupersedeBatch(l)
  PROVE  Stays
  <1> DEFINE retired == {p \in heads[Here].pending : p.pub = l.pub /\ p.gen = l.gen}
  <1>1. l.intent.part = Here
    BY IssuedLeases
  <1>2. retired = {}
    BY OvertakenIsPast DEF IsPending
  <1>3. /\ mutations' \subseteq mutations /\ issued' = issued
        /\ heads' = [heads EXCEPT ![Here].pending = @ \ retired]
    BY <1>1, RetiredMutations DEF SupersedeBatch
  <1>4. heads'[Here] = heads[Here]
    <2>1. heads'[Here] = [heads[Here] EXCEPT !.pending = heads[Here].pending]
      BY <1>2, <1>3, HeadHere
    <2> QED
      BY <2>1, HeadHere DEF HeadShape
  <1> QED
    BY <1>3, <1>4, ActiveRowsStay DEF Stays, TablesAndRowsInv, TablesInv
-----------------------------------------------------------------------------
(* The namespace.                                                          *)

LEMMA ImageRows ==
  ASSUME TablesAndRowsInv, NEW m \in issued
  PROVE  /\ \A s \in RowId : Image(m)[s] = IF s <= m.slots THEN {m} ELSE {}
         /\ Image(m)[0] = {m}
         /\ RowsOf(m) \subseteq RowId
  BY IssuedLeases, HeadHere DEF Image, RowsOf, RowId, Some, None

\* The marker tells whose the rows are.
LEMMA MarkerRows ==
  ASSUME TablesAndRowsInv, NEW m \in rows[0]
  PROVE  /\ m \in sent /\ m \in issued /\ rows = Image(m) /\ rows[0] = {m}
         /\ IsPending(m) \/ IsActive(m)
  <1>1. sent \subseteq issued /\ rows # [s \in RowId |-> None]
    BY HeadHere DEF TablesAndRowsInv, None
  <1>2. PICK n \in sent : rows = Image(n) /\ (IsPending(n) \/ IsActive(n))
    BY <1>1 DEF TablesAndRowsInv, NamespaceInv
  <1>3. rows[0] = {n}
    BY <1>1, <1>2, ImageRows
  <1> QED
    BY <1>1, <1>2, <1>3

\* A conditional write reaches every row it wants or none: the rows afterwards
\* are those of the lease, which is no older, or what they were.
LEMMA WriteCases ==
  ASSUME TablesAndRowsInv, NEW l \in sent
  PROVE  \/ /\ Affected(l) = RowsOf(l) /\ Written(l) = Image(l)
            /\ \A s \in RowId : \A old \in rows[s] : old.gen < l.gen \/ old = l
         \/ Affected(l) = {} /\ Written(l) = rows /\ Overtaken(l)
  <1>1. l \in issued /\ sent \subseteq issued
    BY DEF TablesAndRowsInv
  <1>2. RowsOf(l) \subseteq RowId /\ l.gen \in Nat /\ l.slots \in Nat /\ 0 \in RowsOf(l)
    <2>1. RowsOf(l) \subseteq RowId /\ l.gen \in Nat /\ l.slots \in Nat
      BY <1>1, ImageRows, IssuedLeases
    <2> QED
      BY <2>1 DEF RowsOf
  <1>3. CASE rows = [s \in RowId |-> None]
    <2>1. Affected(l) = RowsOf(l)
      BY <1>2, <1>3 DEF Affected, FenceAdmits, None
    <2> QED
      BY <1>2, <1>3, <2>1 DEF Written, Image, None
  <1>4. ASSUME NEW m \in sent, rows = Image(m)
        PROVE  \/ /\ Affected(l) = RowsOf(l) /\ Written(l) = Image(l)
                  /\ \A s \in RowId : \A old \in rows[s] : old.gen < l.gen \/ old = l
               \/ Affected(l) = {} /\ Written(l) = rows /\ Overtaken(l)
    <2>1. /\ \A s \in RowId : rows[s] = IF s <= m.slots THEN {m} ELSE {}
          /\ rows[0] = {m} /\ m \in issued /\ m.gen \in Nat /\ m.slots \in Nat
      BY <1>1, <1>4, ImageRows, IssuedLeases
    <2>2. CASE l.gen < m.gen
      <3>1. l.slots <= m.slots
        BY <1>1, <2>1, <2>2, IssuedLeases
      <3>2. \A s \in RowsOf(l) : rows[s] = {m}
        BY <1>2, <2>1, <3>1 DEF RowsOf
      <3>3. Affected(l) = {}
        BY <1>2, <2>1, <2>2, <3>2 DEF Affected, FenceAdmits
      <3>4. Written(l) = rows
        BY <1>4, <3>3 DEF Written, Image
      <3> QED
        BY <2>1, <2>2, <3>3, <3>4 DEF Overtaken
    <2>3. CASE ~ (l.gen < m.gen)
      <3>1. m.gen < l.gen \/ m = l
        BY <1>1, <1>2, <2>1, <2>3, IssuedLeases
      <3>2. Affected(l) = RowsOf(l)
        BY <1>2, <2>1, <3>1 DEF Affected, FenceAdmits
      <3>3. m.slots <= l.slots
        BY <1>1, <1>2, <2>1, <3>1, IssuedLeases
      <3>4. \A s \in RowId : s \notin RowsOf(l) => rows[s] = None
        BY <1>2, <2>1, <3>3 DEF RowsOf, RowId, None
      <3>5. Written(l) = Image(l)
        BY <3>2, <3>4 DEF Written, Image
      <3> QED
        BY <2>1, <3>1, <3>2, <3>5
    <2> QED
      BY <2>2, <2>3
  <1> QED
    BY <1>3, <1>4 DEF TablesAndRowsInv, NamespaceInv

\* The marker only ever gets newer.
LEMMA MarkerAdvances ==
  ASSUME TablesAndRowsInv, NEW l \in sent, rows' = Written(l)
  PROVE  \A k \in issued : (Passed(k) => Passed(k)') /\ (Overtaken(k) => Overtaken(k)')
  <1>1. l \in issued /\ sent \subseteq issued /\ 0 \in RowId
    BY HeadHere DEF TablesAndRowsInv
  <1>2. CASE /\ Written(l) = Image(l)
             /\ \A s \in RowId : \A old \in rows[s] : old.gen < l.gen \/ old = l
    <2>1. rows'[0] = {l} /\ \A old \in rows[0] : old.gen < l.gen \/ old = l
      BY <1>1, <1>2, ImageRows
    <2>2. \A old \in rows[0] : old \in issued
      BY <1>1 DEF TablesAndRowsInv, NamespaceInv, Image, Some, None
    <2> QED
      BY <1>1, <2>1, <2>2, IssuedLeases DEF Passed, Overtaken
  <1>3. CASE Written(l) = rows
    BY <1>3 DEF Passed, Overtaken
  <1> QED
    BY <1>2, <1>3, WriteCases

LEMMA StaysHere ==
  ASSUME TablesAndRowsInv, Stays, UNCHANGED rows, sent \subseteq sent'
  PROVE  HereInv' /\ TokensInv' /\ NamespaceInv'
  <1>1. \A l : (IsPending(l) => IsPending(l)') /\ (IsActive(l) => IsActive(l)')
               /\ (Passed(l) => Passed(l)')
    BY DEF Stays, IsPending, IsActive, Passed
  <1>2. NamespaceInv'
    BY <1>1 DEF TablesAndRowsInv, NamespaceInv, Stays, Image, RowsOf, Some
  <1> QED
    BY <1>2 DEF TablesAndRowsInv, Stays, HereInv, TokensInv

LEMMA GrantsHere ==
  ASSUME TablesAndRowsInv, NEW l, Grants(l), UNCHANGED <<rows, sent>>
  PROVE  HereInv' /\ TokensInv' /\ NamespaceInv'
  <1>1. l.intent.slots <= MaxSlots
    BY PlannedIntents DEF Grants, TablesAndRowsInv, IntentsPlanned
  <1>2. HereInv'
    BY <1>1 DEF Grants, TablesAndRowsInv, HereInv
  <1>3. TokensInv'
    <2>1. \A t \in heads[Here].token : \E m \in issued : m.gen < l.gen /\ m.intent.mutation = t
      BY IssuedLeases, HeadHere DEF Grants, TablesAndRowsInv, TokensInv
    <2> QED
      BY <2>1 DEF Grants, TablesAndRowsInv, TokensInv
  <1>4. NamespaceInv'
    <2>1. \A k \in issued : Passed(k)'
      <3>1. \A k \in issued : Passed(k)
        BY DEF Grants, TablesAndRowsInv, NamespaceInv, IsPending, None
      <3> QED
        BY <3>1 DEF Passed
    <2>2. IsPending(l)'
      <3>1. heads'[Here].pending = {PendingOf(l)} /\ PendingOf(l).pub = l.pub
        BY DEF Grants, PendingOf
      <3> QED
        BY <3>1 DEF IsPending
    <2>3. \A m : ~ IsPending(m) /\ (IsActive(m) => IsActive(m)')
      BY DEF Grants, IsPending, IsActive, None
    <2>4. heads'[Here].active = heads[Here].active
      BY DEF Grants
    <2>5. \A m : Image(m)' = Image(m)
      BY DEF Image, RowsOf, Some
    <2> QED
      BY <2>1, <2>2, <2>3, <2>4, <2>5 DEF Grants, TablesAndRowsInv, NamespaceInv
  <1> QED
    BY <1>2, <1>3, <1>4

\* The rows that a pending lease was proved to have reached are its own.
LEMMA PassedPending ==
  ASSUME TablesAndRowsInv, NEW l \in issued, IsPending(l), Passed(l)
  PROVE  l \in sent /\ rows = Image(l)
  <1>1. PICK m \in rows[0] : l.gen <= m.gen
    BY DEF Passed
  <1>2. m \in sent /\ rows = Image(m)
    BY <1>1, MarkerRows
  <1>3. m \in issued /\ m.gen <= heads[Here].gen /\ l.gen = heads[Here].gen
    BY <1>2, IssuedLeases, PendingLease DEF TablesAndRowsInv
  <1> QED
    BY <1>1, <1>2, <1>3, IssuedLeases, HeadHere

LEMMA CommitsHere ==
  ASSUME TablesAndRowsInv, NEW l \in issued, Commits(l), Passed(l), UNCHANGED <<rows, sent>>
  PROVE  HereInv' /\ TokensInv' /\ NamespaceInv'
  <1>1. l.intent.part = Here
    BY IssuedLeases
  <1>2. heads'[Here] = [status |-> IF l.intent.op = "replace" THEN "revision" ELSE "deleted",
                        active |-> Some(l.intent.mutation), token |-> l.intent.token,
                        gen |-> heads[Here].gen, slots |-> heads[Here].slots,
                        pending |-> None]
    BY <1>1 DEF Commits, FinalizedHead
  <1>3. l.intent.token = IF l.intent.op = "replace" THEN Some(l.intent.mutation) ELSE None
    BY IssuedLeases, PlannedIntents DEF TablesAndRowsInv
  <1>4. HereInv'
    BY <1>2, <1>3 DEF TablesAndRowsInv, HereInv, Some, None
  <1>5. TokensInv'
    BY <1>2, <1>3 DEF Commits, TablesAndRowsInv, TokensInv, Some, None
  <1>6. NamespaceInv'
    <2>1. l \in sent /\ rows = Image(l) /\ \A m : Image(m)' = Image(m)
      BY PassedPending DEF Commits, Image, RowsOf, Some
    <2>2. \A k \in issued : Passed(k)'
      <3>1. rows'[0] = {l}
        BY <2>1, ImageRows
      <3>2. \A k \in issued : k.gen <= l.gen
        BY IssuedLeases, PendingLease DEF Commits
      <3> QED
        BY <3>1, <3>2 DEF Passed
    <2> QED
      BY <2>1, <2>2 DEF Commits, NamespaceInv
  <1> QED
    BY <1>4, <1>5, <1>6

LEMMA WritesHere ==
  ASSUME TablesAndRowsInv, Stays, UNCHANGED sent, NEW l \in sent, rows' = Written(l)
  PROVE  HereInv' /\ TokensInv' /\ NamespaceInv'
  <1>1. l \in issued
    BY DEF TablesAndRowsInv
  <1>2. \A m : (IsPending(m) <=> IsPending(m)') /\ (IsActive(m) <=> IsActive(m)')
               /\ Image(m)' = Image(m)
    BY DEF Stays, IsPending, IsActive, Image, RowsOf, Some
  <1>3. \A k \in issued' : IsPending(k)' \/ Passed(k)'
    BY <1>2, MarkerAdvances DEF Stays, TablesAndRowsInv, NamespaceInv
  <1>4. CASE Written(l) = rows
    BY <1>2, <1>3, <1>4 DEF Stays, TablesAndRowsInv, NamespaceInv, HereInv, TokensInv
  <1>5. CASE /\ Written(l) = Image(l)
             /\ \A s \in RowId : \A old \in rows[s] : old.gen < l.gen \/ old = l
    <2>1. IsPending(l) \/ Passed(l)
      BY <1>1 DEF TablesAndRowsInv, NamespaceInv
    <2>2. IsPending(l) \/ IsActive(l)
      <3>1. SUFFICES ASSUME Passed(l) PROVE IsPending(l) \/ IsActive(l)
        BY <2>1
      <3>2. PICK m \in rows[0] : l.gen <= m.gen
        BY <3>1 DEF Passed
      <3>3. m \in sent /\ (IsPending(m) \/ IsActive(m)) /\ m.gen \in Nat
        BY <3>2, MarkerRows, IssuedLeases
      <3>4. m = l
        BY <1>1, <1>5, <3>2, <3>3, HeadHere, IssuedLeases
      <3> QED
        BY <3>3, <3>4
    <2>3. NamespaceInv'
      BY <1>2, <1>3, <1>5, <2>2 DEF NamespaceInv
    <2> QED
      BY <2>3 DEF Stays, TablesAndRowsInv, HereInv, TokensInv
  <1> QED
    BY <1>4, <1>5, WriteCases
-----------------------------------------------------------------------------
(* Steps preserve what does not concern the operations in progress.        *)

LEMMA QuietTables ==
  ASSUME TablesAndRowsInv, UNCHANGED coordinatorVars
  PROVE  CoordinatorInv' /\ TablesInv' /\ KnownIntents' = KnownIntents /\ Stays
  <1>1. UNCHANGED <<heads, mutations, journal, issued, call>>
    BY DEF coordinatorVars
  <1>2. CoordinatorInv'
    <2>1. FenceInv'
      BY <1>1, UnchangedFenced DEF TablesAndRowsInv, CoordinatorInv
    <2> QED
      BY <1>1, <2>1 DEF TablesAndRowsInv, CoordinatorInv, CallInv
  <1>3. KnownIntents' = KnownIntents
    BY <1>1 DEF KnownIntents
  <1>4. RowsInv'
    BY <1>1, UnchangedRows DEF TablesAndRowsInv, TablesInv, tables
  <1>5. IntentsAgree' /\ LeasesInHand'
    BY <1>1, <1>3 DEF TablesAndRowsInv, TablesInv, IntentsAgree, LeasesInHand, Agree, None
  <1> QED
    BY <1>1, <1>2, <1>3, <1>4, <1>5 DEF TablesInv, Stays, ActiveRows, Some

\* New requests, and new write requests of leases that were issued.
LEMMA QuietStep ==
  ASSUME TablesAndRowsInv, UNCHANGED <<coordinatorVars, rows>>, RequestsInv',
         prepared \subseteq prepared', sent \subseteq sent', sent' \subseteq issued
  PROVE  TablesAndRowsInv'
  <1>1. CoordinatorInv' /\ TablesInv' /\ KnownIntents' = KnownIntents /\ Stays
    BY QuietTables
  <1>2. IntentsPlanned'
    BY <1>1, StillPlanned DEF TablesAndRowsInv
  <1>3. HereInv' /\ TokensInv' /\ NamespaceInv'
    BY <1>1, StaysHere
  <1> QED
    BY <1>1, <1>2, <1>3 DEF TablesAndRowsInv, Stays

LEMMA WriteStep ==
  ASSUME TablesAndRowsInv, UNCHANGED <<coordinatorVars, prepared, sent>>,
         NEW l \in sent, rows' = Written(l)
  PROVE  TablesAndRowsInv'
  <1>1. CoordinatorInv' /\ TablesInv' /\ KnownIntents' = KnownIntents /\ Stays
    BY QuietTables
  <1>2. IntentsPlanned'
    BY <1>1, StillPlanned DEF TablesAndRowsInv
  <1>3. HereInv' /\ TokensInv' /\ NamespaceInv'
    BY <1>1, WritesHere
  <1> QED
    BY <1>1, <1>2, <1>3 DEF TablesAndRowsInv, RequestsInv, Stays

LEMMA AnsweredStep ==
  ASSUME TablesAndRowsInv, UNCHANGED <<tables, prepared, rows, sent>>,
         NEW w \in Client, call' = [call EXCEPT ![w] = Idle]
  PROVE  TablesAndRowsInv'
  <1>1. UNCHANGED <<heads, mutations, journal, issued>>
    BY DEF tables
  <1>2. CoordinatorInv'
    <2>1. FenceInv'
      BY <1>1, UnchangedFenced DEF TablesAndRowsInv, CoordinatorInv
    <2>2. CallInv'
      BY DEF TablesAndRowsInv, CoordinatorInv, CallInv, Idle, None
    <2> QED
      BY <2>1, <2>2 DEF CoordinatorInv
  <1>3. TablesInv'
    BY LeaveTables DEF TablesAndRowsInv
  <1>4. KnownIntents' \subseteq KnownIntents
    BY <1>1 DEF KnownIntents, TablesAndRowsInv, CoordinatorInv, CallInv, Idle, None
  <1>5. IntentsPlanned'
    BY <1>4, StillPlanned DEF TablesAndRowsInv
  <1>6. HereInv' /\ TokensInv' /\ NamespaceInv'
    BY <1>1, StaysHere DEF Stays, ActiveRows, Some
  <1> QED
    BY <1>1, <1>2, <1>3, <1>5, <1>6 DEF TablesAndRowsInv, RequestsInv

LEMMA SubmittedStep ==
  ASSUME TablesAndRowsInv, UNCHANGED <<prepared, rows, sent>>,
         NEW w \in Client, NEW i, Planned(i), BeginRead(w, i)
  PROVE  TablesAndRowsInv'
  <1>1. UNCHANGED <<heads, mutations, journal, issued>>
    BY DEF BeginRead, tables
  <1>2. i.part \in Partition /\ i.slots \in Nat /\ (i.op = "replace" => i.rev # None)
    BY PlannedIntents DEF TablesAndRowsInv
  <1>3. \A j \in KnownIntents : Agree(i, j) /\ Agree(j, i)
    BY PlannedAgree DEF TablesAndRowsInv, IntentsPlanned
  <1>4. CoordinatorInv'
    BY <1>2, BeginReadInv DEF TablesAndRowsInv
  <1>5. TablesInv'
    BY <1>2, <1>3, BeginReadTables DEF TablesAndRowsInv
  <1>6. KnownIntents' \subseteq KnownIntents \cup {i}
    BY <1>1 DEF KnownIntents, BeginRead, TablesAndRowsInv, CoordinatorInv, CallInv, Some
  <1>7. IntentsPlanned'
    BY <1>6 DEF TablesAndRowsInv, IntentsPlanned, Planned, Sendable
  <1>8. HereInv' /\ TokensInv' /\ NamespaceInv'
    BY <1>1, StaysHere DEF Stays, ActiveRows, Some
  <1> QED
    BY <1>1, <1>4, <1>5, <1>7, <1>8 DEF TablesAndRowsInv, RequestsInv

LEMMA CoordinatedStep ==
  ASSUME TablesAndRowsInv, UNCHANGED <<prepared, rows, sent>>, NEW w \in Client,
         CoordinatorStep(w), \A x, y \in call[w].lease : x = y
  PROVE  TablesAndRowsInv'
  <1>1. CoordinatorInv' /\ TablesInv'
    BY CoordinatorStepInv, CoordinatorStepTables DEF TablesAndRowsInv
  <1>2. Stays \/ \E l : Grants(l)
    BY <1>1, CoordinateEffect DEF TablesInv
  <1>3. issued \subseteq issued' /\ \A l \in issued' : l.intent \in KnownIntents
    BY <1>2, LeaseIntentsKnown DEF Stays, Grants
  <1>4. \A d \in Client : call'[d].intent \subseteq KnownIntents
    BY CoordinatorStepCalls, OwnIntentsKnown DEF TablesAndRowsInv
  <1>5. KnownIntents' \subseteq KnownIntents
    BY <1>3, <1>4 DEF KnownIntents
  <1>6. IntentsPlanned'
    BY <1>5, StillPlanned DEF TablesAndRowsInv
  <1>7. HereInv' /\ TokensInv' /\ NamespaceInv'
    BY <1>2, StaysHere, GrantsHere
  <1> QED
    BY <1>1, <1>3, <1>6, <1>7 DEF TablesAndRowsInv, RequestsInv

LEMMA FinalizedStep ==
  ASSUME TablesAndRowsInv, UNCHANGED <<prepared, rows, sent>>, NEW w \in Client,
         NEW l \in issued, Finalize(w, l), Passed(l)
  PROVE  TablesAndRowsInv'
  <1>1. l.intent.part \in Partition /\ l.intent.slots \in Nat
    BY DEF TablesAndRowsInv, CoordinatorInv, FenceInv, LeaseShape
  <1>2. CoordinatorInv' /\ TablesInv'
    BY <1>1, FinalizeInv, FinalizeStepTables DEF TablesAndRowsInv
  <1>3. Stays \/ Commits(l)
    BY <1>2, FinalizeEffect DEF TablesInv, Finalize
  <1>4. issued' = issued
    BY <1>3 DEF Stays, Commits
  <1>5. KnownIntents' \subseteq KnownIntents
    BY <1>4, LeaseIntentsKnown
    DEF KnownIntents, Finalize, TablesAndRowsInv, CoordinatorInv, CallInv, Some
  <1>6. IntentsPlanned'
    BY <1>5, StillPlanned DEF TablesAndRowsInv
  <1>7. HereInv' /\ TokensInv' /\ NamespaceInv'
    BY <1>3, StaysHere, CommitsHere
  <1> QED
    BY <1>2, <1>4, <1>6, <1>7 DEF TablesAndRowsInv, RequestsInv

LEMMA SupersededStep ==
  ASSUME TablesAndRowsInv, UNCHANGED <<prepared, rows, sent>>, NEW w \in Client,
         NEW l \in issued, Supersede(w, l), Overtaken(l)
  PROVE  TablesAndRowsInv' /\ Stays
  <1>1. l.intent.part \in Partition /\ l.intent.slots \in Nat
    BY DEF TablesAndRowsInv, CoordinatorInv, FenceInv, LeaseShape
  <1>2. CoordinatorInv' /\ TablesInv'
    BY <1>1, SupersedeInv, SupersedeStepTables DEF TablesAndRowsInv
  <1>3. Stays
    BY <1>2, SupersedeEffect DEF TablesInv, Supersede
  <1>4. issued' = issued
    BY <1>3 DEF Stays
  <1>5. KnownIntents' \subseteq KnownIntents
    BY <1>4, LeaseIntentsKnown
    DEF KnownIntents, Supersede, TablesAndRowsInv, CoordinatorInv, CallInv, Some
  <1>6. IntentsPlanned'
    BY <1>5, StillPlanned DEF TablesAndRowsInv
  <1>7. HereInv' /\ TokensInv' /\ NamespaceInv'
    BY <1>3, StaysHere
  <1> QED
    BY <1>2, <1>3, <1>4, <1>6, <1>7 DEF TablesAndRowsInv, RequestsInv
-----------------------------------------------------------------------------
(* Steps preserve what concerns the operations in progress.                *)

\* What a worker knows survives the steps of others.
LEMMA WorkerStays ==
  ASSUME StoreInv, NEW v \in Client, work'[v] = work[v], call'[v] = call[v],
         prepared \subseteq prepared', sent \subseteq sent', issued \subseteq issued',
         \A k \in issued : (Passed(k) => Passed(k)') /\ (Overtaken(k) => Overtaken(k)')
  PROVE  WorkerInv(v)'
  <1>1. WorkerInv(v)
    BY DEF StoreInv, WorkInv
  <1>2. Sendable \subseteq Sendable'
    BY DEF Sendable, DeleteRequest, None
  <1> QED
    BY <1>1, <1>2 DEF WorkerInv, None, Some, WorkPoints

LEMMA OneWorker ==
  ASSUME StoreInv, NEW w \in Client, work' = [work EXCEPT ![w] = work'[w]],
         \A v \in Client \ {w} : call'[v] = call[v],
         prepared \subseteq prepared', sent \subseteq sent', issued \subseteq issued',
         \A k \in issued : (Passed(k) => Passed(k)') /\ (Overtaken(k) => Overtaken(k)'),
         WorkerInv(w)'
  PROVE  WorkInv'
  <1>1. \A v \in Client \ {w} : work'[v] = work[v]
    BY DEF StoreInv, WorkInv
  <1>2. \A v \in Client \ {w} : WorkerInv(v)'
    BY <1>1, WorkerStays
  <1>3. work' = [v \in Client |-> work'[v]]
    BY DEF StoreInv, WorkInv
  <1> QED
    BY <1>2, <1>3 DEF WorkInv

\* The same for a step that touches neither the rows nor what was prepared.
LEMMA OneWorkerOnly ==
  ASSUME StoreInv, NEW w \in Client, work' = [work EXCEPT ![w] = work'[w]],
         \A v \in Client \ {w} : call'[v] = call[v],
         UNCHANGED <<prepared, rows, sent>>, issued \subseteq issued',
         WorkerInv(w)'
  PROVE  WorkInv'
  BY OneWorker DEF Passed, Overtaken

\* A worker at rest, its call ended or never begun.
LEMMA RestingWorker ==
  ASSUME NEW w \in Client, work'[w] = Resting, call'[w].at = "idle",
         \A x, y \in call'[w].lease : x = y
  PROVE  WorkerInv(w)'
  BY StoreAssumption DEF WorkerInv, Resting, WorkPoints, None

\* Before and after its call to the coordinator a worker has none.
LEMMA NoCall ==
  ASSUME StoreInv, NEW w \in Client, work[w].at \notin {"begin", "end"}
  PROVE  call[w].at = "idle" /\ \A x, y \in call[w].lease : x = y
  BY DEF StoreInv, WorkInv, WorkerInv

LEMMA WorkOf ==
  ASSUME StoreInv, NEW w \in Client
  PROVE  /\ WorkerInv(w) /\ w \in DOMAIN work /\ TablesAndRowsInv
         /\ DOMAIN work[w] = {"at", "request", "token", "slots", "tries", "lease"}
         /\ call = [c \in Client |-> call[c]]
  BY DEF StoreInv, WorkInv, WorkerInv, TablesAndRowsInv, CoordinatorInv, CallInv

LEMMA StartInv ==
  ASSUME StoreInv, NEW w \in Client, NEW q \in Sendable, NEW token, Start(w, q, token),
         q.op = "replace" => token = Some(q.expected)
  PROVE  StoreInv'
  <1>1. work' = [work EXCEPT ![w] = work'[w]]
    BY DEF Start
  <1>2. /\ work'[w].at = "plan" /\ work'[w].request = {q} /\ work'[w].token = token
        /\ work'[w].slots = {} /\ work'[w].tries = PlanRetries /\ work'[w].lease = {}
        /\ DOMAIN work'[w] = {"at", "request", "token", "slots", "tries", "lease"}
    BY WorkOf DEF Start, Resting, Some, None
  <1>3. UNCHANGED <<heads, mutations, journal, issued, call, prepared, rows, sent>>
    BY DEF Start, coordinatorVars
  <1>4. work[w].at = "idle"
    BY DEF Start
  <1>5. WorkerInv(w)'
    BY <1>2, <1>3, <1>4, NoCall, StoreAssumption DEF WorkerInv, WorkPoints, Sendable, None
  <1>6. WorkInv'
    BY <1>1, <1>3, <1>5, OneWorkerOnly
  <1>7. TablesAndRowsInv'
    BY <1>3, QuietStep DEF StoreInv, TablesAndRowsInv, RequestsInv, coordinatorVars
  <1> QED
    BY <1>6, <1>7 DEF StoreInv

LEMMA ReadTokenInv ==
  ASSUME StoreInv, NEW w \in Client, ReadToken(w)
  PROVE  StoreInv'
  <1>1. PICK token : work' = [work EXCEPT ![w].token = token]
    BY DEF ReadToken
  <1>2. /\ work'[w] = [work[w] EXCEPT !.token = token]
        /\ work' = [work EXCEPT ![w] = work'[w]]
    BY <1>1, WorkOf
  <1>3. UNCHANGED <<heads, mutations, journal, issued, call, prepared, rows, sent>>
    BY DEF ReadToken, coordinatorVars
  <1>4. \A q \in work[w].request : q.op # "replace"
    BY WorkOf DEF ReadToken, WorkerInv, Some, None
  <1>5. WorkerInv(w)'
    BY <1>2, <1>3, <1>4, WorkOf DEF ReadToken, WorkerInv, WorkPoints, Sendable, None
  <1>6. WorkInv'
    BY <1>2, <1>3, <1>5, OneWorkerOnly
  <1>7. TablesAndRowsInv'
    BY <1>3, QuietStep DEF StoreInv, TablesAndRowsInv, RequestsInv, coordinatorVars
  <1> QED
    BY <1>6, <1>7 DEF StoreInv

LEMMA ReadSlotsInv ==
  ASSUME StoreInv, NEW w \in Client, ReadSlots(w)
  PROVE  StoreInv'
  <1>1. work' = [work EXCEPT ![w].slots = {heads[Here].slots}]
    BY DEF ReadSlots
  <1>2. /\ work'[w] = [work[w] EXCEPT !.slots = {heads[Here].slots}]
        /\ work' = [work EXCEPT ![w] = work'[w]]
    BY <1>1, WorkOf
  <1>3. UNCHANGED <<heads, mutations, journal, issued, call, prepared, rows, sent>>
    BY DEF ReadSlots, coordinatorVars
  <1>4. {heads[Here].slots} \subseteq 0..MaxSlots
    BY WorkOf, HeadHere DEF TablesAndRowsInv, HereInv
  <1>5. WorkerInv(w)'
    BY <1>2, <1>3, <1>4, WorkOf DEF ReadSlots, WorkerInv, WorkPoints, Sendable, None
  <1>6. WorkInv'
    BY <1>2, <1>3, <1>5, OneWorkerOnly
  <1>7. TablesAndRowsInv'
    BY <1>3, QuietStep DEF StoreInv, TablesAndRowsInv, RequestsInv, coordinatorVars
  <1> QED
    BY <1>6, <1>7 DEF StoreInv

\* A call that was refused, or that ended: the worker rests.
LEMMA RestInv ==
  ASSUME StoreInv, NEW w \in Client, work' = [work EXCEPT ![w] = Resting],
         \/ UNCHANGED call /\ work[w].at \notin {"begin", "end"}
         \/ call' = [call EXCEPT ![w] = Idle],
         UNCHANGED <<prepared, rows, sent>>, UNCHANGED issued
  PROVE  WorkInv'
  <1>1. /\ work' = [work EXCEPT ![w] = work'[w]] /\ work'[w] = Resting
        /\ \A v \in Client \ {w} : call'[v] = call[v]
    BY WorkOf
  <1>2. call'[w].at = "idle" /\ \A x, y \in call'[w].lease : x = y
    BY WorkOf, NoCall DEF Idle, None
  <1> QED
    BY <1>1, <1>2, RestingWorker, OneWorkerOnly

LEMMA SubmitInv ==
  ASSUME StoreInv, NEW w \in Client, Submit(w)
  PROVE  StoreInv'
  <1>1. PICK q \in work[w].request, expected \in work[w].token, high \in work[w].slots :
          IF PlannedSlots(q, high) > MaxSlots
            THEN work' = [work EXCEPT ![w] = Resting] /\ UNCHANGED coordinatorVars
            ELSE /\ work' = [work EXCEPT ![w].at = "begin"]
                 /\ BeginRead(w, IntentOf(q, expected, PlannedSlots(q, high)))
    BY DEF Submit
  <1>2. work[w].at = "plan" /\ UNCHANGED <<prepared, rows, sent>>
    BY DEF Submit
  <1>3. CASE PlannedSlots(q, high) > MaxSlots
    <2>1. WorkInv'
      BY <1>1, <1>2, <1>3, RestInv DEF coordinatorVars
    <2>2. TablesAndRowsInv'
      BY <1>1, <1>2, <1>3, QuietStep DEF StoreInv, TablesAndRowsInv, RequestsInv
    <2> QED
      BY <2>1, <2>2 DEF StoreInv
  <1>4. CASE ~ (PlannedSlots(q, high) > MaxSlots)
    <2> DEFINE i == IntentOf(q, expected, PlannedSlots(q, high))
    <2>1. /\ q \in Sendable /\ high \in 0..MaxSlots /\ MaxSlots \in Nat
          /\ q.op = "replace" => expected = q.expected
      BY WorkOf, HeadHere DEF WorkerInv, Some
    <2>2. q.required \in Nat /\ q.required <= PlannedSlots(q, high)
          /\ PlannedSlots(q, high) \in 0..MaxSlots
      BY <1>4, <2>1, WorkOf, SendableRequests DEF TablesAndRowsInv, PlannedSlots
    <2>3. Planned(i) /\ BeginRead(w, i)
      BY <1>1, <1>4, <2>1, <2>2, WorkOf, PlanningIsPlanned DEF TablesAndRowsInv
    <2>4. i.part = Here
      BY DEF IntentOf
    <2> HIDE DEF i
    <2>5. TablesAndRowsInv'
      BY <1>2, <2>3, WorkOf, SubmittedStep
    <2>6. /\ work'[w] = [work[w] EXCEPT !.at = "begin"]
          /\ work' = [work EXCEPT ![w] = work'[w]]
      BY <1>1, <1>4, WorkOf
    <2>7. /\ \A v \in Client \ {w} : call'[v] = call[v]
          /\ \A x, y \in call'[w].lease : x = y
      <3>1. PICK at, leases :
              /\ call' = [call EXCEPT ![w] = [at |-> at, intent |-> Some(i), lease |-> leases]]
              /\ leases \in {None, ResumedLeases(heads[i.part], i)}
        BY <2>3 DEF BeginRead
      <3>2. \A x, y \in leases : x = y
        BY <2>4, <3>1, WorkOf, HeadHere DEF ResumedLeases, HeadShape, None
      <3> QED
        BY <3>1, <3>2, WorkOf
    <2>8. UNCHANGED <<heads, mutations, journal, issued>>
      BY <2>3 DEF BeginRead, tables
    <2>9. WorkerInv(w)'
      BY <1>2, <2>6, <2>7, <2>8, WorkOf DEF WorkerInv, WorkPoints, Sendable, None
    <2>10. WorkInv'
      BY <1>2, <2>6, <2>7, <2>8, <2>9, OneWorkerOnly
    <2> QED
      BY <2>5, <2>10 DEF StoreInv
  <1> QED
    BY <1>3, <1>4

LEMMA CoordinateInv ==
  ASSUME StoreInv, NEW w \in Client, Coordinate(w)
  PROVE  StoreInv'
  <1>1. CoordinatorStep(w) /\ UNCHANGED <<prepared, work, rows, sent>>
    BY DEF Coordinate, storeVars
  <1>2. call[w].at # "idle"
    BY <1>1 DEF CoordinatorStep, ReadOutcome, Begin, SupersedeOlder, ReadDigest, ReadAfter,
                ConfirmFinalized
  <1>3. work[w].at \in {"begin", "end"} /\ \A x, y \in call[w].lease : x = y
    BY <1>2, WorkOf DEF WorkerInv
  <1>4. /\ \A v \in Client \ {w} : call'[v] = call[v]
        /\ \A x, y \in call'[w].lease : x = y
    BY <1>1, <1>3, WorkOf, CoordinatorStepCalls DEF TablesAndRowsInv
  <1>5. TablesAndRowsInv'
    BY <1>1, <1>3, WorkOf, CoordinatedStep
  <1>6. issued \subseteq issued'
    <2>1. Stays \/ \E l : Grants(l)
      BY <1>1, <1>5, WorkOf, CoordinateEffect DEF TablesAndRowsInv, TablesInv
    <2> QED
      BY <2>1 DEF Stays, Grants
  <1>7. WorkerInv(w)'
    BY <1>1, <1>3, <1>4, <1>6, WorkOf DEF WorkerInv, WorkPoints, Sendable, None
  <1>8. work' = [work EXCEPT ![w] = work'[w]]
    BY <1>1 DEF StoreInv, WorkInv
  <1>9. WorkInv'
    BY <1>1, <1>4, <1>6, <1>7, <1>8, OneWorkerOnly
  <1> QED
    BY <1>5, <1>9 DEF StoreInv

LEMMA TakeLeaseInv ==
  ASSUME StoreInv, NEW w \in Client, TakeLease(w)
  PROVE  StoreInv'
  <1>1. /\ call' = [call EXCEPT ![w] = Idle] /\ UNCHANGED <<tables, prepared, rows, sent>>
        /\ work' = [work EXCEPT ![w].at = "send", ![w].lease = call[w].lease]
    BY DEF TakeLease, Answered
  <1>2. /\ work' = [work EXCEPT ![w] = work'[w]]
        /\ work'[w] = [work[w] EXCEPT !.at = "send", !.lease = call[w].lease]
        /\ \A v \in Client \ {w} : call'[v] = call[v]
        /\ call'[w] = Idle /\ issued' = issued
    BY <1>1, WorkOf DEF tables
  <1>3. call[w].lease \subseteq issued /\ \A x, y \in call[w].lease : x = y
    BY WorkOf DEF WorkerInv, TablesAndRowsInv, TablesInv, LeasesInHand
  <1>4. WorkerInv(w)'
    <2>1. /\ work'[w].at = "send" /\ work'[w].lease = call[w].lease
          /\ work'[w].request = work[w].request /\ work'[w].token = work[w].token
          /\ work'[w].slots = work[w].slots /\ work'[w].tries = work[w].tries
          /\ DOMAIN work'[w] = DOMAIN work[w]
      BY <1>2, WorkOf
    <2>2. call'[w].at = "idle" /\ call'[w].lease = {}
      BY <1>2 DEF Idle, None
    <2> QED
      BY <1>1, <1>2, <1>3, <2>1, <2>2, WorkOf
      DEF TakeLease, WorkerInv, WorkPoints, Sendable, None, Some
  <1>5. WorkInv'
    BY <1>1, <1>2, <1>4, OneWorkerOnly
  <1>6. TablesAndRowsInv'
    BY <1>1, WorkOf, AnsweredStep
  <1> QED
    BY <1>5, <1>6 DEF StoreInv

LEMMA ReplanInv ==
  ASSUME StoreInv, NEW w \in Client, Replan(w)
  PROVE  StoreInv'
  <1>1. PICK q \in work[w].request :
          /\ call' = [call EXCEPT ![w] = Idle]
          /\ work' = [work EXCEPT ![w].at = "plan", ![w].slots = None,
                                  ![w].token = IF q.op = "delete" THEN None ELSE @,
                                  ![w].tries = @ - 1]
    BY DEF Replan, Answered
  <1>2. UNCHANGED <<tables, prepared, rows, sent>> /\ work[w].tries > 0
    BY DEF Replan
  <1>3. /\ work' = [work EXCEPT ![w] = work'[w]]
        /\ work'[w] = [work[w] EXCEPT !.at = "plan", !.slots = None,
                                      !.token = IF q.op = "delete" THEN None ELSE @,
                                      !.tries = @ - 1]
        /\ \A v \in Client \ {w} : call'[v] = call[v]
        /\ call'[w] = Idle /\ issued' = issued
    BY <1>1, <1>2, WorkOf DEF tables
  <1>4. \A r \in work[w].request : r = q
    BY WorkOf DEF WorkerInv
  <1>5. WorkerInv(w)'
    <2>1. /\ work'[w].at = "plan" /\ work'[w].slots = {}
          /\ work'[w].token = IF q.op = "delete" THEN {} ELSE work[w].token
          /\ work'[w].tries = work[w].tries - 1
          /\ work'[w].request = work[w].request /\ work'[w].lease = work[w].lease
          /\ DOMAIN work'[w] = DOMAIN work[w]
      BY <1>3, WorkOf DEF None
    <2>2. work[w].tries - 1 \in 0..PlanRetries
      BY <1>2, WorkOf, StoreAssumption DEF WorkerInv
    <2>3. call'[w].at = "idle" /\ call'[w].lease = {}
      BY <1>3 DEF Idle, None
    <2>4. \A r \in work'[w].request : r.op = "replace" => work'[w].token = Some(r.expected)
      BY <1>4, <2>1, WorkOf DEF WorkerInv
    <2> QED
      BY <1>2, <1>3, <2>1, <2>2, <2>3, <2>4, WorkOf
      DEF Replan, WorkerInv, WorkPoints, Sendable, None, Some
  <1>6. WorkInv'
    BY <1>2, <1>3, <1>5, OneWorkerOnly
  <1>7. TablesAndRowsInv'
    BY <1>1, <1>2, WorkOf, AnsweredStep
  <1> QED
    BY <1>6, <1>7 DEF StoreInv

LEMMA EndInv ==
  ASSUME StoreInv, NEW w \in Client, EndBegin(w) \/ EndPublication(w) \/ Abandon(w)
  PROVE  StoreInv'
  <1>1. /\ work' = [work EXCEPT ![w] = Resting] /\ call' = [call EXCEPT ![w] = Idle]
        /\ UNCHANGED <<tables, prepared, rows, sent>>
    BY DEF EndBegin, EndPublication, Abandon, Answered
  <1>2. TablesAndRowsInv'
    BY <1>1, WorkOf, AnsweredStep
  <1>3. WorkInv'
    BY <1>1, RestInv DEF tables
  <1> QED
    BY <1>2, <1>3 DEF StoreInv

\* An operation that moves on without the coordinator.
LEMMA AdvanceInv ==
  ASSUME StoreInv, NEW w \in Client, NEW at \in {"await", "reconcile", "visible", "fenced"},
         work' = [work EXCEPT ![w].at = at], work[w].at \in {"send", "await", "reconcile"},
         UNCHANGED coordinatorVars, UNCHANGED prepared, sent \subseteq sent',
         \A k \in issued : (Passed(k) => Passed(k)') /\ (Overtaken(k) => Overtaken(k)'),
         at = "await" => work[w].lease \subseteq sent',
         at = "visible" => \A l \in work[w].lease : Passed(l)',
         at = "fenced" => \A l \in work[w].lease : Overtaken(l)'
  PROVE  WorkInv'
  <1>1. UNCHANGED <<issued, call>>
    BY DEF coordinatorVars
  <1>2. /\ work'[w] = [work[w] EXCEPT !.at = at]
        /\ work' = [work EXCEPT ![w] = work'[w]]
    BY WorkOf
  <1>3. /\ work'[w].at = at /\ work'[w].lease = work[w].lease
        /\ work'[w].request = work[w].request /\ work'[w].token = work[w].token
        /\ work'[w].slots = work[w].slots /\ work'[w].tries = work[w].tries
        /\ DOMAIN work'[w] = DOMAIN work[w]
    BY <1>2, WorkOf
  <1>4. call'[w].at = "idle" /\ \A x, y \in call'[w].lease : x = y
    BY <1>1, NoCall
  <1>5. WorkerInv(w)'
    BY <1>1, <1>3, <1>4, WorkOf DEF WorkerInv, WorkPoints, Sendable, None, Some
  <1> QED
    BY <1>1, <1>2, <1>5, OneWorker

LEMMA SendInv ==
  ASSUME StoreInv, NEW w \in Client, Send(w)
  PROVE  StoreInv'
  <1>1. /\ work[w].at = "send" /\ work' = [work EXCEPT ![w].at = "await"]
        /\ sent' = sent \cup work[w].lease
        /\ UNCHANGED <<coordinatorVars, prepared, rows>>
    BY DEF Send
  <1>2. sent' \subseteq issued
    BY <1>1, WorkOf DEF WorkerInv, TablesAndRowsInv
  <1>3. TablesAndRowsInv'
    BY <1>1, <1>2, WorkOf, QuietStep DEF TablesAndRowsInv, RequestsInv
  <1>4. WorkInv'
    BY <1>1, AdvanceInv DEF Passed, Overtaken
  <1> QED
    BY <1>3, <1>4 DEF StoreInv

LEMMA WriteAnsweredInv ==
  ASSUME StoreInv, NEW w \in Client, WriteAnswered(w)
  PROVE  StoreInv'
  <1>1. PICK l \in work[w].lease :
          /\ rows' = Written(l)
          /\ work' = IF Affected(l) = RowsOf(l) THEN [work EXCEPT ![w].at = "visible"]
                     ELSE IF Affected(l) = {} THEN [work EXCEPT ![w].at = "reconcile"]
                     ELSE [work EXCEPT ![w] = Resting]
    BY DEF WriteAnswered
  <1>2. work[w].at = "await" /\ UNCHANGED <<coordinatorVars, prepared, sent>>
    BY DEF WriteAnswered
  <1>3. l \in sent /\ l \in issued /\ \A k \in work[w].lease : k = l
    BY <1>2, WorkOf DEF WorkerInv
  <1>4. TablesAndRowsInv'
    BY <1>1, <1>2, <1>3, WorkOf, WriteStep
  <1>5. \A k \in issued : (Passed(k) => Passed(k)') /\ (Overtaken(k) => Overtaken(k)')
    BY <1>1, <1>3, WorkOf, MarkerAdvances
  <1>6. CASE Affected(l) = RowsOf(l) /\ Written(l) = Image(l)
    <2>1. Passed(l)'
      <3>1. rows'[0] = {l} /\ l.gen \in Nat
        BY <1>1, <1>3, <1>6, WorkOf, ImageRows, IssuedLeases
      <3> QED
        BY <3>1 DEF Passed
    <2> QED
      BY <1>1, <1>2, <1>3, <1>4, <1>5, <1>6, <2>1, AdvanceInv DEF StoreInv
  <1>7. CASE Affected(l) = {}
    <2>1. Affected(l) # RowsOf(l)
      <3>1. l.slots \in Nat
        BY <1>3, WorkOf, IssuedLeases
      <3>2. 0 \in RowsOf(l)
        BY <3>1 DEF RowsOf
      <3> QED
        BY <1>7, <3>2
    <2> QED
      BY <1>1, <1>2, <1>3, <1>4, <1>5, <1>7, <2>1, AdvanceInv DEF StoreInv
  <1> QED
    BY <1>3, <1>6, <1>7, WorkOf, WriteCases

LEMMA AnswerLostInv ==
  ASSUME StoreInv, NEW w \in Client, AnswerLost(w)
  PROVE  StoreInv'
  <1>1. /\ work[w].at = "await" /\ work' = [work EXCEPT ![w].at = "reconcile"]
        /\ UNCHANGED <<coordinatorVars, prepared, rows, sent>>
    BY DEF AnswerLost
  <1>2. TablesAndRowsInv'
    BY <1>1, WorkOf, QuietStep DEF TablesAndRowsInv, RequestsInv
  <1>3. WorkInv'
    BY <1>1, AdvanceInv DEF Passed, Overtaken
  <1> QED
    BY <1>2, <1>3 DEF StoreInv

\* What a marker shows of a lease.
LEMMA MarkerProves ==
  ASSUME TablesAndRowsInv, NEW l \in issued
  PROVE  (MarkerMatches(l) => Passed(l)) /\ (MarkerFences(l) => Overtaken(l))
  <1>1. \A m \in rows[0] : m \in issued
    BY MarkerRows
  <1>2. MarkerMatches(l) => Passed(l)
    BY <1>1, IssuedLeases DEF MarkerMatches, Passed
  <1>3. MarkerFences(l) => Overtaken(l)
    BY <1>1, IssuedLeases DEF MarkerFences, Overtaken
  <1> QED
    BY <1>2, <1>3

LEMMA ReconcileInv ==
  ASSUME StoreInv, NEW w \in Client, Reconcile(w)
  PROVE  StoreInv'
  <1>1. PICK l \in work[w].lease :
          work' = IF MarkerMatches(l) THEN [work EXCEPT ![w].at = "visible"]
                  ELSE IF MarkerFences(l) THEN [work EXCEPT ![w].at = "fenced"]
                  ELSE [work EXCEPT ![w] = Resting]
    BY DEF Reconcile
  <1>2. work[w].at = "reconcile" /\ UNCHANGED <<coordinatorVars, prepared, rows, sent>>
    BY DEF Reconcile
  <1>3. l \in issued /\ \A k \in work[w].lease : k = l
    BY WorkOf DEF WorkerInv
  <1>4. TablesAndRowsInv'
    BY <1>2, WorkOf, QuietStep DEF TablesAndRowsInv, RequestsInv
  <1>5. \A k : (Passed(k) => Passed(k)') /\ (Overtaken(k) => Overtaken(k)')
    BY <1>2 DEF Passed, Overtaken
  <1>6. CASE MarkerMatches(l)
    BY <1>1, <1>2, <1>3, <1>4, <1>5, <1>6, WorkOf, MarkerProves, AdvanceInv DEF StoreInv
  <1>7. CASE ~ MarkerMatches(l) /\ MarkerFences(l)
    BY <1>1, <1>2, <1>3, <1>4, <1>5, <1>7, WorkOf, MarkerProves, AdvanceInv DEF StoreInv
  <1>8. CASE ~ MarkerMatches(l) /\ ~ MarkerFences(l)
    <2>1. work' = [work EXCEPT ![w] = Resting]
      BY <1>1, <1>8
    <2>2. WorkInv'
      BY <1>2, <2>1, RestInv DEF coordinatorVars
    <2> QED
      BY <1>4, <2>2 DEF StoreInv
  <1> QED
    BY <1>6, <1>7, <1>8

\* A publication whose fate is known is reported to the coordinator.
LEMMA ReportInv ==
  ASSUME StoreInv, NEW w \in Client, work' = [work EXCEPT ![w].at = "end"],
         work[w].at \in {"visible", "fenced"},
         UNCHANGED <<prepared, rows, sent>>, UNCHANGED issued,
         NEW l, NEW at, NEW i,
         call' = [call EXCEPT ![w] = [at |-> at, intent |-> i, lease |-> Some(l)]]
  PROVE  WorkInv'
  <1>1. /\ work'[w] = [work[w] EXCEPT !.at = "end"]
        /\ work' = [work EXCEPT ![w] = work'[w]]
        /\ \A v \in Client \ {w} : call'[v] = call[v]
        /\ call'[w].lease = {l}
    BY WorkOf DEF Some
  <1>2. /\ work'[w].at = "end" /\ work'[w].lease = work[w].lease
        /\ work'[w].request = work[w].request /\ work'[w].token = work[w].token
        /\ work'[w].slots = work[w].slots /\ work'[w].tries = work[w].tries
        /\ DOMAIN work'[w] = DOMAIN work[w]
    BY <1>1, WorkOf
  <1>3. WorkerInv(w)'
    BY <1>1, <1>2, WorkOf DEF WorkerInv, WorkPoints, Sendable, None, Some
  <1> QED
    BY <1>1, <1>3, OneWorkerOnly

LEMMA FinalizeVisibleInv ==
  ASSUME StoreInv, NEW w \in Client, FinalizeVisible(w)
  PROVE  StoreInv'
  <1>1. PICK l \in work[w].lease : Finalize(w, l)
    BY DEF FinalizeVisible
  <1>2. /\ work[w].at = "visible" /\ work' = [work EXCEPT ![w].at = "end"]
        /\ UNCHANGED <<prepared, rows, sent>>
    BY DEF FinalizeVisible
  <1>3. l \in issued /\ Passed(l)
    BY <1>2, WorkOf DEF WorkerInv
  <1>4. TablesAndRowsInv'
    BY <1>1, <1>2, <1>3, WorkOf, FinalizedStep
  <1>5. UNCHANGED issued
    BY <1>1 DEF Finalize, FinalizeBatch, RetireHistory
  <1>6. \E at : call' = [call EXCEPT ![w] = [at |-> at, intent |-> Some(l.intent),
                                             lease |-> Some(l)]]
    BY <1>1 DEF Finalize
  <1>7. WorkInv'
    BY <1>2, <1>5, <1>6, ReportInv
  <1> QED
    BY <1>4, <1>7 DEF StoreInv

LEMMA RetireFencedInv ==
  ASSUME StoreInv, NEW w \in Client, RetireFenced(w)
  PROVE  StoreInv' /\ Stays
  <1>1. PICK l \in work[w].lease : Supersede(w, l)
    BY DEF RetireFenced
  <1>2. /\ work[w].at = "fenced" /\ work' = [work EXCEPT ![w].at = "end"]
        /\ UNCHANGED <<prepared, rows, sent>>
    BY DEF RetireFenced
  <1>3. l \in issued /\ Overtaken(l)
    BY <1>2, WorkOf DEF WorkerInv
  <1>4. TablesAndRowsInv' /\ Stays
    BY <1>1, <1>2, <1>3, WorkOf, SupersededStep
  <1>5. UNCHANGED issued
    BY <1>4 DEF Stays
  <1>6. \E at : call' = [call EXCEPT ![w] = [at |-> at, intent |-> Some(l.intent),
                                             lease |-> Some(l)]]
    BY <1>1 DEF Supersede
  <1>7. WorkInv'
    BY <1>2, <1>5, <1>6, ReportInv
  <1> QED
    BY <1>4, <1>7 DEF StoreInv

\* A step that is no worker's.
LEMMA NoWorkersStep ==
  ASSUME StoreInv, UNCHANGED <<work, coordinatorVars>>,
         prepared \subseteq prepared', sent \subseteq sent',
         \A k \in issued : (Passed(k) => Passed(k)') /\ (Overtaken(k) => Overtaken(k)')
  PROVE  WorkInv'
  <1>1. UNCHANGED <<issued, call>>
    BY DEF coordinatorVars
  <1>2. \A v \in Client : WorkerInv(v)'
    BY <1>1, WorkerStays
  <1> QED
    BY <1>2 DEF WorkInv, StoreInv

LEMMA PrepareInv ==
  ASSUME StoreInv, Prepare
  PROVE  StoreInv'
  <1>1. PICK r \in Revision, v \in Vector :
          prepared' = prepared \cup {ReplaceRequest(r, v, heads[Here].token)}
    BY DEF Prepare
  <1>2. UNCHANGED <<coordinatorVars, work, rows, sent>>
    BY DEF Prepare
  <1>3. RequestsInv'
    <2> DEFINE q == ReplaceRequest(r, v, heads[Here].token)
    <2>1. q.expected = heads[Here].token
      BY DEF ReplaceRequest
    <2>2. q = ReplaceRequest(r, v, q.expected)
      BY <2>1
    <2> HIDE DEF q
    <2>3. prepared' = prepared \cup {q}
      BY <1>1 DEF q
    <2> QED
      BY <2>2, <2>3 DEF StoreInv, TablesAndRowsInv, RequestsInv, ReplaceRequest, Some
  <1>4. TablesAndRowsInv'
    BY <1>1, <1>2, <1>3, QuietStep DEF StoreInv, TablesAndRowsInv
  <1>5. WorkInv'
    BY <1>1, <1>2, NoWorkersStep DEF Passed, Overtaken
  <1> QED
    BY <1>4, <1>5 DEF StoreInv

LEMMA WriteLateInv ==
  ASSUME StoreInv, WriteLate
  PROVE  StoreInv'
  <1>1. PICK l \in sent : rows' = Written(l)
    BY DEF WriteLate
  <1>2. UNCHANGED <<coordinatorVars, prepared, work, sent>>
    BY DEF WriteLate
  <1>3. TablesAndRowsInv'
    BY <1>1, <1>2, WriteStep DEF StoreInv
  <1>4. WorkInv'
    BY <1>1, <1>2, MarkerAdvances, NoWorkersStep DEF StoreInv
  <1> QED
    BY <1>3, <1>4 DEF StoreInv

LEMMA InitStore == Init => StoreInv
  <1> SUFFICES ASSUME Init PROVE StoreInv
    OBVIOUS
  <1>1. CoordinatorInv /\ TablesInv
    BY InitInv, InitTables DEF Init
  <1>2. IntentsPlanned
    BY DEF Init, CoordinatorInit, IntentsPlanned, KnownIntents, Idle, None
  <1>3. heads[Here] = FreshHead /\ issued = {}
    BY StoreAssumption DEF Init, CoordinatorInit
  <1>4. HereInv /\ TokensInv
    BY <1>3, StoreAssumption DEF HereInv, TokensInv, FreshHead, None
  <1>5. NamespaceInv
    BY <1>3 DEF Init, NamespaceInv, FreshHead
  <1>6. \A w \in Client : WorkerInv(w)
    BY StoreAssumption
    DEF Init, CoordinatorInit, WorkerInv, Resting, Idle, WorkPoints, None
  <1>7. work = [w \in Client |-> work[w]]
    BY DEF Init
  <1> QED
    BY <1>1, <1>2, <1>3, <1>4, <1>5, <1>6, <1>7
    DEF Init, StoreInv, TablesAndRowsInv, WorkInv, RequestsInv

LEMMA NextStore == StoreInv /\ [Next]_vars => StoreInv'
  <1> SUFFICES ASSUME StoreInv, [Next]_vars
               PROVE  StoreInv'
    OBVIOUS
  <1>1. CASE Prepare \/ WriteLate
    BY <1>1, PrepareInv, WriteLateInv
  <1>2. ASSUME NEW w \in Client, Replace(w) \/ Delete(w)
        PROVE  StoreInv'
    <2>1. PICK q \in Sendable : \E token :
            Start(w, q, token) /\ (q.op = "replace" => token = Some(q.expected))
      BY <1>2 DEF Replace, Delete, Sendable, DeleteRequest
    <2> QED
      BY <2>1, StartInv
  <1>3. ASSUME NEW w \in Client, Step(w)
        PROVE  StoreInv'
    BY <1>3, ReadTokenInv, ReadSlotsInv, SubmitInv, CoordinateInv, TakeLeaseInv, ReplanInv,
       EndInv, SendInv, WriteAnsweredInv, ReconcileInv, FinalizeVisibleInv, RetireFencedInv
    DEF Step
  <1>4. CASE Fault
    BY <1>4, AnswerLostInv, EndInv DEF Fault
  <1>5. CASE UNCHANGED vars
    <2>1. UNCHANGED <<coordinatorVars, prepared, work, rows, sent>>
      BY <1>5 DEF vars, coordinatorVars
    <2>2. TablesAndRowsInv'
      BY <2>1, QuietStep DEF StoreInv, TablesAndRowsInv, RequestsInv
    <2>3. WorkInv'
      BY <2>1, NoWorkersStep DEF Passed, Overtaken
    <2> QED
      BY <2>2, <2>3 DEF StoreInv
  <1> QED
    BY <1>1, <1>2, <1>3, <1>4, <1>5 DEF Next, Faultless
-----------------------------------------------------------------------------
(* What searches find.                                                     *)

LEMMA ImageShown ==
  ASSUME TablesAndRowsInv, NEW m \in issued, rows = Image(m)
  PROVE  LiveRows = Content(m.intent)
  <1>1. /\ m.slots \in Nat /\ m.slots <= MaxSlots /\ MaxSlots \in Nat
        /\ m.intent.required \in Nat /\ m.intent.required <= m.slots
    BY IssuedLeases, HeadHere
  <1>2. \A s \in RowId : rows[s] = IF s <= m.slots THEN {m} ELSE {}
    BY ImageRows
  <1>3. \A s \in 1..m.intent.required : s \in RowId /\ s <= m.slots
    BY <1>1 DEF RowId
  <1>4. ASSUME NEW s \in RowId
        PROVE  {<<s, l.intent.rev, l.intent.digest>> :
                  l \in {n \in rows[s] : s \in 1..n.intent.required}} =
               IF s \in 1..m.intent.required
                 THEN {<<s, m.intent.rev, m.intent.digest>>} ELSE {}
    <2>1. {n \in rows[s] : s \in 1..n.intent.required} =
            IF s \in 1..m.intent.required THEN {m} ELSE {}
      BY <1>2, <1>3
    <2> QED
      BY <2>1
  <1>5. LiveRows = UNION {IF s \in 1..m.intent.required
                            THEN {<<s, m.intent.rev, m.intent.digest>>} ELSE {} : s \in RowId}
    BY <1>4 DEF LiveRows
  <1> QED
    BY <1>3, <1>5 DEF Content

\* The stored inventory of the active mutation is that of its lease.
LEMMA ActiveShown ==
  ASSUME TablesAndRowsInv, NEW m \in issued, IsActive(m)
  PROVE  ActiveContent = Content(m.intent)
  <1>1. PICK n \in ActiveRows : n.digest = m.intent.digest
    BY DEF IsActive
  <1>2. n \in mutations /\ n.id = m.intent.mutation
    BY <1>1 DEF IsActive, ActiveRows, Some
  <1>3. PICK k \in issued : n = MutationRow(k.intent)
    BY <1>2 DEF TablesAndRowsInv, TablesInv, RowsInv, MutationsFromLeases
  <1>4. Agree(k.intent, m.intent)
    BY LeaseIntentsKnown DEF TablesAndRowsInv, TablesInv, IntentsAgree
  <1>5. n.rev = m.intent.rev /\ n.required = m.intent.required
    BY <1>1, <1>2, <1>3, <1>4 DEF Agree, MutationRow
  <1>6. ActiveRows = {n}
    BY <1>1, <1>2 DEF ActiveRows, TablesAndRowsInv, TablesInv, RowsInv, MutationsFromLeases, Some
  <1>7. ActiveContent = Content(n)
    BY <1>6 DEF ActiveContent, ActiveRows
  <1> QED
    BY <1>1, <1>5, <1>7 DEF Content

LEMMA PendingShown ==
  ASSUME TablesAndRowsInv, NEW m \in issued, IsPending(m)
  PROVE  PendingContent = Content(m.intent) /\ heads[Here].pending # None
  BY PendingLease DEF PendingContent, None

LEMMA NothingShown ==
  ASSUME TablesAndRowsInv, rows = [s \in RowId |-> None], heads[Here].active = None
  PROVE  LiveRows = {} /\ ActiveContent = {}
  BY DEF LiveRows, ActiveContent, None, Some

LEMMA SearchableFollows == TablesAndRowsInv => CommittedIsSearchable
  <1> SUFFICES ASSUME TablesAndRowsInv PROVE CommittedIsSearchable
    OBVIOUS
  <1>1. CASE rows = [s \in RowId |-> None] /\ heads[Here].active = None
    BY <1>1, NothingShown DEF CommittedIsSearchable
  <1>2. ASSUME NEW m \in sent, rows = Image(m), IsPending(m) \/ IsActive(m)
        PROVE  CommittedIsSearchable
    <2>1. m \in issued
      BY DEF TablesAndRowsInv
    <2> QED
      BY <1>2, <2>1, ImageShown, ActiveShown, PendingShown DEF CommittedIsSearchable
  <1> QED
    BY <1>1, <1>2 DEF TablesAndRowsInv, NamespaceInv
-----------------------------------------------------------------------------
(* What one step does to the partition and its namespace.                  *)

LEMMA StepEffect ==
  ASSUME StoreInv, [Next]_vars
  PROVE  \/ Stays /\ UNCHANGED rows
         \/ \E l : Grants(l) /\ UNCHANGED rows
         \/ \E l \in issued : Commits(l) /\ Passed(l) /\ UNCHANGED rows
         \/ Stays /\ \E l \in sent : rows' = Written(l)
  <1> USE DEF StoreInv
  <1>1. RowsInv'
    BY NextStore DEF TablesAndRowsInv, TablesInv
  <1>2. ASSUME UNCHANGED tables PROVE Stays
    BY <1>2 DEF tables, Stays, ActiveRows, Some
  <1>3. UNCHANGED coordinatorVars => Stays
    BY <1>2 DEF tables, coordinatorVars
  <1>4. CASE Prepare
    BY <1>3, <1>4 DEF Prepare
  <1>5. CASE WriteLate
    BY <1>3, <1>5 DEF WriteLate
  <1>6. ASSUME NEW w \in Client, Replace(w) \/ Delete(w)
        PROVE  Stays /\ UNCHANGED rows
    BY <1>3, <1>6 DEF Replace, Delete, Start
  <1>7. ASSUME NEW w \in Client,
               ReadToken(w) \/ ReadSlots(w) \/ Send(w) \/ Reconcile(w) \/ AnswerLost(w)
        PROVE  Stays /\ UNCHANGED rows
    BY <1>3, <1>7 DEF ReadToken, ReadSlots, Send, Reconcile, AnswerLost
  <1>8. ASSUME NEW w \in Client, TakeLease(w) \/ Replan(w) \/ EndBegin(w)
                                 \/ EndPublication(w) \/ Abandon(w)
        PROVE  Stays /\ UNCHANGED rows
    BY <1>2, <1>8 DEF TakeLease, Replan, EndBegin, EndPublication, Abandon
  <1>9. ASSUME NEW w \in Client, Submit(w)
        PROVE  Stays /\ UNCHANGED rows
    BY <1>2, <1>3, <1>9 DEF Submit, BeginRead
  <1>10. ASSUME NEW w \in Client, Coordinate(w)
         PROVE  UNCHANGED rows /\ (Stays \/ \E l : Grants(l))
    BY <1>1, <1>10, CoordinateEffect DEF Coordinate, storeVars
  <1>11. ASSUME NEW w \in Client, WriteAnswered(w)
         PROVE  Stays /\ \E l \in sent : rows' = Written(l)
    BY <1>3, <1>11, WorkOf DEF WriteAnswered, WorkerInv
  <1>12. ASSUME NEW w \in Client, FinalizeVisible(w)
         PROVE  UNCHANGED rows /\ (Stays \/ \E l \in issued : Commits(l) /\ Passed(l))
    <2>1. PICK l \in work[w].lease : FinalizeBatch(l)
      BY <1>12 DEF FinalizeVisible, Finalize
    <2>2. l \in issued /\ Passed(l)
      BY <1>12, WorkOf DEF FinalizeVisible, WorkerInv
    <2> QED
      BY <1>1, <1>12, <2>1, <2>2, FinalizeEffect DEF FinalizeVisible
  <1>13. ASSUME NEW w \in Client, RetireFenced(w)
         PROVE  Stays /\ UNCHANGED rows
    BY <1>13, RetireFencedInv DEF RetireFenced
  <1>14. CASE UNCHANGED vars
    BY <1>2, <1>14 DEF vars, tables
  <1> QED
    BY <1>4, <1>5, <1>6, <1>7, <1>8, <1>9, <1>10, <1>11, <1>12, <1>13, <1>14
    DEF Next, Faultless, Fault, Step
-----------------------------------------------------------------------------
(* The theorems.                                                           *)

THEOREM StoreInvariant == Spec => []StoreInv
  BY InitStore, NextStore, PTL DEF Spec

\* Every variable of the store has its type, in particular that rows only ever
\* come from write requests of leases the coordinator issued (sendPublication).
THEOREM StoreIsTyped == Spec => []TypeOK
  <1>1. StoreInv => TypeOK
    <2> SUFFICES ASSUME StoreInv PROVE TypeOK
      OBVIOUS
    <2>1. prepared \subseteq Requests
      BY DEF StoreInv, TablesAndRowsInv, RequestsInv, Requests
    <2>2. rows \in [RowId -> SUBSET sent]
      BY DEF StoreInv, TablesAndRowsInv, NamespaceInv, Image, None, Some
    <2>3. \A w \in Client : WorkerInv(w)
      BY DEF StoreInv, WorkInv
    <2> QED
      BY <2>1, <2>2, <2>3 DEF TypeOK, WorkerInv, Sendable, StoreInv, TablesAndRowsInv
  <1> QED
    BY <1>1, StoreInvariant, PTL

\* A conditional write hits every row of its publication or none: the store's
\* check for a partial publication write (replaceRevision) is never tripped.
THEOREM WritesAreWhole == Spec => []WritesAllOrNothing
  <1>1. StoreInv => WritesAllOrNothing
    BY WriteCases DEF StoreInv, WritesAllOrNothing
  <1> QED
    BY <1>1, StoreInvariant, PTL

\* A lease that reconciliation found fenced off is no longer pending when the
\* store retires it (supersedePublication): no live publication is ever lost.
THEOREM OnlyPastLeasesRetired == Spec => []FencedIsPast
  <1>1. StoreInv => FencedIsPast
    <2> SUFFICES ASSUME StoreInv, NEW w \in Client, work[w].at = "fenced",
                        NEW l \in work[w].lease
                 PROVE  ~ IsPending(l)
      BY DEF FencedIsPast, IsPending
    <2> QED
      BY WorkOf, OvertakenIsPast DEF WorkerInv
  <1> QED
    BY <1>1, StoreInvariant, PTL

\* The tables of the coordinator agree under this store's use of it as well.
THEOREM StoreTablesAgree == Spec => []TablesAgree
  <1>1. StoreInv => TablesAgree
    BY TablesFollow DEF StoreInv, TablesAndRowsInv
  <1> QED
    BY <1>1, StoreInvariant, PTL

\* Searches find the committed revision, whole and with its own embeddings, or
\* the one about to be committed: no crash, lost answer or late write of
\* replaceRevision and deleteRevision shows a mixture or a publication that lost.
THEOREM CommittedStaysSearchable == Spec => []CommittedIsSearchable
  <1>1. StoreInv => CommittedIsSearchable
    BY SearchableFollows DEF StoreInv
  <1> QED
    BY <1>1, StoreInvariant, PTL

\* Requests that land late or twice never take a row of the namespace back to
\* an older publication (the upsert condition of the publication write).
THEOREM RowsNeverRegress == Spec => ProviderNeverRegresses
  <1>1. StoreInv /\ [Next]_vars =>
          [\A s \in RowId : \A old \in rows[s] :
             \E new \in rows'[s] : new.gen > old.gen \/ new = old]_vars
    <2> SUFFICES ASSUME StoreInv, [Next]_vars, NEW s \in RowId, NEW old \in rows[s]
                 PROVE  \E new \in rows'[s] : new.gen > old.gen \/ new = old
      OBVIOUS
    <2>1. CASE UNCHANGED rows
      BY <2>1
    <2>2. ASSUME NEW l \in sent, rows' = Written(l)
          PROVE  \E new \in rows'[s] : new.gen > old.gen \/ new = old
      <3>1. CASE Written(l) = rows
        BY <2>2, <3>1
      <3>2. CASE /\ Written(l) = Image(l)
                 /\ \A r \in RowId : \A o \in rows[r] : o.gen < l.gen \/ o = l
        <4>1. l \in issued /\ sent \subseteq issued /\ TablesAndRowsInv
          BY DEF StoreInv, TablesAndRowsInv
        <4>2. PICK m \in sent : rows = Image(m)
          BY DEF StoreInv, TablesAndRowsInv, NamespaceInv, None
        <4>3. old = m /\ s <= m.slots /\ m \in issued
          <5>1. m \in issued /\ rows[s] = IF s <= m.slots THEN {m} ELSE {}
            BY <4>1, <4>2, ImageRows
          <5> QED
            BY <5>1
        <4>4. m.slots <= l.slots /\ m.slots \in Nat /\ l.slots \in Nat
          BY <3>2, <4>1, <4>3, IssuedLeases
        <4>5. s <= l.slots
          BY <4>3, <4>4 DEF RowId
        <4>6. rows'[s] = {l}
          BY <2>2, <3>2, <4>1, <4>5, ImageRows
        <4>7. old.gen \in Nat /\ l.gen \in Nat
          BY <4>1, <4>3, IssuedLeases
        <4> QED
          BY <3>2, <4>6, <4>7
      <3> QED
        BY <3>1, <3>2, WriteCases DEF StoreInv
    <2> QED
      BY <2>1, <2>2, StepEffect
  <1> QED
    BY <1>1, StoreInvariant, PTL DEF Spec, ProviderNeverRegresses

\* No plan installs the token it was made against: tokens descend by generation.
LEMMA NoPlanOfItself ==
  ASSUME TablesAndRowsInv, NEW l \in issued
  PROVE  l.intent.expected # Some(l.intent.mutation)
  <1> SUFFICES ASSUME l.intent.expected = Some(l.intent.mutation)
               PROVE  FALSE
    OBVIOUS
  <1> DEFINE same == {m \in issued : m.intent.mutation = l.intent.mutation}
  <1>1. \A m \in same : m.gen \in Nat
    BY IssuedLeases
  <1>2. PICK m \in same : \A k \in same : m.gen <= k.gen
    <2>1. same # {}
      OBVIOUS
    <2> HIDE DEF same
    <2> QED
      BY <1>1, <2>1, LeastGeneration
  <1>3. m.intent.expected = Some(l.intent.mutation)
    <2>1. /\ m.intent.mutation = <<m.intent.op, m.intent.expected, m.intent.rev,
                                   m.intent.required, m.intent.slots>>
          /\ l.intent.mutation = <<l.intent.op, l.intent.expected, l.intent.rev,
                                   l.intent.required, l.intent.slots>>
      BY IssuedLeases, PlannedIntents DEF TablesAndRowsInv
    <2> HIDE DEF Some
    <2> QED
      BY <2>1
  <1>4. PICK k \in issued : k.gen < m.gen /\ k.intent.mutation = l.intent.mutation
    BY <1>3 DEF TablesAndRowsInv, TokensInv, Some
  <1> QED
    BY <1>1, <1>2, <1>4

LEMMA ResumableFollows == TablesAndRowsInv => PendingIsResumable
  <1> SUFFICES ASSUME TablesAndRowsInv, heads[Here].pending # None
               PROVE  PendingIsResumable
    BY DEF PendingIsResumable, DeletedAgain, RetryFinishes, None
  <1>1. PICK l \in issued : IsPending(l)
    BY PendingHasLease
  <1> DEFINE i == l.intent
             head == heads[Here]
  <1>2. /\ head.pending = {PendingOf(l)} /\ head.slots = i.slots /\ l.slots = i.slots
        /\ FinalizeMatches(l) /\ i.part = Here /\ Planned(i) /\ i.slots \in Nat
    BY <1>1, PendingLease, IssuedLeases
  <1>3. i.expected = head.token
    BY <1>2 DEF TablesAndRowsInv, CoordinatorInv, FenceInv, LeasesCurrent
  <1>4. ASSUME ~ DeletedAgain PROVE RetryFinishes
    <2>1. PICK q \in Sendable : /\ i = IntentOf(q, i.expected, i.slots)
                                /\ q.required <= i.slots
                                /\ q.op = "replace" => i.expected = q.expected
      BY <1>2 DEF Planned
    <2>2. q.op \in {"replace", "delete"} /\ q.required \in Nat
      BY SendableRequests DEF TablesAndRowsInv
    <2>3. PlannedSlots(q, head.slots) = i.slots
      BY <1>2, <2>1, <2>2 DEF PlannedSlots
    <2>4. (IF q.op = "delete" THEN head.token ELSE q.expected) = i.expected
      BY <1>3, <2>1, <2>2
    <2>5. Replanned(q) = i
      BY <2>1, <2>3, <2>4 DEF Replanned
    <2>6. SamePendingIntent(head, i)
      BY <1>2 DEF SamePendingIntent, PendingOf
    <2>7. ~ SameActive(i)
      BY <1>2, <1>4 DEF DeletedAgain, SameActive, SameActiveIntent, PendingOf
    <2> QED
      BY <2>5, <2>6, <2>7 DEF Resumes, RetryFinishes, Sendable
  <1>5. ASSUME DeletedAgain
        PROVE  head.status = "deleted" /\ \A p \in head.pending : p.op = "delete"
    <2>1. head.active = Some(i.mutation)
      BY <1>2, <1>5 DEF DeletedAgain, PendingOf
    <2>2. PICK m \in mutations : m.id = i.mutation /\ m.token = head.token
      BY <2>1, HeadHere DEF TablesAndRowsInv, TablesInv, RowsInv, ActiveIsStored, Some
    <2>3. PICK k \in issued : m = MutationRow(k.intent)
      BY DEF TablesAndRowsInv, TablesInv, RowsInv, MutationsFromLeases
    <2>4. k.intent.mutation = i.mutation /\ k.intent.token = head.token
      BY <2>2, <2>3 DEF MutationRow
    <2>5. i.token = head.token
      <3>1. /\ Planned(k.intent) /\ Planned(i) /\ RequestsInv
        BY IssuedLeases DEF TablesAndRowsInv
      <3>2. k.intent.op = i.op
        BY <2>4, <3>1, PlannedIntents
      <3> QED
        BY <2>4, <3>1, <3>2, PlannedIntents
    <2>6. i.op = "delete" /\ i.token = None
      BY <1>2, <1>3, <2>5, NoPlanOfItself, PlannedIntents DEF TablesAndRowsInv
    <2>7. head.status = "deleted"
      BY <2>1, <2>5, <2>6 DEF TablesAndRowsInv, HereInv, Some, None
    <2> QED
      BY <1>2, <2>6, <2>7 DEF PendingOf
  <1> QED
    BY <1>4, <1>5 DEF PendingIsResumable

\* Whatever crashed while it was pending, some request ever made (or a deletion)
\* planned again now is the very intent the head waits for, so an exact retry
\* resumes and finishes it (ADR 0002); the one exception is a deletion that is
\* pending under its own result.
THEOREM PendingStaysResumable == Spec => []PendingIsResumable
  <1>1. StoreInv => PendingIsResumable
    BY ResumableFollows DEF StoreInv
  <1> QED
    BY <1>1, StoreInvariant, PTL
-----------------------------------------------------------------------------
(* The steps of the register.                                              *)

\* The register as the refinement mapping reads it off the tables and rows.
TheActive ==
  IF heads[Here].status # "revision" THEN None
  ELSE Some([token |-> heads[Here].token, content |-> ActiveContent])

Succession(l) ==
  [expected |-> l.intent.expected, token |-> l.intent.token, content |-> Content(l.intent)]

TheSuccessor == {Succession(l) : l \in PendingLeases}

LEMMA RegisterRead ==
  /\ Register!Accept <=>
       /\ TheSuccessor = {}
       /\ \E s \in TheSuccessor' : /\ TheSuccessor' = {s}
                                   /\ s.expected = UNION {a.token : a \in TheActive}
       /\ UNCHANGED <<TheActive, LiveRows>>
  /\ Register!Show <=>
       /\ \E s \in TheSuccessor : LiveRows' = s.content
       /\ UNCHANGED <<TheActive, TheSuccessor>>
  /\ Register!Commit <=>
       /\ \E s \in TheSuccessor :
            /\ LiveRows = s.content
            /\ TheActive' = IF s.token = {} THEN {}
                            ELSE {[token |-> s.token, content |-> s.content]}
       /\ TheSuccessor' = {}
       /\ UNCHANGED LiveRows
  /\ UNCHANGED Register!vars <=> UNCHANGED <<TheActive, TheSuccessor, LiveRows>>
  BY DEF Register!Accept, Register!ActiveToken, Register!Show, Register!Commit,
         Register!vars, TheActive, TheSuccessor, Succession

\* The lemmas on what is shown, for the state after a step as well.
LEMMA ShownByRows ==
  TablesAndRowsInv => \A m \in issued : rows = Image(m) => LiveRows = Content(m.intent)
  BY ImageShown

LEMMA ShownByHead ==
  TablesAndRowsInv => \A m \in issued : IsActive(m) => ActiveContent = Content(m.intent)
  BY ActiveShown

LEMMA OnePending ==
  TablesAndRowsInv => \A m \in issued : IsPending(m) => PendingLeases = {m}
  BY PendingLease

LEMMA StaysSucceeds ==
  ASSUME Stays
  PROVE  UNCHANGED <<TheActive, TheSuccessor, PendingLeases, ActiveContent>>
  <1>1. UNCHANGED <<PendingLeases, ActiveContent>> /\ heads'[Here] = heads[Here]
    BY DEF Stays, PendingLeases, ActiveContent, ActiveRows
  <1> QED
    BY <1>1 DEF TheActive, TheSuccessor, Succession, Content, Some, None

LEMMA GrantAccepts ==
  ASSUME StoreInv, StoreInv', NEW l, Grants(l), UNCHANGED rows
  PROVE  Register!Accept
  <1>1. TheSuccessor = {}
    BY DEF Grants, TheSuccessor, PendingLeases, None
  <1>2. TheSuccessor' = {Succession(l)}
    <2>1. IsPending(l)' /\ TablesAndRowsInv' /\ l \in issued'
      <3>1. heads'[Here].pending = {PendingOf(l)} /\ PendingOf(l).pub = l.pub
        BY DEF Grants, PendingOf
      <3> QED
        BY <3>1 DEF Grants, IsPending, StoreInv
    <2>2. PendingLeases' = {l}
      <3>1. (TablesAndRowsInv => \A m \in issued : IsPending(m) => PendingLeases = {m})'
        BY OnePending, PTL
      <3> QED
        BY <2>1, <3>1 DEF IsPending
    <2> QED
      BY <2>2 DEF TheSuccessor, Succession, Content
  <1>3. /\ heads'[Here].status = heads[Here].status /\ heads'[Here].token = heads[Here].token
        /\ heads'[Here].active = heads[Here].active /\ ActiveRows' = ActiveRows
        /\ l.intent.expected = heads[Here].token
    BY DEF Grants
  <1>4. UNCHANGED <<TheActive, LiveRows>>
    <2>1. UNCHANGED <<ActiveContent, LiveRows>>
      BY <1>3 DEF ActiveContent, ActiveRows, LiveRows
    <2> QED
      BY <1>3, <2>1 DEF TheActive, Some, None
  <1>5. UNION {a.token : a \in TheActive} = l.intent.expected
    <2>1. heads[Here].token = None <=> heads[Here].status # "revision"
      BY DEF StoreInv, TablesAndRowsInv, HereInv
    <2>2. CASE heads[Here].status # "revision"
      BY <1>3, <2>1, <2>2 DEF TheActive, None
    <2>3. CASE heads[Here].status = "revision"
      <3>1. {a.token : a \in TheActive} = {heads[Here].token}
        BY <2>3 DEF TheActive, Some
      <3> QED
        BY <1>3, <3>1
    <2> QED
      BY <2>2, <2>3
  <1>6. Succession(l).expected = l.intent.expected
    BY DEF Succession
  <1> QED
    BY <1>1, <1>2, <1>4, <1>5, <1>6, RegisterRead

LEMMA WriteShows ==
  ASSUME StoreInv, StoreInv', Stays, NEW l \in sent, rows' = Written(l)
  PROVE  Register!Show \/ UNCHANGED Register!vars
  <1>1. l \in issued /\ l \in issued' /\ TablesAndRowsInv /\ TablesAndRowsInv'
    BY DEF StoreInv, TablesAndRowsInv, Stays
  <1>2. UNCHANGED <<TheActive, TheSuccessor>>
    BY StaysSucceeds
  <1>3. ASSUME rows' = rows PROVE UNCHANGED Register!vars
    <2>1. UNCHANGED LiveRows
      BY <1>3 DEF LiveRows
    <2> QED
      BY <1>2, <2>1, RegisterRead
  <1>4. CASE /\ Written(l) = Image(l)
             /\ \A s \in RowId : \A old \in rows[s] : old.gen < l.gen \/ old = l
    <2>1. LiveRows' = Succession(l).content
      <3>1. (TablesAndRowsInv =>
               \A m \in issued : rows = Image(m) => LiveRows = Content(m.intent))'
        BY ShownByRows, PTL
      <3>2. Image(l)' = Image(l) /\ Content(l.intent)' = Content(l.intent)
        BY DEF Image, RowsOf, Content, Some
      <3>3. LiveRows' = Content(l.intent)
        BY <1>1, <1>4, <3>1, <3>2
      <3> QED
        BY <3>3 DEF Succession
    <2>2. CASE IsPending(l)
      <3>1. PendingLeases = {l}
        BY <1>1, <2>2, PendingLease
      <3>2. Succession(l) \in TheSuccessor
        BY <3>1 DEF TheSuccessor
      <3> QED
        BY <1>2, <2>1, <3>2, RegisterRead
    <2>3. CASE ~ IsPending(l)
      <3>1. PICK m \in rows[0] : l.gen <= m.gen
        BY <1>1, <2>3 DEF TablesAndRowsInv, NamespaceInv, Passed
      <3>2. m \in issued /\ rows = Image(m)
        BY <1>1, <3>1, MarkerRows
      <3>3. m = l
        <4>1. m.gen < l.gen \/ m = l
          BY <1>1, <1>4, <3>1, HeadHere
        <4> QED
          BY <1>1, <3>1, <3>2, <4>1, IssuedLeases
      <3> QED
        BY <1>3, <1>4, <3>2, <3>3
    <2> QED
      BY <2>2, <2>3
  <1> QED
    BY <1>1, <1>3, <1>4, WriteCases

LEMMA CommitCommits ==
  ASSUME StoreInv, StoreInv', NEW l \in issued, Commits(l), Passed(l), UNCHANGED rows
  PROVE  Register!Commit
  <1>1. /\ IsPending(l) /\ l \in issued' /\ IsActive(l)' /\ l.intent.part = Here
        /\ TablesAndRowsInv /\ TablesAndRowsInv'
    BY IssuedLeases DEF Commits, StoreInv
  <1>2. /\ heads'[Here].status = (IF l.intent.op = "replace" THEN "revision" ELSE "deleted")
        /\ heads'[Here].token = l.intent.token /\ heads'[Here].pending = None
    BY <1>1 DEF Commits, FinalizedHead
  <1>3. /\ l.intent.op \in {"replace", "delete"}
        /\ l.intent.token = IF l.intent.op = "replace" THEN Some(l.intent.mutation) ELSE None
    BY <1>1, IssuedLeases, PlannedIntents DEF TablesAndRowsInv
  <1>4. TheSuccessor = {Succession(l)} /\ TheSuccessor' = {}
    BY <1>1, <1>2, PendingLease DEF TheSuccessor, PendingLeases, None
  <1>5. LiveRows = Content(l.intent) /\ LiveRows' = LiveRows
    <2>1. rows = Image(l)
      BY <1>1, PassedPending
    <2> QED
      BY <1>1, <2>1, ImageShown DEF LiveRows
  <1>6. ActiveContent' = Content(l.intent)
    <2>1. (TablesAndRowsInv =>
             \A m \in issued : IsActive(m) => ActiveContent = Content(m.intent))'
      BY ShownByHead, PTL
    <2>2. Content(l.intent)' = Content(l.intent)
      BY DEF Content
    <2> QED
      BY <1>1, <2>1, <2>2
  <1>7. TheActive' = IF l.intent.token = {} THEN {}
                     ELSE {[token |-> l.intent.token, content |-> Content(l.intent)]}
    BY <1>2, <1>3, <1>6 DEF TheActive, Some, None
  <1>8. /\ Succession(l).token = l.intent.token
        /\ Succession(l).content = Content(l.intent)
    BY DEF Succession
  <1> QED
    BY <1>4, <1>5, <1>7, <1>8, RegisterRead

\* The publications of replaceRevision and deleteRevision, with rivals, late and
\* repeated writes and crashes, amount to one compare-and-set of the active
\* revision that is accepted, shown to searches whole and only then committed.
THEOREM StoreImplementsRegister == Spec => ImplementsRegister
  <1>1. Init => Register!Init
    <2> SUFFICES ASSUME Init PROVE Register!Init
      OBVIOUS
    <2>1. heads[Here] = FreshHead /\ issued = {} /\ mutations = {}
      BY StoreAssumption DEF Init, CoordinatorInit
    <2>2. LiveRows = {}
      BY DEF Init, LiveRows, None
    <2> QED
      BY <2>1, <2>2 DEF Register!Init, FreshHead, PendingLeases, None
  <1>2. StoreInv /\ [Next]_vars => [Register!Next]_(Register!vars)
    <2> SUFFICES ASSUME StoreInv, [Next]_vars
                 PROVE  Register!Next \/ UNCHANGED Register!vars
      OBVIOUS
    <2>1. StoreInv'
      BY NextStore
    <2>2. CASE Stays /\ UNCHANGED rows
      BY <2>2, StaysSucceeds, RegisterRead DEF LiveRows
    <2>3. ASSUME NEW l, Grants(l), UNCHANGED rows
          PROVE  Register!Next
      BY <2>1, <2>3, GrantAccepts DEF Register!Next
    <2>4. ASSUME NEW l \in issued, Commits(l), Passed(l), UNCHANGED rows
          PROVE  Register!Next
      BY <2>1, <2>4, CommitCommits DEF Register!Next
    <2>5. ASSUME Stays, NEW l \in sent, rows' = Written(l)
          PROVE  Register!Next \/ UNCHANGED Register!vars
      BY <2>1, <2>5, WriteShows DEF Register!Next
    <2> QED
      BY <2>2, <2>3, <2>4, <2>5, StepEffect
  <1> QED
    BY <1>1, <1>2, InitStore, NextStore, PTL
    DEF Spec, ImplementsRegister, Register!Spec
=============================================================================

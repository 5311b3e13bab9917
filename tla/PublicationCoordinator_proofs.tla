--------------------- MODULE PublicationCoordinator_proofs ---------------------
(***************************************************************************)
(* The batches of the coordinator preserve the fence between generations,  *)
(* and keep its three tables in agreement, for any intents and leases:      *)
(* heads, stored mutations and journal refer to each other as the foreign   *)
(* keys and the readers of the tables expect.  The proofs about the clients  *)
(* and about the projection index share these lemmas.                       *)
(***************************************************************************)
EXTENDS PublicationCoordinator, FiniteSetTheorems, TLAPS

HeadShape(h) ==
  /\ h = [status |-> h.status, active |-> h.active, token |-> h.token,
          gen |-> h.gen, slots |-> h.slots, pending |-> h.pending]
  /\ h.gen \in Nat
  /\ h.slots \in Nat
  /\ \A p, q \in h.pending : p = q
  /\ \A q \in h.pending :
       q = [mutation |-> q.mutation, digest |-> q.digest, pub |-> q.pub,
            gen |-> q.gen, op |-> q.op, slots |-> q.slots]

LeaseShape(l) ==
  /\ l = [intent |-> l.intent, pub |-> l.pub, gen |-> l.gen, slots |-> l.slots]
  /\ l.intent.part \in Partition
  /\ l.intent.slots \in Nat
  /\ l.gen \in Nat
  /\ l.slots \in Nat

\* The shapes that LeasesFenced needs to be inductive.
FenceInv ==
  /\ heads = [p \in Partition |-> heads[p]]
  /\ \A p \in Partition : HeadShape(heads[p])
  /\ \A l \in issued : LeaseShape(l)
  /\ LeasesFenced
  /\ LeasesCurrent

LEMMA InitFenced == CoordinatorInit => FenceInv
  BY DEF CoordinatorInit, FenceInv, HeadShape, LeaseShape, LeasesFenced, LeasesCurrent,
         FreshHead, None

\* A step that leaves the heads and the issued leases alone.
LEMMA UnchangedFenced ==
  ASSUME FenceInv, UNCHANGED <<heads, issued>>
  PROVE  FenceInv'
  BY DEF FenceInv, HeadShape, LeaseShape, LeasesFenced, LeasesCurrent, FinalizeMatches

\* A step that only empties the pending slot of one head, or keeps it.
LEMMA RetiredFenced ==
  ASSUME FenceInv, UNCHANGED issued, NEW part \in Partition, NEW head,
         heads' = [heads EXCEPT ![part] = head], HeadShape(head),
         head.gen = heads[part].gen, head.slots = heads[part].slots,
         head.pending \subseteq heads[part].pending,
         head.token = heads[part].token \/ head.pending = {}
  PROVE  FenceInv'
  <1>1. \A p \in Partition : heads'[p] = IF p = part THEN head ELSE heads[p]
    BY DEF FenceInv
  <1>2. heads' = [p \in Partition |-> heads'[p]]
    BY DEF FenceInv
  <1>3. \A p \in Partition : HeadShape(heads'[p])
    BY <1>1 DEF FenceInv
  <1>4. \A l \in issued' : LeaseShape(l)
    BY DEF FenceInv
  <1>5. LeasesFenced'
    BY <1>1 DEF FenceInv, LeasesFenced, LeaseShape
  <1>6. LeasesCurrent'
    BY <1>1 DEF FenceInv, LeasesCurrent, FinalizeMatches, LeaseShape
  <1> QED
    BY <1>2, <1>3, <1>4, <1>5, <1>6 DEF FenceInv, HeadShape, LeaseShape

\* A step that grants a lease: the newest generation again to the publication
\* that holds it, or the next generation to a publication of its own, in both
\* cases with a closure at least as wide as the head's.
LEMMA GrantedFenced ==
  ASSUME FenceInv, NEW part \in Partition, NEW head, NEW q, NEW lease,
         heads' = [heads EXCEPT ![part] = head], HeadShape(head),
         head.pending = {q}, q.gen = head.gen, q.slots = head.slots,
         head.slots >= heads[part].slots, head.token = heads[part].token,
         \/ /\ head.gen = heads[part].gen
            /\ \E p \in heads[part].pending :
                 p.pub = q.pub /\ p.mutation = q.mutation /\ p.digest = q.digest
         \/ head.gen = heads[part].gen + 1,
         issued' = issued \cup {lease}, LeaseShape(lease),
         lease.intent.part = part, lease.intent.expected = head.token,
         lease.pub = q.pub, lease.gen = q.gen, lease.slots = q.slots
  PROVE  FenceInv'
  <1>1. \A p \in Partition : heads'[p] = IF p = part THEN head ELSE heads[p]
    BY DEF FenceInv
  <1>2. heads' = [p \in Partition |-> heads'[p]]
    BY DEF FenceInv
  <1>3. \A p \in Partition : HeadShape(heads'[p])
    BY <1>1 DEF FenceInv
  <1>4. \A l \in issued' : LeaseShape(l)
    BY DEF FenceInv
  <1>5. LeasesFenced'
    <2>1. \A p \in Partition : \A r \in heads'[p].pending :
             r.gen = heads'[p].gen /\ r.slots = heads'[p].slots
      BY <1>1 DEF FenceInv, LeasesFenced
    <2>2. /\ heads[part].gen \in Nat /\ heads[part].slots \in Nat
          /\ head.gen \in Nat /\ head.slots \in Nat
      BY DEF FenceInv, HeadShape
    <2>3. \A l \in issued : l.intent.part = part =>
             /\ l.gen \in Nat /\ l.slots \in Nat
             /\ l.gen <= heads[part].gen /\ l.slots <= heads[part].slots
             /\ l.gen = lease.gen => l.pub = lease.pub
      BY <2>2 DEF FenceInv, LeasesFenced, LeaseShape
    <2>4. ASSUME NEW l \in issued'
          PROVE  /\ l.gen <= heads'[l.intent.part].gen
                 /\ l.slots <= heads'[l.intent.part].slots
                 /\ \A r \in heads'[l.intent.part].pending : l.gen = r.gen => l.pub = r.pub
      <3>1. CASE l.intent.part = part
        BY <3>1, <1>1, <2>2, <2>3
      <3>2. CASE l.intent.part # part
        <4>1. l \in issued
          BY <3>2
        <4>2. heads'[l.intent.part] = heads[l.intent.part]
          BY <4>1, <3>2, <1>1 DEF FenceInv, LeaseShape
        <4> QED
          BY <4>1, <4>2 DEF FenceInv, LeasesFenced
      <3> QED
        BY <3>1, <3>2
    <2>5. ASSUME NEW l \in issued', NEW m \in issued', l.intent.part = m.intent.part
          PROVE  /\ l.gen = m.gen => l.pub = m.pub
                 /\ l.gen < m.gen => l.slots <= m.slots
      <3>1. CASE l \in issued /\ m \in issued
        BY <3>1, <2>5 DEF FenceInv, LeasesFenced
      <3>2. CASE l = lease \/ m = lease
        BY <3>2, <2>5, <2>2, <2>3
      <3> QED
        BY <3>1, <3>2
    <2> QED
      BY <2>1, <2>4, <2>5 DEF LeasesFenced
  <1>6. LeasesCurrent'
    <2>1. SUFFICES ASSUME NEW l \in issued, l.intent.part = part, FinalizeMatches(l)'
                   PROVE  l.intent.expected = heads[part].token
      BY <1>1 DEF LeasesCurrent, FinalizeMatches, FenceInv, LeaseShape
    <2>2. /\ q.mutation = l.intent.mutation /\ q.digest = l.intent.digest
          /\ q.pub = l.pub /\ q.gen = l.gen
      BY <1>1, <2>1 DEF FinalizeMatches
    <2>3. l.gen <= heads[part].gen /\ l.gen \in Nat /\ heads[part].gen \in Nat
      BY <2>1 DEF FenceInv, LeasesFenced, LeaseShape, HeadShape
    <2>4. PICK p \in heads[part].pending :
             p.pub = q.pub /\ p.mutation = q.mutation /\ p.digest = q.digest
      BY <2>2, <2>3
    <2>5. p.gen = heads[part].gen /\ head.gen = heads[part].gen
      BY <2>2, <2>3 DEF FenceInv, LeasesFenced
    <2>6. /\ p.mutation = l.intent.mutation /\ p.digest = l.intent.digest
          /\ p.pub = l.pub /\ p.gen = l.gen
      BY <2>2, <2>4, <2>5
    <2>7. FinalizeMatches(l)
      BY <2>1, <2>6 DEF FinalizeMatches
    <2> QED
      BY <2>1, <2>7 DEF FenceInv, LeasesCurrent
  <1> QED
    BY <1>2, <1>3, <1>4, <1>5, <1>6 DEF FenceInv, HeadShape, LeaseShape
-----------------------------------------------------------------------------
(* The three batches.                                                      *)

LEMMA BeginFenced ==
  ASSUME FenceInv, NEW i, i.part \in Partition, i.slots \in Nat, NEW pub,
         BeginBatch(i, pub)
  PROVE  FenceInv'
  <1> DEFINE old == heads[i.part]
  <1>1. HeadShape(old)
    BY DEF FenceInv
  <1>2. CASE ~BeginAccepts(i)
    <2>1. UNCHANGED <<heads, issued>>
      BY <1>2 DEF BeginBatch, FenceInv
    <2> QED
      BY <2>1, UnchangedFenced
  <1>3. CASE BeginAccepts(i) /\ PendingIsMutation(old, i)
    <2>1. PICK p \in old.pending : p.mutation = i.mutation /\ p.digest = i.digest
      BY <1>3 DEF PendingIsMutation
    <2>2. old.pending = {p}
      BY <1>1 DEF HeadShape
    <2> DEFINE q == [mutation |-> i.mutation, digest |-> i.digest, pub |-> p.pub,
                     gen |-> p.gen, op |-> i.op, slots |-> i.slots]
               head == BegunHead(i, pub)
               lease == LeaseOf(i, q.pub, q.gen, q.slots)
    <2>3. p.gen = old.gen
      BY <2>1 DEF FenceInv, LeasesFenced
    <2>5. head = [status |-> old.status, active |-> old.active, token |-> old.token,
                  gen |-> old.gen, slots |-> i.slots, pending |-> {q}]
      BY <1>3, <2>2 DEF BegunHead, BegunPending
    <2>6. heads' = [heads EXCEPT ![i.part] = head] /\ issued' = issued \cup {lease}
      <3>1. {r \in head.pending : r.mutation = i.mutation /\ r.digest = i.digest} = {q}
        BY <2>5
      <3> QED
        BY <1>3, <3>1 DEF BeginBatch
    <2>7. old.slots <= i.slots /\ old.token = i.expected
      BY <1>3 DEF BeginAccepts
    <2>8. HeadShape(head)
      BY <1>1, <2>5 DEF HeadShape
    <2>9. LeaseShape(lease) /\ lease.intent = i /\ lease.pub = q.pub
          /\ lease.gen = q.gen /\ lease.slots = q.slots
      BY <1>1, <2>3 DEF LeaseShape, LeaseOf, HeadShape
    <2> QED
      <3>1. /\ head.pending = {q} /\ q.gen = head.gen /\ q.slots = head.slots
            /\ head.slots >= old.slots /\ head.token = old.token
            /\ head.gen = old.gen
            /\ \E r \in old.pending :
                 r.pub = q.pub /\ r.mutation = q.mutation /\ r.digest = q.digest
        BY <2>1, <2>3, <2>5, <2>7
      <3>2. lease.intent.expected = head.token
        BY <2>5, <2>7, <2>9
      <3> HIDE DEF q, head, lease
      <3> QED
        BY <2>6, <2>8, <2>9, <3>1, <3>2, GrantedFenced
  <1>4. CASE BeginAccepts(i) /\ ~PendingIsMutation(old, i)
    <2> DEFINE q == [mutation |-> i.mutation, digest |-> i.digest, pub |-> pub,
                     gen |-> old.gen + 1, op |-> i.op, slots |-> i.slots]
               head == BegunHead(i, pub)
               lease == LeaseOf(i, q.pub, q.gen, q.slots)
    <2>1. head = [status |-> old.status, active |-> old.active, token |-> old.token,
                  gen |-> old.gen + 1, slots |-> i.slots, pending |-> {q}]
      BY <1>4 DEF BegunHead, BegunPending, Some
    <2>2. heads' = [heads EXCEPT ![i.part] = head] /\ issued' = issued \cup {lease}
      <3>1. {r \in head.pending : r.mutation = i.mutation /\ r.digest = i.digest} = {q}
        BY <2>1
      <3> QED
        BY <1>4, <3>1 DEF BeginBatch
    <2>3. old.slots <= i.slots /\ old.token = i.expected
      BY <1>4 DEF BeginAccepts
    <2>4. HeadShape(head)
      BY <1>1, <2>1 DEF HeadShape
    <2>5. LeaseShape(lease) /\ lease.intent = i /\ lease.pub = q.pub
          /\ lease.gen = q.gen /\ lease.slots = q.slots
      BY <1>1 DEF LeaseShape, LeaseOf, HeadShape
    <2> QED
      BY <2>1, <2>2, <2>3, <2>4, <2>5, GrantedFenced
  <1> QED
    BY <1>2, <1>3, <1>4

LEMMA FinalizeFenced ==
  ASSUME FenceInv, NEW l, l.intent.part \in Partition, FinalizeBatch(l)
  PROVE  FenceInv'
  <1> DEFINE part == l.intent.part
             old == heads[part]
             head == IF FinalizeMatches(l) THEN FinalizedHead(l) ELSE old
  <1>1. HeadShape(old)
    BY DEF FenceInv
  <1>2. heads' = [heads EXCEPT ![part] = head] /\ UNCHANGED issued
    BY DEF FinalizeBatch, RetireHistory
  <1>3. HeadShape(head) /\ head.gen = old.gen /\ head.slots = old.slots
        /\ head.pending \subseteq old.pending
        /\ (head.token = old.token \/ head.pending = {})
    BY <1>1 DEF HeadShape, FinalizedHead, None
  <1> QED
    BY <1>2, <1>3, RetiredFenced

LEMMA SupersedeFenced ==
  ASSUME FenceInv, NEW l, l.intent.part \in Partition, SupersedeBatch(l)
  PROVE  FenceInv'
  <1> DEFINE part == l.intent.part
             old == heads[part]
             retired == {p \in old.pending : p.pub = l.pub /\ p.gen = l.gen}
             head == [old EXCEPT !.pending = @ \ retired]
  <1>1. HeadShape(old)
    BY DEF FenceInv
  <1>2. heads' = [heads EXCEPT ![part] = head] /\ UNCHANGED issued
    BY DEF SupersedeBatch, RetireHistory, FenceInv
  <1>3. HeadShape(head) /\ head.gen = old.gen /\ head.slots = old.slots
        /\ head.pending \subseteq old.pending /\ head.token = old.token
    BY <1>1 DEF HeadShape
  <1> QED
    BY <1>2, <1>3, RetiredFenced
-----------------------------------------------------------------------------
(* The steps of a call.                                                    *)

\* The intents of the calls in progress are the ones clients may send.
CallInv ==
  /\ call = [c \in Client |-> call[c]]
  /\ \A c \in Client : \A i \in call[c].intent : i.part \in Partition /\ i.slots \in Nat

CoordinatorInv == FenceInv /\ CallInv

LEMMA InitInv == CoordinatorInit => CoordinatorInv
  BY InitFenced DEF CoordinatorInit, CoordinatorInv, CallInv, Idle, None

LEMMA MovedInv ==
  ASSUME CallInv, NEW c \in Client, NEW leases, NEW at, Granted(c, leases, at)
  PROVE  CallInv'
  BY DEF CallInv, Granted

LEMMA BeginReadInv ==
  ASSUME CoordinatorInv, NEW c \in Client, NEW i, i.part \in Partition, i.slots \in Nat,
         BeginRead(c, i)
  PROVE  CoordinatorInv'
  <1>1. FenceInv'
    BY UnchangedFenced DEF CoordinatorInv, BeginRead, tables
  <1>2. CallInv'
    BY DEF CoordinatorInv, CallInv, BeginRead, Some
  <1> QED
    BY <1>1, <1>2 DEF CoordinatorInv

LEMMA FinalizeInv ==
  ASSUME CoordinatorInv, NEW c \in Client, NEW l,
         l.intent.part \in Partition, l.intent.slots \in Nat, Finalize(c, l)
  PROVE  CoordinatorInv'
  <1>1. FenceInv'
    BY FinalizeFenced DEF CoordinatorInv, Finalize
  <1>2. CallInv'
    BY DEF CoordinatorInv, CallInv, Finalize, Some
  <1> QED
    BY <1>1, <1>2 DEF CoordinatorInv

LEMMA SupersedeInv ==
  ASSUME CoordinatorInv, NEW c \in Client, NEW l,
         l.intent.part \in Partition, l.intent.slots \in Nat, Supersede(c, l)
  PROVE  CoordinatorInv'
  <1>1. FenceInv'
    BY SupersedeFenced DEF CoordinatorInv, Supersede
  <1>2. CallInv'
    BY DEF CoordinatorInv, CallInv, Supersede, Some
  <1> QED
    BY <1>1, <1>2 DEF CoordinatorInv

LEMMA CoordinatorStepInv ==
  ASSUME CoordinatorInv, NEW c \in Client, CoordinatorStep(c)
  PROVE  CoordinatorInv'
  <1> USE DEF CoordinatorInv
  <1>1. CASE ReadOutcome(c)
    BY <1>1, UnchangedFenced, MovedInv DEF ReadOutcome, Moved, tables
  <1>2. CASE Begin(c)
    <2>1. PICK i \in call[c].intent, pub \in PublicationId :
             /\ BeginBatch(i, pub)
             /\ \E leases, at : Granted(c, leases, at)
      BY <1>2 DEF Begin, Moved
    <2>2. i.part \in Partition /\ i.slots \in Nat
      BY DEF CallInv
    <2> QED
      BY <2>1, <2>2, BeginFenced, MovedInv
  <1>3. CASE SupersedeOlder(c)
    BY <1>3, UnchangedFenced, MovedInv DEF SupersedeOlder, Moved
  <1>4. CASE ReadDigest(c)
    BY <1>4, UnchangedFenced, MovedInv DEF ReadDigest, Moved, tables
  <1>5. CASE ReadAfter(c)
    <2>1. \E leases, at : Granted(c, leases, at)
      BY <1>5 DEF ReadAfter, Moved
    <2> QED
      BY <1>5, <2>1, UnchangedFenced, MovedInv DEF ReadAfter, tables
  <1>6. CASE ConfirmFinalized(c)
    BY <1>6, UnchangedFenced, MovedInv DEF ConfirmFinalized, Moved, tables
  <1> QED
    BY <1>1, <1>2, <1>3, <1>4, <1>5, <1>6 DEF CoordinatorStep
-----------------------------------------------------------------------------
(* All three tables are explained by the history of the leases: a pending    *)
(* publication, a journal row and a stored mutation each come from one.      *)


\* Two intents of one mutation id and digest differ only in the partition.
Agree(i, j) ==
  i.mutation = j.mutation /\ i.digest = j.digest =>
    /\ i.op = j.op /\ i.token = j.token /\ i.rev = j.rev
    /\ i.required = j.required /\ i.slots = j.slots
    /\ i.part = j.part => i = j

KnownIntents == (UNION {call[c].intent : c \in Client}) \cup {l.intent : l \in issued}

IntentsAgree ==
  /\ \A i, j \in KnownIntents : Agree(i, j)
  /\ \A i \in KnownIntents : i.op = "replace" => i.rev # None

PendingOf(l) ==
  [mutation |-> l.intent.mutation, digest |-> l.intent.digest, pub |-> l.pub,
   gen |-> l.gen, op |-> l.intent.op, slots |-> l.slots]

JournalOf(l, status) ==
  [pub |-> l.pub, mutation |-> l.intent.mutation, part |-> l.intent.part,
   gen |-> l.gen, slots |-> l.slots, status |-> status]

\* A publication id is a lease, and a lease is for the closure it asked for.
LeasesDistinct ==
  \A l, m \in issued : l.slots = l.intent.slots /\ (l.pub = m.pub => l = m)

PendingFromLeases ==
  \A p \in Partition : \A q \in heads[p].pending :
    \E l \in issued : l.intent.part = p /\ q = PendingOf(l)

JournalFromLeases ==
  /\ IsFiniteSet(journal)
  /\ \A j, k \in journal : j.pub = k.pub => j = k
  /\ \A j \in journal : \E l \in issued : j = JournalOf(l, j.status)

MutationsFromLeases ==
  /\ \A m, n \in mutations : m.id = n.id => m = n
  /\ \A m \in mutations : \E l \in issued : m = MutationRow(l.intent)

\* The active mutation is stored with what the head says of it.
ActiveIsStored ==
  \A p \in Partition :
    /\ \A x, y \in heads[p].active : x = y
    /\ \A id \in heads[p].active : \E m \in mutations :
         /\ m.id = id /\ m.token = heads[p].token
         /\ heads[p].status = "revision" => m.rev # None
    /\ heads[p].status = "revision" => heads[p].active # None

\* What the tables and the history of the leases say of each other ...
RowsInv ==
  /\ LeasesDistinct
  /\ PendingFromLeases
  /\ JournalFromLeases
  /\ MutationsFromLeases
  /\ ActiveIsStored
  /\ ReferencesResolve
  /\ JournalMatchesHead
  /\ HistoryBounded

\* ... and what the calls in progress know.
LeasesInHand == \A c \in Client : call[c].lease \subseteq issued

TablesInv == IntentsAgree /\ LeasesInHand /\ RowsInv

LEMMA TablesFollow == TablesInv => TablesAgree
  <1> SUFFICES ASSUME TablesInv PROVE ActiveRevisionReadable
    BY DEF TablesInv, RowsInv, TablesAgree
  <1> SUFFICES ASSUME NEW p \in Partition, heads[p].status = "revision"
               PROVE  \E m \in mutations :
                        /\ {n \in mutations : heads[p].active = Some(n.id)} = {m}
                        /\ m.token = heads[p].token /\ m.rev # None
    BY DEF ActiveRevisionReadable
  <1>1. PICK id \in heads[p].active : TRUE
    BY DEF TablesInv, RowsInv, ActiveIsStored, None
  <1>2. heads[p].active = {id}
    BY DEF TablesInv, RowsInv, ActiveIsStored
  <1>3. PICK m \in mutations : m.id = id /\ m.token = heads[p].token /\ m.rev # None
    BY DEF TablesInv, RowsInv, ActiveIsStored
  <1>4. {n \in mutations : heads[p].active = Some(n.id)} = {m}
    BY <1>2, <1>3 DEF TablesInv, RowsInv, MutationsFromLeases, Some
  <1> QED
    BY <1>3, <1>4

LEMMA LeaseIntentsKnown == \A l \in issued : l.intent \in KnownIntents
  BY DEF KnownIntents

LEMMA InitTables == CoordinatorInit => TablesInv
  <1> SUFFICES ASSUME CoordinatorInit PROVE TablesInv
    OBVIOUS
  <1>1. HistoryBounded
    <2>1. \A p \in Partition : {j \in journal : j.part = p /\ j.status # "pending"} = {}
      BY DEF CoordinatorInit
    <2> QED
      BY <2>1, FS_EmptySet, RetainedAssumption DEF HistoryBounded
  <1>2. JournalFromLeases
    BY FS_EmptySet DEF CoordinatorInit, JournalFromLeases
  <1>3. IntentsAgree /\ LeasesInHand
    BY DEF CoordinatorInit, Idle, None, IntentsAgree, KnownIntents, LeasesInHand
  <1> QED
    BY <1>1, <1>2, <1>3
    DEF CoordinatorInit, TablesInv, RowsInv, LeasesDistinct, PendingFromLeases,
        MutationsFromLeases, ActiveIsStored, ReferencesResolve, JournalMatchesHead,
        FreshHead, None
-----------------------------------------------------------------------------
(* The history that a retirement keeps.                                    *)

LEMMA LeastGeneration ==
  ASSUME NEW S, S # {}, \A j \in S : j.gen \in Nat
  PROVE  \E j \in S : \A k \in S : j.gen <= k.gen
  <1> DEFINE gens == {j.gen : j \in S}
  <1>1. PICK g \in gens : \A h \in gens : ~ (<<h, g>> \in OpToRel(<, Nat))
    <2>1. gens # {} /\ gens \subseteq Nat
      OBVIOUS
    <2> HIDE DEF gens
    <2> QED
      BY <2>1, NatLessThanWellFounded, WFMin
  <1>2. \A h \in gens : ~ (h < g)
    BY <1>1 DEF OpToRel
  <1> QED
    BY <1>2

\* Of rows with generations of their own, at most n have fewer than n newer ones.
LEMMA NewestFew ==
  ASSUME NEW S, IsFiniteSet(S), NEW n \in Nat \ {0}, \A j \in S : j.gen \in Nat,
         \A j, k \in S : j.gen = k.gen => j = k
  PROVE  Cardinality({j \in S : ~ (Cardinality({k \in S : k.gen > j.gen}) >= n)}) <= n
  <1> DEFINE kept == {j \in S : ~ (Cardinality({k \in S : k.gen > j.gen}) >= n)}
  <1>1. ASSUME kept = {} PROVE Cardinality(kept) <= n
    <2> HIDE DEF kept
    <2> QED
      BY <1>1, FS_EmptySet
  <1>2. ASSUME kept # {} PROVE Cardinality(kept) <= n
    <2>1. PICK j \in kept : \A k \in kept : j.gen <= k.gen
      BY <1>2, LeastGeneration
    <2> DEFINE newer == {k \in S : k.gen > j.gen}
    <2>2. kept \subseteq newer \cup {j}
      BY <2>1
    <2>3. IsFiniteSet(newer) /\ Cardinality(newer) \in Nat /\ ~ (Cardinality(newer) >= n)
      BY <2>1, FS_Subset, FS_CardinalityType
    <2>4. /\ IsFiniteSet(newer \cup {j})
          /\ Cardinality(newer \cup {j}) <= Cardinality(newer) + 1
      <3>1. IsFiniteSet(newer) /\ Cardinality(newer) \in Nat
        BY <2>3
      <3> HIDE DEF newer
      <3>2. /\ IsFiniteSet(newer \cup {j})
            /\ Cardinality(newer \cup {j}) =
                 IF j \in newer THEN Cardinality(newer) ELSE Cardinality(newer) + 1
        BY <3>1, FS_AddElement
      <3> QED
        BY <3>1, <3>2
    <2>5. Cardinality(kept) <= Cardinality(newer \cup {j}) /\ IsFiniteSet(kept)
      <3> HIDE DEF kept, newer
      <3> QED
        BY <2>2, <2>4, FS_Subset
    <2>6. Cardinality(kept) \in Nat /\ Cardinality(newer \cup {j}) \in Nat
      BY <2>4, <2>5, FS_CardinalityType
    <2> HIDE DEF newer
    <2> QED
      BY <2>3, <2>4, <2>5, <2>6
  <1> QED
    BY <1>1, <1>2
-----------------------------------------------------------------------------
(* The journal and the mutations after a batch.                            *)

\* A batch that grants nothing may only drop mutations nobody refers to.
LEMMA NothingGranted ==
  ASSUME RowsInv, heads' = heads, journal' = journal, issued' = issued,
         mutations' \subseteq mutations,
         \A m \in mutations : Referenced(m.id, heads, journal) => m \in mutations'
  PROVE  RowsInv'
  <1>1. ReferencesResolve'
    BY DEF RowsInv, ReferencesResolve, Referenced, ActiveIsStored, Some
  <1>2. ActiveIsStored'
    <2>1. \A p \in Partition : \A id \in heads[p].active : heads[p].active = Some(id)
      BY DEF RowsInv, ActiveIsStored, Some
    <2> QED
      BY <2>1 DEF RowsInv, ActiveIsStored, Referenced
  <1>3. JournalFromLeases' /\ MutationsFromLeases'
    BY DEF RowsInv, JournalFromLeases, MutationsFromLeases
  <1> QED
    BY <1>1, <1>2, <1>3
    DEF RowsInv, LeasesDistinct, PendingFromLeases, JournalMatchesHead, HistoryBounded

\* Marking the publication of a lease changes the status of its row, if any.
LEMMA MarkedRows ==
  ASSUME JournalFromLeases, LeasesDistinct, NEW l \in issued, NEW status,
         status # "pending"
  PROVE  LET rs == MarkPublication(journal, l, status)
         IN  /\ IsFiniteSet(rs)
             /\ \A j, k \in rs : j.pub = k.pub => j = k
             /\ \A j \in rs : \E m \in issued : j = JournalOf(m, j.status)
             /\ \A j \in rs : j.status = "pending" => j \in journal
             /\ \A j \in journal : j.pub # l.pub => j \in rs
             /\ \A j \in rs : j.pub = l.pub => j.status # "pending"
             /\ \A j \in rs : j.part # l.intent.part => j \in journal
  <1> DEFINE rs == MarkPublication(journal, l, status)
  <1>1. ASSUME NEW j \in journal, j.pub = l.pub
        PROVE  /\ j = JournalOf(l, j.status)
               /\ [j EXCEPT !.status = status] = JournalOf(l, status)
    BY <1>1 DEF JournalFromLeases, LeasesDistinct, JournalOf
  <1>2. CASE \A j \in journal : j.pub # l.pub
    <2>1. rs = journal
      BY <1>2 DEF MarkPublication
    <2> QED
      BY <2>1, <1>2 DEF JournalFromLeases
  <1>3. CASE \E j \in journal : j.pub = l.pub
    <2>1. PICK j \in journal : j.pub = l.pub
      BY <1>3
    <2>2. \A k \in journal : k.pub = l.pub => k = j
      BY <2>1 DEF JournalFromLeases
    <2>3. j.part = l.intent.part
      BY <2>1, <1>1 DEF JournalOf
    <2> DEFINE row == JournalOf(l, status)
    <2>4. rs = (journal \ {j}) \cup {row}
      BY <2>1, <2>2, <2>3, <1>1 DEF MarkPublication
    <2>5. IsFiniteSet(rs)
      <3> HIDE DEF rs, row
      <3>1. IsFiniteSet(journal)
        BY DEF JournalFromLeases
      <3>2. IsFiniteSet(journal \ {j})
        BY <3>1, FS_RemoveElement
      <3> QED
        BY <2>4, <3>2, FS_AddElement
    <2>6. row.pub = l.pub /\ row.status = status /\ row.part = l.intent.part
          /\ row = JournalOf(l, row.status)
      BY DEF JournalOf
    <2> HIDE DEF row, rs
    <2>7. \A a, b \in rs : a.pub = b.pub => a = b
      BY <2>2, <2>4, <2>6 DEF JournalFromLeases
    <2>8. \A a \in rs : \E m \in issued : a = JournalOf(m, a.status)
      BY <2>4, <2>6 DEF JournalFromLeases
    <2> QED
      BY <2>1, <2>2, <2>4, <2>5, <2>6, <2>7, <2>8 DEF rs
  <1> QED
    BY <1>2, <1>3

\* What a retirement needs of the heads and rows it is given.
Retirable(hs, rs, part) ==
  /\ hs = [p \in Partition |-> hs[p]]
  /\ \A p \in Partition : hs[p].pending \subseteq heads[p].pending
  /\ IsFiniteSet(rs)
  /\ \A j, k \in rs : j.pub = k.pub => j = k
  /\ \A j \in rs : \E l \in issued : j = JournalOf(l, j.status)
  /\ \A p \in Partition :
       {j \in rs : j.part = p /\ j.status = "pending"} =
         {[pub |-> q.pub, mutation |-> q.mutation, part |-> p, gen |-> q.gen,
           slots |-> q.slots, status |-> "pending"] : q \in hs[p].pending}
  /\ \A p \in Partition \ {part} :
       {j \in rs : j.part = p /\ j.status # "pending"} =
         {j \in journal : j.part = p /\ j.status # "pending"}
  /\ \A j \in rs : \E m \in mutations : m.id = j.mutation
  /\ \A p \in Partition :
       /\ \A x, y \in hs[p].active : x = y
       /\ \A id \in hs[p].active : \E m \in mutations :
            /\ m.id = id /\ m.token = hs[p].token
            /\ hs[p].status = "revision" => m.rev # None
       /\ hs[p].status = "revision" => hs[p].active # None

LEMMA RetiredRows ==
  ASSUME RowsInv, FenceInv, NEW hs, NEW rs, NEW part \in Partition,
         Retirable(hs, rs, part), RetireHistory(hs, rs, part)
  PROVE  RowsInv'
  <1>1. /\ heads' = hs /\ issued' = issued
        /\ journal' = rs \ ExpiredHistory(rs, part)
        /\ mutations' = mutations \ Unreferenced(mutations, hs, journal')
    BY DEF RetireHistory
  <1>2. \A m \in mutations : Referenced(m.id, hs, journal') => m \in mutations'
    BY <1>1 DEF Unreferenced
  <1>3. journal' \subseteq rs /\ \A j \in rs : j.status = "pending" \/ j.part # part => j \in journal'
    BY <1>1 DEF ExpiredHistory
  <1>4. LeasesDistinct'
    BY <1>1 DEF RowsInv, LeasesDistinct
  <1>5. PendingFromLeases'
    BY <1>1 DEF RowsInv, PendingFromLeases, Retirable
  <1>6. JournalFromLeases'
    <2>1. IsFiniteSet(journal')
      BY <1>3, FS_Subset DEF Retirable
    <2> QED
      BY <2>1, <1>1, <1>3 DEF JournalFromLeases, Retirable
  <1>7. MutationsFromLeases'
    BY <1>1 DEF RowsInv, MutationsFromLeases
  <1>8. ActiveIsStored'
    <2>1. \A p \in Partition : \A id \in hs[p].active :
            hs[p].active = Some(id) /\ \A rows : Referenced(id, hs, rows)
      BY DEF Retirable, Some, Referenced
    <2>2. ASSUME NEW p \in Partition, NEW id \in hs[p].active
          PROVE  \E m \in mutations' :
                   /\ m.id = id /\ m.token = hs[p].token
                   /\ hs[p].status = "revision" => m.rev # None
      <3>1. PICK m \in mutations :
               /\ m.id = id /\ m.token = hs[p].token
               /\ hs[p].status = "revision" => m.rev # None
        BY DEF Retirable
      <3> QED
        BY <3>1, <2>1, <1>2
    <2>3. \A p \in Partition :
            /\ \A x, y \in hs[p].active : x = y
            /\ hs[p].status = "revision" => hs[p].active # None
      BY DEF Retirable
    <2> QED
      BY <2>2, <2>3, <1>1 DEF ActiveIsStored, None
  <1>9. ReferencesResolve'
    <2>1. \A p \in Partition : \A id \in heads'[p].active : \E m \in mutations' : m.id = id
      BY <1>8 DEF ActiveIsStored
    <2>2. \A p \in Partition : \A q \in heads'[p].pending :
            \E m \in mutations' : m.id = q.mutation /\ m.digest = q.digest
      <3> SUFFICES ASSUME NEW p \in Partition, NEW q \in hs[p].pending
                   PROVE  \E m \in mutations' : m.id = q.mutation /\ m.digest = q.digest
        BY <1>1
      <3>1. PICK m \in mutations : m.id = q.mutation /\ m.digest = q.digest
        BY DEF Retirable, RowsInv, ReferencesResolve
      <3>2. Referenced(m.id, hs, journal')
        BY <3>1 DEF Referenced
      <3> QED
        BY <3>1, <3>2, <1>2
    <2>3. \A j \in journal' : \E m \in mutations' : m.id = j.mutation
      BY <1>2, <1>3 DEF Retirable, Referenced
    <2> QED
      BY <2>1, <2>2, <2>3 DEF ReferencesResolve
  <1>10. JournalMatchesHead'
    <2>1. \A p \in Partition : {j \in journal' : j.part = p /\ j.status = "pending"} =
                               {j \in rs : j.part = p /\ j.status = "pending"}
      BY <1>3
    <2> QED
      BY <2>1, <1>1 DEF JournalMatchesHead, Retirable
  <1>11. HistoryBounded'
    <2>1. SUFFICES ASSUME NEW p \in Partition
                   PROVE  Cardinality({j \in journal' : j.part = p /\ j.status # "pending"})
                            <= Retained
      BY DEF HistoryBounded
    <2>2. CASE p # part
      <3>1. {j \in journal' : j.part = p /\ j.status # "pending"} =
              {j \in journal : j.part = p /\ j.status # "pending"}
        BY <1>3, <2>2 DEF Retirable
      <3> QED
        BY <3>1 DEF RowsInv, HistoryBounded
    <2>3. CASE p = part
      <3> DEFINE done == {j \in rs : j.part = part /\ j.status # "pending"}
      <3>1. {j \in journal' : j.part = p /\ j.status # "pending"} =
              {j \in done : ~ (Cardinality({k \in done : k.gen > j.gen}) >= Retained)}
        BY <1>1, <2>3 DEF ExpiredHistory
      <3>2. IsFiniteSet(done)
        BY FS_Subset DEF Retirable
      <3>3. \A j \in done : \E l \in issued :
              l.pub = j.pub /\ l.intent.part = part /\ l.gen = j.gen /\ l.gen \in Nat
        BY DEF Retirable, JournalOf, FenceInv, LeaseShape
      <3>4. \A j, k \in done : j.gen = k.gen => j = k
        <4>1. \A j, k \in done : j.gen = k.gen => j.pub = k.pub
          BY <3>3 DEF FenceInv, LeasesFenced
        <4> QED
          BY <4>1 DEF Retirable
      <3>5. \A j \in done : j.gen \in Nat
        BY <3>3
      <3> HIDE DEF done
      <3> QED
        BY <3>1, <3>2, <3>4, <3>5, NewestFew, RetainedAssumption
    <2> QED
      BY <2>2, <2>3
  <1> QED
    BY <1>4, <1>5, <1>6, <1>7, <1>8, <1>9, <1>10, <1>11 DEF RowsInv
-----------------------------------------------------------------------------
(* The three batches.                                                      *)

\* A batch of beginPublication that is refused, or that resumes the pending
\* publication, leaves heads, journal and leases as they are; one that is
\* accepted for a new publication grants a lease of its own.
LEMMA BeginBatchCases ==
  ASSUME FenceInv, RowsInv, IntentsAgree, NEW i \in KnownIntents,
         i.part \in Partition, i.slots \in Nat, NEW pub, BeginBatch(i, pub),
         ~ Allocates(i)
  PROVE  /\ heads' = heads /\ journal' = journal /\ issued' = issued
         /\ mutations' \subseteq mutations
         /\ \A m \in mutations : Referenced(m.id, heads, journal) => m \in mutations'
         /\ BeginAccepts(i) =>
              {LeaseOf(i, p.pub, p.gen, p.slots) : p \in BegunPending(i, pub)} \subseteq issued
  <1> DEFINE old == heads[i.part]
  <1>1. /\ HeadShape(old) /\ heads = [p \in Partition |-> heads[p]]
        /\ \A p, q \in old.pending : p = q
    BY DEF FenceInv, HeadShape
  <1>2. ASSUME BeginAccepts(i)
        PROVE  /\ BegunHead(i, pub) = old
               /\ {LeaseOf(i, p.pub, p.gen, p.slots) : p \in BegunPending(i, pub)} \subseteq issued
    <2>1. PICK p \in old.pending : p.mutation = i.mutation /\ p.digest = i.digest
      BY <1>2 DEF Allocates, PendingIsMutation
    <2>2. old.pending = {p} /\ PendingIsMutation(old, i)
      BY <1>1, <2>1 DEF PendingIsMutation
    <2>3. PICK l \in issued : l.intent.part = i.part /\ p = PendingOf(l)
      BY DEF RowsInv, PendingFromLeases
    <2>4. l.intent = i
      <3>1. l.intent \in KnownIntents
        BY LeaseIntentsKnown
      <3>2. Agree(l.intent, i)
        BY <3>1 DEF IntentsAgree
      <3> QED
        BY <3>2, <2>1, <2>3 DEF Agree, PendingOf
    <2>5. l.slots = i.slots /\ p.slots = i.slots /\ p.op = i.op /\ p.pub = l.pub /\ p.gen = l.gen
      BY <2>3, <2>4 DEF RowsInv, LeasesDistinct, PendingOf
    <2>6. old.slots = i.slots
      BY <2>5 DEF FenceInv, LeasesFenced
    <2>7. p = [mutation |-> i.mutation, digest |-> i.digest, pub |-> p.pub,
               gen |-> p.gen, op |-> i.op, slots |-> i.slots]
      BY <2>3, <2>4, <2>5 DEF PendingOf
    <2>8. BegunPending(i, pub) = {p}
      BY <2>2, <2>7 DEF BegunPending
    <2>9. BegunHead(i, pub) = old
      BY <1>1, <2>2, <2>6, <2>8 DEF BegunHead, HeadShape
    <2>10. LeaseOf(i, p.pub, p.gen, p.slots) = l
      BY <2>4, <2>5 DEF LeaseOf, FenceInv, LeaseShape
    <2> QED
      BY <2>8, <2>9, <2>10
  <1> DEFINE accepted == BeginAccepts(i)
             head == IF accepted THEN BegunHead(i, pub) ELSE old
             begun == {p \in head.pending : p.mutation = i.mutation /\ p.digest = i.digest}
  <1>3. head = old
    BY <1>2
  <1>4. [heads EXCEPT ![i.part] = head] = heads
    BY <1>1, <1>3
  <1>5. \A p \in begun : \E j \in journal : j.pub = p.pub
    <2>1. \A p \in old.pending :
            [pub |-> p.pub, mutation |-> p.mutation, part |-> i.part, gen |-> p.gen,
             slots |-> p.slots, status |-> "pending"] \in journal
      BY DEF RowsInv, JournalMatchesHead
    <2>2. \A p \in old.pending : \E j \in journal : j.pub = p.pub
      BY <2>1
    <2> HIDE DEF head
    <2> QED
      BY <2>2, <1>3
  <1>6. journal' = journal /\ heads' = heads
    <2>1. {q \in begun : \A j \in journal : j.pub # q.pub} = {}
      BY <1>5
    <2> HIDE DEF begun
    <2>2. journal' = journal \cup {PublicationRow(i, p) :
                p \in {q \in begun : \A j \in journal : j.pub # q.pub}}
      BY DEF BeginBatch, begun
    <2> QED
      BY <2>1, <2>2, <1>4 DEF BeginBatch
  <1>7. issued' = issued
    <2>1. accepted => {LeaseOf(i, p.pub, p.gen, p.slots) : p \in begun} \subseteq issued
      <3>1. accepted => begun \subseteq BegunPending(i, pub)
        BY DEF BegunHead
      <3> QED
        BY <3>1, <1>2
    <2> QED
      BY <2>1 DEF BeginBatch
  <1>8. mutations' = Staged(i) \ {m \in Unreferenced(Staged(i), heads, journal) :
                                    m.id = i.mutation /\ m.digest = i.digest}
    <2> HIDE DEF head
    <2> QED
      BY <1>4, <1>6 DEF BeginBatch, head
  <1>9. mutations' \subseteq mutations
    <2>1. CASE \E m \in mutations : m.id = i.mutation
      BY <2>1, <1>8 DEF Staged
    <2>2. CASE \A m \in mutations : m.id # i.mutation
      <3>1. ~ Referenced(i.mutation, heads, journal)
        BY <2>2 DEF RowsInv, ReferencesResolve, Referenced, Some
      <3>2. Staged(i) = mutations \cup {MutationRow(i)}
        BY <2>2 DEF Staged
      <3>3. MutationRow(i).id = i.mutation /\ MutationRow(i).digest = i.digest
        BY DEF MutationRow
      <3> QED
        BY <3>1, <3>2, <3>3, <1>8 DEF Unreferenced
    <2> QED
      BY <2>1, <2>2
  <1>10. \A m \in mutations : Referenced(m.id, heads, journal) => m \in mutations'
    BY <1>8 DEF Staged, Unreferenced
  <1> QED
    BY <1>2, <1>6, <1>7, <1>9, <1>10

LEMMA AllocateTables ==
  ASSUME FenceInv, RowsInv, IntentsAgree, NEW i \in KnownIntents,
         i.part \in Partition, i.slots \in Nat, NEW pub, BeginBatch(i, pub),
         Allocates(i), \A l \in issued : l.pub # pub
  PROVE  /\ RowsInv'
         /\ BegunPending(i, pub) = {PendingOf(LeaseOf(i, pub, heads[i.part].gen + 1, i.slots))}
         /\ issued' = issued \cup {LeaseOf(i, pub, heads[i.part].gen + 1, i.slots)}
  <1> DEFINE old == heads[i.part]
             lease == LeaseOf(i, pub, old.gen + 1, i.slots)
             q == PendingOf(lease)
             head == [status |-> old.status, active |-> old.active, token |-> old.token,
                      gen |-> old.gen + 1, slots |-> i.slots, pending |-> {q}]
             row == JournalOf(lease, "pending")
  <1>1. /\ HeadShape(old) /\ heads = [p \in Partition |-> heads[p]]
    BY DEF FenceInv
  <1>2. old.pending = {}
    BY DEF Allocates, BeginAccepts, None
  <1>3. lease.intent = i /\ lease.pub = pub /\ lease.gen = old.gen + 1 /\ lease.slots = i.slots
    BY DEF LeaseOf
  <1>4. /\ q.mutation = i.mutation /\ q.digest = i.digest /\ q.pub = pub
        /\ q.gen = old.gen + 1 /\ q.op = i.op /\ q.slots = i.slots
    BY <1>3 DEF PendingOf
  <1>5. BegunPending(i, pub) = {q} /\ BegunHead(i, pub) = head
    BY <1>3 DEF Allocates, BegunPending, BegunHead, PendingOf, Some
  <1>6. {r \in head.pending : r.mutation = i.mutation /\ r.digest = i.digest} = {q}
    BY <1>4
  <1>7. heads' = [heads EXCEPT ![i.part] = head] /\ issued' = issued \cup {lease}
    BY <1>4, <1>5, <1>6 DEF BeginBatch, Allocates
  <1>8. \A p \in Partition : heads'[p] = IF p = i.part THEN head ELSE heads[p]
    BY <1>1, <1>7
  <1>9. \A j \in journal : j.pub # pub
    BY DEF RowsInv, JournalFromLeases, JournalOf
  <1>10. journal' = journal \cup {row}
    <2>1. {r \in {q} : \A j \in journal : j.pub # r.pub} = {q}
      BY <1>4, <1>9
    <2>2. PublicationRow(i, q) = row
      BY <1>3, <1>4 DEF PublicationRow, JournalOf
    <2>3. journal' = journal \cup {PublicationRow(i, p) :
                       p \in {r \in {q} : \A j \in journal : j.pub # r.pub}}
      BY <1>5, <1>6 DEF BeginBatch, Allocates
    <2> QED
      BY <2>1, <2>2, <2>3
  <1>11. mutations' = Staged(i)
    <2>1. i.part \in Partition /\ q \in heads'[i.part].pending
      BY <1>8
    <2>2. Referenced(i.mutation, heads', journal')
      BY <2>1, <1>4 DEF Referenced
    <2>3. {m \in Unreferenced(Staged(i), heads', journal') :
             m.id = i.mutation /\ m.digest = i.digest} = {}
      BY <2>2 DEF Unreferenced
    <2>4. mutations' = Staged(i) \ {m \in Unreferenced(Staged(i), heads', journal') :
             m.id = i.mutation /\ m.digest = i.digest}
      BY DEF BeginBatch
    <2> QED
      BY <2>3, <2>4
  <1>12. /\ mutations \subseteq mutations'
         /\ \E m \in mutations' : m.id = i.mutation /\ m.digest = i.digest
    BY <1>11 DEF Staged, Allocates, BeginAccepts
  <1>13. /\ row.pub = pub /\ row.mutation = i.mutation /\ row.part = i.part
         /\ row.gen = old.gen + 1 /\ row.slots = i.slots /\ row.status = "pending"
         /\ row = JournalOf(lease, row.status)
    BY <1>3 DEF JournalOf
  <1>14. head.pending = {q} /\ head.active = old.active /\ head.token = old.token
         /\ head.status = old.status
    OBVIOUS
  <1> HIDE DEF head, q, row, lease
  <1>15. LeasesDistinct'
    BY <1>3, <1>7 DEF RowsInv, LeasesDistinct
  <1>16. PendingFromLeases'
    BY <1>3, <1>7, <1>8, <1>14 DEF RowsInv, PendingFromLeases, q
  <1>17. JournalFromLeases'
    <2>1. IsFiniteSet(journal')
      BY <1>10, FS_AddElement DEF RowsInv, JournalFromLeases
    <2>2. \A j, k \in journal' : j.pub = k.pub => j = k
      BY <1>9, <1>10, <1>13 DEF RowsInv, JournalFromLeases
    <2>3. \A j \in journal' : \E l \in issued' : j = JournalOf(l, j.status)
      BY <1>7, <1>10, <1>13 DEF RowsInv, JournalFromLeases
    <2> QED
      BY <2>1, <2>2, <2>3 DEF JournalFromLeases
  <1>18. MutationsFromLeases'
    <2>1. MutationRow(i) = MutationRow(lease.intent) /\ MutationRow(i).id = i.mutation
      BY <1>3 DEF MutationRow
    <2> QED
      BY <2>1, <1>7, <1>11 DEF Staged, RowsInv, MutationsFromLeases
  <1>19. ActiveIsStored'
    BY <1>8, <1>12, <1>14 DEF RowsInv, ActiveIsStored, None
  <1>20. ReferencesResolve'
    <2>1. \A p \in Partition : \A id \in heads'[p].active : \E m \in mutations' : m.id = id
      BY <1>19 DEF ActiveIsStored
    <2>2. \A p \in Partition : \A r \in heads'[p].pending :
            \E m \in mutations' : m.id = r.mutation /\ m.digest = r.digest
      BY <1>4, <1>8, <1>12, <1>14 DEF RowsInv, ReferencesResolve
    <2>3. \A j \in journal' : \E m \in mutations' : m.id = j.mutation
      BY <1>10, <1>12, <1>13 DEF RowsInv, ReferencesResolve
    <2> QED
      BY <2>1, <2>2, <2>3 DEF ReferencesResolve
  <1>21. JournalMatchesHead'
    <2> DEFINE pendingRows(p, rs) == {j \in rs : j.part = p /\ j.status = "pending"}
               headRows(p, h) ==
                 {[pub |-> r.pub, mutation |-> r.mutation, part |-> p, gen |-> r.gen,
                   slots |-> r.slots, status |-> "pending"] : r \in h.pending}
    <2>1. SUFFICES ASSUME NEW p \in Partition
                   PROVE  pendingRows(p, journal') = headRows(p, heads'[p])
      BY DEF JournalMatchesHead
    <2>2. pendingRows(p, journal) = headRows(p, heads[p])
      BY DEF RowsInv, JournalMatchesHead
    <2>3. CASE p # i.part
      <3>1. pendingRows(p, journal') = pendingRows(p, journal)
        BY <2>3, <1>10, <1>13
      <3> QED
        BY <3>1, <2>2, <2>3, <1>8
    <2>4. CASE p = i.part
      <3>1. pendingRows(p, journal) = {}
        BY <2>2, <2>4, <1>2
      <3>2. pendingRows(p, journal') = {row}
        BY <3>1, <2>4, <1>10, <1>13
      <3>3. headRows(p, head) = {row}
        BY <2>4, <1>3, <1>4, <1>14 DEF row, JournalOf
      <3> QED
        BY <3>2, <3>3, <2>4, <1>8
    <2> QED
      BY <2>3, <2>4
  <1>22. HistoryBounded'
    <2>1. \A p \in Partition : {j \in journal' : j.part = p /\ j.status # "pending"} =
                               {j \in journal : j.part = p /\ j.status # "pending"}
      BY <1>10, <1>13
    <2> QED
      BY <2>1 DEF RowsInv, HistoryBounded
  <1>23. RowsInv'
    BY <1>15, <1>16, <1>17, <1>18, <1>19, <1>20, <1>21, <1>22 DEF RowsInv
  <1> QED
    BY <1>5, <1>7, <1>23 DEF lease, q

\* The pending publication that a lease is recognised by is the lease's own.
LEMMA MatchedLease ==
  ASSUME RowsInv, FenceInv, NEW l \in issued, NEW q \in heads[l.intent.part].pending, q.pub = l.pub
  PROVE  q = PendingOf(l) /\ heads[l.intent.part].pending = {q} /\ l.intent.part \in Partition
  <1>1. l.intent.part \in Partition
    BY DEF FenceInv, LeaseShape
  <1>2. PICK m \in issued : m.intent.part = l.intent.part /\ q = PendingOf(m)
    BY <1>1 DEF RowsInv, PendingFromLeases
  <1>3. m = l
    BY <1>2 DEF RowsInv, LeasesDistinct, PendingOf
  <1> QED
    BY <1>1, <1>2, <1>3 DEF FenceInv, HeadShape

LEMMA FinalizeTables ==
  ASSUME RowsInv, FenceInv, IntentsAgree, NEW l \in issued, FinalizeBatch(l)
  PROVE  RowsInv'
  <1> DEFINE part == l.intent.part
             i == l.intent
             head == IF FinalizeMatches(l) THEN FinalizedHead(l) ELSE heads[part]
             hs == [heads EXCEPT ![part] = head]
             marked == MarkPublication(journal, l, "committed")
             rs == IF head.active = Some(i.mutation) /\ head.pending = None
                     THEN marked ELSE journal
  <1>1. part \in Partition /\ heads = [p \in Partition |-> heads[p]]
    BY DEF FenceInv, LeaseShape
  <1>2. /\ hs = [p \in Partition |-> hs[p]]
        /\ \A p \in Partition : hs[p] = IF p = part THEN head ELSE heads[p]
    BY <1>1
  <1>3. RetireHistory(hs, rs, part)
    BY DEF FinalizeBatch
  <1>4. /\ IsFiniteSet(marked)
        /\ \A j, k \in marked : j.pub = k.pub => j = k
        /\ \A j \in marked : \E m \in issued : j = JournalOf(m, j.status)
        /\ \A j \in marked : j.status = "pending" => j \in journal
        /\ \A j \in journal : j.pub # l.pub => j \in marked
        /\ \A j \in marked : j.pub = l.pub => j.status # "pending"
        /\ \A j \in marked : j.part # part => j \in journal
    BY MarkedRows DEF RowsInv
  <1>5. \A j \in marked : \E m \in mutations : m.id = j.mutation
    <2>1. \A j \in marked : \E k \in journal : k.mutation = j.mutation
      <3>1. \A j \in journal : [j EXCEPT !.status = "committed"].mutation = j.mutation
        BY DEF RowsInv, JournalFromLeases, JournalOf
      <3> QED
        BY <3>1 DEF MarkPublication
    <2> QED
      BY <2>1 DEF RowsInv, ReferencesResolve
  <1>6. \A j \in journal : j.part # part => j \in marked
    BY DEF MarkPublication
  <1>7. /\ \A p \in Partition : hs[p].pending \subseteq heads[p].pending
        /\ head.pending = IF FinalizeMatches(l) THEN {} ELSE heads[part].pending
    BY <1>2 DEF FinalizedHead, None
  <1>8. /\ IsFiniteSet(rs)
        /\ \A j, k \in rs : j.pub = k.pub => j = k
        /\ \A j \in rs : \E m \in issued : j = JournalOf(m, j.status)
        /\ \A j \in rs : \E m \in mutations : m.id = j.mutation
        /\ \A j : j.part # part => (j \in rs <=> j \in journal)
    BY <1>4, <1>5, <1>6 DEF RowsInv, JournalFromLeases, ReferencesResolve
  <1> DEFINE pendingRows(p, set) == {j \in set : j.part = p /\ j.status = "pending"}
             headRows(p, h) ==
               {[pub |-> r.pub, mutation |-> r.mutation, part |-> p, gen |-> r.gen,
                 slots |-> r.slots, status |-> "pending"] : r \in h.pending}
  <1>9. ASSUME NEW p \in Partition
        PROVE  pendingRows(p, rs) = headRows(p, hs[p])
    <2>1. pendingRows(p, journal) = headRows(p, heads[p])
      BY DEF RowsInv, JournalMatchesHead
    <2>2. CASE p # part
      <3>1. pendingRows(p, rs) = pendingRows(p, journal)
        <4> HIDE DEF rs
        <4> QED
          BY <2>2, <1>8
      <3>2. hs[p] = heads[p]
        BY <2>2, <1>2
      <3> QED
        BY <3>1, <3>2, <2>1
    <2>3. CASE p = part /\ FinalizeMatches(l)
      <3>1. rs = marked
        BY <2>3 DEF FinalizedHead, None
      <3>2. PICK q \in heads[part].pending : q.pub = l.pub
        BY <2>3 DEF FinalizeMatches
      <3>3. heads[part].pending = {q}
        BY <3>2, MatchedLease
      <3>4. \A j \in pendingRows(p, journal) : j.pub = l.pub
        BY <2>1, <2>3, <3>2, <3>3
      <3>5. pendingRows(p, marked) = {}
        <4> HIDE DEF marked
        <4> QED
          BY <3>4, <1>4
      <3>6. headRows(p, hs[p]) = {}
        BY <2>3, <1>2, <1>7
      <3> QED
        BY <3>1, <3>5, <3>6
    <2>4. CASE p = part /\ ~ FinalizeMatches(l)
      <3>1. hs[p] = heads[p]
        BY <2>4, <1>2
      <3>2. CASE rs = journal
        BY <3>1, <3>2, <2>1
      <3>3. CASE rs # journal
        <4>1. heads[p].pending = {} /\ rs = marked
          BY <3>3, <2>4 DEF None
        <4>2. pendingRows(p, journal) = {}
          BY <4>1, <2>1
        <4>3. pendingRows(p, marked) = {}
          <5> HIDE DEF marked
          <5> QED
            BY <4>2, <1>4
        <4> QED
          BY <3>1, <4>1, <4>2, <4>3, <2>1
      <3> QED
        BY <3>2, <3>3
    <2> QED
      BY <2>2, <2>3, <2>4
  <1>10. \A p \in Partition \ {part} :
           {j \in rs : j.part = p /\ j.status # "pending"} =
             {j \in journal : j.part = p /\ j.status # "pending"}
    <2> HIDE DEF rs
    <2> QED
      BY <1>8
  <1>11. ASSUME NEW p \in Partition
         PROVE  /\ \A x, y \in hs[p].active : x = y
                /\ \A id \in hs[p].active : \E m \in mutations :
                     /\ m.id = id /\ m.token = hs[p].token
                     /\ hs[p].status = "revision" => m.rev # None
                /\ hs[p].status = "revision" => hs[p].active # None
    <2>1. CASE p # part \/ ~ FinalizeMatches(l)
      <3>1. hs[p] = heads[p]
        BY <2>1, <1>2
      <3> QED
        BY <3>1 DEF RowsInv, ActiveIsStored
    <2>2. CASE p = part /\ FinalizeMatches(l)
      <3>1. PICK q \in heads[part].pending :
               q.mutation = i.mutation /\ q.digest = i.digest /\ q.pub = l.pub
        BY <2>2 DEF FinalizeMatches
      <3>2. PICK m \in mutations : m.id = i.mutation /\ m.digest = i.digest
        BY <1>1, <3>1 DEF RowsInv, ReferencesResolve
      <3>3. PICK k \in issued : m = MutationRow(k.intent)
        BY DEF RowsInv, MutationsFromLeases
      <3>4. /\ k.intent.mutation = i.mutation /\ k.intent.digest = i.digest
            /\ m.token = k.intent.token /\ m.rev = k.intent.rev
        BY <3>2, <3>3 DEF MutationRow
      <3>5. Agree(k.intent, i) /\ (i.op = "replace" => i.rev # None)
        BY LeaseIntentsKnown DEF IntentsAgree
      <3>6. m.token = i.token /\ (i.op = "replace" => m.rev # None)
        BY <3>4, <3>5 DEF Agree
      <3>7. /\ hs[p].active = {i.mutation} /\ hs[p].token = i.token
            /\ hs[p].status = IF i.op = "replace" THEN "revision" ELSE "deleted"
        BY <2>2, <1>2 DEF FinalizedHead, Some
      <3> HIDE DEF hs, i
      <3> QED
        BY <3>2, <3>6, <3>7 DEF None
    <2> QED
      BY <2>1, <2>2
  <1>12. Retirable(hs, rs, part)
    <2> HIDE DEF hs, rs, part
    <2> QED
      BY <1>2, <1>7, <1>8, <1>9, <1>10, <1>11 DEF Retirable
  <1> HIDE DEF hs, rs, part
  <1> QED
    BY <1>1, <1>3, <1>12, RetiredRows

LEMMA SupersedeTables ==
  ASSUME RowsInv, FenceInv, NEW l \in issued, SupersedeBatch(l)
  PROVE  RowsInv'
  <1> DEFINE part == l.intent.part
             retired == {p \in heads[part].pending : p.pub = l.pub /\ p.gen = l.gen}
             head == [heads[part] EXCEPT !.pending = @ \ retired]
             hs == [heads EXCEPT ![part].pending = @ \ retired]
             wasPending == \E j \in journal : j.pub = l.pub /\ j.part = part
                                              /\ j.status = "pending"
             marked == MarkPublication(journal, l, "superseded")
             rs == IF wasPending THEN marked ELSE journal
  <1>1. /\ part \in Partition /\ heads = [p \in Partition |-> heads[p]]
        /\ HeadShape(heads[part])
    BY DEF FenceInv, LeaseShape
  <1>2. /\ hs = [p \in Partition |-> hs[p]]
        /\ \A p \in Partition : hs[p] = IF p = part THEN head ELSE heads[p]
    BY <1>1
  <1>3. RetireHistory(hs, rs, part)
    BY DEF SupersedeBatch
  <1>4. /\ head.pending = heads[part].pending \ retired
        /\ head.active = heads[part].active /\ head.token = heads[part].token
        /\ head.status = heads[part].status
    BY <1>1 DEF HeadShape
  <1>5. /\ IsFiniteSet(marked)
        /\ \A j, k \in marked : j.pub = k.pub => j = k
        /\ \A j \in marked : \E m \in issued : j = JournalOf(m, j.status)
        /\ \A j \in marked : j.status = "pending" => j \in journal
        /\ \A j \in journal : j.pub # l.pub => j \in marked
        /\ \A j \in marked : j.pub = l.pub => j.status # "pending"
        /\ \A j \in marked : j.part # part => j \in journal
    BY MarkedRows DEF RowsInv
  <1>6. \A j \in marked : \E m \in mutations : m.id = j.mutation
    <2>1. \A j \in marked : \E k \in journal : k.mutation = j.mutation
      <3>1. \A j \in journal : [j EXCEPT !.status = "superseded"].mutation = j.mutation
        BY DEF RowsInv, JournalFromLeases, JournalOf
      <3> QED
        BY <3>1 DEF MarkPublication
    <2> QED
      BY <2>1 DEF RowsInv, ReferencesResolve
  <1>7. \A j \in journal : j.part # part => j \in marked
    BY DEF MarkPublication
  <1>8. /\ IsFiniteSet(rs)
        /\ \A j, k \in rs : j.pub = k.pub => j = k
        /\ \A j \in rs : \E m \in issued : j = JournalOf(m, j.status)
        /\ \A j \in rs : \E m \in mutations : m.id = j.mutation
        /\ \A j : j.part # part => (j \in rs <=> j \in journal)
    BY <1>5, <1>6, <1>7 DEF RowsInv, JournalFromLeases, ReferencesResolve
  <1> DEFINE pendingRows(p, set) == {j \in set : j.part = p /\ j.status = "pending"}
             headRows(p, h) ==
               {[pub |-> r.pub, mutation |-> r.mutation, part |-> p, gen |-> r.gen,
                 slots |-> r.slots, status |-> "pending"] : r \in h.pending}
  <1>9. ASSUME NEW p \in Partition
        PROVE  pendingRows(p, rs) = headRows(p, hs[p])
    <2>1. pendingRows(p, journal) = headRows(p, heads[p])
      BY DEF RowsInv, JournalMatchesHead
    <2>2. CASE p # part
      <3>1. pendingRows(p, rs) = pendingRows(p, journal)
        <4> HIDE DEF rs
        <4> QED
          BY <2>2, <1>8
      <3>2. hs[p] = heads[p]
        BY <2>2, <1>2
      <3> QED
        BY <3>1, <3>2, <2>1
    <2>3. CASE p = part /\ \E q \in heads[part].pending : q.pub = l.pub
      <3>1. PICK q \in heads[part].pending : q.pub = l.pub
        BY <2>3
      <3>2. heads[part].pending = {q} /\ q = PendingOf(l)
        BY <3>1, MatchedLease
      <3>3. retired = {q}
        BY <3>2 DEF PendingOf
      <3>4. headRows(p, hs[p]) = {}
        BY <2>3, <3>2, <3>3, <1>2, <1>4
      <3>5. pendingRows(p, journal) =
              {[pub |-> q.pub, mutation |-> q.mutation, part |-> p, gen |-> q.gen,
                slots |-> q.slots, status |-> "pending"]}
        BY <2>1, <2>3, <3>2
      <3>6. rs = marked
        BY <2>3, <3>1, <3>5
      <3>7. \A j \in pendingRows(p, journal) : j.pub = l.pub
        BY <3>1, <3>5
      <3>8. pendingRows(p, marked) = {}
        <4> HIDE DEF marked
        <4> QED
          BY <3>7, <1>5
      <3> QED
        BY <3>4, <3>6, <3>8
    <2>4. CASE p = part /\ \A q \in heads[part].pending : q.pub # l.pub
      <3>0. retired = {}
        BY <2>4
      <3>1. hs[p].pending = heads[p].pending
        <4> HIDE DEF retired, head, hs
        <4> QED
          BY <2>4, <3>0, <1>2, <1>4
      <3>2. \A j \in pendingRows(p, journal) : j.pub # l.pub
        BY <2>1, <2>4
      <3>3. rs = journal
        BY <2>4, <3>2
      <3> QED
        BY <3>1, <3>3, <2>1
    <2> QED
      BY <2>2, <2>3, <2>4
  <1>10. \A p \in Partition \ {part} :
           {j \in rs : j.part = p /\ j.status # "pending"} =
             {j \in journal : j.part = p /\ j.status # "pending"}
    <2> HIDE DEF rs
    <2> QED
      BY <1>8
  <1>11. \A p \in Partition :
           /\ hs[p].active = heads[p].active /\ hs[p].token = heads[p].token
           /\ hs[p].status = heads[p].status /\ hs[p].pending \subseteq heads[p].pending
    BY <1>2, <1>4
  <1>12. Retirable(hs, rs, part)
    <2>1. \A p \in Partition :
            /\ \A x, y \in hs[p].active : x = y
            /\ \A id \in hs[p].active : \E m \in mutations :
                 /\ m.id = id /\ m.token = hs[p].token
                 /\ hs[p].status = "revision" => m.rev # None
            /\ hs[p].status = "revision" => hs[p].active # None
      <3> HIDE DEF hs
      <3> QED
        BY <1>11 DEF RowsInv, ActiveIsStored
    <2> HIDE DEF hs, rs, part
    <2> QED
      BY <1>2, <1>8, <1>9, <1>10, <1>11, <2>1 DEF Retirable
  <1> HIDE DEF hs, rs, part
  <1> QED
    BY <1>1, <1>3, <1>12, RetiredRows
-----------------------------------------------------------------------------
(* The steps of a call.                                                    *)

LEMMA UnchangedRows ==
  ASSUME RowsInv, UNCHANGED tables
  PROVE  RowsInv'
  BY DEF tables, RowsInv, LeasesDistinct, PendingFromLeases, JournalFromLeases,
         MutationsFromLeases, ActiveIsStored, ReferencesResolve, JournalMatchesHead,
         HistoryBounded

\* A pending lease that an intent resumes was granted to that very intent.
LEMMA ResumedIsIssued ==
  ASSUME RowsInv, FenceInv, NEW i, i.part \in Partition, SamePendingIntent(heads[i.part], i),
         \A l \in issued : Agree(l.intent, i)
  PROVE  ResumedLeases(heads[i.part], i) \subseteq issued
  <1> SUFFICES ASSUME NEW p \in heads[i.part].pending
               PROVE  LeaseOf(i, p.pub, p.gen, p.slots) \in issued
    BY DEF ResumedLeases
  <1>1. p.mutation = i.mutation /\ p.digest = i.digest
    BY DEF SamePendingIntent, FenceInv, HeadShape
  <1>2. PICK l \in issued : l.intent.part = i.part /\ p = PendingOf(l)
    BY DEF RowsInv, PendingFromLeases
  <1>3. l.intent = i
    BY <1>1, <1>2 DEF Agree, PendingOf
  <1>4. LeaseOf(i, p.pub, p.gen, p.slots) = l
    BY <1>2, <1>3 DEF PendingOf, LeaseOf, FenceInv, LeaseShape
  <1> QED
    BY <1>4

LEMMA BeginReadTables ==
  ASSUME TablesInv, CoordinatorInv, NEW c \in Client, NEW i, i.part \in Partition,
         i.op = "replace" => i.rev # None,
         \A j \in KnownIntents : Agree(i, j) /\ Agree(j, i),
         BeginRead(c, i)
  PROVE  TablesInv'
  <1>1. RowsInv'
    BY UnchangedRows DEF TablesInv, BeginRead
  <1>2. KnownIntents' \subseteq KnownIntents \cup {i}
    BY DEF KnownIntents, BeginRead, tables, CoordinatorInv, CallInv, Some
  <1>3. IntentsAgree'
    BY <1>2 DEF TablesInv, IntentsAgree, Agree
  <1>4. LeasesInHand'
    <2>1. PICK leases : /\ call' = [call EXCEPT ![c] = [at |-> call'[c].at, intent |-> Some(i),
                                                       lease |-> leases]]
                        /\ \/ leases = {}
                           \/ /\ leases = ResumedLeases(heads[i.part], i)
                              /\ SamePendingIntent(heads[i.part], i)
      BY DEF BeginRead, None, CoordinatorInv, CallInv
    <2>2. leases \subseteq issued
      BY <2>1, ResumedIsIssued, LeaseIntentsKnown DEF TablesInv, CoordinatorInv
    <2> QED
      BY <2>1, <2>2 DEF TablesInv, LeasesInHand, BeginRead, tables, CoordinatorInv, CallInv
  <1> QED
    BY <1>1, <1>3, <1>4 DEF TablesInv

\* A step that brings in no intent and only leases that were issued.
LEMMA CallTables ==
  ASSUME TablesInv, CallInv, NEW c \in Client, NEW at, NEW intents, NEW leases,
         call' = [call EXCEPT ![c] = [at |-> at, intent |-> intents, lease |-> leases]],
         intents \subseteq KnownIntents, leases \subseteq issued', issued \subseteq issued',
         \A l \in issued' : l \in issued \/ l.intent \in KnownIntents
  PROVE  IntentsAgree' /\ LeasesInHand'
  <1>1. \A d \in Client : call'[d] = IF d = c THEN [at |-> at, intent |-> intents, lease |-> leases]
                                     ELSE call[d]
    BY DEF CallInv
  <1>2. KnownIntents' \subseteq KnownIntents
    <2>1. \A d \in Client : call'[d].intent \subseteq KnownIntents
      BY <1>1 DEF KnownIntents
    <2>2. \A l \in issued' : l.intent \in KnownIntents
      BY LeaseIntentsKnown
    <2> QED
      BY <2>1, <2>2 DEF KnownIntents
  <1>3. IntentsAgree'
    BY <1>2 DEF TablesInv, IntentsAgree, None, Agree
  <1>4. LeasesInHand'
    BY <1>1 DEF TablesInv, LeasesInHand
  <1> QED
    BY <1>3, <1>4

LEMMA OwnIntentsKnown == \A c \in Client : call[c].intent \subseteq KnownIntents
  BY DEF KnownIntents

LEMMA FinalizeStepTables ==
  ASSUME TablesInv, CoordinatorInv, NEW c \in Client, NEW l \in issued, Finalize(c, l)
  PROVE  TablesInv'
  <1>1. RowsInv'
    BY FinalizeTables DEF TablesInv, CoordinatorInv, Finalize
  <1>2. issued' = issued
    BY DEF Finalize, FinalizeBatch, RetireHistory
  <1>3. PICK at : call' = [call EXCEPT ![c] = [at |-> at, intent |-> Some(l.intent),
                                               lease |-> Some(l)]]
    BY DEF Finalize
  <1>4. Some(l.intent) \subseteq KnownIntents /\ Some(l) \subseteq issued'
    BY <1>2, LeaseIntentsKnown DEF Some
  <1>5. IntentsAgree' /\ LeasesInHand'
    BY <1>2, <1>3, <1>4, CallTables DEF CoordinatorInv
  <1> QED
    BY <1>1, <1>5 DEF TablesInv

LEMMA SupersedeStepTables ==
  ASSUME TablesInv, CoordinatorInv, NEW c \in Client, NEW l \in issued, Supersede(c, l)
  PROVE  TablesInv'
  <1>1. RowsInv'
    BY SupersedeTables DEF TablesInv, CoordinatorInv, Supersede
  <1>2. issued' = issued
    BY DEF Supersede, SupersedeBatch, RetireHistory
  <1>3. call' = [call EXCEPT ![c] = [at |-> "Retired", intent |-> Some(l.intent),
                                     lease |-> Some(l)]]
    BY DEF Supersede
  <1>4. Some(l.intent) \subseteq KnownIntents /\ Some(l) \subseteq issued'
    BY <1>2, LeaseIntentsKnown DEF Some
  <1>5. IntentsAgree' /\ LeasesInHand'
    BY <1>2, <1>3, <1>4, CallTables DEF CoordinatorInv
  <1> QED
    BY <1>1, <1>5 DEF TablesInv

\* A client that leaves its call forgets it.
LEMMA LeaveTables ==
  ASSUME TablesInv, CoordinatorInv, NEW c \in Client, call' = [call EXCEPT ![c] = Idle],
         UNCHANGED tables
  PROVE  TablesInv'
  <1>1. RowsInv'
    BY UnchangedRows DEF TablesInv
  <1>2. issued' = issued
    BY DEF tables
  <1>3. IntentsAgree' /\ LeasesInHand'
    BY <1>2, CallTables, LeaseIntentsKnown DEF CoordinatorInv, Idle, None
  <1> QED
    BY <1>1, <1>3 DEF TablesInv

\* The separate UPDATE of older publications never finds one to supersede.
LEMMA NothingOlder ==
  ASSUME TablesInv, CoordinatorInv, NEW c \in Client, SupersedeOlder(c)
  PROVE  journal' = journal
  <1>1. PICK l \in call[c].lease :
          journal' = {IF /\ j.part = l.intent.part
                         /\ j.gen < l.gen
                         /\ j.status = "pending"
                        THEN [j EXCEPT !.status = "superseded"] ELSE j : j \in journal}
    BY DEF SupersedeOlder
  <1>2. l \in issued
    BY DEF TablesInv, LeasesInHand
  <1>3. ASSUME NEW j \in journal, j.part = l.intent.part, j.gen < l.gen, j.status = "pending"
        PROVE  FALSE
    <2>1. l.intent.part \in Partition /\ l.gen <= heads[l.intent.part].gen /\ l.gen \in Nat
      BY <1>2 DEF CoordinatorInv, FenceInv, LeaseShape, LeasesFenced
    <2>2. PICK q \in heads[l.intent.part].pending :
            j = [pub |-> q.pub, mutation |-> q.mutation, part |-> l.intent.part, gen |-> q.gen,
                 slots |-> q.slots, status |-> "pending"]
      BY <1>3, <2>1 DEF TablesInv, RowsInv, JournalMatchesHead
    <2>3. j.gen = heads[l.intent.part].gen /\ heads[l.intent.part].gen \in Nat
      BY <2>1, <2>2 DEF CoordinatorInv, FenceInv, LeasesFenced, HeadShape
    <2> QED
      BY <1>3, <2>1, <2>3
  <1> QED
    BY <1>1, <1>3

LEMMA CoordinatorStepTables ==
  ASSUME TablesInv, CoordinatorInv, NEW c \in Client, CoordinatorStep(c)
  PROVE  TablesInv'
  <1>1. CallInv /\ call[c].intent \subseteq KnownIntents /\ call[c].lease \subseteq issued
    BY OwnIntentsKnown DEF TablesInv, LeasesInHand, CoordinatorInv
  <1>2. ASSUME NEW at, NEW leases \in SUBSET issued, Granted(c, leases, at), UNCHANGED tables
        PROVE  TablesInv'
    <2>1. RowsInv' /\ issued' = issued
      BY <1>2, UnchangedRows DEF TablesInv, tables
    <2>2. IntentsAgree' /\ LeasesInHand'
      BY <1>1, <1>2, <2>1, CallTables DEF Granted
    <2> QED
      BY <2>1, <2>2 DEF TablesInv
  <1>3. ASSUME NEW at, Moved(c, at), UNCHANGED tables
        PROVE  TablesInv'
    BY <1>1, <1>2, <1>3 DEF Moved
  <1>4. CASE ReadOutcome(c)
    BY <1>3, <1>4 DEF ReadOutcome
  <1>5. CASE Begin(c)
    <2>1. PICK i \in call[c].intent, pub \in PublicationId :
             /\ Allocates(i) => \A l \in issued : l.pub # pub
             /\ BeginBatch(i, pub)
             /\ IF BeginAccepts(i)
                  THEN Granted(c, {LeaseOf(i, p.pub, p.gen, p.slots) :
                                     p \in BegunPending(i, pub)}, "trim")
                  ELSE Moved(c, "digest")
      BY <1>5 DEF Begin
    <2> DEFINE granted == {LeaseOf(i, p.pub, p.gen, p.slots) : p \in BegunPending(i, pub)}
    <2>2. i \in KnownIntents /\ i.part \in Partition /\ i.slots \in Nat
      BY <1>1 DEF CallInv
    <2>3. /\ RowsInv' /\ issued \subseteq issued'
          /\ \A l \in issued' : l \in issued \/ l.intent \in KnownIntents
          /\ BeginAccepts(i) => granted \subseteq issued'
      <3>1. CASE Allocates(i)
        <4> DEFINE lease == LeaseOf(i, pub, heads[i.part].gen + 1, i.slots)
        <4>1. /\ RowsInv' /\ issued' = issued \cup {lease}
              /\ BegunPending(i, pub) = {PendingOf(lease)}
          BY <2>1, <2>2, <3>1, AllocateTables DEF TablesInv, CoordinatorInv
        <4>2. granted = {lease} /\ lease.intent = i
          BY <4>1 DEF PendingOf, LeaseOf
        <4> HIDE DEF lease, granted
        <4> QED
          BY <4>1, <4>2, <2>2
      <3>2. CASE ~ Allocates(i)
        <4>1. /\ heads' = heads /\ journal' = journal /\ issued' = issued
              /\ mutations' \subseteq mutations
              /\ \A m \in mutations : Referenced(m.id, heads, journal) => m \in mutations'
              /\ BeginAccepts(i) => granted \subseteq issued
          BY <2>1, <2>2, <3>2, BeginBatchCases DEF TablesInv, CoordinatorInv
        <4>2. RowsInv'
          BY <4>1, NothingGranted DEF TablesInv
        <4> QED
          BY <4>1, <4>2
      <3> QED
        BY <3>1, <3>2
    <2> HIDE DEF granted
    <2>4. PICK leases \in SUBSET issued' : \E at : Granted(c, leases, at)
      <3>1. CASE BeginAccepts(i)
        BY <2>1, <2>3, <3>1 DEF granted
      <3>2. CASE ~ BeginAccepts(i)
        BY <2>1, <2>3, <1>1, <3>2 DEF Moved
      <3> QED
        BY <3>1, <3>2
    <2>5. IntentsAgree' /\ LeasesInHand'
      BY <1>1, <2>3, <2>4, CallTables DEF Granted
    <2> QED
      BY <2>3, <2>5 DEF TablesInv
  <1>6. CASE SupersedeOlder(c)
    BY <1>6, <1>3, NothingOlder DEF SupersedeOlder, tables
  <1>7. CASE ReadDigest(c)
    BY <1>3, <1>7 DEF ReadDigest
  <1>8. CASE ReadAfter(c)
    <2>1. PICK i \in call[c].intent :
             \/ /\ Granted(c, ResumedLeases(heads[i.part], i), "Publish")
                /\ SamePendingIntent(heads[i.part], i)
             \/ \E at : Moved(c, at)
      BY <1>8 DEF ReadAfter
    <2>2. UNCHANGED tables
      BY <1>8 DEF ReadAfter
    <2>3. i \in KnownIntents /\ i.part \in Partition
      BY <1>1 DEF CallInv
    <2>4. \A l \in issued : Agree(l.intent, i)
      BY <2>3, LeaseIntentsKnown DEF TablesInv, IntentsAgree
    <2>5. SamePendingIntent(heads[i.part], i) => ResumedLeases(heads[i.part], i) \subseteq issued
      BY <2>3, <2>4, ResumedIsIssued DEF TablesInv, CoordinatorInv
    <2> QED
      BY <1>2, <1>3, <2>1, <2>2, <2>5
  <1>9. CASE ConfirmFinalized(c)
    BY <1>3, <1>9 DEF ConfirmFinalized
  <1> QED
    BY <1>4, <1>5, <1>6, <1>7, <1>8, <1>9 DEF CoordinatorStep
-----------------------------------------------------------------------------
(* What the steps of a call do, for those who build on the coordinator.     *)

\* Only an allocation changes a head or issues a lease.
LEMMA CoordinatorStepCases ==
  ASSUME TablesInv, CoordinatorInv, NEW c \in Client, CoordinatorStep(c)
  PROVE  \/ heads' = heads /\ issued' = issued /\ mutations' \subseteq mutations
         \/ \E i \in call[c].intent, pub \in PublicationId :
              Allocates(i) /\ BeginBatch(i, pub) /\ \A l \in issued : l.pub # pub
  <1>1. CASE Begin(c)
    <2>1. PICK i \in call[c].intent, pub \in PublicationId :
             (Allocates(i) => \A l \in issued : l.pub # pub) /\ BeginBatch(i, pub)
      BY <1>1 DEF Begin
    <2>2. i \in KnownIntents /\ i.part \in Partition /\ i.slots \in Nat
      BY OwnIntentsKnown DEF CoordinatorInv, CallInv
    <2>3. CASE ~ Allocates(i)
      BY <2>1, <2>2, <2>3, BeginBatchCases DEF TablesInv, CoordinatorInv
    <2> QED
      BY <2>1, <2>3
  <1> QED
    BY <1>1 DEF CoordinatorStep, ReadOutcome, SupersedeOlder, ReadDigest, ReadAfter,
                ConfirmFinalized, tables

\* A step of a call is about the intent of that call and at most one lease.
LEMMA CoordinatorStepCalls ==
  ASSUME TablesInv, CoordinatorInv, NEW c \in Client, CoordinatorStep(c),
         \A x, y \in call[c].lease : x = y
  PROVE  /\ \A d \in Client \ {c} : call'[d] = call[d]
         /\ call'[c].intent = call[c].intent
         /\ \A x, y \in call'[c].lease : x = y
  <1>1. CallInv
    BY DEF CoordinatorInv
  <1>2. ASSUME NEW leases, NEW at, Granted(c, leases, at), \A x, y \in leases : x = y
        PROVE  /\ \A d \in Client \ {c} : call'[d] = call[d]
               /\ call'[c].intent = call[c].intent
               /\ \A x, y \in call'[c].lease : x = y
    BY <1>1, <1>2 DEF Granted, CallInv
  <1>3. \A i \in call[c].intent : \A x, y \in ResumedLeases(heads[i.part], i) : x = y
    BY DEF ResumedLeases, CoordinatorInv, CallInv, FenceInv, HeadShape
  <1>4. \A i \in call[c].intent, pub \in PublicationId :
          \A x, y \in {LeaseOf(i, p.pub, p.gen, p.slots) : p \in BegunPending(i, pub)} : x = y
    <2> SUFFICES ASSUME NEW i \in call[c].intent, NEW pub \in PublicationId
                 PROVE  \A p, q \in BegunPending(i, pub) : p = q
      OBVIOUS
    <2>1. \A p, q \in heads[i.part].pending : p = q
      BY DEF CoordinatorInv, CallInv, FenceInv, HeadShape
    <2> QED
      BY <2>1 DEF BegunPending, Some
  <1>5. CASE Begin(c)
    BY <1>2, <1>4, <1>5 DEF Begin, Moved
  <1>6. CASE ReadAfter(c)
    <2>1. PICK i \in call[c].intent :
             \/ Granted(c, ResumedLeases(heads[i.part], i), "Publish")
             \/ \E at : Moved(c, at)
      BY <1>6 DEF ReadAfter
    <2> QED
      BY <1>2, <1>3, <2>1 DEF Moved
  <1>7. CASE ~ Begin(c) /\ ~ ReadAfter(c)
    <2>1. \E at : Moved(c, at)
      BY <1>7 DEF CoordinatorStep, ReadOutcome, SupersedeOlder, ReadDigest, ConfirmFinalized
    <2> QED
      BY <1>2, <2>1 DEF Moved
  <1> QED
    BY <1>5, <1>6, <1>7
=============================================================================

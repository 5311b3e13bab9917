----------------------- MODULE CoordinatorClients_proofs -----------------------
(***************************************************************************)
(* What holds of the coordinator for any clients, intents, index           *)
(* generations and publication ids: the generation fence, the rows and     *)
(* types of its tables, one compare-and-set of the active revision, and    *)
(* the register of leases that all of it implements.                       *)
(***************************************************************************)
EXTENDS CoordinatorClients, PublicationCoordinator_proofs

LEMMA NextInv == CoordinatorInv /\ [Next]_coordinatorVars => CoordinatorInv'
  <1> SUFFICES ASSUME CoordinatorInv, [Next]_coordinatorVars
               PROVE  CoordinatorInv'
    OBVIOUS
  <1>1. ASSUME NEW c \in Client, Ask(c)
        PROVE  CoordinatorInv'
    <2>1. PICK i \in Intents : BeginRead(c, i)
      BY <1>1 DEF Ask
    <2>2. i.part \in Partition /\ i.slots \in Nat
      BY IntentsAssumption
    <2> QED
      BY <2>1, <2>2, BeginReadInv
  <1>2. ASSUME NEW c \in Client, Conclude(c)
        PROVE  CoordinatorInv'
    <2>1. PICK l \in issued : Finalize(c, l)
      BY <1>2 DEF Conclude
    <2>2. LeaseShape(l)
      BY DEF CoordinatorInv, FenceInv
    <2> QED
      BY <2>1, <2>2, FinalizeInv DEF LeaseShape
  <1>3. ASSUME NEW c \in Client, Retire(c)
        PROVE  CoordinatorInv'
    <2>1. PICK l \in issued : Supersede(c, l)
      BY <1>3 DEF Retire
    <2>2. LeaseShape(l)
      BY DEF CoordinatorInv, FenceInv
    <2> QED
      BY <2>1, <2>2, SupersedeInv DEF LeaseShape
  <1>4. ASSUME NEW c \in Client, Leave(c)
        PROVE  CoordinatorInv'
    <2>1. FenceInv'
      BY <1>4, UnchangedFenced DEF Leave, tables, CoordinatorInv
    <2>2. CallInv'
      BY <1>4 DEF Leave, CoordinatorInv, CallInv, Idle, None
    <2> QED
      BY <2>1, <2>2 DEF CoordinatorInv
  <1>5. ASSUME NEW c \in Client, CoordinatorStep(c)
        PROVE  CoordinatorInv'
    BY <1>5, CoordinatorStepInv
  <1>6. CASE UNCHANGED coordinatorVars
    <2>1. FenceInv'
      BY <1>6, UnchangedFenced DEF coordinatorVars, CoordinatorInv
    <2>2. CallInv'
      BY <1>6 DEF coordinatorVars, CoordinatorInv, CallInv
    <2> QED
      BY <2>1, <2>2 DEF CoordinatorInv
  <1> QED
    BY <1>1, <1>2, <1>3, <1>4, <1>5, <1>6 DEF Next

\* For any number of clients, intents, index generations and publications,
\* every generation belongs to one publication and a newer one never covers
\* fewer slots: what lets the provider decide by generation alone.
THEOREM LeasesAreFenced == Spec => []LeasesFenced
  <1>1. Init => CoordinatorInv
    BY InitInv DEF Init
  <1>2. CoordinatorInv /\ [Next]_coordinatorVars => CoordinatorInv'
    BY NextInv
  <1>3. CoordinatorInv => LeasesFenced
    BY DEF CoordinatorInv, FenceInv
  <1> QED
    BY <1>1, <1>2, <1>3, PTL DEF Spec
-----------------------------------------------------------------------------
(* No lost update.                                                         *)

LEMMA FinalizeReplaces ==
  ASSUME CoordinatorInv, NEW l \in issued, FinalizeBatch(l), NEW p \in Partition
  PROVE  ReplacedAsPlanned(p)
  <1> DEFINE part == l.intent.part
             head == IF FinalizeMatches(l) THEN FinalizedHead(l) ELSE heads[part]
  <1>1. heads' = [heads EXCEPT ![part] = head]
    BY DEF FinalizeBatch, RetireHistory
  <1>2. heads'[p] = IF p = part THEN head ELSE heads[p]
    BY <1>1 DEF CoordinatorInv, FenceInv
  <1>3. CASE p = part /\ FinalizeMatches(l)
    <2>1. heads'[p].active = Some(l.intent.mutation) /\ heads'[p].token = l.intent.token
      BY <1>2, <1>3 DEF FinalizedHead
    <2>2. l.intent.expected = heads[p].token
      BY <1>3 DEF CoordinatorInv, FenceInv, LeasesCurrent
    <2> QED
      BY <1>3, <2>1, <2>2 DEF ReplacedAsPlanned
  <1>4. CASE p # part \/ ~FinalizeMatches(l)
    BY <1>2, <1>4 DEF ReplacedAsPlanned
  <1> QED
    BY <1>3, <1>4

LEMMA SupersedeKeeps ==
  ASSUME CoordinatorInv, NEW l, SupersedeBatch(l), NEW p \in Partition
  PROVE  ReplacedAsPlanned(p)
  <1>1. PICK retired : heads' = [heads EXCEPT ![l.intent.part].pending = @ \ retired]
    BY DEF SupersedeBatch, RetireHistory
  <1>2. HeadShape(heads[p])
    BY DEF CoordinatorInv, FenceInv
  <1>3. heads'[p].active = heads[p].active /\ heads'[p].token = heads[p].token
    BY <1>1, <1>2 DEF CoordinatorInv, FenceInv, HeadShape
  <1> QED
    BY <1>3 DEF ReplacedAsPlanned

LEMMA BeginKeeps ==
  ASSUME CoordinatorInv, NEW i, NEW pub, BeginBatch(i, pub), NEW p \in Partition
  PROVE  ReplacedAsPlanned(p)
  <1> DEFINE head == IF BeginAccepts(i) THEN BegunHead(i, pub) ELSE heads[i.part]
  <1>1. heads' = [heads EXCEPT ![i.part] = head]
    BY DEF BeginBatch
  <1>2. heads'[p] = IF p = i.part THEN head ELSE heads[p]
    BY <1>1 DEF CoordinatorInv, FenceInv
  <1>3. head.active = heads[i.part].active /\ head.token = heads[i.part].token
    BY DEF BegunHead
  <1> QED
    BY <1>2, <1>3 DEF ReplacedAsPlanned

LEMMA NextReplaces ==
  ASSUME CoordinatorInv, [Next]_coordinatorVars, NEW p \in Partition
  PROVE  ReplacedAsPlanned(p)
  <1>1. ASSUME NEW c \in Client, Ask(c) \/ Leave(c)
        PROVE  ReplacedAsPlanned(p)
    BY <1>1 DEF Ask, BeginRead, Leave, tables, ReplacedAsPlanned
  <1>2. ASSUME NEW c \in Client, Conclude(c)
        PROVE  ReplacedAsPlanned(p)
    BY <1>2, FinalizeReplaces DEF Conclude, Finalize
  <1>3. ASSUME NEW c \in Client, Retire(c)
        PROVE  ReplacedAsPlanned(p)
    BY <1>3, SupersedeKeeps DEF Retire, Supersede
  <1>4. ASSUME NEW c \in Client, Begin(c)
        PROVE  ReplacedAsPlanned(p)
    BY <1>4, BeginKeeps DEF Begin
  <1>5. ASSUME NEW c \in Client, CoordinatorStep(c), ~Begin(c)
        PROVE  ReplacedAsPlanned(p)
    BY <1>5 DEF CoordinatorStep, ReadOutcome, SupersedeOlder, ReadDigest, ReadAfter,
                ConfirmFinalized, tables, ReplacedAsPlanned
  <1>6. CASE UNCHANGED coordinatorVars
    BY <1>6 DEF coordinatorVars, ReplacedAsPlanned
  <1> QED
    BY <1>1, <1>2, <1>3, <1>4, <1>5, <1>6 DEF Next

\* Whatever happens between beginPublication's comparison of the token and the
\* batch of finalizePublication, an active revision is replaced only by the
\* lease of a plan made against it: the two calls are one compare-and-set.
THEOREM NoUpdateIsLost == Spec => NoLostUpdate
  <1>1. Init => CoordinatorInv
    BY InitInv DEF Init
  <1>2. CoordinatorInv /\ [Next]_coordinatorVars => CoordinatorInv'
    BY NextInv
  <1>3. CoordinatorInv /\ [Next]_coordinatorVars => \A p \in Partition : ReplacedAsPlanned(p)
    BY NextReplaces
  <1> QED
    BY <1>1, <1>2, <1>3, PTL DEF Spec, NoLostUpdate
-----------------------------------------------------------------------------
(* Type correctness, with the row constraints of the head table's schema.  *)

HeadOK(h) ==
  /\ h \in Heads
  /\ AtMostOne(h.active)
  /\ AtMostOne(h.token)
  /\ AtMostOne(h.pending)
  /\ (h.active = None) <=> (h.status = "never")
  /\ (h.token # None) <=> (h.status = "revision")

LEMMA TypeOKByHead ==
  TypeOK <=> /\ heads \in [Partition -> Heads]
             /\ \A p \in Partition : HeadOK(heads[p])
             /\ mutations \subseteq MutationRows
             /\ journal \subseteq JournalRows
             /\ issued \subseteq Leases
             /\ call \in [Client -> Calls]
  BY DEF TypeOK, HeadOK

LEMMA IntentTypes ==
  ASSUME NEW i \in Intents
  PROVE  /\ i.part \in Partition /\ i.op \in Operations
         /\ i.mutation \in MutationIds /\ i.digest \in Digests
         /\ i.token \subseteq Tokens /\ i.rev \subseteq Revisions
         /\ i.required \in Nat /\ i.slots \in Nat
         /\ AtMostOne(i.token)
         /\ i.token = None <=> i.op = "delete"
  BY IntentsAssumption DEF Operations, MutationIds, Digests, Tokens, Revisions, None

LEMMA InitTypes == Init => TypeOK
  BY DEF Init, CoordinatorInit, TypeOK, Heads, FreshHead, None, AtMostOne, Calls, Idle, Results

\* Replacing one head by a typed head.
LEMMA OneHead ==
  ASSUME TypeOK, NEW part \in Partition, NEW head, HeadOK(head),
         heads' = [heads EXCEPT ![part] = head]
  PROVE  heads' \in [Partition -> Heads] /\ \A p \in Partition : HeadOK(heads'[p])
  BY TypeOKByHead DEF HeadOK

LEMMA BeginTypes ==
  ASSUME TypeOK, NEW i \in Intents, NEW pub \in PublicationId, BeginBatch(i, pub)
  PROVE  /\ heads' \in [Partition -> Heads] /\ \A p \in Partition : HeadOK(heads'[p])
         /\ mutations' \subseteq MutationRows
         /\ journal' \subseteq JournalRows
         /\ issued' \subseteq Leases
         /\ {LeaseOf(i, p.pub, p.gen, p.slots) : p \in BegunPending(i, pub)} \subseteq Leases
  <1> DEFINE old == heads[i.part]
             head == IF BeginAccepts(i) THEN BegunHead(i, pub) ELSE old
  <1>1. HeadOK(old)
    BY TypeOKByHead, IntentTypes
  <1>2. BegunPending(i, pub) \subseteq Pendings
    BY <1>1, IntentTypes DEF BegunPending, HeadOK, Heads, Pendings, Some, Operations
  <1>3. AtMostOne(BegunPending(i, pub))
    BY <1>1 DEF BegunPending, HeadOK, AtMostOne, Some
  <1>4. HeadOK(head)
    <2>1. CASE BeginAccepts(i)
      <3>1. BegunHead(i, pub) \in Heads
        BY <1>1, <1>2, IntentTypes DEF BegunHead, HeadOK, Heads
      <3> QED
        BY <1>1, <1>3, <2>1, <3>1 DEF BegunHead, HeadOK
    <2>2. CASE ~BeginAccepts(i)
      BY <1>1, <2>2
    <2> QED
      BY <2>1, <2>2
  <1>5. heads' = [heads EXCEPT ![i.part] = head]
    BY DEF BeginBatch
  <1>6. heads' \in [Partition -> Heads] /\ \A p \in Partition : HeadOK(heads'[p])
    <2> HIDE DEF head
    <2> QED
      BY <1>4, <1>5, OneHead, IntentTypes
  <1>7. Staged(i) \subseteq MutationRows
    BY IntentTypes, TypeOKByHead DEF Staged, MutationRow, MutationRows
  <1>8. mutations' \subseteq MutationRows
    BY <1>7 DEF BeginBatch
  <1>9. head.pending \subseteq Pendings
    BY <1>4 DEF HeadOK, Heads
  <1>10. \A p \in Pendings : PublicationRow(i, p) \in JournalRows
    BY IntentTypes DEF PublicationRow, JournalRows, Pendings
  <1>11. \A p \in Pendings : LeaseOf(i, p.pub, p.gen, p.slots) \in Leases
    BY DEF LeaseOf, Leases, Pendings
  <1>12. journal' \subseteq JournalRows
    BY <1>9, <1>10, TypeOKByHead DEF BeginBatch
  <1>13. issued' \subseteq Leases
    BY <1>9, <1>11, TypeOKByHead DEF BeginBatch
  <1> QED
    BY <1>2, <1>6, <1>8, <1>11, <1>12, <1>13

\* The rows and heads that retiring history leaves.
LEMMA MarkTypes ==
  ASSUME journal \subseteq JournalRows, NEW l,
         NEW status \in {"pending", "committed", "superseded"}
  PROVE  MarkPublication(journal, l, status) \subseteq JournalRows
  BY DEF MarkPublication, JournalRows

LEMMA RetireTypes ==
  ASSUME TypeOK, NEW hs, NEW rs, NEW part, RetireHistory(hs, rs, part),
         rs \subseteq JournalRows
  PROVE  /\ heads' = hs
         /\ mutations' \subseteq MutationRows
         /\ journal' \subseteq JournalRows
         /\ issued' \subseteq Leases
  BY DEF RetireHistory, TypeOK

LEMMA FinalizeTypes ==
  ASSUME TypeOK, NEW l \in Leases, FinalizeBatch(l)
  PROVE  /\ heads' \in [Partition -> Heads] /\ \A p \in Partition : HeadOK(heads'[p])
         /\ mutations' \subseteq MutationRows
         /\ journal' \subseteq JournalRows
         /\ issued' \subseteq Leases
  <1> DEFINE part == l.intent.part
             head == IF FinalizeMatches(l) THEN FinalizedHead(l) ELSE heads[part]
             rs == IF head.active = Some(l.intent.mutation) /\ head.pending = None
                     THEN MarkPublication(journal, l, "committed") ELSE journal
  <1>1. l.intent \in Intents /\ part \in Partition
    BY IntentTypes DEF Leases
  <1>2. HeadOK(head)
    <2>1. CASE FinalizeMatches(l)
      <3>1. HeadOK(heads[part])
        BY <1>1, TypeOKByHead
      <3>2. FinalizedHead(l) \in Heads
        BY <1>1, <3>1, IntentTypes DEF FinalizedHead, Heads, HeadOK, Some, None
      <3> QED
        BY <1>1, <2>1, <3>2, IntentTypes
        DEF FinalizedHead, HeadOK, AtMostOne, Some, None, Operations
    <2>2. CASE ~FinalizeMatches(l)
      BY <1>1, <2>2, TypeOKByHead
    <2> QED
      BY <2>1, <2>2
  <1>3. RetireHistory([heads EXCEPT ![part] = head], rs, part)
    BY DEF FinalizeBatch
  <1>4. rs \subseteq JournalRows
    BY MarkTypes DEF TypeOK
  <1> HIDE DEF head, rs
  <1> QED
    BY <1>1, <1>2, <1>3, <1>4, RetireTypes, OneHead

LEMMA SupersedeTypes ==
  ASSUME TypeOK, NEW l \in Leases, SupersedeBatch(l)
  PROVE  /\ heads' \in [Partition -> Heads] /\ \A p \in Partition : HeadOK(heads'[p])
         /\ mutations' \subseteq MutationRows
         /\ journal' \subseteq JournalRows
         /\ issued' \subseteq Leases
  <1> DEFINE part == l.intent.part
             retired == {p \in heads[part].pending : p.pub = l.pub /\ p.gen = l.gen}
             head == [heads[part] EXCEPT !.pending = @ \ retired]
             wasPending == \E j \in journal : j.pub = l.pub /\ j.part = part
                                              /\ j.status = "pending"
             rs == IF wasPending THEN MarkPublication(journal, l, "superseded") ELSE journal
  <1>1. part \in Partition
    BY IntentTypes DEF Leases
  <1>2. HeadOK(heads[part])
    BY <1>1, TypeOKByHead
  <1>3. HeadOK(head)
    BY <1>2 DEF HeadOK, Heads, AtMostOne
  <1>4. [heads EXCEPT ![part].pending = @ \ retired] = [heads EXCEPT ![part] = head]
    BY <1>1, TypeOKByHead
  <1>5. RetireHistory([heads EXCEPT ![part] = head], rs, part)
    BY <1>4 DEF SupersedeBatch
  <1>6. rs \subseteq JournalRows
    BY MarkTypes DEF TypeOK
  <1> HIDE DEF head, rs
  <1> QED
    BY <1>1, <1>3, <1>5, <1>6, RetireTypes, OneHead
-----------------------------------------------------------------------------
(* The calls.                                                              *)

LEMMA GrantedTypes ==
  ASSUME call \in [Client -> Calls], NEW c \in Client, NEW leases, NEW at,
         Granted(c, leases, at), leases \subseteq Leases,
         at \in Results \cup {"idle", "outcome", "batch", "trim", "digest", "after", "confirm"}
  PROVE  call' \in [Client -> Calls]
  BY DEF Granted, Calls

LEMMA ResumedTypes ==
  ASSUME TypeOK, NEW i \in Intents
  PROVE  ResumedLeases(heads[i.part], i) \subseteq Leases
  <1>1. heads[i.part].pending \subseteq Pendings
    BY IntentTypes DEF TypeOK, Heads
  <1> QED
    BY <1>1 DEF ResumedLeases, LeaseOf, Leases, Pendings

LEMMA AskTypes ==
  ASSUME TypeOK, NEW c \in Client, NEW i \in Intents, BeginRead(c, i)
  PROVE  TypeOK'
  <1>1. call' \in [Client -> Calls]
    <2>1. ResumedLeases(heads[i.part], i) \subseteq Leases
      BY ResumedTypes
    <2>2. PICK at \in {"Invalid", "Capacity", "outcome", "Committed", "Publish", "Stale", "batch"},
               leases \in {None, ResumedLeases(heads[i.part], i)} :
             call' = [call EXCEPT ![c] = [at |-> at, intent |-> Some(i), lease |-> leases]]
      BY DEF BeginRead
    <2> QED
      BY <2>1, <2>2 DEF TypeOK, Calls, Results, Some, None
  <1> QED
    BY <1>1 DEF BeginRead, tables, TypeOK

LEMMA CoordinatorStepTypes ==
  ASSUME TypeOK, NEW c \in Client, CoordinatorStep(c)
  PROVE  TypeOK'
  <1>1. /\ call \in [Client -> Calls]
        /\ call[c].lease \subseteq Leases /\ call[c].intent \subseteq Intents
    BY DEF TypeOK, Calls
  <1>2. ASSUME NEW at \in {"Committed", "Conflict", "Publish", "Reused", "after", "outcome",
                           "InProgress", "Stale", "Capacity", "Finalized", "Superseded"},
               Moved(c, at), UNCHANGED tables
        PROVE  TypeOK'
    <2>1. call' \in [Client -> Calls]
      BY <1>1, <1>2, GrantedTypes DEF Moved, Results
    <2> QED
      BY <1>2, <2>1 DEF tables, TypeOK
  <1>3. CASE ReadOutcome(c)
    BY <1>3, <1>2 DEF ReadOutcome
  <1>4. CASE Begin(c)
    <2>1. PICK i \in call[c].intent, pub \in PublicationId :
             /\ BeginBatch(i, pub)
             /\ \/ Granted(c, {LeaseOf(i, p.pub, p.gen, p.slots) : p \in BegunPending(i, pub)},
                           "trim")
                \/ Moved(c, "digest")
      BY <1>4 DEF Begin
    <2>2. i \in Intents
      BY <1>1
    <2>3. call' \in [Client -> Calls]
      <3>1. CASE Moved(c, "digest")
        BY <1>1, <3>1, GrantedTypes DEF Moved
      <3>2. CASE ~Moved(c, "digest")
        BY <1>1, <2>1, <2>2, <3>2, BeginTypes, GrantedTypes
      <3> QED
        BY <3>1, <3>2
    <2> QED
      BY <2>1, <2>2, <2>3, BeginTypes DEF TypeOK, HeadOK
  <1>5. CASE SupersedeOlder(c)
    <2>1. journal' \subseteq JournalRows
      BY <1>5 DEF SupersedeOlder, TypeOK, JournalRows
    <2>2. call' \in [Client -> Calls]
      BY <1>1, <1>5, GrantedTypes DEF SupersedeOlder, Moved, Results
    <2> QED
      BY <1>5, <2>1, <2>2 DEF SupersedeOlder, TypeOK
  <1>6. CASE ReadDigest(c)
    BY <1>6, <1>2 DEF ReadDigest
  <1>7. CASE ReadAfter(c)
    <2>1. PICK i \in call[c].intent :
             \/ Granted(c, ResumedLeases(heads[i.part], i), "Publish")
             \/ \E at \in {"outcome", "InProgress", "Stale", "Capacity", "Conflict"} : Moved(c, at)
      BY <1>7 DEF ReadAfter
    <2>2. UNCHANGED tables
      BY <1>7 DEF ReadAfter
    <2>3. CASE Granted(c, ResumedLeases(heads[i.part], i), "Publish")
      <3>1. call' \in [Client -> Calls]
        BY <1>1, <2>3, ResumedTypes, GrantedTypes DEF Results
      <3> QED
        BY <2>2, <3>1 DEF tables, TypeOK
    <2>4. CASE \E at \in {"outcome", "InProgress", "Stale", "Capacity", "Conflict"} : Moved(c, at)
      BY <2>2, <2>4, <1>2
    <2> QED
      BY <2>1, <2>3, <2>4
  <1>8. CASE ConfirmFinalized(c)
    BY <1>8, <1>2 DEF ConfirmFinalized
  <1> QED
    BY <1>3, <1>4, <1>5, <1>6, <1>7, <1>8 DEF CoordinatorStep

LEMMA NextTypes == TypeOK /\ [Next]_coordinatorVars => TypeOK'
  <1> SUFFICES ASSUME TypeOK, [Next]_coordinatorVars
               PROVE  TypeOK'
    OBVIOUS
  <1>1. ASSUME NEW c \in Client, Ask(c)
        PROVE  TypeOK'
    BY <1>1, AskTypes DEF Ask
  <1>2. ASSUME NEW c \in Client, Conclude(c)
        PROVE  TypeOK'
    <2>1. PICK l \in issued : Finalize(c, l)
      BY <1>2 DEF Conclude
    <2>2. l \in Leases /\ l.intent \in Intents
      BY DEF TypeOK, Leases
    <2>3. call' \in [Client -> Calls]
      BY <2>1, <2>2 DEF Finalize, TypeOK, Calls, Results, Some
    <2> QED
      BY <2>1, <2>2, <2>3, FinalizeTypes DEF Finalize, TypeOK, HeadOK
  <1>3. ASSUME NEW c \in Client, Retire(c)
        PROVE  TypeOK'
    <2>1. PICK l \in issued : Supersede(c, l)
      BY <1>3 DEF Retire
    <2>2. l \in Leases /\ l.intent \in Intents
      BY DEF TypeOK, Leases
    <2>3. call' \in [Client -> Calls]
      BY <2>1, <2>2 DEF Supersede, TypeOK, Calls, Results, Some
    <2> QED
      BY <2>1, <2>2, <2>3, SupersedeTypes DEF Supersede, TypeOK, HeadOK
  <1>4. ASSUME NEW c \in Client, Leave(c)
        PROVE  TypeOK'
    BY <1>4 DEF Leave, tables, TypeOK, Calls, Idle, None
  <1>5. ASSUME NEW c \in Client, CoordinatorStep(c)
        PROVE  TypeOK'
    BY <1>5, CoordinatorStepTypes
  <1>6. CASE UNCHANGED coordinatorVars
    BY <1>6 DEF coordinatorVars, TypeOK
  <1> QED
    BY <1>1, <1>2, <1>3, <1>4, <1>5, <1>6 DEF Next

\* Every reachable head satisfies the CHECK constraints of the schema and every
\* lease handed out is one over the intents of the clients, for any number of
\* them.
THEOREM CoordinatorIsTyped == Spec => []TypeOK
  BY InitTypes, NextTypes, PTL DEF Spec
-----------------------------------------------------------------------------
(* The three tables.                                                       *)

LEMMA IntentsAreAgreed ==
  ASSUME NEW i \in Intents, NEW j \in Intents
  PROVE  Agree(i, j) /\ (i.op = "replace" => i.rev # None)
  <1>1. ASSUME i.mutation = j.mutation, i.digest = j.digest
        PROVE  /\ i.op = j.op /\ i.token = j.token /\ i.rev = j.rev
               /\ i.required = j.required /\ i.slots = j.slots
               /\ i.part = j.part => i = j
    <2>1. j = [i EXCEPT !.part = j.part] /\ i = [j EXCEPT !.part = i.part]
      BY <1>1, IntentsAssumption
    <2>2. DOMAIN i = {"part", "op", "mutation", "digest", "expected", "token", "rev",
                      "required", "slots", "max"}
      BY IntentsAssumption
    <2> QED
      BY <2>1, <2>2
  <1>2. i.op = "replace" => i.rev # None
    BY IntentsAssumption
  <1> QED
    BY <1>1, <1>2 DEF Agree

LEMMA KnownAreIntents == TypeOK => KnownIntents \subseteq Intents
  BY DEF TypeOK, KnownIntents, Calls, Leases

ClientsInv == TypeOK /\ CoordinatorInv /\ TablesInv

LEMMA InitClients == Init => ClientsInv
  BY InitTypes, InitInv, InitTables DEF Init, ClientsInv

LEMMA NextClients == ClientsInv /\ [Next]_coordinatorVars => ClientsInv'
  <1> SUFFICES ASSUME ClientsInv, [Next]_coordinatorVars
               PROVE  TablesInv'
    BY NextTypes, NextInv DEF ClientsInv
  <1> USE DEF ClientsInv
  <1>1. ASSUME NEW c \in Client, Ask(c)
        PROVE  TablesInv'
    <2>1. PICK i \in Intents : BeginRead(c, i)
      BY <1>1 DEF Ask
    <2>2. \A j \in KnownIntents : Agree(i, j) /\ Agree(j, i)
      BY KnownAreIntents, IntentsAreAgreed
    <2>3. i.part \in Partition /\ (i.op = "replace" => i.rev # None)
      BY IntentsAssumption
    <2> QED
      BY <2>1, <2>2, <2>3, BeginReadTables
  <1>2. ASSUME NEW c \in Client, Conclude(c)
        PROVE  TablesInv'
    BY <1>2, FinalizeStepTables DEF Conclude
  <1>3. ASSUME NEW c \in Client, Retire(c)
        PROVE  TablesInv'
    BY <1>3, SupersedeStepTables DEF Retire
  <1>4. ASSUME NEW c \in Client, Leave(c)
        PROVE  TablesInv'
    BY <1>4, LeaveTables DEF Leave
  <1>5. ASSUME NEW c \in Client, CoordinatorStep(c)
        PROVE  TablesInv'
    BY <1>5, CoordinatorStepTables
  <1>6. CASE UNCHANGED coordinatorVars
    <2>1. RowsInv' /\ UNCHANGED <<call, issued>>
      BY <1>6, UnchangedRows DEF TablesInv, coordinatorVars, tables
    <2>2. KnownIntents' = KnownIntents
      BY <2>1 DEF KnownIntents
    <2>3. IntentsAgree' /\ LeasesInHand'
      BY <2>1, <2>2 DEF TablesInv, IntentsAgree, LeasesInHand, Agree, None
    <2> QED
      BY <2>1, <2>3 DEF TablesInv
  <1> QED
    BY <1>1, <1>2, <1>3, <1>4, <1>5, <1>6 DEF Next

\* After every batch, of whichever client and index generation, references
\* resolve, readers find the active revision whole, the journal says of every
\* publication what the head says, and no more of it than Retained is kept.
THEOREM TablesStayInAgreement == Spec => []TablesAgree
  <1>1. Init => ClientsInv
    BY InitClients
  <1>2. ClientsInv /\ [Next]_coordinatorVars => ClientsInv'
    BY NextClients
  <1>3. ClientsInv => TablesAgree
    BY TablesFollow DEF ClientsInv
  <1> QED
    BY <1>1, <1>2, <1>3, PTL DEF Spec
-----------------------------------------------------------------------------
(* What is committed.                                                      *)

\* Only the finalisation of the pending lease changes what is active.
LEMMA ActiveChanges ==
  ASSUME ClientsInv, [Next]_coordinatorVars, NEW p \in Partition,
         heads'[p].active # heads[p].active
  PROVE  \E c \in Client : \E l \in issued :
           Finalize(c, l) /\ FinalizeMatches(l) /\ l.intent.part = p
  <1> USE DEF ClientsInv
  <1>1. heads = [r \in Partition |-> heads[r]]
    BY DEF CoordinatorInv, FenceInv
  <1>2. ASSUME NEW c \in Client, Ask(c) \/ Leave(c)
        PROVE  FALSE
    BY <1>2 DEF Ask, BeginRead, Leave, tables
  <1>3. ASSUME NEW c \in Client, Retire(c)
        PROVE  FALSE
    <2>1. PICK l, retired : heads' = [heads EXCEPT ![l.intent.part].pending = @ \ retired]
      BY <1>3 DEF Retire, Supersede, SupersedeBatch, RetireHistory
    <2> QED
      BY <1>1, <2>1 DEF CoordinatorInv, FenceInv, HeadShape
  <1>4. ASSUME NEW c \in Client, CoordinatorStep(c)
        PROVE  FALSE
    <2>1. CASE Begin(c)
      <3>1. PICK i, pub : BeginBatch(i, pub)
        BY <2>1 DEF Begin
      <3>2. heads'[p] = IF p = i.part /\ BeginAccepts(i) THEN BegunHead(i, pub) ELSE heads[p]
        BY <1>1, <3>1 DEF BeginBatch
      <3> QED
        BY <3>2 DEF BegunHead
    <2>2. CASE ~ Begin(c)
      BY <1>4, <2>2 DEF CoordinatorStep, ReadOutcome, SupersedeOlder, ReadDigest, ReadAfter,
                         ConfirmFinalized, tables
    <2> QED
      BY <2>1, <2>2
  <1>5. ~ UNCHANGED coordinatorVars
    BY DEF coordinatorVars
  <1>6. PICK c \in Client : Conclude(c)
    BY <1>2, <1>3, <1>4, <1>5 DEF Next
  <1>7. PICK l \in issued : Finalize(c, l)
    BY <1>6 DEF Conclude
  <1>8. FinalizeMatches(l) /\ l.intent.part = p
    <2>1. heads' = [heads EXCEPT ![l.intent.part] =
                      IF FinalizeMatches(l) THEN FinalizedHead(l) ELSE heads[l.intent.part]]
      BY <1>7 DEF Finalize, FinalizeBatch, RetireHistory
    <2> QED
      BY <1>1, <2>1
  <1> QED
    BY <1>7, <1>8

LEMMA NextCommits ==
  ASSUME ClientsInv, [Next]_coordinatorVars, NEW p \in Partition
  PROVE  CommittedAsPublished(p)
  <1> SUFFICES ASSUME heads'[p].active # heads[p].active
               PROVE  \E l \in issued, m \in mutations' :
                        /\ \E q \in heads[p].pending : q.pub = l.pub
                        /\ l \in UNION {call'[c].lease : c \in Client}
                        /\ heads'[p].active = Some(m.id)
                        /\ m.id = l.intent.mutation /\ m.digest = l.intent.digest
    BY DEF CommittedAsPublished
  <1>1. PICK c \in Client, l \in issued :
          Finalize(c, l) /\ FinalizeMatches(l) /\ l.intent.part = p
    BY ActiveChanges
  <1>2. PICK q \in heads[p].pending :
          q.pub = l.pub /\ q.mutation = l.intent.mutation /\ q.digest = l.intent.digest
    BY <1>1 DEF FinalizeMatches
  <1>3. PICK m \in mutations : m.id = l.intent.mutation /\ m.digest = l.intent.digest
    BY <1>2 DEF ClientsInv, TablesInv, RowsInv, ReferencesResolve
  <1>4. heads'[p].active = Some(m.id)
    <2>1. heads' = [heads EXCEPT ![p] = FinalizedHead(l)]
      BY <1>1 DEF Finalize, FinalizeBatch, RetireHistory
    <2> QED
      BY <1>3, <2>1 DEF FinalizedHead, ClientsInv, CoordinatorInv, FenceInv
  <1>5. m \in mutations'
    <2>1. mutations' = mutations \ Unreferenced(mutations, heads', journal')
      BY <1>1 DEF Finalize, FinalizeBatch, RetireHistory
    <2> QED
      BY <2>1, <1>4 DEF Unreferenced, Referenced
  <1>6. l \in call'[c].lease
    BY <1>1 DEF Finalize, Some, ClientsInv, CoordinatorInv, CallInv
  <1> QED
    BY <1>2, <1>3, <1>4, <1>5, <1>6

\* The revision that becomes active is stored with the digest of the lease that
\* was finalised, whichever digest its mutation id was first staged with and
\* whatever other batches collected between the two calls.
THEOREM PublishedIsCommitted == Spec => PayloadIsCommitted
  <1>1. Init => ClientsInv
    BY InitClients
  <1>2. ClientsInv /\ [Next]_coordinatorVars => ClientsInv'
    BY NextClients
  <1>3. ClientsInv /\ [Next]_coordinatorVars => \A p \in Partition : CommittedAsPublished(p)
    BY NextCommits
  <1> QED
    BY <1>1, <1>2, <1>3, PTL DEF Spec, PayloadIsCommitted
-----------------------------------------------------------------------------
(* The register of leases.                                                 *)

\* The columns of a head row.
HasColumns(h) ==
  h = [status |-> h.status, active |-> h.active, token |-> h.token,
       gen |-> h.gen, slots |-> h.slots, pending |-> h.pending]

\* What a grant and an installation leave of a head row.
LEMMA GrantedColumns ==
  ASSUME NEW h, HasColumns(h), NEW gen, NEW slots, NEW pending
  PROVE  [h EXCEPT !.gen = gen, !.slots = slots, !.pending = pending] =
           [status |-> h.status, active |-> h.active, token |-> h.token,
            gen |-> gen, slots |-> slots, pending |-> pending]
  <1> DEFINE g1 == [status |-> h.status, active |-> h.active, token |-> h.token,
                    gen |-> gen, slots |-> h.slots, pending |-> h.pending]
             g2 == [status |-> h.status, active |-> h.active, token |-> h.token,
                    gen |-> gen, slots |-> slots, pending |-> h.pending]
             g3 == [status |-> h.status, active |-> h.active, token |-> h.token,
                    gen |-> gen, slots |-> slots, pending |-> pending]
  <1>1. [h EXCEPT !.gen = gen] = g1
    BY DEF HasColumns
  <1>2. /\ HasColumns(g1)
        /\ g1.status = h.status /\ g1.active = h.active /\ g1.token = h.token
        /\ g1.gen = gen /\ g1.slots = h.slots /\ g1.pending = h.pending
    BY DEF HasColumns
  <1>3. [g1 EXCEPT !.slots = slots] = g2
    <2> HIDE DEF g1
    <2> QED
      BY <1>2 DEF HasColumns
  <1>4. /\ HasColumns(g2)
        /\ g2.status = h.status /\ g2.active = h.active /\ g2.token = h.token
        /\ g2.gen = gen /\ g2.slots = slots /\ g2.pending = h.pending
    BY DEF HasColumns
  <1>5. [g2 EXCEPT !.pending = pending] = g3
    <2> HIDE DEF g2
    <2> QED
      BY <1>4 DEF HasColumns
  <1>6. [h EXCEPT !.gen = gen, !.slots = slots, !.pending = pending] =
           [[[h EXCEPT !.gen = gen] EXCEPT !.slots = slots]
               EXCEPT !.pending = pending]
    OBVIOUS
  <1> HIDE DEF g1, g2
  <1> QED
    BY <1>1, <1>3, <1>5, <1>6

InstalledHead(h, status, active, token, pending) ==
  [h EXCEPT !.status = status, !.active = active, !.token = token, !.pending = pending]

LEMMA InstalledColumns ==
  ASSUME NEW h, HasColumns(h), NEW status, NEW active, NEW token, NEW pending
  PROVE  InstalledHead(h, status, active, token, pending) =
           [status |-> status, active |-> active, token |-> token,
            gen |-> h.gen, slots |-> h.slots, pending |-> pending]
  <1> DEFINE g1 == [status |-> status, active |-> h.active, token |-> h.token,
                    gen |-> h.gen, slots |-> h.slots, pending |-> h.pending]
             g2 == [status |-> status, active |-> active, token |-> h.token,
                    gen |-> h.gen, slots |-> h.slots, pending |-> h.pending]
             g3 == [status |-> status, active |-> active, token |-> token,
                    gen |-> h.gen, slots |-> h.slots, pending |-> h.pending]
             g4 == [status |-> status, active |-> active, token |-> token,
                    gen |-> h.gen, slots |-> h.slots, pending |-> pending]
  <1>1. [h EXCEPT !.status = status] = g1
    BY DEF HasColumns
  <1>2. /\ HasColumns(g1)
        /\ g1.status = status /\ g1.active = h.active /\ g1.token = h.token
        /\ g1.gen = h.gen /\ g1.slots = h.slots /\ g1.pending = h.pending
    BY DEF HasColumns
  <1>3. [g1 EXCEPT !.active = active] = g2
    <2> HIDE DEF g1
    <2> QED
      BY <1>2 DEF HasColumns
  <1>4. /\ HasColumns(g2)
        /\ g2.status = status /\ g2.active = active /\ g2.token = h.token
        /\ g2.gen = h.gen /\ g2.slots = h.slots /\ g2.pending = h.pending
    BY DEF HasColumns
  <1>5. [g2 EXCEPT !.token = token] = g3
    <2> HIDE DEF g2
    <2> QED
      BY <1>4 DEF HasColumns
  <1>6. /\ HasColumns(g3)
        /\ g3.status = status /\ g3.active = active /\ g3.token = token
        /\ g3.gen = h.gen /\ g3.slots = h.slots /\ g3.pending = h.pending
    BY DEF HasColumns
  <1>7. [g3 EXCEPT !.pending = pending] = g4
    <2> HIDE DEF g3
    <2> QED
      BY <1>6 DEF HasColumns
  <1>8. InstalledHead(h, status, active, token, pending) =
           [[[[h EXCEPT !.status = status] EXCEPT !.active = active]
               EXCEPT !.token = token] EXCEPT !.pending = pending]
    BY DEF InstalledHead
  <1> HIDE DEF g1, g2, g3
  <1> QED
    BY <1>1, <1>3, <1>5, <1>7, <1>8

LEMMA GrantImplements ==
  ASSUME ClientsInv, NEW i \in Intents, i \in KnownIntents, NEW pub \in PublicationId,
         BeginBatch(i, pub), Allocates(i), \A l \in issued : l.pub # pub
  PROVE  Register!Grant(i.part) /\ i.part \in Partition
  <1> DEFINE old == heads[i.part]
             q == [mutation |-> i.mutation, digest |-> i.digest, pub |-> pub,
                   gen |-> old.gen + 1, op |-> i.op, slots |-> i.slots]
  <1>1. i.part \in Partition /\ i.slots \in Nat
    BY IntentsAssumption
  <1>2. HeadShape(old) /\ HeadOK(old)
    BY <1>1, TypeOKByHead DEF ClientsInv, CoordinatorInv, FenceInv
  <1>3. /\ old.pending = None /\ old.token = i.expected
        /\ old.slots <= i.slots /\ i.slots <= i.max
    BY DEF Allocates, BeginAccepts
  <1>4. ActiveMatchesExpectedToken(old, i)
    BY <1>2, <1>3 DEF HeadOK, ActiveMatchesExpectedToken
  <1>5. BegunHead(i, pub) = [old EXCEPT !.gen = old.gen + 1, !.slots = i.slots,
                                        !.pending = Some(q)]
    <2>1. BegunPending(i, pub) = Some(q)
      BY DEF Allocates, BegunPending
    <2>2. BegunHead(i, pub) =
            [status |-> old.status, active |-> old.active, token |-> old.token,
             gen |-> old.gen + 1, slots |-> i.slots, pending |-> Some(q)]
      BY <2>1 DEF Allocates, BegunHead
    <2>3. HasColumns(old)
      BY <1>2 DEF HeadShape, HasColumns
    <2>4. [old EXCEPT !.gen = old.gen + 1, !.slots = i.slots, !.pending = Some(q)] =
            [status |-> old.status, active |-> old.active, token |-> old.token,
             gen |-> old.gen + 1, slots |-> i.slots, pending |-> Some(q)]
      <3> HIDE DEF old, q
      <3> QED
        BY <2>3, GrantedColumns, Zenon
    <2> QED
      BY <2>2, <2>4, Zenon
  <1>6. heads' = [heads EXCEPT ![i.part] = BegunHead(i, pub)]
    BY DEF BeginBatch, Allocates
  <1>7. heads' = [heads EXCEPT ![i.part].gen = old.gen + 1, ![i.part].slots = i.slots,
                               ![i.part].pending = Some(q)]
    <2> HIDE DEF q
    <2> QED
      BY <1>1, <1>2, <1>5, <1>6 DEF ClientsInv, CoordinatorInv, FenceInv, HeadShape
  <1> QED
    BY <1>1, <1>3, <1>4, <1>7 DEF Register!Grant, None, Register!None, Register!Some, Some,
       ActiveMatchesExpectedToken, Register!ActiveMatchesExpectedToken

LEMMA InstallImplements ==
  ASSUME ClientsInv, NEW l \in issued, FinalizeBatch(l), FinalizeMatches(l)
  PROVE  Register!Install(l.intent.part) /\ l.intent.part \in Partition
  <1> DEFINE i == l.intent
             part == l.intent.part
             old == heads[part]
  <1>1. part \in Partition /\ i \in Intents
    BY IntentsAssumption DEF ClientsInv, TypeOK, Leases
  <1>2. HeadShape(old) /\ heads = [p \in Partition |-> heads[p]]
    BY <1>1 DEF ClientsInv, CoordinatorInv, FenceInv
  <1>3. PendingIsMutation(old, i)
    BY DEF FinalizeMatches, PendingIsMutation
  <1>4. heads' = [heads EXCEPT ![part] = FinalizedHead(l)]
    BY DEF FinalizeBatch, RetireHistory
  <1>5. FinalizedHead(l) =
          [old EXCEPT !.status = IF i.op = "replace" THEN "revision" ELSE "deleted",
                      !.active = Some(i.mutation), !.token = i.token, !.pending = None]
    <2> DEFINE status == IF i.op = "replace" THEN "revision" ELSE "deleted"
    <2>1. HasColumns(old)
      BY <1>2 DEF HeadShape, HasColumns
    <2>2. [old EXCEPT !.status = status, !.active = Some(i.mutation), !.token = i.token,
                      !.pending = None] =
            [status |-> status, active |-> Some(i.mutation), token |-> i.token,
             gen |-> old.gen, slots |-> old.slots, pending |-> None]
      <3>1. InstalledHead(old, status, Some(i.mutation), i.token, None) =
              [status |-> status, active |-> Some(i.mutation), token |-> i.token,
               gen |-> old.gen, slots |-> old.slots, pending |-> None]
        <4> HIDE DEF old, i, status
        <4> QED
          BY <2>1, InstalledColumns
      <3> QED
        BY <3>1, Zenon DEF InstalledHead
    <2> QED
      BY <2>2, Zenon DEF FinalizedHead
  <1>6. heads' = [heads EXCEPT
          ![part].status = IF i.op = "replace" THEN "revision" ELSE "deleted",
          ![part].active = Some(i.mutation), ![part].token = i.token,
          ![part].pending = None]
    BY <1>1, <1>2, <1>4, <1>5 DEF HeadShape
  <1> QED
    BY <1>1, <1>3, <1>6
    DEF Register!Install, PendingIsMutation, Register!PendingIsMutation,
        Some, Register!Some, None, Register!None

LEMMA RetireImplements ==
  ASSUME ClientsInv, NEW l \in issued, SupersedeBatch(l), heads' # heads
  PROVE  Register!Retire(l.intent.part) /\ l.intent.part \in Partition
  <1> DEFINE part == l.intent.part
             retired == {p \in heads[part].pending : p.pub = l.pub /\ p.gen = l.gen}
  <1>1. part \in Partition
    BY DEF ClientsInv, CoordinatorInv, FenceInv, LeaseShape
  <1>2. HeadShape(heads[part]) /\ heads = [p \in Partition |-> heads[p]]
    BY <1>1 DEF ClientsInv, CoordinatorInv, FenceInv
  <1>3. heads' = [heads EXCEPT ![part].pending = heads[part].pending \ retired]
    BY DEF SupersedeBatch, RetireHistory
  <1>4. CASE retired = {}
    <2>1. heads[part].pending \ retired = heads[part].pending
      BY <1>4
    <2> HIDE DEF retired
    <2>2. heads' = heads
      BY <1>1, <1>2, <1>3, <2>1 DEF HeadShape
    <2> QED
      BY <2>2
  <1>5. CASE retired # {}
    <2>1. heads[part].pending \ retired = {}
      BY <1>2, <1>5 DEF HeadShape
    <2> HIDE DEF retired
    <2> QED
      BY <1>1, <1>3, <2>1 DEF Register!Retire, Register!None
  <1> QED
    BY <1>4, <1>5

LEMMA NextImplements ==
  ASSUME ClientsInv, [Next]_coordinatorVars
  PROVE  [Register!Next]_heads
  <1> SUFFICES ASSUME heads' # heads
               PROVE  \E p \in Partition : Register!Grant(p) \/ Register!Install(p)
                                           \/ Register!Retire(p)
    <2>1. ASSUME NEW p \in Partition,
                 Register!Grant(p) \/ Register!Install(p) \/ Register!Retire(p),
                 heads' # heads
          PROVE  heads'[p] # heads[p]
      <3>1. PICK h : heads' = [heads EXCEPT ![p] = h]
        BY <2>1 DEF Register!Grant, Register!Install, Register!Retire
      <3> QED
        BY <2>1, <3>1 DEF ClientsInv, CoordinatorInv, FenceInv
    <2> QED
      BY <2>1 DEF Register!Next
  <1> USE DEF ClientsInv
  <1>1. heads = [r \in Partition |-> heads[r]]
    BY DEF CoordinatorInv, FenceInv
  <1>2. ASSUME NEW c \in Client, Ask(c) \/ Leave(c)
        PROVE  FALSE
    BY <1>2 DEF Ask, BeginRead, Leave, tables
  <1>3. ASSUME NEW c \in Client, Conclude(c)
        PROVE  \E p \in Partition : Register!Install(p)
    <2>1. PICK l \in issued : Finalize(c, l)
      BY <1>3 DEF Conclude
    <2>2. FinalizeMatches(l)
      BY <2>1, <1>1 DEF Finalize, FinalizeBatch, RetireHistory
    <2> QED
      BY <2>1, <2>2, InstallImplements DEF Finalize
  <1>4. ASSUME NEW c \in Client, Retire(c)
        PROVE  \E p \in Partition : Register!Retire(p)
    BY <1>4, RetireImplements DEF Retire, Supersede
  <1>5. ASSUME NEW c \in Client, CoordinatorStep(c)
        PROVE  \E p \in Partition : Register!Grant(p)
    <2>1. Begin(c)
      BY <1>5 DEF CoordinatorStep, ReadOutcome, SupersedeOlder, ReadDigest, ReadAfter,
                  ConfirmFinalized, tables
    <2>2. PICK i \in call[c].intent, pub \in PublicationId :
             /\ Allocates(i) => \A l \in issued : l.pub # pub
             /\ BeginBatch(i, pub)
      BY <2>1 DEF Begin
    <2>3. i \in KnownIntents /\ i \in Intents
      BY OwnIntentsKnown, KnownAreIntents
    <2>4. i.part \in Partition /\ i.slots \in Nat
      BY <2>3, IntentsAssumption
    <2>5. Allocates(i)
      BY <2>2, <2>3, <2>4, BeginBatchCases DEF CoordinatorInv, TablesInv
    <2> QED
      BY <2>2, <2>3, <2>5, GrantImplements
  <1>6. ~ UNCHANGED coordinatorVars
    BY DEF coordinatorVars
  <1> QED
    BY <1>2, <1>3, <1>4, <1>5, <1>6 DEF Next

\* Reads, batches, retries and crashes of any number of clients amount to the
\* register of leases: a publication is granted against the active token when
\* no other is pending, under the next generation and a closure that does not
\* shrink, and ends by becoming active or by being retired.
THEOREM ClientsImplementRegister == Spec => ImplementsRegister
  <1>1. Init => ClientsInv
    BY InitClients
  <1>2. ClientsInv /\ [Next]_coordinatorVars => ClientsInv'
    BY NextClients
  <1>3. Init => Register!Init
    BY DEF Init, CoordinatorInit, Register!Init, FreshHead, Register!FreshHead,
           None, Register!None
  <1>4. ClientsInv /\ [Next]_coordinatorVars => [Register!Next]_heads
    BY NextImplements
  <1> QED
    BY <1>1, <1>2, <1>3, <1>4, PTL DEF Spec, ImplementsRegister, Register!Spec
=============================================================================

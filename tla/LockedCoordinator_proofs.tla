----------------------- MODULE LockedCoordinator_proofs -----------------------
(***************************************************************************)
(* The PostgreSQL coordinator keeps its tables in agreement, implements the  *)
(* register of leases, and its transactions never wait in a circle, for any   *)
(* number of clients, index generations, intents and retained publications.   *)
(*                                                                         *)
(* A transaction that writes a head has the lock of its row, so that the row   *)
(* is what the transaction read until it commits; one that lost its lease has   *)
(* no lock and writes nothing, for all the rows it looks for are completed and  *)
(* no more than are retained.  A mutation that one transaction deletes is not   *)
(* referred to in what that transaction sees, and nobody else has locked it:    *)
(* what others commit refers to what was referred to before, or to what they    *)
(* have locked.                                                             *)
(***************************************************************************)
EXTENDS LockedCoordinator, FiniteSetTheorems, NaturalsInduction, WellFoundedInduction, TLAPS

Begins == {"digest", "chunks", "head", "lock", "allocate", "journal"}
Ends == {"expire", "collect", "delete", "commit"}
-----------------------------------------------------------------------------
(* What the committed tables and the history of the leases say of each other. *)

PendingOf(l) ==
  [mutation |-> l.intent.mutation, digest |-> l.intent.digest, pub |-> l.pub,
   gen |-> l.gen, op |-> l.intent.op, slots |-> l.slots]

RowOf(l, status) ==
  [pub |-> l.pub, mutation |-> l.intent.mutation, part |-> l.intent.part,
   gen |-> l.gen, slots |-> l.slots, status |-> status]

\* A publication id is one generation of one partition, and one payload.
LeasesDistinct ==
  \A l, m \in issued :
    l.pub = m.pub \/ (l.intent.part = m.intent.part /\ l.gen = m.gen) =>
      /\ l.pub = m.pub /\ l.gen = m.gen
      /\ l.intent.part = m.intent.part
      /\ l.intent.mutation = m.intent.mutation /\ l.intent.digest = m.intent.digest

LeasesKnown ==
  \A l \in issued :
    /\ l.intent \in Intents
    /\ l = LeaseOf(l.intent, l.pub, l.gen, l.intent.slots)
    /\ l.gen \in Nat /\ l.gen <= heads[l.intent.part].gen

IsHead(h) ==
  h = [status |-> h.status, active |-> h.active, token |-> h.token,
       gen |-> h.gen, slots |-> h.slots, pending |-> h.pending]

HeadsKnown ==
  /\ heads = [p \in Partition |-> heads[p]]
  /\ \A p \in Partition :
       /\ HeadOK(heads[p]) /\ IsHead(heads[p])
       /\ heads[p].status = "revision" => \E i \in Intents :
            i.op = "replace" /\ heads[p].active = Some(i.mutation) /\ heads[p].token = i.token
       /\ \A q \in heads[p].pending : \E l \in issued :
            l.intent.part = p /\ l.gen = heads[p].gen /\ q = PendingOf(l)

JournalKnown ==
  /\ IsFiniteSet(journal)
  /\ \A j, k \in journal : j.pub = k.pub => j = k
  /\ \A j \in journal : \E l \in issued : j = RowOf(l, j.status)

MutationsKnown ==
  /\ \A m, n \in mutations : m.id = n.id => m = n
  /\ \A m \in mutations : \E i \in Intents : m = MutationRow(i)

TablesKnown ==
  /\ LeasesDistinct /\ LeasesKnown /\ HeadsKnown /\ JournalKnown /\ MutationsKnown
  /\ ReferencesResolve /\ JournalMatchesHead /\ HistoryBounded
-----------------------------------------------------------------------------
(* What each call and its transaction know.                                *)

Grantable(head, i) ==
  /\ head.pending = None /\ ActiveMatchesExpectedToken(head, i)
  /\ head.slots <= i.slots /\ i.slots <= i.max

GrantedHead(head, i, pub) ==
  [head EXCEPT !.gen = head.gen + 1, !.slots = i.slots,
     !.pending = Some([mutation |-> i.mutation, digest |-> i.digest, pub |-> pub,
                       gen |-> head.gen + 1, op |-> i.op, slots |-> i.slots])]

InstalledHead(head, i) ==
  [head EXCEPT !.status = IF i.op = "replace" THEN "revision" ELSE "deleted",
     !.active = Some(i.mutation), !.token = i.token, !.pending = None]

RetiredHead(head) == [head EXCEPT !.pending = None]

Leased(pub) == \E l \in issued : l.pub = pub

\* A begin has inserted its own mutation, and written its head at the end.
Beginning(at, t, i) ==
  /\ t.staged \subseteq {MutationRow(i)}
  /\ t.rows = {} /\ t.expired = {} /\ t.dead = {}
  /\ t.locks <=> at \in {"allocate", "journal"}
  /\ t.locks => Grantable(heads[i.part], i)
  /\ IF at = "journal"
       THEN /\ t.shared = {i.mutation}
            /\ \E pub \in PublicationId :
                 ~ Leased(pub) /\ t.head = Some(GrantedHead(heads[i.part], i, pub))
       ELSE t.shared = {} /\ t.head = None

WroteInstall(t, l) ==
  /\ t.rows = Marked(l, "committed") /\ t.shared = {l.intent.mutation}
  /\ t.head = Some(InstalledHead(heads[l.intent.part], l.intent))

WroteRetire(t, l) ==
  /\ t.rows = Marked(l, "superseded") /\ t.shared = {}
  /\ t.head = Some(RetiredHead(heads[l.intent.part]))

\* Whoever ends a publication has its lease pending and locked, or writes nothing.
Ending(at, t, l) ==
  /\ t.staged = {}
  /\ at = "expire" => t.expired = {}
  /\ at # "commit" => t.dead = {}
  /\ \A pub \in t.expired : \E m \in issued : m.pub = pub /\ m.intent.part = l.intent.part
  /\ IF t.locks THEN SupersedeMatches(l) /\ (WroteInstall(t, l) \/ WroteRetire(t, l))
     ELSE t.head = None /\ t.rows = {} /\ t.expired = {} /\ t.shared = {}

IsCall(a) == a = [at |-> a.at, intent |-> a.intent, lease |-> a.lease, seen |-> a.seen]

IsTxn(t) ==
  t = [staged |-> t.staged, head |-> t.head, locks |-> t.locks, rows |-> t.rows,
       expired |-> t.expired, dead |-> t.dead, shared |-> t.shared]

CallKnown(a, t) ==
  /\ IsCall(a) /\ IsTxn(t)
  /\ a.intent \subseteq Intents
  /\ a.at # "idle" => \E i \in a.intent : a.intent = Some(i)
  /\ a.at \in {"install", "confirm", "clear"} \cup Ends =>
       \E l \in issued : a.lease = Some(l) /\ a.intent = Some(l.intent)
  /\ a.at \notin Begins \cup Ends => t = NoWrites
  /\ a.at \in Begins => \A i \in a.intent : Beginning(a.at, t, i)
  /\ a.at \in Ends => \A l \in a.lease : Ending(a.at, t, l)

Completed(rows, p) == {j \in rows : j.part = p /\ j.status # "pending"}

\* What a transaction will leave behind resolves, and no more than is retained.
WritesSafe(c) ==
  /\ \A id \in txn[c].dead : ~ Referenced(id, HeadsOf(c), JournalOf(c))
  /\ \A id \in txn[c].shared : \E m \in mutations \cup txn[c].staged : m.id = id
  /\ \A m \in txn[c].staged, n \in mutations : m.id # n.id
  /\ call[c].at \in {"collect", "delete", "commit"} /\ txn[c].locks =>
       Cardinality(Completed(JournalOf(c), PartOf(c))) <= Retained

\* Row locks and keys keep transactions apart.
Apart(c, d) ==
  /\ txn[c].locks /\ txn[d].locks => PartOf(c) # PartOf(d)
  /\ \A m \in txn[c].staged, n \in txn[d].staged : m.id # n.id
  /\ txn[c].dead \cap txn[d].shared = {}
  /\ \A h \in txn[c].head, k \in txn[d].head :
       \A q \in h.pending, r \in k.pending : q.pub # r.pub

\* Whoever collects waits for those who installed since, never the other way.
Deleters == {c \in Client : call[c].at = "delete"}

Waits(c, d) == call[c].seen \cap txn[d].shared # {}

NoCircle ==
  \A S \in SUBSET Deleters : S # {} => \E c \in S : \A d \in S \ {c} : ~ Waits(c, d)

CallsKnown ==
  /\ call = [c \in Client |-> call[c]] /\ txn = [c \in Client |-> txn[c]]
  /\ \A c \in Client : CallKnown(call[c], txn[c])

LockedInv ==
  /\ LockedAssumption
  /\ TablesKnown
  /\ CallsKnown
  /\ \A c \in Client : WritesSafe(c)
  /\ \A c, d \in Client : c # d => Apart(c, d)
  /\ NoCircle
-----------------------------------------------------------------------------
(* Steps of one client.                                                    *)

\* One client moves, and the others keep their calls and transactions.
Moves(c) ==
  /\ call' = [d \in Client |-> IF d = c THEN call'[c] ELSE call[d]]
  /\ txn' = [d \in Client |-> IF d = c THEN txn'[c] ELSE txn[d]]

LEMMA OthersStay ==
  ASSUME CallsKnown, NEW c \in Client, Moves(c)
  PROVE  /\ call' = [d \in Client |-> call'[d]] /\ txn' = [d \in Client |-> txn'[d]]
         /\ \A d \in Client \ {c} : call'[d] = call[d] /\ txn'[d] = txn[d]
  BY DEF CallsKnown, Moves

\* The tables stay as they are, but a lease may be handed out again.
SameLease(n, l) ==
  /\ n.pub = l.pub /\ n.gen = l.gen /\ n.intent.part = l.intent.part
  /\ n.intent.mutation = l.intent.mutation /\ n.intent.digest = l.intent.digest

TablesStay ==
  /\ UNCHANGED <<heads, mutations, journal>>
  /\ issued \subseteq issued'
  /\ \A n \in issued' :
       /\ \E l \in issued : SameLease(n, l)
       /\ n.intent \in Intents /\ n = LeaseOf(n.intent, n.pub, n.gen, n.intent.slots)

LEMMA NothingIssued ==
  ASSUME LockedInv, UNCHANGED tables
  PROVE  TablesStay
  BY DEF LockedInv, TablesKnown, LeasesKnown, tables, TablesStay, SameLease

LEMMA StayKnown ==
  ASSUME LockedInv, TablesStay
  PROVE  TablesKnown'
  <1>1. LeasesDistinct'
    <2> SUFFICES ASSUME NEW n \in issued', NEW k \in issued',
                        n.pub = k.pub \/ (n.intent.part = k.intent.part /\ n.gen = k.gen)
                 PROVE  SameLease(n, k)
      BY DEF LeasesDistinct, SameLease
    <2>1. PICK l \in issued, m \in issued : SameLease(n, l) /\ SameLease(k, m)
      BY DEF TablesStay
    <2>2. SameLease(l, m)
      BY <2>1 DEF LockedInv, TablesKnown, LeasesDistinct, SameLease
    <2> QED
      BY <2>1, <2>2 DEF SameLease
  <1>2. LeasesKnown'
    <2> SUFFICES ASSUME NEW n \in issued'
                 PROVE  n.gen \in Nat /\ n.gen <= heads[n.intent.part].gen
      BY DEF TablesStay, LeasesKnown
    <2>1. PICK l \in issued : SameLease(n, l)
      BY DEF TablesStay
    <2> QED
      BY <2>1 DEF LockedInv, TablesKnown, LeasesKnown, SameLease
  <1>3. HeadsKnown' /\ JournalKnown'
    BY DEF LockedInv, TablesKnown, HeadsKnown, JournalKnown, TablesStay
  <1> QED
    BY <1>1, <1>2, <1>3
    DEF LockedInv, TablesKnown, TablesStay, MutationsKnown, ReferencesResolve,
        JournalMatchesHead, HistoryBounded

LEMMA OthersKnown ==
  ASSUME TablesStay, NEW c \in Client, CallKnown(call[c], txn[c]), WritesSafe(c),
         call'[c] = call[c], txn'[c] = txn[c]
  PROVE  CallKnown(call[c], txn[c])' /\ WritesSafe(c)'
  <1>1. /\ UNCHANGED <<heads, mutations, journal>> /\ issued \subseteq issued'
        /\ \A pub : Leased(pub)' <=> Leased(pub)
    BY DEF TablesStay, Leased, SameLease
  <1>2. CallKnown(call[c], txn[c])'
    BY <1>1 DEF CallKnown, Beginning, Ending, WroteInstall, WroteRetire,
                SupersedeMatches, Marked
  <1>3. HeadsOf(c)' = HeadsOf(c) /\ JournalOf(c)' = JournalOf(c) /\ PartOf(c)' = PartOf(c)
    BY <1>1 DEF HeadsOf, JournalOf, PartOf, IntentOf
  <1> QED
    BY <1>1, <1>2, <1>3 DEF WritesSafe, Referenced

\* Only a collection makes anybody wait for the transactions at work.
LEMMA NobodyWaits ==
  ASSUME NoCircle, NEW c \in Client, call'[c].at # "delete",
         \A d \in Client \ {c} : call'[d] = call[d] /\ txn'[d] = txn[d]
  PROVE  NoCircle'
  <1> SUFFICES ASSUME NEW S \in SUBSET (Deleters'), S # {}
               PROVE  \E d \in S : \A e \in S \ {d} : ~ Waits(d, e)'
    BY DEF NoCircle
  <1>1. S \subseteq Deleters /\ c \notin S
    BY DEF Deleters
  <1>2. PICK d \in S : \A e \in S \ {d} : ~ Waits(d, e)
    BY <1>1 DEF NoCircle
  <1>3. \A e \in S : call'[e] = call[e] /\ txn'[e] = txn[e]
    BY <1>1 DEF Deleters
  <1> QED
    BY <1>2, <1>3 DEF Waits

LEMMA LocalStep ==
  ASSUME LockedInv, NEW c \in Client, TablesStay, Moves(c),
         CallKnown(call[c], txn[c])', WritesSafe(c)',
         \A d \in Client \ {c} : Apart(c, d)' /\ Apart(d, c)',
         call'[c].at # "delete" \/ NoCircle'
  PROVE  LockedInv'
  <1>1. /\ call' = [d \in Client |-> call'[d]] /\ txn' = [d \in Client |-> txn'[d]]
        /\ \A d \in Client \ {c} : call'[d] = call[d] /\ txn'[d] = txn[d]
    BY OthersStay DEF LockedInv
  <1>2. TablesKnown'
    BY StayKnown
  <1>3. \A d \in Client \ {c} : CallKnown(call[d], txn[d])' /\ WritesSafe(d)'
    BY <1>1, OthersKnown DEF LockedInv, CallsKnown
  <1>4. ASSUME NEW d \in Client, NEW e \in Client, d # e PROVE Apart(d, e)'
    <2>1. CASE d = c \/ e = c
      BY <2>1, <1>4
    <2>2. CASE d # c /\ e # c
      <3>1. /\ call'[d] = call[d] /\ txn'[d] = txn[d]
            /\ call'[e] = call[e] /\ txn'[e] = txn[e]
        BY <2>2, <1>1
      <3>2. Apart(d, e)
        BY <1>4 DEF LockedInv
      <3> QED
        BY <3>1, <3>2 DEF Apart, PartOf, IntentOf
    <2> QED
      BY <2>1, <2>2
  <1>5. NoCircle'
    BY <1>1, NobodyWaits DEF LockedInv
  <1>6. LockedAssumption'
    BY DEF LockedInv, LockedAssumption, AtMostOne
  <1> QED
    BY <1>1, <1>2, <1>3, <1>4, <1>5, <1>6 DEF LockedInv, CallsKnown

\* What CallKnown asks of a call that has no transaction, or only begins one.
Resting(a) ==
  /\ IsCall(a)
  /\ a.intent \subseteq Intents
  /\ a.at # "idle" => \E i \in a.intent : a.intent = Some(i)
  /\ a.at \notin Begins \cup Ends
  /\ a.at \in {"install", "confirm", "clear"} =>
       \E l \in issued : a.lease = Some(l) /\ a.intent = Some(l.intent)

LEMMA RestStep ==
  ASSUME LockedInv, NEW c \in Client, TablesStay, Moves(c),
         txn'[c] = NoWrites, Resting(call[c])'
  PROVE  LockedInv'
  <1>1. CallKnown(call[c], txn[c])'
    BY DEF Resting, CallKnown, IsTxn, NoWrites, Begins, Ends
  <1>2. WritesSafe(c)'
    BY DEF WritesSafe, NoWrites, Resting, Begins, Ends
  <1>3. \A d \in Client \ {c} : Apart(c, d)' /\ Apart(d, c)'
    BY DEF Apart, NoWrites, None
  <1> QED
    BY <1>1, <1>2, <1>3, LocalStep DEF Resting, Ends

LEMMA Known ==
  ASSUME LockedInv, NEW c \in Client
  PROVE  /\ CallKnown(call[c], txn[c]) /\ WritesSafe(c)
         /\ \A d \in Client \ {c} : Apart(c, d) /\ Apart(d, c)
         /\ IsCall(call[c]) /\ IsTxn(txn[c])
  BY DEF LockedInv, CallsKnown, CallKnown

\* The intent of a call under way.
LEMMA ItsIntent ==
  ASSUME LockedInv, NEW c \in Client, call[c].at # "idle"
  PROVE  /\ IntentOf(c) \in Intents /\ call[c].intent = Some(IntentOf(c))
         /\ PartOf(c) = IntentOf(c).part /\ PartOf(c) \in Partition
         /\ IntentOf(c).slots \in Nat
  <1>1. PICK i \in call[c].intent : call[c].intent = {i}
    BY Known DEF CallKnown, Some
  <1>2. IntentOf(c) = i
    BY <1>1 DEF IntentOf
  <1>3. i \in Intents
    BY Known DEF CallKnown
  <1> QED
    BY <1>1, <1>2, <1>3 DEF PartOf, LockedInv, LockedAssumption, Some

\* A transaction that goes on changes its own record.
LEMMA Changes ==
  ASSUME LockedInv, NEW c \in Client
  PROVE  /\ \A a : call' = [call EXCEPT ![c] = a] /\ UNCHANGED txn =>
              Moves(c) /\ call'[c] = a /\ txn'[c] = txn[c]
         /\ \A a, t : call' = [call EXCEPT ![c] = a] /\ txn' = [txn EXCEPT ![c] = t] =>
              Moves(c) /\ call'[c] = a /\ txn'[c] = t
  BY DEF LockedInv, CallsKnown, Moves

LEMMA AskKeeps ==
  ASSUME LockedInv, NEW c \in Client, NEW i \in Intents, Ask(c, i)
  PROVE  LockedInv'
  <1>0. PICK at \in {"Invalid", "Capacity", "stage"} :
          call' = [call EXCEPT ![c] = [at |-> at, intent |-> {i}, lease |-> None, seen |-> {}]]
    <2>1. ASSUME NEW at, NEW a, a = [Idle EXCEPT !.at = at, !.intent = Some(i)]
          PROVE  a = [at |-> at, intent |-> {i}, lease |-> None, seen |-> {}]
      BY <2>1 DEF Idle, Some
    <2>2. PICK at \in {"Invalid", "Capacity", "stage"} :
            call' = [call EXCEPT ![c] = [Idle EXCEPT !.at = at, !.intent = Some(i)]]
      BY Zenon DEF Ask
    <2> QED
      BY <2>1, <2>2
  <1>1. /\ UNCHANGED tables /\ Moves(c) /\ txn'[c] = txn[c]
        /\ call'[c] = [at |-> at, intent |-> {i}, lease |-> None, seen |-> {}]
    BY <1>0, Changes DEF Ask
  <1>2. txn'[c] = NoWrites
    BY <1>1, Known DEF Ask, CallKnown, Begins, Ends
  <1>3. Resting(call[c])'
    BY <1>1 DEF Resting, IsCall, Begins, Ends, Some
  <1> QED
    BY <1>1, <1>2, <1>3, NothingIssued, RestStep

LEMMA StartKeeps ==
  ASSUME LockedInv, NEW c \in Client, NEW l \in issued, NEW at \in {"install", "clear"},
         StartWith(c, l, at)
  PROVE  LockedInv'
  <1>0. call' = [call EXCEPT ![c] = [at |-> at, intent |-> {l.intent}, lease |-> {l},
                                     seen |-> {}]]
    <2>1. ASSUME NEW a,
                 a = [Idle EXCEPT !.at = at, !.intent = Some(l.intent), !.lease = Some(l)]
          PROVE  a = [at |-> at, intent |-> {l.intent}, lease |-> {l}, seen |-> {}]
      BY <2>1 DEF Idle, Some
    <2> QED
      BY <2>1 DEF StartWith
  <1>1. /\ UNCHANGED tables /\ Moves(c) /\ txn'[c] = txn[c]
        /\ call'[c] = [at |-> at, intent |-> {l.intent}, lease |-> {l}, seen |-> {}]
    BY <1>0, Changes DEF StartWith
  <1>2. txn'[c] = NoWrites
    BY <1>1, Known DEF StartWith, CallKnown, Begins, Ends
  <1>3. Resting(call[c])'
    BY <1>1 DEF Resting, IsCall, Begins, Ends, Some, LockedInv, TablesKnown, LeasesKnown, tables
  <1> QED
    BY <1>1, <1>2, <1>3, NothingIssued, RestStep

LEMMA LeaveKeeps ==
  ASSUME LockedInv, NEW c \in Client, Leave(c)
  PROVE  LockedInv'
  <1>1. /\ UNCHANGED tables /\ Moves(c) /\ txn'[c] = NoWrites /\ call'[c] = Idle
    BY Changes DEF Leave
  <1>2. Resting(call[c])'
    BY <1>1 DEF Resting, IsCall, Idle, None, Begins, Ends
  <1> QED
    BY <1>1, <1>2, NothingIssued, RestStep

LEMMA RollbackKeeps ==
  ASSUME LockedInv, NEW c \in Client, NEW result \in Results, call[c].at # "idle",
         Rollback(c, result)
  PROVE  LockedInv'
  <1>1. /\ UNCHANGED tables /\ Moves(c) /\ txn'[c] = NoWrites
        /\ call'[c] = [call[c] EXCEPT !.at = result]
    BY Changes DEF Rollback, Goto
  <1>2. call'[c] = [at |-> result, intent |-> call[c].intent,
                    lease |-> call[c].lease, seen |-> call[c].seen]
    BY <1>1, Known DEF IsCall
  <1>3. call[c].intent \subseteq Intents /\ \E i \in call[c].intent : call[c].intent = Some(i)
    BY Known DEF CallKnown
  <1>4. Resting(call[c])'
    BY <1>2, <1>3 DEF Resting, IsCall, Results, Begins, Ends
  <1> QED
    BY <1>1, <1>4, NothingIssued, RestStep
-----------------------------------------------------------------------------
(* The statements of a begin.                                              *)

LEMMA NoWritesFields ==
  /\ IsTxn(NoWrites) /\ NoWrites.staged = {} /\ NoWrites.head = None
  /\ NoWrites.locks = FALSE /\ NoWrites.rows = {} /\ NoWrites.expired = {}
  /\ NoWrites.dead = {} /\ NoWrites.shared = {}
  BY DEF NoWrites, IsTxn

LEMMA StagedField ==
  ASSUME NEW t, IsTxn(t), NEW x, NEW s, s = [t EXCEPT !.staged = x]
  PROVE  /\ IsTxn(s) /\ s.staged = x /\ s.head = t.head /\ s.locks = t.locks
         /\ s.rows = t.rows /\ s.expired = t.expired /\ s.dead = t.dead
         /\ s.shared = t.shared
  BY DEF IsTxn

\* What the absence of blockers tells of another transaction.
LEMMA Unblocked ==
  ASSUME LockedInv, NEW c \in Client, call[c].at # "idle", Blockers(c) = {},
         NEW d \in Client \ {c}
  PROVE  /\ call[c].at = "stage" => \A m \in txn[d].staged : m.id # IntentOf(c).mutation
         /\ call[c].at \in {"stage", "chunks", "allocate"} =>
              IntentOf(c).mutation \notin txn[d].dead
         /\ call[c].at = "lock" \/ (call[c].at = "head" /\ heads[PartOf(c)] = FreshHead) =>
              ~ Holds(d, PartOf(c))
  <1>1. IntentOf(c) \in call[c].intent /\ PartOf(c) = IntentOf(c).part
    BY ItsIntent DEF Some
  <1>2. d \notin Blockers(c)
    OBVIOUS
  <1> QED
    BY <1>1, <1>2 DEF Blockers

LEMMA BeginStep ==
  ASSUME LockedInv, NEW c \in Client, call[c].at # "idle", UNCHANGED tables, Moves(c),
         IsCall(call'[c]), IsTxn(txn'[c]), call'[c].at \in Begins,
         call'[c].intent = call[c].intent,
         Beginning(call'[c].at, txn'[c], IntentOf(c)),
         \A m \in txn'[c].staged :
           /\ \A n \in mutations : m.id # n.id
           /\ \A d \in Client \ {c} : \A n \in txn[d].staged : m.id # n.id,
         \A id \in txn'[c].shared :
           /\ \E m \in mutations \cup txn'[c].staged : m.id = id
           /\ \A d \in Client \ {c} : id \notin txn[d].dead,
         txn'[c].locks => \A d \in Client \ {c} : ~ Holds(d, PartOf(c)),
         \A d \in Client \ {c} : \A h \in txn'[c].head, k \in txn[d].head :
           \A q \in h.pending, r \in k.pending : q.pub # r.pub
  PROVE  LockedInv'
  <1>1. /\ call[c].intent = Some(IntentOf(c)) /\ call[c].intent \subseteq Intents
        /\ IntentOf(c)' = IntentOf(c) /\ PartOf(c)' = PartOf(c)
    BY ItsIntent, Known DEF CallKnown, IntentOf, PartOf
  <1>2. Beginning(call[c].at, txn[c], IntentOf(c))'
    BY <1>1 DEF tables, Beginning, Leased
  <1>3. CallKnown(call[c], txn[c])'
    BY <1>1, <1>2 DEF CallKnown, Begins, Ends, Some
  <1>4. WritesSafe(c)'
    BY DEF WritesSafe, Beginning, Begins, tables
  <1>5. \A d \in Client \ {c} :
          txn'[d] = txn[d] /\ call'[d] = call[d] /\ PartOf(d)' = PartOf(d)
    BY OthersStay DEF LockedInv, PartOf, IntentOf
  <1>6. ASSUME NEW d \in Client \ {c} PROVE Apart(c, d)' /\ Apart(d, c)'
    BY <1>1, <1>5, <1>6 DEF Apart, Holds, Beginning
  <1>7. call'[c].at # "delete"
    BY DEF Begins
  <1> QED
    BY <1>3, <1>4, <1>6, <1>7, NothingIssued, LocalStep

\* A statement that leaves the transaction as it is goes on to at.
LEMMA GoesOn ==
  ASSUME LockedInv, NEW c \in Client, call[c].at \in Begins, UNCHANGED tables, Moves(c),
         txn'[c] = txn[c], IsCall(call'[c]), call'[c].intent = call[c].intent,
         call'[c].at \in Begins,
         {call[c].at, call'[c].at} \subseteq {"digest", "chunks", "head", "lock"}
  PROVE  LockedInv'
  <1>1. call[c].at # "idle"
    BY DEF Begins
  <1>2. Beginning(call[c].at, txn[c], IntentOf(c)) /\ IsTxn(txn[c])
    BY <1>1, ItsIntent, Known DEF CallKnown, Some
  <1>3. Beginning(call'[c].at, txn'[c], IntentOf(c))
    BY <1>2 DEF Beginning
  <1>4. \A d \in Client \ {c} : Apart(c, d)
    BY Known
  <1>5. WritesSafe(c)
    BY Known
  <1>6. txn[c].shared = {} /\ txn[c].head = {} /\ ~ txn[c].locks
    BY <1>2 DEF Beginning, None
  <1> QED
    BY <1>1, <1>2, <1>3, <1>4, <1>5, <1>6, BeginStep DEF WritesSafe, Apart

\* A step written with Write.
LEMMA Written ==
  ASSUME LockedInv, NEW c \in Client, NEW t, NEW at, Write(c, t, at)
  PROVE  /\ UNCHANGED tables /\ Moves(c) /\ txn'[c] = t /\ IsCall(call'[c])
         /\ call'[c].at = at /\ call'[c].intent = call[c].intent
         /\ call'[c].lease = call[c].lease /\ call'[c].seen = call[c].seen
  <1>1. call' = [call EXCEPT ![c] = [call[c] EXCEPT !.at = at]]
    BY DEF Write, Goto
  <1>2. Moves(c) /\ txn'[c] = t /\ call'[c] = [call[c] EXCEPT !.at = at]
    BY <1>1, Changes DEF Write
  <1> QED
    BY <1>2, Known DEF IsCall, Write

LEMMA StageKeeps ==
  ASSUME LockedInv, NEW c \in Client, Stage(c)
  PROVE  LockedInv'
  <1> DEFINE i == IntentOf(c)
  <1>1. /\ call[c].at = "stage" /\ txn[c] = NoWrites /\ Blockers(c) = {}
        /\ i \in Intents
    BY Known, ItsIntent DEF Stage, CallKnown, Begins, Ends
  <1>2. PICK staged \in SUBSET {MutationRow(i)} :
          /\ staged # {} => \A m \in mutations : m.id # i.mutation
          /\ Write(c, [txn[c] EXCEPT !.staged = staged], "digest")
    BY DEF Stage
  <1>3. /\ UNCHANGED tables /\ Moves(c) /\ IsCall(call'[c])
        /\ txn'[c] = [txn[c] EXCEPT !.staged = staged]
        /\ call'[c].at = "digest" /\ call'[c].intent = call[c].intent
    BY <1>2, Written
  <1>4. /\ IsTxn(txn'[c]) /\ txn'[c].staged = staged /\ txn'[c].head = None
        /\ ~ txn'[c].locks /\ txn'[c].rows = {} /\ txn'[c].expired = {}
        /\ txn'[c].dead = {} /\ txn'[c].shared = {}
    <2> HIDE DEF i
    <2> QED
      BY <1>1, <1>3, NoWritesFields, StagedField
  <1>5. Beginning("digest", txn'[c], i)
    BY <1>4 DEF Beginning
  <1>6. \A m \in staged : m.id = i.mutation
    BY DEF MutationRow
  <1>7. \A d \in Client \ {c} : \A n \in txn[d].staged : n.id # i.mutation
    BY <1>1, Unblocked
  <1>8. \A m \in txn'[c].staged :
          /\ \A n \in mutations : m.id # n.id
          /\ \A d \in Client \ {c} : \A n \in txn[d].staged : m.id # n.id
    BY <1>2, <1>4, <1>6, <1>7
  <1> HIDE DEF i
  <1> QED
    BY <1>1, <1>3, <1>4, <1>5, <1>8, BeginStep DEF Begins, None, i

\* The steps that fail or refuse, and those that only look.
LEMMA CheckDigestKeeps ==
  ASSUME LockedInv, NEW c \in Client, CheckDigest(c)
  PROVE  LockedInv'
  <1>1. call[c].at = "digest"
    BY DEF CheckDigest
  <1>2. \/ Rollback(c, "Failed") \/ Rollback(c, "Reused")
        \/ \E at \in {"chunks", "head"} : Write(c, txn[c], at)
    BY DEF CheckDigest, Fail
  <1>3. CASE Rollback(c, "Failed") \/ Rollback(c, "Reused")
    BY <1>1, <1>3, RollbackKeeps DEF Results
  <1>4. CASE \E at \in {"chunks", "head"} : Write(c, txn[c], at)
    BY <1>1, <1>4, Written, GoesOn DEF Begins
  <1> QED
    BY <1>2, <1>3, <1>4

LEMMA StoreChunksKeeps ==
  ASSUME LockedInv, NEW c \in Client, StoreChunks(c)
  PROVE  LockedInv'
  <1>1. call[c].at = "chunks"
    BY DEF StoreChunks
  <1>2. Rollback(c, "Failed") \/ Write(c, txn[c], "head")
    BY DEF StoreChunks, Fail
  <1>3. CASE Rollback(c, "Failed")
    BY <1>1, <1>3, RollbackKeeps DEF Results
  <1>4. CASE Write(c, txn[c], "head")
    BY <1>1, <1>4, Written, GoesOn DEF Begins
  <1> QED
    BY <1>2, <1>3, <1>4

LEMMA LocksField ==
  ASSUME NEW t, IsTxn(t), NEW x, NEW s, s = [t EXCEPT !.locks = x]
  PROVE  /\ IsTxn(s) /\ s.staged = t.staged /\ s.head = t.head /\ s.locks = x
         /\ s.rows = t.rows /\ s.expired = t.expired /\ s.dead = t.dead
         /\ s.shared = t.shared
  BY DEF IsTxn

\* What is pending is a lease of one of the intents of its partition.
LEMMA PendingLeased ==
  ASSUME LockedInv, NEW p \in Partition, NEW q \in heads[p].pending
  PROVE  /\ heads[p].pending = {q}
         /\ \E l \in issued : /\ l.intent \in Intents /\ l.intent.part = p
                              /\ q = PendingOf(l) /\ l.slots = l.intent.slots
                              /\ l.gen = heads[p].gen /\ l.gen \in Nat
  <1>1. heads[p].pending = {q}
    BY DEF LockedInv, TablesKnown, HeadsKnown, HeadOK, AtMostOne
  <1>2. PICK l \in issued : l.intent.part = p /\ l.gen = heads[p].gen /\ q = PendingOf(l)
    BY DEF LockedInv, TablesKnown, HeadsKnown
  <1>3. l.intent \in Intents /\ l.slots = l.intent.slots /\ l.gen \in Nat
    BY DEF LockedInv, TablesKnown, LeasesKnown, LeaseOf
  <1> QED
    BY <1>1, <1>2, <1>3

\* A mutation that is pending has the closure it asks for: only an empty head
\* is granted.
LEMMA AllocatesOnce ==
  ASSUME LockedInv, NEW i \in Intents, NEW digest, Decision(heads[i.part], digest, i) = "allocate"
  PROVE  Grantable(heads[i.part], i)
  <1> DEFINE head == heads[i.part]
  <1>1. /\ ~ SamePendingIntent(head, i)
        /\ head.pending = None \/ PendingIsMutation(head, i)
        /\ ActiveMatchesExpectedToken(head, i)
        /\ head.slots <= i.slots /\ i.slots <= i.max
    BY DEF Decision
  <1>2. head.pending = None
    <2> SUFFICES ASSUME NEW q \in head.pending, q.mutation = i.mutation, q.digest = i.digest
                 PROVE  FALSE
      BY <1>1 DEF PendingIsMutation
    <2>1. i.part \in Partition
      BY DEF LockedInv, LockedAssumption
    <2>2. PICK l \in issued : /\ l.intent \in Intents /\ q = PendingOf(l)
                              /\ l.slots = l.intent.slots
      BY <2>1, PendingLeased
    <2>3. q.slots = i.slots
      BY <2>2 DEF LockedInv, LockedAssumption, PendingOf
    <2> QED
      BY <1>1, <2>3 DEF SamePendingIntent
  <1> QED
    BY <1>1, <1>2 DEF Grantable

\* The leases that a begin resumes are those that were issued.
LEMMA ResumedStay ==
  ASSUME LockedInv, NEW i \in Intents, SamePendingIntent(heads[i.part], i),
         UNCHANGED <<heads, mutations, journal>>,
         issued' = issued \cup ResumedLeases(heads[i.part], i)
  PROVE  TablesStay
  <1> DEFINE head == heads[i.part]
  <1>1. i.part \in Partition
    BY DEF LockedInv, LockedAssumption
  <1>2. PICK q \in head.pending :
          q.mutation = i.mutation /\ q.digest = i.digest /\ q.slots = i.slots
    BY DEF SamePendingIntent
  <1>3. PICK l \in issued : /\ l.intent.part = i.part /\ q = PendingOf(l)
                            /\ head.pending = {q}
    BY <1>1, PendingLeased
  <1>4. issued' = issued \cup {LeaseOf(i, q.pub, q.gen, i.slots)}
    BY <1>2, <1>3 DEF ResumedLeases
  <1>5. ASSUME NEW n \in issued', n \notin issued
        PROVE  /\ \E m \in issued : SameLease(n, m)
               /\ n.intent \in Intents /\ n = LeaseOf(n.intent, n.pub, n.gen, n.intent.slots)
    <2>1. n = LeaseOf(i, q.pub, q.gen, i.slots)
      BY <1>4, <1>5
    <2>2. n.intent = i /\ n.pub = l.pub /\ n.gen = l.gen
      BY <2>1, <1>3 DEF LeaseOf, PendingOf
    <2>3. SameLease(n, l)
      BY <2>2, <1>2, <1>3 DEF SameLease, PendingOf
    <2>4. n = LeaseOf(n.intent, n.pub, n.gen, n.intent.slots)
      BY <2>1, <2>2 DEF LeaseOf
    <2> QED
      BY <2>2, <2>3, <2>4, <1>3
  <1>6. ASSUME NEW n \in issued
        PROVE  SameLease(n, n) /\ n.intent \in Intents
               /\ n = LeaseOf(n.intent, n.pub, n.gen, n.intent.slots)
    BY DEF SameLease, LockedInv, TablesKnown, LeasesKnown
  <1> QED
    BY <1>4, <1>5, <1>6 DEF TablesStay

LEMMA DecideKeeps ==
  ASSUME LockedInv, NEW c \in Client, call[c].at \in {"head", "lock"}, NEW joined,
         \A d \in Client \ {c} : ~ Holds(d, PartOf(c)), Decide(c, joined)
  PROVE  LockedInv'
  <1> DEFINE i == IntentOf(c)
             digest == {m.digest : m \in {n \in joined : heads[i.part].active = Some(n.id)}}
             decision == Decision(heads[i.part], digest, i)
  <1>0. call[c].at # "idle" /\ call[c].at \in Begins
    BY DEF Begins
  <1>1. /\ i \in Intents /\ PartOf(c) = i.part /\ call[c].intent = Some(i)
        /\ Beginning(call[c].at, txn[c], i) /\ IsTxn(txn[c]) /\ IsCall(call[c])
        /\ WritesSafe(c) /\ \A d \in Client \ {c} : Apart(c, d)
        /\ call[c].intent \subseteq Intents
    BY <1>0, Known, ItsIntent DEF CallKnown, Some
  <1>2. CASE decision = "allocate"
    <2>1. Write(c, [txn[c] EXCEPT !.locks = TRUE], "allocate")
      BY <1>2 DEF Decide
    <2>2. /\ UNCHANGED tables /\ Moves(c) /\ IsCall(call'[c])
          /\ txn'[c] = [txn[c] EXCEPT !.locks = TRUE]
          /\ call'[c].at = "allocate" /\ call'[c].intent = call[c].intent
      BY <2>1, Written
    <2>3. /\ IsTxn(txn'[c]) /\ txn'[c].staged = txn[c].staged
          /\ txn'[c].head = txn[c].head /\ txn'[c].locks = TRUE
          /\ txn'[c].rows = txn[c].rows /\ txn'[c].expired = txn[c].expired
          /\ txn'[c].dead = txn[c].dead /\ txn'[c].shared = txn[c].shared
      BY <2>2, <1>1, LocksField
    <2>4. Grantable(heads[i.part], i)
      BY <1>1, <1>2, AllocatesOnce
    <2>5. Beginning("allocate", txn'[c], i) /\ txn'[c].shared = {} /\ txn'[c].head = {}
      BY <1>1, <2>3, <2>4 DEF Beginning, None
    <2>6. \A m \in txn'[c].staged :
            /\ \A n \in mutations : m.id # n.id
            /\ \A d \in Client \ {c} : \A n \in txn[d].staged : m.id # n.id
      BY <1>1, <2>3 DEF WritesSafe, Apart
    <2> HIDE DEF i, decision
    <2> QED
      BY <1>0, <2>2, <2>3, <2>5, <2>6, BeginStep DEF Begins, i
  <1>3. CASE decision # "allocate"
    <2>1. /\ txn' = [txn EXCEPT ![c] = NoWrites]
          /\ UNCHANGED <<heads, mutations, journal>>
          /\ issued' = issued \cup call'[c].lease
      BY <1>3 DEF Decide
    <2>2. call' = [call EXCEPT ![c] = [call[c] EXCEPT !.at = decision, !.seen = {},
                     !.lease = IF decision = "Publish" THEN ResumedLeases(heads[i.part], i)
                               ELSE None]]
      BY <1>3 DEF Decide
    <2>3. Moves(c) /\ txn'[c] = NoWrites
          /\ call'[c] = [call[c] EXCEPT !.at = decision, !.seen = {},
                     !.lease = IF decision = "Publish" THEN ResumedLeases(heads[i.part], i)
                               ELSE None]
      <3> DEFINE a == [call[c] EXCEPT !.at = decision, !.seen = {},
                     !.lease = IF decision = "Publish" THEN ResumedLeases(heads[i.part], i)
                               ELSE None]
      <3>1. call' = [call EXCEPT ![c] = a]
        BY <2>2
      <3> HIDE DEF a
      <3>2. Moves(c) /\ txn'[c] = NoWrites /\ call'[c] = a
        BY <3>1, <2>1, Changes
      <3> QED
        BY <3>2 DEF a
    <2>4. /\ IsCall(call'[c]) /\ call'[c].at = decision
          /\ call'[c].intent = call[c].intent
          /\ call'[c].lease = IF decision = "Publish" THEN ResumedLeases(heads[i.part], i)
                              ELSE None
      <3> HIDE DEF decision, i
      <3> QED
        BY <2>3, <1>1 DEF IsCall
    <2>5. /\ decision \in {"Committed", "Publish", "Stale", "InProgress", "Capacity",
                           "Conflict"}
          /\ decision = "Publish" => SamePendingIntent(heads[i.part], i)
      BY <1>3 DEF Decision
    <2>6. TablesStay
      <3>1. CASE decision = "Publish"
        <4>1. issued' = issued \cup ResumedLeases(heads[i.part], i)
          BY <2>1, <2>4, <3>1
        <4> QED
          BY <4>1, <2>1, <2>5, <3>1, <1>1, ResumedStay
      <3>2. CASE decision # "Publish"
        BY <3>2, <2>1, <2>4, NothingIssued DEF None, tables
      <3> QED
        BY <3>1, <3>2
    <2>7. Resting(call[c])'
      <3> HIDE DEF decision
      <3> QED
        BY <2>4, <2>5, <1>1 DEF Resting, Begins, Ends, Some
    <2> QED
      BY <2>3, <2>6, <2>7, RestStep
  <1> QED
    BY <1>2, <1>3

LEMMA FindHeadKeeps ==
  ASSUME LockedInv, NEW c \in Client, FindHead(c)
  PROVE  LockedInv'
  <1>1. call[c].at = "head" /\ Blockers(c) = {}
    BY DEF FindHead
  <1>2. CASE heads[PartOf(c)] = FreshHead
    <2>1. \A d \in Client \ {c} : ~ Holds(d, PartOf(c))
      BY <1>1, <1>2, Unblocked
    <2> QED
      BY <1>1, <1>2, <2>1, DecideKeeps DEF FindHead
  <1>3. CASE heads[PartOf(c)] # FreshHead
    <2>1. /\ UNCHANGED <<tables, txn>>
          /\ call' = [call EXCEPT ![c] = [call[c] EXCEPT !.at = "lock",
                                            !.seen = JoinedActive(heads[PartOf(c)])]]
      BY <1>3 DEF FindHead
    <2>2. /\ UNCHANGED tables /\ Moves(c) /\ txn'[c] = txn[c]
          /\ call'[c] = [call[c] EXCEPT !.at = "lock", !.seen = JoinedActive(heads[PartOf(c)])]
      BY <2>1, Changes
    <2>3. IsCall(call'[c]) /\ call'[c].at = "lock" /\ call'[c].intent = call[c].intent
      BY <2>2, Known DEF IsCall
    <2> QED
      BY <1>1, <2>2, <2>3, GoesOn DEF Begins
  <1> QED
    BY <1>2, <1>3

LEMMA LockHeadKeeps ==
  ASSUME LockedInv, NEW c \in Client, LockHead(c)
  PROVE  LockedInv'
  <1>1. call[c].at = "lock" /\ Blockers(c) = {} /\ Decide(c, call[c].seen)
    BY DEF LockHead
  <1>2. \A d \in Client \ {c} : ~ Holds(d, PartOf(c))
    BY <1>1, Unblocked
  <1> QED
    BY <1>1, <1>2, DecideKeeps

WithHead(t, x, y) == [t EXCEPT !.head = x, !.shared = y]

LEMMA HeadField ==
  ASSUME NEW t, IsTxn(t), NEW x, NEW y, NEW s, s = WithHead(t, x, y)
  PROVE  /\ IsTxn(s) /\ s.staged = t.staged /\ s.head = x /\ s.locks = t.locks
         /\ s.rows = t.rows /\ s.expired = t.expired /\ s.dead = t.dead
         /\ s.shared = y
  BY DEF IsTxn, WithHead

\* A publication id is new to the journal and to the heads others have written.
LEMMA NewPublication ==
  ASSUME NEW pub \in PublicationId, pub \notin Allocated
  PROVE  /\ ~ Leased(pub)
         /\ \A d \in Client : \A k \in txn[d].head : \A r \in k.pending : r.pub # pub
  <1>1. ~ Leased(pub)
    BY DEF Allocated, Leased
  <1>2. ASSUME NEW d \in Client, NEW k \in txn[d].head, NEW r \in k.pending
        PROVE  r.pub # pub
    <2>1. txn[d].head \in {txn[e].head : e \in Client}
      OBVIOUS
    <2>2. k \in UNION {txn[e].head : e \in Client}
      BY <2>1
    <2>3. k.pending \in {h.pending : h \in UNION {txn[e].head : e \in Client}}
      BY <2>2
    <2>4. r \in UNION {h.pending : h \in UNION {txn[e].head : e \in Client}}
      BY <2>3
    <2>5. r.pub \in {q.pub : q \in UNION {h.pending : h \in UNION {txn[e].head : e \in Client}}}
      BY <2>4
    <2> QED
      BY <2>5 DEF Allocated
  <1> QED
    BY <1>1, <1>2

LEMMA HeadOfPartition ==
  ASSUME LockedInv, NEW p \in Partition
  PROVE  IsHead(heads[p]) /\ HeadOK(heads[p])
  BY DEF LockedInv, TablesKnown, HeadsKnown

WithPending(h, x, y, q) == [h EXCEPT !.gen = x, !.slots = y, !.pending = q]

LEMMA PendingField ==
  ASSUME NEW h, NEW x, NEW y, NEW q, IsHead(h), NEW g, g = WithPending(h, x, y, q)
  PROVE  /\ IsHead(g) /\ g.status = h.status /\ g.active = h.active /\ g.token = h.token
         /\ g.gen = x /\ g.slots = y /\ g.pending = q
  BY DEF IsHead, WithPending

\* The head a begin leaves, and the one lease it grants.
LEMMA GrantedFields ==
  ASSUME LockedInv, NEW i \in Intents, NEW pub, NEW head, head = heads[i.part],
         NEW g, g = GrantedHead(head, i, pub)
  PROVE  /\ IsHead(g) /\ g.status = head.status /\ g.active = head.active
         /\ g.token = head.token /\ g.gen = head.gen + 1 /\ g.slots = i.slots
         /\ g.pending = Some(PendingOf(LeaseOf(i, pub, head.gen + 1, i.slots)))
         /\ ResumedLeases(g, i) = {LeaseOf(i, pub, head.gen + 1, i.slots)}
         /\ i.part \in Partition
  <1>1. i.part \in Partition
    BY DEF LockedInv, LockedAssumption
  <1> DEFINE q == Some([mutation |-> i.mutation, digest |-> i.digest, pub |-> pub,
                        gen |-> head.gen + 1, op |-> i.op, slots |-> i.slots])
  <1>2. /\ IsHead(g) /\ g.status = head.status /\ g.active = head.active
        /\ g.token = head.token /\ g.gen = head.gen + 1 /\ g.slots = i.slots
        /\ g.pending = q
    <2>1. g = WithPending(head, head.gen + 1, i.slots, q)
      BY DEF GrantedHead, WithPending
    <2>2. IsHead(head)
      BY <1>1, HeadOfPartition
    <2> HIDE DEF q
    <2> QED
      BY <2>1, <2>2, PendingField
  <1>3. g.pending = Some(PendingOf(LeaseOf(i, pub, head.gen + 1, i.slots)))
    BY <1>2 DEF PendingOf, LeaseOf
  <1>4. ResumedLeases(g, i) = {LeaseOf(i, pub, head.gen + 1, i.slots)}
    BY <1>3 DEF ResumedLeases, PendingOf, LeaseOf, Some
  <1> QED
    BY <1>1, <1>2, <1>3, <1>4

LEMMA AllocateKeeps ==
  ASSUME LockedInv, NEW c \in Client, Allocate(c)
  PROVE  LockedInv'
  <1> DEFINE i == IntentOf(c)
             head == heads[i.part]
  <1>1. call[c].at = "allocate" /\ Blockers(c) = {}
    BY DEF Allocate
  <1>2. /\ i \in Intents /\ PartOf(c) = i.part /\ call[c].intent = Some(i)
        /\ Beginning("allocate", txn[c], i) /\ IsTxn(txn[c]) /\ WritesSafe(c)
        /\ \A d \in Client \ {c} : Apart(c, d)
    BY <1>1, Known, ItsIntent DEF CallKnown, Some, Begins
  <1>3. CASE Fail(c)
    BY <1>1, <1>3, RollbackKeeps DEF Fail, Results
  <1>4. CASE ~ Fail(c)
    <2>1. txn[c].locks /\ head.pending = None /\ txn[c].head = None /\ txn[c].shared = {}
      BY <1>2 DEF Beginning, Grantable
    <2>2. \E m \in MutationsOf(c) : m.id = i.mutation
      BY <1>4 DEF Allocate
    <2>3. PICK pub \in PublicationId :
            /\ pub \notin Allocated
            /\ Write(c, [txn[c] EXCEPT !.head = Some(GrantedHead(head, i, pub)),
                                       !.shared = {i.mutation}], "journal")
      BY <1>4, <2>1 DEF Allocate, GrantedHead, Some
    <2>4. /\ UNCHANGED tables /\ Moves(c) /\ IsCall(call'[c])
          /\ txn'[c] = [txn[c] EXCEPT !.head = Some(GrantedHead(head, i, pub)),
                                      !.shared = {i.mutation}]
          /\ call'[c].at = "journal" /\ call'[c].intent = call[c].intent
      <3> HIDE DEF i, head
      <3> QED
        BY <2>3, Written
    <2>5. /\ IsTxn(txn'[c]) /\ txn'[c].staged = txn[c].staged
          /\ txn'[c].head = Some(GrantedHead(head, i, pub)) /\ txn'[c].locks = txn[c].locks
          /\ txn'[c].rows = txn[c].rows /\ txn'[c].expired = txn[c].expired
          /\ txn'[c].dead = txn[c].dead /\ txn'[c].shared = {i.mutation}
      <3> DEFINE x == Some(GrantedHead(head, i, pub))
                 y == {i.mutation}
      <3>1. txn'[c] = WithHead(txn[c], x, y) /\ IsTxn(txn[c])
        BY <2>4, <1>2 DEF WithHead
      <3> HIDE DEF x, y
      <3>2. /\ IsTxn(txn'[c]) /\ txn'[c].staged = txn[c].staged
            /\ txn'[c].head = x /\ txn'[c].locks = txn[c].locks
            /\ txn'[c].rows = txn[c].rows /\ txn'[c].expired = txn[c].expired
            /\ txn'[c].dead = txn[c].dead /\ txn'[c].shared = y
        BY <3>1, HeadField
      <3> QED
        BY <3>2 DEF x, y
    <2>6. /\ ~ Leased(pub)
          /\ \A d \in Client : \A k \in txn[d].head : \A r \in k.pending : r.pub # pub
      BY <2>3, NewPublication
    <2>7. Beginning("journal", txn'[c], i)
      BY <1>2, <2>5, <2>6 DEF Beginning
    <2>8. \A m \in txn'[c].staged :
            /\ \A n \in mutations : m.id # n.id
            /\ \A d \in Client \ {c} : \A n \in txn[d].staged : m.id # n.id
      BY <1>2, <2>5 DEF WritesSafe, Apart
    <2>9. /\ \E m \in mutations \cup txn'[c].staged : m.id = i.mutation
          /\ \A d \in Client \ {c} : i.mutation \notin txn[d].dead
      BY <1>1, <2>2, <2>5, Unblocked DEF MutationsOf
    <2>10. \A d \in Client \ {c} : ~ Holds(d, PartOf(c))
      BY <1>2, <2>1 DEF Apart, Holds
    <2>11. \A d \in Client \ {c} : \A h \in txn'[c].head, k \in txn[d].head :
             \A q \in h.pending, r \in k.pending : q.pub # r.pub
      <3>1. \A h \in txn'[c].head : \A q \in h.pending : q.pub = pub
        <4> DEFINE g == GrantedHead(head, i, pub)
        <4>1. g.pending = {PendingOf(LeaseOf(i, pub, head.gen + 1, i.slots))}
          BY <1>2, GrantedFields DEF Some
        <4>2. txn'[c].head = {g}
          BY <2>5 DEF Some
        <4> HIDE DEF g, head, i
        <4> QED
          BY <4>1, <4>2 DEF PendingOf, LeaseOf
      <3> QED
        BY <3>1, <2>6
    <2> HIDE DEF i, head
    <2> QED
      BY <1>1, <2>4, <2>5, <2>7, <2>8, <2>9, <2>10, <2>11, BeginStep DEF Begins, i
  <1> QED
    BY <1>3, <1>4
-----------------------------------------------------------------------------
(* What the end of a transaction changes, and what the others know of it.   *)

InHead(id, head) == head.active = Some(id) \/ \E q \in head.pending : q.mutation = id

\* A transaction that ends changes its own partition, and only under its lock;
\* what refers to a mutation afterwards did before or has it locked.
Commits(c) ==
  /\ heads' = [p \in Partition |-> heads'[p]]
  /\ \A p \in Partition \ {PartOf(c)} : heads'[p] = heads[p]
  /\ \A j : (j \in journal' <=> j \in journal) \/ j.part = PartOf(c)
  /\ txn[c].locks \/ UNCHANGED <<heads, journal>>
  /\ \A p \in Partition : \A id : InHead(id, heads'[p]) =>
       InHead(id, heads[p]) \/ id \in txn[c].shared
  /\ \A j \in journal' : \/ j.mutation \in txn[c].shared
                         \/ \E k \in journal : k.pub = j.pub /\ k.mutation = j.mutation
  /\ mutations' = MutationsOf(c)
  /\ issued \subseteq issued'
  /\ \A n \in issued' : \/ n \in issued
                        \/ \E h \in txn[c].head : \E q \in h.pending : n.pub = q.pub

LEMMA OthersCallKnown ==
  ASSUME LockedInv, NEW c \in Client, Moves(c), Commits(c), NEW d \in Client \ {c}
  PROVE  CallKnown(call[d], txn[d])'
  <1>1. call'[d] = call[d] /\ txn'[d] = txn[d] /\ issued \subseteq issued'
    BY OthersStay DEF LockedInv, Commits
  <1>2. CallKnown(call[d], txn[d]) /\ Apart(c, d)
    BY Known
  <1>3. call[d].at # "idle" /\ txn[d].locks =>
          /\ heads'[PartOf(d)] = heads[PartOf(d)]
          /\ \A j : j.part = PartOf(d) => (j \in journal' <=> j \in journal)
    BY <1>2, ItsIntent DEF Apart, Commits
  <1>4. ASSUME call[d].at \in Begins, NEW i \in call[d].intent
        PROVE  Beginning(call[d].at, txn[d], i)'
    <2>1. PartOf(d) = i.part /\ call[d].at # "idle" /\ Beginning(call[d].at, txn[d], i)
      BY <1>2, <1>4, ItsIntent DEF CallKnown, Begins, Some
    <2>2. \A pub : ~ Leased(pub) /\ txn[d].head = Some(GrantedHead(heads[i.part], i, pub))
            => ~ Leased(pub)'
      <3> SUFFICES ASSUME NEW pub, NEW n \in issued', n.pub = pub, n \notin issued,
                          txn[d].head = Some(GrantedHead(heads[i.part], i, pub))
                   PROVE  FALSE
        BY DEF Leased
      <3>1. PICK h \in txn[c].head : \E q \in h.pending : q.pub = pub
        BY DEF Commits
      <3>2. i \in Intents
        BY <1>2, <1>4 DEF CallKnown
      <3>3. PICK k \in txn[d].head : k = GrantedHead(heads[i.part], i, pub)
        BY DEF Some
      <3>4. k.pending = Some(PendingOf(LeaseOf(i, pub, heads[i.part].gen + 1, i.slots)))
        BY <3>2, <3>3, GrantedFields
      <3>5. \E r \in k.pending : r.pub = pub
        BY <3>4 DEF PendingOf, LeaseOf, Some
      <3> QED
        BY <3>1, <3>5, <1>2 DEF Apart
    <2> QED
      BY <1>1, <1>3, <2>1, <2>2 DEF Beginning
  <1>5. ASSUME call[d].at \in Ends, NEW l \in call[d].lease
        PROVE  Ending(call[d].at, txn[d], l)'
    <2>1. /\ PartOf(d) = l.intent.part /\ call[d].at # "idle" /\ l \in issued
          /\ Ending(call[d].at, txn[d], l)
      BY <1>2, <1>5, ItsIntent DEF CallKnown, Ends, Some
    <2>2. txn[d].locks =>
            /\ heads'[l.intent.part] = heads[l.intent.part]
            /\ \A status : Marked(l, status)' = Marked(l, status)
      BY <1>3, <2>1 DEF Marked
    <2> QED
      BY <1>1, <2>1, <2>2 DEF Ending, WroteInstall, WroteRetire, SupersedeMatches
  <1> QED
    BY <1>1, <1>2, <1>4, <1>5 DEF CallKnown

\* A transaction writes nothing to the head and the rows it has not locked,
\* unless it is a begin about to commit, which has.
LEMMA WritesUnderLock ==
  ASSUME LockedInv, NEW c \in Client
  PROVE  /\ ~ txn[c].locks => txn[c].head = None /\ txn[c].rows = {} /\ txn[c].expired = {}
         /\ call[c].at = "idle" => txn[c] = NoWrites
  <1>1. CASE call[c].at \notin Begins \cup Ends
    BY <1>1, Known, NoWritesFields DEF CallKnown
  <1>2. CASE call[c].at \in Begins
    <2>1. Beginning(call[c].at, txn[c], IntentOf(c))
      BY <1>2, Known, ItsIntent DEF CallKnown, Begins, Some
    <2> QED
      BY <1>2, <2>1 DEF Beginning, Begins
  <1>3. CASE call[c].at \in Ends
    <2>1. PICK l \in call[c].lease : Ending(call[c].at, txn[c], l)
      BY <1>3, Known DEF CallKnown, Some
    <2> QED
      BY <1>3, <2>1 DEF Ending, Ends
  <1> QED
    BY <1>1, <1>2, <1>3

\* What another transaction sees refers to nothing new that it has deleted.
LEMMA OthersWritesSafe ==
  ASSUME LockedInv, NEW c \in Client, Moves(c), Commits(c), NEW d \in Client \ {c}
  PROVE  WritesSafe(d)'
  <1>1. /\ call'[d] = call[d] /\ txn'[d] = txn[d] /\ issued \subseteq issued'
        /\ IntentOf(d)' = IntentOf(d) /\ PartOf(d)' = PartOf(d)
    BY OthersStay DEF LockedInv, Commits, IntentOf, PartOf
  <1>2. WritesSafe(d) /\ Apart(c, d) /\ Apart(d, c) /\ WritesSafe(c)
    BY Known
  <1>3. txn[d].locks =>
          /\ heads'[PartOf(d)] = heads[PartOf(d)]
          /\ \A j : j.part = PartOf(d) => (j \in journal' <=> j \in journal)
    <2>1. CASE call[d].at # "idle"
      BY <2>1, <1>2, ItsIntent DEF Apart, Commits
    <2>2. CASE call[d].at = "idle"
      BY <2>2, WritesUnderLock, NoWritesFields
    <2> QED
      BY <2>1, <2>2
  <1>4. ASSUME NEW id \in txn[d].dead, Referenced(id, HeadsOf(d), JournalOf(d))'
        PROVE  FALSE
    <2>1. id \notin txn[c].shared /\ ~ Referenced(id, HeadsOf(d), JournalOf(d))
      BY <1>2 DEF Apart, WritesSafe
    <2>2. ASSUME NEW p \in Partition PROVE ~ InHead(id, HeadsOf(d)'[p])
      <3>1. ~ InHead(id, HeadsOf(d)[p])
        BY <2>1 DEF Referenced, InHead
      <3>2. CASE txn[d].head # None /\ p = PartOf(d)
        BY <1>1, <3>1, <3>2 DEF HeadsOf
      <3>3. CASE ~ (txn[d].head # None /\ p = PartOf(d))
        <4>1. HeadsOf(d)[p] = heads[p] /\ HeadsOf(d)'[p] = heads'[p]
          BY <1>1, <3>3 DEF HeadsOf
        <4> QED
          BY <2>1, <3>1, <4>1 DEF Commits
      <3> QED
        BY <3>2, <3>3
    <2>3. ASSUME NEW j \in JournalOf(d)' PROVE j.mutation # id
      <3>1. \A k \in JournalOf(d) : k.mutation # id
        BY <2>1 DEF Referenced
      <3>2. CASE j \in txn[d].rows /\ j.pub \notin txn[d].expired
        BY <3>1, <3>2 DEF JournalOf
      <3>3. CASE j \in journal' /\ j.pub \notin {k.pub : k \in txn[d].rows} \cup txn[d].expired
        <4>1. CASE \E k \in journal : k.pub = j.pub /\ k.mutation = j.mutation
          BY <3>1, <3>3, <4>1 DEF JournalOf
        <4>2. CASE j.mutation \in txn[c].shared
          BY <2>1, <4>2
        <4> QED
          BY <3>3, <4>1, <4>2 DEF Commits
      <3> QED
        BY <1>1, <3>2, <3>3 DEF JournalOf
    <2> QED
      BY <1>4, <2>2, <2>3 DEF Referenced, InHead
  <1>5. \A id \in txn[d].shared : \E m \in mutations' \cup txn[d].staged : m.id = id
    BY <1>2 DEF WritesSafe, Apart, Commits, MutationsOf
  <1>6. \A m \in txn[d].staged, n \in mutations' : m.id # n.id
    BY <1>2 DEF WritesSafe, Apart, Commits, MutationsOf
  <1>7. txn[d].locks =>
          Completed(JournalOf(d), PartOf(d))' = Completed(JournalOf(d), PartOf(d))
    BY <1>1, <1>3 DEF Completed, JournalOf
  <1> QED
    BY <1>1, <1>2, <1>4, <1>5, <1>6, <1>7 DEF WritesSafe

\* The end of a transaction that leaves the tables in agreement.
LEMMA CommitStep ==
  ASSUME LockedInv, NEW c \in Client, Moves(c), Commits(c), TablesKnown',
         txn'[c] = NoWrites, Resting(call[c])'
  PROVE  LockedInv'
  <1>1. /\ call' = [d \in Client |-> call'[d]] /\ txn' = [d \in Client |-> txn'[d]]
        /\ \A d \in Client \ {c} : call'[d] = call[d] /\ txn'[d] = txn[d]
    BY OthersStay DEF LockedInv
  <1>2. CallKnown(call[c], txn[c])' /\ WritesSafe(c)'
    <2>1. CallKnown(call[c], txn[c])'
      BY DEF Resting, CallKnown, IsTxn, NoWrites, Begins, Ends
    <2>2. WritesSafe(c)'
      BY DEF WritesSafe, NoWrites, Resting, Begins, Ends
    <2> QED
      BY <2>1, <2>2
  <1>3. \A d \in Client \ {c} : CallKnown(call[d], txn[d])' /\ WritesSafe(d)'
    BY OthersCallKnown, OthersWritesSafe
  <1>4. ASSUME NEW d \in Client, NEW e \in Client, d # e PROVE Apart(d, e)'
    <2>1. CASE d = c \/ e = c
      BY <2>1 DEF Apart, NoWrites, None
    <2>2. CASE d # c /\ e # c
      <3>1. /\ call'[d] = call[d] /\ txn'[d] = txn[d]
            /\ call'[e] = call[e] /\ txn'[e] = txn[e]
        BY <2>2, <1>1
      <3>2. Apart(d, e)
        BY <1>4 DEF LockedInv
      <3> QED
        BY <3>1, <3>2 DEF Apart, PartOf, IntentOf
    <2> QED
      BY <2>1, <2>2
  <1>5. NoCircle'
    BY <1>1, NobodyWaits DEF LockedInv, Resting, Ends
  <1>6. LockedAssumption'
    BY DEF LockedInv, LockedAssumption, AtMostOne
  <1> QED
    BY <1>1, <1>2, <1>3, <1>4, <1>5, <1>6 DEF LockedInv, CallsKnown
-----------------------------------------------------------------------------
(* The end of a begin that is granted.                                      *)

\* A granted begin adds one lease, one pending publication and its row.
Grants(c, pub) ==
  LET i == IntentOf(c)
      l == LeaseOf(i, pub, heads[i.part].gen + 1, i.slots)
  IN  /\ i \in Intents /\ PartOf(c) = i.part
      /\ Grantable(heads[i.part], i) /\ ~ Leased(pub)
      /\ heads' = [p \in Partition |->
                     IF p = i.part THEN GrantedHead(heads[i.part], i, pub) ELSE heads[p]]
      /\ mutations' = mutations \cup txn[c].staged
      /\ journal' = journal \cup {RowOf(l, "pending")}
      /\ issued' = issued \cup {l}

LEMMA GrantKnown ==
  ASSUME LockedInv, NEW c \in Client, NEW pub, Grants(c, pub),
         txn[c].staged \subseteq {MutationRow(IntentOf(c))},
         \A m \in txn[c].staged, n \in mutations : m.id # n.id,
         \E m \in mutations \cup txn[c].staged : m.id = IntentOf(c).mutation
  PROVE  TablesKnown'
  <1> DEFINE i == IntentOf(c)
             p == i.part
             head == heads[p]
             g == GrantedHead(head, i, pub)
             l == LeaseOf(i, pub, head.gen + 1, i.slots)
  <1>1. /\ i \in Intents /\ p \in Partition /\ Grantable(head, i) /\ ~ Leased(pub)
        /\ heads' = [r \in Partition |-> IF r = p THEN g ELSE heads[r]]
        /\ mutations' = mutations \cup txn[c].staged
        /\ journal' = journal \cup {RowOf(l, "pending")}
        /\ issued' = issued \cup {l}
    BY DEF Grants, LockedInv, LockedAssumption
  <1>2. /\ l.intent = i /\ l.pub = pub /\ l.gen = head.gen + 1 /\ l.slots = i.slots
        /\ l = LeaseOf(l.intent, l.pub, l.gen, l.intent.slots)
    BY DEF LeaseOf
  <1>3. head.gen \in Nat /\ i.slots \in Nat /\ HeadOK(head)
    BY <1>1, HeadOfPartition DEF HeadOK, LockedInv, LockedAssumption
  <1>4. /\ IsHead(g) /\ g.status = head.status /\ g.active = head.active
        /\ g.token = head.token /\ g.gen = head.gen + 1 /\ g.slots = i.slots
        /\ g.pending = {PendingOf(l)}
    BY <1>1, GrantedFields DEF Some
  <1>5. heads'[p] = g /\ \A r \in Partition \ {p} : heads'[r] = heads[r]
    BY <1>1
  <1>6. TablesKnown
    BY DEF LockedInv
  <1> HIDE DEF i, p, head, g, l
  <1>7. LeasesDistinct'
    <2>1. ASSUME NEW m \in issued
          PROVE  /\ m.pub # l.pub
                 /\ m.intent.part = l.intent.part => m.gen # l.gen
      BY <1>1, <1>2, <1>3, <1>6 DEF TablesKnown, LeasesKnown, Leased, p, head
    <2> QED
      BY <1>1, <1>6, <2>1 DEF TablesKnown, LeasesDistinct
  <1>8. LeasesKnown'
    <2>1. ASSUME NEW m \in issued
          PROVE  m.intent \in Intents /\ m.gen \in Nat /\ m.gen <= heads'[m.intent.part].gen
                 /\ m = LeaseOf(m.intent, m.pub, m.gen, m.intent.slots)
      <3>1. m.intent \in Intents /\ m.gen \in Nat /\ m.gen <= heads[m.intent.part].gen
            /\ m = LeaseOf(m.intent, m.pub, m.gen, m.intent.slots)
        BY <1>6 DEF TablesKnown, LeasesKnown
      <3>2. m.intent.part \in Partition
        BY <3>1 DEF LockedInv, LockedAssumption
      <3> QED
        BY <1>3, <1>4, <1>5, <3>1, <3>2 DEF head
    <2>2. l.intent \in Intents /\ l.gen \in Nat /\ l.gen <= heads'[l.intent.part].gen
      BY <1>1, <1>2, <1>3, <1>4, <1>5 DEF p
    <2> QED
      BY <1>1, <1>2, <2>1, <2>2 DEF LeasesKnown
  <1>9. HeadsKnown'
    <2>1. HeadOK(g)
      BY <1>3, <1>4 DEF HeadOK, AtMostOne
    <2>2. ASSUME NEW r \in Partition
          PROVE  /\ HeadOK(heads'[r]) /\ IsHead(heads'[r])
                 /\ heads'[r].status = "revision" => \E k \in Intents :
                      k.op = "replace" /\ heads'[r].active = Some(k.mutation)
                      /\ heads'[r].token = k.token
                 /\ \A q \in heads'[r].pending : \E m \in issued' :
                      m.intent.part = r /\ m.gen = heads'[r].gen /\ q = PendingOf(m)
      <3>1. CASE r = p
        <4>1. head.status = "revision" => \E k \in Intents :
                 k.op = "replace" /\ head.active = Some(k.mutation) /\ head.token = k.token
          BY <1>1, <1>6 DEF TablesKnown, HeadsKnown, head
        <4>2. l.intent.part = p /\ l.gen = g.gen /\ l \in issued'
          BY <1>1, <1>2, <1>4 DEF p
        <4> QED
          BY <1>4, <1>5, <2>1, <3>1, <4>1, <4>2
      <3>2. CASE r # p
        BY <1>1, <1>5, <1>6, <3>2 DEF TablesKnown, HeadsKnown
      <3> QED
        BY <3>1, <3>2
    <2>3. heads' = [r \in Partition |-> heads'[r]]
      BY <1>1
    <2> QED
      BY <2>2, <2>3 DEF HeadsKnown
  <1>10. \A j \in journal : j.pub # l.pub
    <2> SUFFICES ASSUME NEW j \in journal PROVE j.pub # l.pub
      OBVIOUS
    <2>1. PICK m \in issued : j = RowOf(m, j.status)
      BY <1>6 DEF TablesKnown, JournalKnown
    <2> QED
      BY <2>1, <1>1, <1>2 DEF Leased, RowOf
  <1>11. /\ RowOf(l, "pending").pub = l.pub /\ RowOf(l, "pending").status = "pending"
         /\ RowOf(l, "pending").part = p /\ RowOf(l, "pending").gen = l.gen
         /\ RowOf(l, "pending").mutation = i.mutation
    BY <1>2 DEF RowOf, p
  <1>12. JournalKnown'
    <2>1. IsFiniteSet(journal')
      BY <1>1, <1>6, FS_AddElement DEF TablesKnown, JournalKnown
    <2> QED
      BY <1>1, <1>6, <1>10, <1>11, <2>1 DEF TablesKnown, JournalKnown
  <1>13. MutationsKnown'
    BY <1>1, <1>6 DEF TablesKnown, MutationsKnown, i
  <1>14. ReferencesResolve'
    <2>1. \E m \in mutations' : m.id = i.mutation
      BY <1>1 DEF i
    <2>2. PendingOf(l).mutation = i.mutation
      BY <1>2 DEF PendingOf
    <2>3. ASSUME NEW r \in Partition
          PROVE  /\ \A id \in heads'[r].active : \E m \in mutations' : m.id = id
                 /\ \A q \in heads'[r].pending : \E m \in mutations' : m.id = q.mutation
      <3>1. CASE r = p
        BY <1>1, <1>4, <1>5, <1>6, <2>1, <2>2, <3>1 DEF TablesKnown, ReferencesResolve, head
      <3>2. CASE r # p
        BY <1>1, <1>5, <1>6, <3>2 DEF TablesKnown, ReferencesResolve
      <3> QED
        BY <3>1, <3>2
    <2>4. \A j \in journal' : \E m \in mutations' : m.id = j.mutation
      BY <1>1, <1>6, <1>11, <2>1 DEF TablesKnown, ReferencesResolve
    <2> QED
      BY <2>3, <2>4 DEF ReferencesResolve
  <1>15. JournalMatchesHead'
    <2> DEFINE Rows(js, r) == {<<j.pub, j.mutation, j.gen>> : j \in
                                 {k \in js : k.part = r /\ k.status = "pending"}}
               Pending(h) == {<<q.pub, q.mutation, q.gen>> : q \in h.pending}
    <2>1. \A r \in Partition : Rows(journal, r) = Pending(heads[r])
      BY <1>6 DEF TablesKnown, JournalMatchesHead
    <2>2. Rows(journal', p) = Rows(journal, p) \cup {<<l.pub, i.mutation, l.gen>>}
      BY <1>1, <1>11
    <2>3. \A r \in Partition \ {p} : Rows(journal', r) = Rows(journal, r)
      BY <1>1, <1>11
    <2>4. Pending(head) = {}
      BY <1>1 DEF Grantable, None
    <2>5. Pending(g) = {<<l.pub, i.mutation, l.gen>>}
      BY <1>2, <1>4 DEF PendingOf
    <2>6. \A r \in Partition : Rows(journal', r) = Pending(heads'[r])
      BY <1>1, <1>5, <2>1, <2>2, <2>3, <2>4, <2>5 DEF head
    <2> QED
      BY <2>6 DEF JournalMatchesHead
  <1>16. HistoryBounded'
    <2>1. \A r : {j \in journal' : j.part = r /\ j.status # "pending"}
                   = {j \in journal : j.part = r /\ j.status # "pending"}
      BY <1>1, <1>11
    <2> QED
      BY <1>6, <2>1 DEF TablesKnown, HistoryBounded
  <1> QED
    BY <1>7, <1>8, <1>9, <1>12, <1>13, <1>14, <1>15, <1>16 DEF TablesKnown

WithRows(t, x) == [t EXCEPT !.rows = x]

LEMMA RowsField ==
  ASSUME NEW t, IsTxn(t), NEW x, NEW s, s = WithRows(t, x)
  PROVE  /\ IsTxn(s) /\ s.staged = t.staged /\ s.head = t.head /\ s.rows = x
         /\ s.expired = t.expired /\ s.dead = t.dead /\ s.shared = t.shared
         /\ s.locks = t.locks
  BY DEF IsTxn, WithRows

\* What the statements before the COMMIT find: the new publication, unknown to
\* the journal, and no older one that is pending.
LEMMA GrantWrites ==
  ASSUME LockedInv, NEW c \in Client, GrantLease(c)
  PROVE  \E pub \in PublicationId :
    LET i == IntentOf(c)
        l == LeaseOf(i, pub, heads[i.part].gen + 1, i.slots)
    IN  /\ i \in Intents /\ PartOf(c) = i.part /\ Beginning("journal", txn[c], i)
        /\ ~ Leased(pub) /\ txn[c].head = Some(GrantedHead(heads[i.part], i, pub))
        /\ Commit(c, WithRows(txn[c], {RowOf(l, "pending")}))
        /\ issued' = issued \cup {l}
        /\ call' = [call EXCEPT ![c].at = "Publish", ![c].lease = {l}, ![c].seen = {}]
  <1> DEFINE i == IntentOf(c)
  <1>1. /\ i \in Intents /\ PartOf(c) = i.part /\ Beginning("journal", txn[c], i)
    BY Known, ItsIntent DEF GrantLease, CallKnown, Some, Begins
  <1>2. PICK pub \in PublicationId :
          ~ Leased(pub) /\ txn[c].head = Some(GrantedHead(heads[i.part], i, pub))
    BY <1>1 DEF Beginning
  <1> DEFINE g == GrantedHead(heads[i.part], i, pub)
             l == LeaseOf(i, pub, heads[i.part].gen + 1, i.slots)
             begun == {PublicationRow(i, q) : q \in
                         {r \in g.pending : \A j \in journal : j.pub # r.pub}}
             older == {[j EXCEPT !.status = "superseded"] : j \in
                         {k \in journal : /\ k.part = i.part /\ k.gen < g.gen
                                          /\ k.status = "pending"}}
  <1>3. /\ g.pending = {PendingOf(l)} /\ ResumedLeases(g, i) = {l} /\ i.part \in Partition
    BY <1>1, GrantedFields DEF Some
  <1>4. HeadsOf(c)[i.part] = g
    BY <1>1, <1>2, <1>3 DEF HeadsOf, Some, None
  <1>5. begun = {RowOf(l, "pending")}
    <2>1. \A j \in journal : j.pub # pub
      BY <1>2 DEF LockedInv, TablesKnown, JournalKnown, Leased, RowOf
    <2>2. /\ PendingOf(l).pub = pub
          /\ PublicationRow(i, PendingOf(l)) = RowOf(l, "pending")
      BY DEF PendingOf, LeaseOf, PublicationRow, RowOf
    <2> HIDE DEF g, l, i
    <2> QED
      BY <1>3, <2>1, <2>2
  <1>6. older = {}
    <2>1. heads[i.part].pending = {}
      BY <1>1 DEF Beginning, Grantable, None
    <2>2. \A k \in journal : ~ (k.part = i.part /\ k.status = "pending")
      <3>1. {<<j.pub, j.mutation, j.gen>> : j \in
               {k \in journal : k.part = i.part /\ k.status = "pending"}} = {}
        BY <2>1, <1>3 DEF LockedInv, TablesKnown, JournalMatchesHead
      <3> QED
        BY <3>1
    <2> QED
      BY <2>2
  <1>7. /\ Commit(c, [txn[c] EXCEPT !.rows = begun \cup older])
        /\ issued' = issued \cup ResumedLeases(g, i)
        /\ call' = [call EXCEPT ![c].at = "Publish", ![c].lease = ResumedLeases(g, i),
                                ![c].seen = {}]
    <2> HIDE DEF g
    <2> QED
      BY <1>4 DEF GrantLease
  <1>8. Commit(c, WithRows(txn[c], {RowOf(l, "pending")}))
    <2> HIDE DEF g, l, i, begun, older
    <2> QED
      BY <1>5, <1>6, <1>7 DEF WithRows
  <1>9. /\ issued' = issued \cup {l}
        /\ call' = [call EXCEPT ![c].at = "Publish", ![c].lease = {l}, ![c].seen = {}]
    <2> HIDE DEF g, l, i
    <2> QED
      BY <1>3, <1>7
  <1> QED
    BY <1>1, <1>2, <1>8, <1>9

LEMMA GrantLeaseKeeps ==
  ASSUME LockedInv, NEW c \in Client, GrantLease(c)
  PROVE  LockedInv'
  <1> DEFINE i == IntentOf(c)
             head == heads[i.part]
  <1>1. PICK pub \in PublicationId :
          LET l == LeaseOf(i, pub, head.gen + 1, i.slots)
          IN  /\ i \in Intents /\ PartOf(c) = i.part /\ Beginning("journal", txn[c], i)
              /\ ~ Leased(pub) /\ txn[c].head = Some(GrantedHead(head, i, pub))
              /\ Commit(c, WithRows(txn[c], {RowOf(l, "pending")}))
              /\ issued' = issued \cup {l}
              /\ call' = [call EXCEPT ![c].at = "Publish", ![c].lease = {l}, ![c].seen = {}]
    BY GrantWrites
  <1> DEFINE l == LeaseOf(i, pub, head.gen + 1, i.slots)
             g == GrantedHead(head, i, pub)
             w == WithRows(txn[c], {RowOf(l, "pending")})
  <1>3. /\ txn[c].rows = {} /\ txn[c].expired = {} /\ txn[c].dead = {} /\ txn[c].locks
        /\ txn[c].shared = {i.mutation} /\ txn[c].staged \subseteq {MutationRow(i)}
        /\ Grantable(head, i) /\ txn[c].head = {g}
    BY <1>1 DEF Beginning, Some
  <1>4. /\ w.staged = txn[c].staged /\ w.head = {g} /\ w.rows = {RowOf(l, "pending")}
        /\ w.expired = {} /\ w.dead = {}
    <2>1. IsTxn(txn[c])
      BY Known
    <2> HIDE DEF l, g, i, head
    <2> QED
      BY <2>1, <1>3, RowsField
  <1>5. /\ g.active = head.active /\ g.pending = {PendingOf(l)} /\ i.part \in Partition
    BY <1>1, GrantedFields DEF Some
  <1>6. RowOf(l, "pending").pub = pub /\ RowOf(l, "pending").mutation = i.mutation
        /\ RowOf(l, "pending").part = i.part
        /\ PendingOf(l).pub = pub /\ PendingOf(l).mutation = i.mutation /\ l.pub = pub
    BY DEF RowOf, LeaseOf, PendingOf
  <1>7. /\ heads' = [p \in Partition |-> IF p = i.part THEN g ELSE heads[p]]
        /\ mutations' = mutations \cup txn[c].staged
        /\ journal' = journal \cup {RowOf(l, "pending")}
        /\ txn' = [txn EXCEPT ![c] = NoWrites]
    <2>1. \A j \in journal : j.pub # pub
      BY <1>1 DEF LockedInv, TablesKnown, JournalKnown, Leased, RowOf
    <2>2. Commit(c, w) /\ PartOf(c) = i.part
      BY <1>1
    <2> HIDE DEF w, l, g, i, head
    <2> QED
      BY <1>4, <1>6, <2>1, <2>2 DEF Commit, None
  <1>8. Grants(c, pub)
    BY <1>1, <1>3, <1>7 DEF Grants
  <1>9. TablesKnown'
    <2>1. WritesSafe(c)
      BY Known
    <2> HIDE DEF l, g, head
    <2> QED
      BY <1>3, <1>8, <2>1, GrantKnown DEF WritesSafe
  <1>10. Commits(c)
    <2>1. /\ heads' = [p \in Partition |-> heads'[p]]
          /\ \A p \in Partition \ {i.part} : heads'[p] = heads[p]
          /\ heads'[i.part] = g
      BY <1>5, <1>7
    <2>2. \A j : (j \in journal' <=> j \in journal) \/ j.part = PartOf(c)
      BY <1>1, <1>6, <1>7
    <2>3. ASSUME NEW p \in Partition, NEW id, InHead(id, heads'[p])
          PROVE  InHead(id, heads[p]) \/ id \in txn[c].shared
      <3> HIDE DEF g, l
      <3>1. CASE p = i.part
        BY <2>1, <2>3, <3>1, <1>3, <1>5, <1>6 DEF InHead
      <3>2. CASE p # i.part
        BY <2>1, <2>3, <3>2
      <3> QED
        BY <3>1, <3>2
    <2>4. \A j \in journal' : \/ j.mutation \in txn[c].shared
                              \/ \E k \in journal : k.pub = j.pub /\ k.mutation = j.mutation
      BY <1>3, <1>6, <1>7
    <2>5. mutations' = MutationsOf(c)
      BY <1>3, <1>7 DEF MutationsOf
    <2>6. \A n \in issued' : n \in issued \/ \E h \in txn[c].head : \E q \in h.pending : n.pub = q.pub
      <3> HIDE DEF g, l
      <3> QED
        BY <1>1, <1>3, <1>5, <1>6 DEF l
    <2> QED
      BY <1>1, <1>3, <2>1, <2>2, <2>3, <2>4, <2>5, <2>6 DEF Commits
  <1>11. Moves(c) /\ txn'[c] = NoWrites
         /\ call'[c] = [call[c] EXCEPT !.at = "Publish", !.lease = {l}, !.seen = {}]
    <2>1. call' = [call EXCEPT ![c] = [call[c] EXCEPT !.at = "Publish", !.lease = {l},
                                                      !.seen = {}]]
      BY <1>1
    <2> DEFINE a == [call[c] EXCEPT !.at = "Publish", !.lease = {l}, !.seen = {}]
    <2>2. call' = [call EXCEPT ![c] = a]
      BY <2>1
    <2> HIDE DEF a
    <2>3. Moves(c) /\ txn'[c] = NoWrites /\ call'[c] = a
      BY <1>7, <2>2, Changes
    <2> QED
      BY <2>3 DEF a
  <1>12. Resting(call[c])'
    <2>1. /\ IsCall(call'[c]) /\ call'[c].at = "Publish" /\ call'[c].intent = call[c].intent
      <3> HIDE DEF l
      <3> QED
        BY <1>11, Known DEF IsCall
    <2>2. call[c].intent \subseteq Intents /\ call[c].intent = Some(i)
      BY Known, ItsIntent DEF CallKnown, GrantLease
    <2> QED
      BY <2>1, <2>2 DEF Resting, Begins, Ends, Some
  <1> HIDE DEF i, head, l, g, w
  <1> QED
    BY <1>9, <1>10, <1>11, <1>12, CommitStep
-----------------------------------------------------------------------------
(* The statements of a finalisation and of a retirement.                    *)

\* The lease of a call that ends a publication.
LEMMA ItsLease ==
  ASSUME LockedInv, NEW c \in Client, call[c].at \in {"install", "confirm", "clear"} \cup Ends
  PROVE  \E l \in issued :
           /\ call[c].lease = Some(l) /\ call[c].intent = Some(l.intent)
           /\ IntentOf(c) = l.intent /\ PartOf(c) = l.intent.part
           /\ l.intent \in Intents /\ l.intent.part \in Partition
           /\ call[c].at \in Ends => Ending(call[c].at, txn[c], l)
           /\ call[c].at \notin Ends => txn[c] = NoWrites
  <1>1. PICK l \in issued : call[c].lease = Some(l) /\ call[c].intent = Some(l.intent)
    BY Known DEF CallKnown
  <1>2. IntentOf(c) = l.intent /\ PartOf(c) = l.intent.part
    BY <1>1 DEF IntentOf, PartOf, Some
  <1>3. l.intent \in Intents /\ l.intent.part \in Partition
    BY DEF LockedInv, LockedAssumption, TablesKnown, LeasesKnown
  <1>4. call[c].at \in Ends => Ending(call[c].at, txn[c], l)
    BY <1>1, Known DEF CallKnown, Some
  <1>5. call[c].at \notin Ends => txn[c] = NoWrites
    BY Known DEF CallKnown, Begins, Ends
  <1> QED
    BY <1>1, <1>2, <1>3, <1>4, <1>5

\* What an ending writes to a head leaves nothing pending.
LEMMA EndedFields ==
  ASSUME LockedInv, NEW p \in Partition, NEW i \in Intents, NEW g,
         g = InstalledHead(heads[p], i) \/ g = RetiredHead(heads[p])
  PROVE  /\ IsHead(g) /\ HeadOK(g) /\ g.pending = {}
         /\ g.gen = heads[p].gen /\ g.slots = heads[p].slots
         /\ \/ /\ g = InstalledHead(heads[p], i) /\ g.active = {i.mutation}
               /\ g.token = i.token /\ (g.status = "revision" <=> i.op = "replace")
            \/ /\ g = RetiredHead(heads[p]) /\ g.active = heads[p].active
               /\ g.token = heads[p].token /\ g.status = heads[p].status
  <1>1. IsHead(heads[p]) /\ HeadOK(heads[p])
    BY HeadOfPartition
  <1>2. CASE g = InstalledHead(heads[p], i)
    <2>1. /\ IsHead(g) /\ g.pending = {} /\ g.gen = heads[p].gen /\ g.slots = heads[p].slots
          /\ g.status = (IF i.op = "replace" THEN "revision" ELSE "deleted")
          /\ g.active = {i.mutation} /\ g.token = i.token
      BY <1>1, <1>2 DEF InstalledHead, IsHead, Some, None
    <2>2. HeadOK(g)
      BY <1>1, <2>1 DEF HeadOK, AtMostOne, None, LockedInv, LockedAssumption
    <2> QED
      BY <1>2, <2>1, <2>2
  <1>3. CASE g = RetiredHead(heads[p])
    <2>1. /\ IsHead(g) /\ g.pending = {} /\ g.gen = heads[p].gen /\ g.slots = heads[p].slots
          /\ g.status = heads[p].status
          /\ g.active = heads[p].active /\ g.token = heads[p].token
      BY <1>1, <1>3 DEF RetiredHead, IsHead, None
    <2>2. HeadOK(g)
      BY <1>1, <2>1 DEF HeadOK, AtMostOne, None
    <2> QED
      BY <1>3, <2>1, <2>2
  <1> QED
    BY <1>2, <1>3

LEMMA EndStep ==
  ASSUME LockedInv, NEW c \in Client, UNCHANGED tables, Moves(c),
         IsCall(call'[c]), IsTxn(txn'[c]), call'[c].at \in Ends,
         call'[c].intent = call[c].intent, call'[c].lease = call[c].lease,
         NEW l \in issued, call[c].lease = Some(l), call[c].intent = Some(l.intent),
         Ending(call'[c].at, txn'[c], l), WritesSafe(c)',
         \A id \in txn'[c].shared : \A d \in Client \ {c} : id \notin txn[d].dead,
         \A id \in txn'[c].dead : \A d \in Client \ {c} : id \notin txn[d].shared,
         txn'[c].locks => \A d \in Client \ {c} : ~ Holds(d, l.intent.part),
         call'[c].at # "delete" \/ NoCircle'
  PROVE  LockedInv'
  <1>1. l.intent \in Intents /\ l.intent.part \in Partition
    BY DEF LockedInv, LockedAssumption, TablesKnown, LeasesKnown
  <1>2. Ending(call[c].at, txn[c], l)'
    BY DEF tables, Ending, WroteInstall, WroteRetire, SupersedeMatches, Marked
  <1>3. CallKnown(call[c], txn[c])'
    BY <1>1, <1>2 DEF CallKnown, Begins, Ends, Some, tables
  <1>4. \A d \in Client \ {c} :
          txn'[d] = txn[d] /\ call'[d] = call[d] /\ PartOf(d)' = PartOf(d)
    BY OthersStay DEF LockedInv, PartOf, IntentOf
  <1>5. PartOf(c)' = l.intent.part
    BY DEF PartOf, IntentOf, Some
  <1>6. \A h \in txn'[c].head : h.pending = {}
    <2> SUFFICES ASSUME NEW h \in txn'[c].head PROVE h.pending = {}
      OBVIOUS
    <2>1. h = InstalledHead(heads[l.intent.part], l.intent) \/ h = RetiredHead(heads[l.intent.part])
      BY DEF Ending, WroteInstall, WroteRetire, Some, None
    <2> QED
      BY <1>1, <2>1, EndedFields
  <1>7. ASSUME NEW d \in Client \ {c} PROVE Apart(c, d)' /\ Apart(d, c)'
    <2>1. txn'[c].staged = {}
      BY DEF Ending
    <2> QED
      BY <1>4, <1>5, <1>6, <2>1 DEF Apart, Holds
  <1> QED
    BY <1>3, <1>7, NothingIssued, LocalStep

\* What a head refers to is deleted by nobody who does not hold its lock.
LEMMA Undeleted ==
  ASSUME LockedInv, NEW d \in Client, NEW p \in Partition, ~ Holds(d, p),
         NEW id, InHead(id, heads[p])
  PROVE  id \notin txn[d].dead
  <1>1. HeadsOf(d)[p] = heads[p]
    BY WritesUnderLock DEF Holds, HeadsOf, None
  <1>2. Referenced(id, HeadsOf(d), JournalOf(d))
    BY <1>1 DEF Referenced, InHead
  <1> QED
    BY <1>2, Known DEF WritesSafe

\* The pending publication and its row name the same lease.
LEMMA PendingRow ==
  ASSUME LockedInv, NEW l \in issued, NEW p, p = l.intent.part
  PROVE  /\ p \in Partition
         /\ \A q \in heads[p].pending : q.pub = l.pub =>
              q.gen = l.gen /\ q.mutation = l.intent.mutation /\ q.digest = l.intent.digest
         /\ \A j \in journal : j.pub = l.pub =>
              j.gen = l.gen /\ j.part = p /\ j.mutation = l.intent.mutation
         /\ SupersedeMatches(l) <=> \E k \in journal : k.pub = l.pub /\ k.status = "pending"
  <1>1. p \in Partition
    BY DEF LockedInv, LockedAssumption, TablesKnown, LeasesKnown
  <1>2. ASSUME NEW q \in heads[p].pending, q.pub = l.pub
        PROVE  q.gen = l.gen /\ q.mutation = l.intent.mutation /\ q.digest = l.intent.digest
    <2>1. PICK m \in issued : m.intent.part = p /\ q = PendingOf(m)
      BY <1>1, <1>2, PendingLeased
    <2>2. q.pub = m.pub /\ q.gen = m.gen /\ q.mutation = m.intent.mutation
          /\ q.digest = m.intent.digest
      BY <2>1 DEF PendingOf
    <2> QED
      BY <1>2, <2>2 DEF LockedInv, TablesKnown, LeasesDistinct
  <1>3. ASSUME NEW j \in journal, j.pub = l.pub
        PROVE  j.gen = l.gen /\ j.part = p /\ j.mutation = l.intent.mutation
    <2>1. PICK m \in issued : j = RowOf(m, j.status)
      BY DEF LockedInv, TablesKnown, JournalKnown
    <2>2. j.pub = m.pub /\ j.gen = m.gen /\ j.part = m.intent.part
          /\ j.mutation = m.intent.mutation
      BY <2>1 DEF RowOf
    <2> QED
      BY <1>3, <2>2 DEF LockedInv, TablesKnown, LeasesDistinct
  <1> DEFINE Rows == {<<j.pub, j.mutation, j.gen>> : j \in
                        {k \in journal : k.part = p /\ k.status = "pending"}}
             Pending == {<<q.pub, q.mutation, q.gen>> : q \in heads[p].pending}
  <1>4. Rows = Pending
    BY <1>1 DEF LockedInv, TablesKnown, JournalMatchesHead
  <1>5. ASSUME NEW q \in heads[p].pending, q.pub = l.pub
        PROVE  \E k \in journal : k.pub = l.pub /\ k.status = "pending"
    <2>1. <<q.pub, q.mutation, q.gen>> \in Pending
      OBVIOUS
    <2>2. <<q.pub, q.mutation, q.gen>> \in Rows
      BY <1>4, <2>1
    <2> QED
      BY <1>5, <2>2
  <1>6. ASSUME NEW k \in journal, k.pub = l.pub, k.status = "pending"
        PROVE  \E q \in heads[p].pending : q.pub = l.pub /\ q.gen = l.gen
    <2>1. <<k.pub, k.mutation, k.gen>> \in Rows
      BY <1>3, <1>6
    <2>2. <<k.pub, k.mutation, k.gen>> \in Pending
      BY <1>4, <2>1
    <2> QED
      BY <1>3, <1>6, <2>2
  <1> QED
    BY <1>1, <1>2, <1>3, <1>5, <1>6 DEF SupersedeMatches

\* Marking the row of a publication changes its status.
LEMMA MarkedRow ==
  ASSUME LockedInv, NEW l \in issued, NEW status
  PROVE  /\ \A k \in journal : k.pub = l.pub => k = RowOf(l, k.status)
         /\ Marked(l, status) = IF \E k \in journal : k.pub = l.pub
                                THEN {RowOf(l, status)} ELSE {}
  <1>1. ASSUME NEW k \in journal, k.pub = l.pub
        PROVE  /\ k = RowOf(l, k.status) /\ k.part = l.intent.part
               /\ [k EXCEPT !.status = status] = RowOf(l, status)
    <2>1. PICK m \in issued : k = RowOf(m, k.status)
      BY DEF LockedInv, TablesKnown, JournalKnown
    <2>2. m.pub = l.pub
      BY <1>1, <2>1 DEF RowOf
    <2>3. /\ m.gen = l.gen /\ m.intent.part = l.intent.part
          /\ m.intent.mutation = l.intent.mutation
      BY <2>2 DEF LockedInv, TablesKnown, LeasesDistinct
    <2>4. m.slots = m.intent.slots /\ l.slots = l.intent.slots
          /\ m.intent \in Intents /\ l.intent \in Intents
      BY DEF LockedInv, TablesKnown, LeasesKnown, LeaseOf
    <2>5. m.slots = l.slots
      BY <2>3, <2>4 DEF LockedInv, LockedAssumption
    <2> QED
      BY <2>1, <2>2, <2>3, <2>5 DEF RowOf
  <1>2. \A j, k \in journal : j.pub = k.pub => j = k
    BY DEF LockedInv, TablesKnown, JournalKnown
  <1>3. CASE \E k \in journal : k.pub = l.pub
    <2>1. PICK k \in journal : k.pub = l.pub
      BY <1>3
    <2>2. {j \in journal : j.pub = l.pub /\ j.part = l.intent.part} = {k}
      BY <1>1, <1>2, <2>1
    <2>3. Marked(l, status) = {[k EXCEPT !.status = status]}
      BY <2>2 DEF Marked
    <2> QED
      BY <1>1, <1>3, <2>1, <2>3
  <1>4. CASE ~ \E k \in journal : k.pub = l.pub
    BY <1>4 DEF Marked
  <1> QED
    BY <1>1, <1>3, <1>4

Installing(t, shared, rows, head) ==
  [t EXCEPT !.locks = TRUE, !.shared = shared, !.rows = rows, !.head = head]
Clearing(t, rows, head) == [t EXCEPT !.locks = TRUE, !.rows = rows, !.head = head]

LEMMA InstallingFields ==
  ASSUME NEW t, IsTxn(t), NEW x, NEW y, NEW z, NEW s, s = Installing(t, x, y, z)
  PROVE  /\ IsTxn(s) /\ s.staged = t.staged /\ s.head = z /\ s.locks
         /\ s.rows = y /\ s.expired = t.expired /\ s.dead = t.dead /\ s.shared = x
  BY DEF IsTxn, Installing

LEMMA ClearingFields ==
  ASSUME NEW t, IsTxn(t), NEW y, NEW z, NEW s, s = Clearing(t, y, z)
  PROVE  /\ IsTxn(s) /\ s.staged = t.staged /\ s.head = z /\ s.locks
         /\ s.rows = y /\ s.expired = t.expired /\ s.dead = t.dead /\ s.shared = t.shared
  BY DEF IsTxn, Clearing

\* An UPDATE of the head under its lock goes on to the history.
LEMMA LockedEnding ==
  ASSUME LockedInv, NEW c \in Client, NEW l \in issued,
         call[c].lease = Some(l), call[c].intent = Some(l.intent), txn[c] = NoWrites,
         NEW t, Write(c, t, "expire"), SupersedeMatches(l),
         \A d \in Client \ {c} : ~ Holds(d, l.intent.part),
         IsTxn(t) /\ t.staged = {} /\ t.locks /\ t.expired = {} /\ t.dead = {},
         WroteInstall(t, l) \/ WroteRetire(t, l)
  PROVE  LockedInv'
  <1>1. /\ UNCHANGED tables /\ Moves(c) /\ txn'[c] = t /\ IsCall(call'[c])
        /\ call'[c].at = "expire" /\ call'[c].intent = call[c].intent
        /\ call'[c].lease = call[c].lease
    BY Written
  <1>2. Ending("expire", t, l)
    BY DEF Ending
  <1>3. PICK q \in heads[l.intent.part].pending : q.pub = l.pub /\ q.gen = l.gen
    BY DEF SupersedeMatches
  <1>4. l.intent.part \in Partition /\ q.mutation = l.intent.mutation
    BY <1>3, PendingRow
  <1>5. t.shared \subseteq {l.intent.mutation}
    BY DEF WroteInstall, WroteRetire
  <1>6. \E m \in mutations : m.id = l.intent.mutation
    BY <1>4 DEF LockedInv, TablesKnown, ReferencesResolve
  <1>7. \A id \in t.shared : \A d \in Client \ {c} : id \notin txn[d].dead
    BY <1>4, <1>5, Undeleted DEF InHead
  <1>8. WritesSafe(c)'
    BY <1>1, <1>5, <1>6 DEF WritesSafe, tables
  <1> QED
    BY <1>1, <1>2, <1>7, <1>8, EndStep DEF Ends

LEMMA InstallKeeps ==
  ASSUME LockedInv, NEW c \in Client, Install(c)
  PROVE  LockedInv'
  <1>1. call[c].at = "install" /\ Blockers(c) = {}
    BY DEF Install
  <1>2. PICK l \in issued :
          /\ call[c].lease = Some(l) /\ call[c].intent = Some(l.intent)
          /\ IntentOf(c) = l.intent /\ PartOf(c) = l.intent.part
          /\ l.intent \in Intents /\ l.intent.part \in Partition
          /\ txn[c] = NoWrites
    BY <1>1, ItsLease DEF Ends
  <1>3. CASE FinalizeMatches(l)
    <2>1. SupersedeMatches(l)
      BY <1>3 DEF FinalizeMatches, SupersedeMatches
    <2>2. \A d \in Client \ {c} : ~ Holds(d, l.intent.part)
      BY <1>1, <1>2, <1>3 DEF Blockers, Some
    <2> DEFINE x == {l.intent.mutation}
               y == Marked(l, "committed")
               z == Some(InstalledHead(heads[l.intent.part], l.intent))
    <2>3. PICK t : t = Installing(txn[c], x, y, z)
      OBVIOUS
    <2>4. Write(c, t, "expire")
      BY <1>2, <1>3, <2>3 DEF Install, Installing, InstalledHead, Some
    <2>5. /\ IsTxn(t) /\ t.staged = {} /\ t.locks /\ t.expired = {}
          /\ t.dead = {} /\ t.head = z /\ t.rows = y /\ t.shared = x
      <3>1. IsTxn(txn[c]) /\ txn[c].staged = {} /\ txn[c].expired = {} /\ txn[c].dead = {}
        BY <1>2, NoWritesFields
      <3> HIDE DEF x, y, z
      <3> QED
        BY <2>3, <3>1, InstallingFields
    <2>6. WroteInstall(t, l)
      BY <2>5 DEF WroteInstall
    <2> QED
      BY <1>2, <2>1, <2>2, <2>4, <2>5, <2>6, LockedEnding
  <1>4. CASE ~ FinalizeMatches(l)
    <2>1. UNCHANGED tables /\ UNCHANGED txn
          /\ call' = [call EXCEPT ![c] = [call[c] EXCEPT !.at = "confirm"]]
      BY <1>2, <1>4 DEF Install, Goto, Some
    <2>2. Moves(c) /\ txn'[c] = NoWrites /\ call'[c] = [call[c] EXCEPT !.at = "confirm"]
      BY <1>2, <2>1, Changes
    <2>3. /\ IsCall(call'[c]) /\ call'[c].at = "confirm"
          /\ call'[c].intent = call[c].intent /\ call'[c].lease = call[c].lease
      BY <2>2, Known DEF IsCall
    <2>4. Resting(call[c])'
      BY <1>2, <2>1, <2>3 DEF Resting, Begins, Ends, Some, tables
    <2> QED
      BY <2>1, <2>2, <2>4, NothingIssued, RestStep
  <1> QED
    BY <1>3, <1>4

LEMMA ConfirmKeeps ==
  ASSUME LockedInv, NEW c \in Client, ConfirmFinalized(c)
  PROVE  LockedInv'
  <1>1. call[c].at = "confirm" /\ (Rollback(c, "Finalized") \/ Rollback(c, "Superseded"))
    BY DEF ConfirmFinalized
  <1> QED
    BY <1>1, RollbackKeeps DEF Results

LEMMA ClearKeeps ==
  ASSUME LockedInv, NEW c \in Client, Clear(c)
  PROVE  LockedInv'
  <1>1. call[c].at = "clear" /\ Blockers(c) = {}
    BY DEF Clear
  <1>2. PICK l \in issued :
          /\ call[c].lease = Some(l) /\ call[c].intent = Some(l.intent)
          /\ IntentOf(c) = l.intent /\ PartOf(c) = l.intent.part
          /\ l.intent \in Intents /\ l.intent.part \in Partition
          /\ txn[c] = NoWrites
    BY <1>1, ItsLease DEF Ends
  <1> DEFINE rows == {j \in Marked(l, "superseded") :
                        \E k \in journal : k.pub = j.pub /\ k.status = "pending"}
  <1>3. SupersedeMatches(l) <=> \E k \in journal : k.pub = l.pub /\ k.status = "pending"
    BY PendingRow
  <1>4. \A j \in Marked(l, "superseded") : j.pub = l.pub
    BY MarkedRow DEF RowOf
  <1>5. CASE SupersedeMatches(l)
    <2>1. rows = Marked(l, "superseded")
      BY <1>3, <1>4, <1>5
    <2>2. \A d \in Client \ {c} : ~ Holds(d, l.intent.part)
      BY <1>1, <1>2, <1>5 DEF Blockers, Some
    <2> DEFINE y == Marked(l, "superseded")
               z == Some(RetiredHead(heads[l.intent.part]))
    <2>3. PICK t : t = Clearing(txn[c], y, z)
      OBVIOUS
    <2>4. Write(c, t, "expire")
      <3>1. Write(c, [txn[c] EXCEPT !.locks = TRUE, !.rows = rows,
                  !.head = Some([heads[l.intent.part] EXCEPT !.pending = None])], "expire")
        BY <1>2, <1>5 DEF Clear, Some
      <3> HIDE DEF rows
      <3> QED
        BY <2>1, <2>3, <3>1 DEF Clearing, RetiredHead
    <2>5. /\ IsTxn(t) /\ t.staged = {} /\ t.locks /\ t.expired = {}
          /\ t.dead = {} /\ t.head = z /\ t.rows = y /\ t.shared = {}
      <3>1. IsTxn(txn[c]) /\ txn[c].staged = {} /\ txn[c].expired = {} /\ txn[c].dead = {}
            /\ txn[c].shared = {}
        BY <1>2, NoWritesFields
      <3> HIDE DEF y, z
      <3> QED
        BY <2>3, <3>1, ClearingFields
    <2>6. WroteRetire(t, l)
      BY <2>5 DEF WroteRetire
    <2> QED
      BY <1>2, <1>5, <2>2, <2>4, <2>5, <2>6, LockedEnding
  <1>6. CASE ~ SupersedeMatches(l)
    <2>1. rows = {}
      BY <1>3, <1>4, <1>6
    <2>2. Write(c, WithRows(txn[c], {}), "expire")
      <3>1. Write(c, [txn[c] EXCEPT !.rows = rows], "expire")
        BY <1>2, <1>6 DEF Clear, Some
      <3> HIDE DEF rows
      <3> QED
        BY <2>1, <3>1 DEF WithRows
    <2>3. WithRows(txn[c], {}) = NoWrites
      <3>1. PICK s : s = WithRows(NoWrites, {})
        OBVIOUS
      <3>2. /\ IsTxn(s) /\ s.staged = {} /\ s.head = None /\ s.rows = {} /\ s.expired = {}
            /\ s.dead = {} /\ s.shared = {} /\ s.locks = FALSE
        BY <3>1, NoWritesFields, RowsField
      <3>3. s = NoWrites
        BY <3>2 DEF IsTxn, NoWrites
      <3> QED
        BY <1>2, <3>1, <3>3
    <2>4. /\ UNCHANGED tables /\ Moves(c) /\ txn'[c] = NoWrites /\ IsCall(call'[c])
          /\ call'[c].at = "expire" /\ call'[c].intent = call[c].intent
          /\ call'[c].lease = call[c].lease
      BY <2>2, <2>3, Written
    <2>5. Ending("expire", NoWrites, l)
      BY NoWritesFields DEF Ending
    <2>6. WritesSafe(c)'
      BY <2>4, NoWritesFields DEF WritesSafe
    <2> QED
      BY <1>2, <2>4, <2>5, <2>6, NoWritesFields, EndStep DEF Ends
  <1> QED
    BY <1>5, <1>6

\* The rows that a finalisation or a retirement sees are those that are stored,
\* with its own publication completed and the expired ones gone.
LEMMA SeenJournal ==
  ASSUME LockedInv, NEW c \in Client, NEW l \in issued, Ending(call[c].at, txn[c], l),
         NEW rows, rows = JournalOf(c)
  PROVE  /\ IsFiniteSet(rows)
         /\ \A j, k \in rows : j.pub = k.pub => j = k
         /\ \A j \in rows : \E m \in issued : j = RowOf(m, j.status)
         /\ \A j : j.part # l.intent.part => (j \in rows <=> j \in journal)
         /\ \A j \in rows : \E k \in journal : k.pub = j.pub /\ k.mutation = j.mutation
         /\ txn[c].locks => \A j \in rows : j.part = l.intent.part => j.status # "pending"
         /\ ~ txn[c].locks => rows = journal
  <1> DEFINE p == l.intent.part
             t == txn[c]
  <1>1. /\ IsFiniteSet(journal)
        /\ \A j, k \in journal : j.pub = k.pub => j = k
        /\ \A j \in journal : \E m \in issued : j = RowOf(m, j.status)
    BY DEF LockedInv, TablesKnown, JournalKnown
  <1>2. CASE ~ t.locks
    <2>1. t.rows = {} /\ t.expired = {}
      BY <1>2 DEF Ending
    <2>2. rows = journal
      BY <2>1 DEF JournalOf
    <2> QED
      BY <1>1, <1>2, <2>2
  <1>3. CASE t.locks
    <2>1. PICK status \in {"committed", "superseded"} : t.rows = Marked(l, status)
      BY <1>3 DEF Ending, WroteInstall, WroteRetire
    <2>2. PICK k \in journal : k.pub = l.pub /\ k.status = "pending"
      BY <1>3, PendingRow DEF Ending
    <2> DEFINE row == RowOf(l, status)
    <2>3. t.rows = {row} /\ k = RowOf(l, k.status)
      BY <2>1, <2>2, MarkedRow
    <2>4. row.pub = l.pub /\ row.status = status /\ row.part = p /\ k.part = p
          /\ row.mutation = k.mutation /\ row = RowOf(l, row.status)
      BY <2>3 DEF RowOf
    <2>5. rows = {j \in journal : j.pub # l.pub /\ j.pub \notin t.expired}
                   \cup {j \in {row} : j.pub \notin t.expired}
      <3> HIDE DEF row
      <3> QED
        BY <2>3, <2>4 DEF JournalOf
    <2> HIDE DEF row, t, p
    <2>6. IsFiniteSet(rows)
      <3>1. IsFiniteSet(journal \cup {row})
        BY <1>1, FS_AddElement
      <3>2. rows \subseteq journal \cup {row}
        BY <2>5
      <3> QED
        BY <3>1, <3>2, FS_Subset
    <2>7. \A j, m \in rows : j.pub = m.pub => j = m
      BY <1>1, <2>4, <2>5
    <2>8. \A j \in rows : \E m \in issued : j = RowOf(m, j.status)
      BY <1>1, <2>4, <2>5
    <2>9. ASSUME NEW j, j.part # p PROVE j \in rows <=> j \in journal
      <3>1. j \in journal => j.pub # l.pub
        BY <1>1, <2>2, <2>4, <2>9
      <3>2. j \in journal => j.pub \notin t.expired
        <4> SUFFICES ASSUME j \in journal, j.pub \in t.expired PROVE FALSE
          OBVIOUS
        <4>1. PICK m \in issued : m.pub = j.pub /\ m.intent.part = p
          BY DEF Ending, t, p
        <4> QED
          BY <4>1, <2>9, PendingRow
      <3> QED
        BY <2>4, <2>5, <2>9, <3>1, <3>2
    <2>10. \A j \in rows : \E m \in journal : m.pub = j.pub /\ m.mutation = j.mutation
      BY <2>2, <2>4, <2>5
    <2>11. ASSUME NEW j \in rows, j.part = p, j.status = "pending" PROVE FALSE
      <3>1. j \in journal /\ j.pub # l.pub
        BY <2>4, <2>5, <2>11
      <3>2. PICK m \in issued : j = RowOf(m, j.status)
        BY <2>8
      <3>3. m.pub = j.pub /\ m.intent.part = p
        BY <3>2, <2>11 DEF RowOf
      <3>4. SupersedeMatches(m)
        BY <2>11, <3>1, <3>3, PendingRow
      <3>5. PICK q \in heads[p].pending : q.pub = m.pub
        BY <3>3, <3>4 DEF SupersedeMatches
      <3>6. PICK r \in heads[p].pending : r.pub = l.pub
        BY <1>3 DEF Ending, SupersedeMatches, t, p
      <3>7. p \in Partition
        BY PendingRow DEF p
      <3>8. q = r
        BY <3>5, <3>6, <3>7, PendingLeased
      <3> QED
        BY <3>1, <3>3, <3>5, <3>6, <3>8
    <2> QED
      BY <1>3, <2>6, <2>7, <2>8, <2>9, <2>10, <2>11 DEF t, p
  <1> QED
    BY <1>2, <1>3

LEMMA LeastGeneration ==
  ASSUME NEW S, S # {}, \A j \in S : j.gen \in Nat
  PROVE  \E j \in S : \A k \in S : j.gen <= k.gen
  <1> DEFINE gens == {j.gen : j \in S}
  <1>1. PICK g \in gens : \A h \in gens : ~ (<<h, g>> \in OpToRel(<, Nat))
    <2>1. gens # {} /\ gens \subseteq Nat
      OBVIOUS
    <2> HIDE DEF gens
    <2> QED
      BY <2>1, NatLessThanWellFounded, WFMin
  <1>2. \A h \in gens : ~ (h < g)
    BY <1>1 DEF OpToRel
  <1> QED
    BY <1>2

NewerThan(S, j) == {k \in S : k.gen > j.gen}

\* Of rows with generations of their own, at most n have fewer than n newer ones,
\* and none has n newer ones when there are at most n rows.
LEMMA NewestFew ==
  ASSUME NEW S, IsFiniteSet(S), NEW n \in Nat \ {0}, \A j \in S : j.gen \in Nat
  PROVE  /\ \A T \in SUBSET S :
              /\ \A j, k \in T : j.gen = k.gen => j = k
              /\ \A j \in T : ~ (Cardinality(NewerThan(S, j)) >= n)
              => Cardinality(T) <= n
         /\ Cardinality(S) <= n => \A j \in S : ~ (Cardinality(NewerThan(S, j)) >= n)
  <1>1. ASSUME NEW T \in SUBSET S,
               \A j, k \in T : j.gen = k.gen => j = k,
               \A j \in T : ~ (Cardinality(NewerThan(S, j)) >= n)
        PROVE  Cardinality(T) <= n
    <2>1. CASE T = {}
      BY <2>1, FS_EmptySet
    <2>2. CASE T # {}
      <3>1. PICK j \in T : \A k \in T : j.gen <= k.gen
        BY <2>2, LeastGeneration
      <3> DEFINE newer == NewerThan(S, j)
      <3>2. T \subseteq newer \cup {j}
        BY <1>1, <3>1 DEF NewerThan
      <3>3. IsFiniteSet(newer) /\ Cardinality(newer) \in Nat /\ ~ (Cardinality(newer) >= n)
        BY <1>1, FS_Subset, FS_CardinalityType DEF NewerThan
      <3> HIDE DEF newer
      <3>4. /\ IsFiniteSet(newer \cup {j})
            /\ Cardinality(newer \cup {j}) <= Cardinality(newer) + 1
        <4>1. IsFiniteSet(newer) /\ Cardinality(newer) \in Nat
          BY <3>3
        <4>2. /\ IsFiniteSet(newer \cup {j})
              /\ Cardinality(newer \cup {j}) =
                   IF j \in newer THEN Cardinality(newer) ELSE Cardinality(newer) + 1
          BY <4>1, FS_AddElement
        <4> QED
          BY <4>1, <4>2
      <3>5. Cardinality(T) <= Cardinality(newer \cup {j}) /\ IsFiniteSet(T)
        BY <3>2, <3>4, FS_Subset
      <3>6. Cardinality(T) \in Nat /\ Cardinality(newer \cup {j}) \in Nat
        BY <3>4, <3>5, FS_CardinalityType
      <3> QED
        BY <3>3, <3>4, <3>5, <3>6
    <2> QED
      BY <2>1, <2>2
  <1>2. ASSUME Cardinality(S) <= n, NEW j \in S
        PROVE  ~ (Cardinality(NewerThan(S, j)) >= n)
    <2>1. /\ IsFiniteSet(S \ {j}) /\ Cardinality(S \ {j}) = Cardinality(S) - 1
      BY FS_RemoveElement
    <2>2. NewerThan(S, j) \subseteq S \ {j}
      BY DEF NewerThan
    <2>3. Cardinality(NewerThan(S, j)) <= Cardinality(S \ {j})
      BY <2>1, <2>2, FS_Subset
    <2>4. /\ Cardinality(NewerThan(S, j)) \in Nat /\ Cardinality(S) \in Nat
      BY <2>1, <2>2, FS_Subset, FS_CardinalityType
    <2> QED
      BY <1>2, <2>1, <2>3, <2>4
  <1> QED
    BY <1>1, <1>2

\* A retirement keeps the newest few of what it sees, and a transaction without
\* the lock finds nothing to expire.
LEMMA ExpiredRows ==
  ASSUME LockedInv, NEW c \in Client, NEW l \in issued, Ending(call[c].at, txn[c], l),
         NEW p, p = l.intent.part, NEW rows, rows = JournalOf(c)
  PROVE  /\ ~ txn[c].locks => Expired(rows, p) = {}
         /\ Expired(rows, p) \subseteq rows
         /\ \A j \in Expired(rows, p) : \E m \in issued : m.pub = j.pub /\ m.intent.part = p
         /\ Cardinality({j \in Completed(rows, p) : j \notin Expired(rows, p)}) <= Retained
  <1> DEFINE S == Completed(rows, p)
  <1>1. /\ IsFiniteSet(rows)
        /\ \A j, k \in rows : j.pub = k.pub => j = k
        /\ \A j \in rows : \E m \in issued : j = RowOf(m, j.status)
        /\ ~ txn[c].locks => rows = journal
    BY SeenJournal
  <1>2. IsFiniteSet(S)
    BY <1>1, FS_Subset DEF Completed
  <1>3. \A j \in S : j.gen \in Nat /\ \E m \in issued : m.pub = j.pub /\ m.intent.part = p
    BY <1>1 DEF Completed, RowOf, LockedInv, TablesKnown, LeasesKnown
  <1>4. ASSUME NEW j \in S, NEW k \in S, j.gen = k.gen PROVE j = k
    <2>1. PICK m \in issued : j = RowOf(m, j.status)
      BY <1>1 DEF Completed
    <2>2. PICK n \in issued : k = RowOf(n, k.status)
      BY <1>1 DEF Completed
    <2>3. m.gen = n.gen /\ m.intent.part = n.intent.part
      BY <1>4, <2>1, <2>2 DEF RowOf, Completed
    <2>4. m.pub = n.pub
      BY <2>3 DEF LockedInv, TablesKnown, LeasesDistinct
    <2> QED
      BY <1>1, <2>1, <2>2, <2>4 DEF RowOf, Completed
  <1>5. Expired(rows, p) = {j \in S : Cardinality(NewerThan(S, j)) >= Retained}
    BY DEF Expired, Completed, NewerThan
  <1>6. Retained \in Nat \ {0}
    BY DEF LockedInv, LockedAssumption
  <1>7. ~ txn[c].locks => Expired(rows, p) = {}
    <2> SUFFICES ASSUME ~ txn[c].locks PROVE Expired(rows, p) = {}
      OBVIOUS
    <2>1. Cardinality(S) <= Retained
      BY <1>1, PendingRow DEF LockedInv, TablesKnown, HistoryBounded, Completed
    <2> HIDE DEF S
    <2> QED
      BY <1>2, <1>3, <1>5, <1>6, <2>1, NewestFew
  <1>8. Cardinality({j \in S : j \notin Expired(rows, p)}) <= Retained
    <2> HIDE DEF S
    <2> DEFINE T == {j \in S : j \notin Expired(rows, p)}
    <2>1. T \in SUBSET S /\ \A j \in T : ~ (Cardinality(NewerThan(S, j)) >= Retained)
      BY <1>5
    <2>2. \A j, k \in T : j.gen = k.gen => j = k
      BY <1>4
    <2> HIDE DEF T
    <2>3. Cardinality(T) <= Retained
      BY <1>2, <1>3, <1>6, <2>1, <2>2, NewestFew
    <2> QED
      BY <2>3 DEF T
  <1> QED
    BY <1>3, <1>5, <1>7, <1>8 DEF Completed

WithExpired(t, x) == [t EXCEPT !.expired = x]

LEMMA ExpiredField ==
  ASSUME NEW t, IsTxn(t), NEW x, NEW s, s = WithExpired(t, x)
  PROVE  /\ IsTxn(s) /\ s.staged = t.staged /\ s.head = t.head /\ s.locks = t.locks
         /\ s.rows = t.rows /\ s.expired = x /\ s.dead = t.dead /\ s.shared = t.shared
  BY DEF IsTxn, WithExpired

LEMMA ExpireKeeps ==
  ASSUME LockedInv, NEW c \in Client, ExpireHistory(c)
  PROVE  LockedInv'
  <1>1. call[c].at = "expire" /\ call[c].at \in Ends
    BY DEF ExpireHistory, Ends
  <1>2. PICK l \in issued :
          /\ call[c].lease = Some(l) /\ call[c].intent = Some(l.intent)
          /\ PartOf(c) = l.intent.part
          /\ l.intent \in Intents /\ l.intent.part \in Partition
          /\ Ending("expire", txn[c], l)
    BY <1>1, ItsLease
  <1> DEFINE p == l.intent.part
             gone == Expired(JournalOf(c), p)
             x == {j.pub : j \in gone}
  <1>3. /\ ~ txn[c].locks => gone = {}
        /\ gone \subseteq JournalOf(c)
        /\ \A j \in gone : \E m \in issued : m.pub = j.pub /\ m.intent.part = p
        /\ Cardinality({j \in Completed(JournalOf(c), p) : j \notin gone}) <= Retained
    BY <1>1, <1>2, ExpiredRows
  <1>4. WritesSafe(c) /\ IsTxn(txn[c])
    BY Known
  <1>5. PICK t : t = WithExpired(txn[c], x)
    OBVIOUS
  <1>6. Write(c, t, "collect")
    BY <1>2, <1>5 DEF ExpireHistory, WithExpired
  <1>7. /\ UNCHANGED tables /\ Moves(c) /\ txn'[c] = t /\ IsCall(call'[c])
        /\ call'[c].at = "collect" /\ call'[c].intent = call[c].intent
        /\ call'[c].lease = call[c].lease
    BY <1>6, Written
  <1>8. /\ IsTxn(t) /\ t.staged = txn[c].staged /\ t.head = txn[c].head
        /\ t.locks = txn[c].locks /\ t.rows = txn[c].rows /\ t.expired = x
        /\ t.dead = txn[c].dead /\ t.shared = txn[c].shared
    <2> HIDE DEF x
    <2> QED
      BY <1>4, <1>5, ExpiredField
  <1>9. /\ txn[c].staged = {} /\ txn[c].expired = {} /\ txn[c].dead = {}
        /\ txn[c].locks => SupersedeMatches(l) /\ (WroteInstall(txn[c], l) \/ WroteRetire(txn[c], l))
        /\ ~ txn[c].locks => txn[c].head = None /\ txn[c].rows = {} /\ txn[c].shared = {}
    BY <1>2 DEF Ending
  <1>10. Ending("collect", t, l)
    <2>1. \A pub \in x : \E m \in issued : m.pub = pub /\ m.intent.part = p
      BY <1>3
    <2>2. ~ txn[c].locks => x = {}
      BY <1>3
    <2> HIDE DEF x
    <2> QED
      BY <1>8, <1>9, <2>1, <2>2 DEF Ending, WroteInstall, WroteRetire, p
  <1>11. WritesSafe(c)'
    <2>1. /\ \A id \in t.shared : \E m \in mutations \cup t.staged : m.id = id
          /\ t.dead = {} /\ t.staged = {}
      BY <1>4, <1>8, <1>9 DEF WritesSafe
    <2>2. PartOf(c)' = p
      BY <1>2, <1>7 DEF PartOf, IntentOf, Some
    <2>3. Completed(JournalOf(c), PartOf(c))' \subseteq
            {j \in Completed(JournalOf(c), p) : j \notin gone}
      <3>1. JournalOf(c)' = {j \in journal : j.pub \notin {k.pub : k \in txn[c].rows} \cup x}
                              \cup {j \in txn[c].rows : j.pub \notin x}
        <4> HIDE DEF x
        <4> QED
          BY <1>7, <1>8 DEF JournalOf, tables
      <3>2. JournalOf(c)' \subseteq {j \in JournalOf(c) : j \notin gone}
        <4>1. JournalOf(c) = {j \in journal : j.pub \notin {k.pub : k \in txn[c].rows}}
                               \cup txn[c].rows
          BY <1>9 DEF JournalOf
        <4> HIDE DEF gone
        <4> QED
          BY <3>1, <4>1
      <3> HIDE DEF gone
      <3> QED
        BY <2>2, <3>2 DEF Completed
    <2>4. /\ IsFiniteSet({j \in Completed(JournalOf(c), p) : j \notin gone})
          /\ Retained \in Nat
      <3>1. IsFiniteSet(JournalOf(c))
        BY <1>1, <1>2, SeenJournal
      <3> HIDE DEF gone
      <3> QED
        BY <3>1, FS_Subset DEF Completed, LockedInv, LockedAssumption
    <2>5. Cardinality(Completed(JournalOf(c), PartOf(c))') <= Retained
      <3> DEFINE A == Completed(JournalOf(c), PartOf(c))'
                 B == {j \in Completed(JournalOf(c), p) : j \notin gone}
      <3>1. A \subseteq B /\ IsFiniteSet(B) /\ Cardinality(B) <= Retained /\ Retained \in Nat
        BY <1>3, <2>3, <2>4
      <3> HIDE DEF A, B
      <3>2. Cardinality(A) <= Cardinality(B) /\ IsFiniteSet(A)
        BY <3>1, FS_Subset
      <3>3. Cardinality(A) \in Nat /\ Cardinality(B) \in Nat
        BY <3>1, <3>2, FS_CardinalityType
      <3> QED
        BY <3>1, <3>2, <3>3 DEF A
    <2> QED
      BY <1>7, <2>1, <2>5 DEF WritesSafe, tables
  <1>12. /\ \A id \in t.shared : \A d \in Client \ {c} : id \notin txn[d].dead
         /\ t.locks => \A d \in Client \ {c} : ~ Holds(d, p)
    BY <1>2, <1>4, <1>8, Known DEF Apart, Holds
  <1> HIDE DEF p, gone, x
  <1> QED
    BY <1>2, <1>7, <1>8, <1>9, <1>10, <1>11, <1>12, EndStep DEF Ends, p

\* A statement of an ending that only looks, or deletes, keeps the rest.
LEMMA CollectKeeps ==
  ASSUME LockedInv, NEW c \in Client, Collect(c)
  PROVE  LockedInv'
  <1>1. call[c].at = "collect" /\ call[c].at \in Ends
    BY DEF Collect, Ends
  <1>2. PICK l \in issued :
          /\ call[c].lease = Some(l) /\ call[c].intent = Some(l.intent)
          /\ PartOf(c) = l.intent.part
          /\ l.intent \in Intents /\ l.intent.part \in Partition
          /\ Ending("collect", txn[c], l)
    BY <1>1, ItsLease
  <1> DEFINE free == {m.id : m \in {n \in mutations :
                        ~ Referenced(n.id, HeadsOf(c), JournalOf(c))}}
  <1>3. UNCHANGED <<tables, txn>>
        /\ call' = [call EXCEPT ![c] = [call[c] EXCEPT !.at = "delete", !.seen = free]]
    BY DEF Collect
  <1>4. /\ UNCHANGED tables /\ Moves(c) /\ txn'[c] = txn[c]
        /\ call'[c] = [call[c] EXCEPT !.at = "delete", !.seen = free]
    <2> DEFINE a == [call[c] EXCEPT !.at = "delete", !.seen = free]
    <2>1. call' = [call EXCEPT ![c] = a] /\ UNCHANGED txn
      BY <1>3
    <2> HIDE DEF a
    <2>2. Moves(c) /\ txn'[c] = txn[c] /\ call'[c] = a
      BY <2>1, Changes
    <2> QED
      BY <1>3, <2>2 DEF a
  <1>5. /\ IsCall(call'[c]) /\ call'[c].at = "delete" /\ call'[c].seen = free
        /\ call'[c].intent = call[c].intent /\ call'[c].lease = call[c].lease
    <2> HIDE DEF free
    <2> QED
      BY <1>4, Known DEF IsCall
  <1>6. Ending("delete", txn[c], l)
    BY <1>2 DEF Ending
  <1>7. WritesSafe(c)'
    <2>1. /\ HeadsOf(c)' = HeadsOf(c) /\ JournalOf(c)' = JournalOf(c)
          /\ PartOf(c)' = PartOf(c) /\ mutations' = mutations
      BY <1>4, <1>5 DEF HeadsOf, JournalOf, PartOf, IntentOf, tables
    <2> QED
      BY <1>1, <1>4, <1>5, <2>1, Known DEF WritesSafe
  <1>8. ASSUME NEW d \in Client \ {c}, call[d].at = "delete"
        PROVE  free \cap txn[d].shared = {}
    <2>1. PICK k \in issued :
            k.intent.part \in Partition /\ PartOf(d) = k.intent.part
            /\ Ending("delete", txn[d], k)
      BY <1>8, ItsLease DEF Ends
    <2> SUFFICES ASSUME NEW id \in free, id \in txn[d].shared PROVE FALSE
      OBVIOUS
    <2>2. /\ txn[d].locks /\ id = k.intent.mutation /\ SupersedeMatches(k)
      BY <2>1 DEF Ending, WroteInstall, WroteRetire
    <2>3. PICK q \in heads[k.intent.part].pending : q.pub = k.pub
      BY <2>2 DEF SupersedeMatches
    <2>4. q.mutation = id
      BY <2>2, <2>3, PendingRow
    <2>5. ~ Holds(c, k.intent.part)
      BY <2>1, <2>2, Known DEF Apart, Holds
    <2>6. HeadsOf(c)[k.intent.part] = heads[k.intent.part]
      BY <2>1, <2>5, WritesUnderLock DEF Holds, HeadsOf, None
    <2>7. Referenced(id, HeadsOf(c), JournalOf(c))
      BY <2>1, <2>3, <2>4, <2>6 DEF Referenced
    <2> QED
      BY <2>7
  <1>9. NoCircle'
    <2>1. \A d \in Client \ {c} : txn'[d] = txn[d] /\ call'[d] = call[d]
      BY <1>4, OthersStay DEF LockedInv
    <2> SUFFICES ASSUME NEW S \in SUBSET (Deleters'), S # {}
                 PROVE  \E d \in S : \A e \in S \ {d} : ~ Waits(d, e)'
      BY DEF NoCircle
    <2>2. CASE c \in S
      <3>1. \A e \in S \ {c} : ~ Waits(c, e)'
        <4> HIDE DEF free
        <4> QED
          BY <1>5, <1>8, <2>1 DEF Waits, Deleters
      <3> QED
        BY <2>2, <3>1
    <2>3. CASE c \notin S
      <3>1. S \subseteq Deleters
        BY <2>1, <2>3 DEF Deleters
      <3>2. PICK d \in S : \A e \in S \ {d} : ~ Waits(d, e)
        BY <3>1 DEF NoCircle, LockedInv
      <3>3. \A e \in S : call'[e] = call[e] /\ txn'[e] = txn[e]
        BY <2>1, <2>3, <3>1 DEF Deleters
      <3> QED
        BY <3>2, <3>3 DEF Waits
    <2> QED
      BY <2>2, <2>3
  <1>10. \A id \in txn[c].shared : \A d \in Client \ {c} : id \notin txn[d].dead
    BY Known DEF Apart
  <1>11. \A id \in txn[c].dead : \A d \in Client \ {c} : id \notin txn[d].shared
    BY Known DEF Apart
  <1>12. txn[c].locks => \A d \in Client \ {c} : ~ Holds(d, l.intent.part)
    BY <1>2, Known DEF Apart, Holds
  <1>13. IsTxn(txn[c])
    BY Known
  <1> HIDE DEF free
  <1> QED
    BY <1>2, <1>4, <1>5, <1>6, <1>7, <1>9, <1>10, <1>11, <1>12, <1>13, EndStep DEF Ends

WithDead(t, x) == [t EXCEPT !.dead = x]

LEMMA DeadField ==
  ASSUME NEW t, IsTxn(t), NEW x, NEW s, s = WithDead(t, x)
  PROVE  /\ IsTxn(s) /\ s.staged = t.staged /\ s.head = t.head /\ s.locks = t.locks
         /\ s.rows = t.rows /\ s.expired = t.expired /\ s.dead = x /\ s.shared = t.shared
  BY DEF IsTxn, WithDead

LEMMA DeleteKeeps ==
  ASSUME LockedInv, NEW c \in Client, Delete(c)
  PROVE  LockedInv'
  <1>1. call[c].at = "delete" /\ call[c].at \in Ends /\ Blockers(c) = {}
    BY DEF Delete, Ends
  <1>2. PICK l \in issued :
          /\ call[c].lease = Some(l) /\ call[c].intent = Some(l.intent)
          /\ PartOf(c) = l.intent.part
          /\ l.intent \in Intents /\ l.intent.part \in Partition
          /\ Ending("delete", txn[c], l)
    BY <1>1, ItsLease
  <1> DEFINE gone == call[c].seen \cap {m.id : m \in mutations}
  <1>3. CASE Fail(c)
    BY <1>1, <1>3, RollbackKeeps DEF Fail, Results, Ends
  <1>4. CASE ~ Fail(c)
    <2>1. PICK t : t = WithDead(txn[c], gone)
      OBVIOUS
    <2>2. /\ \A id \in gone : ~ Referenced(id, HeadsOf(c), JournalOf(c))
          /\ Write(c, t, "commit")
      BY <1>4, <2>1 DEF Delete, WithDead
    <2>3. /\ UNCHANGED tables /\ Moves(c) /\ txn'[c] = t /\ IsCall(call'[c])
          /\ call'[c].at = "commit" /\ call'[c].intent = call[c].intent
          /\ call'[c].lease = call[c].lease
      BY <2>2, Written
    <2>4. /\ IsTxn(t) /\ t.staged = txn[c].staged /\ t.head = txn[c].head
          /\ t.locks = txn[c].locks /\ t.rows = txn[c].rows /\ t.dead = gone
          /\ t.expired = txn[c].expired /\ t.shared = txn[c].shared
      <3>1. IsTxn(txn[c])
        BY Known
      <3> HIDE DEF gone
      <3> QED
        BY <2>1, <3>1, DeadField
    <2> HIDE DEF gone
    <2>5. Ending("commit", t, l)
      BY <1>2, <2>4 DEF Ending, WroteInstall, WroteRetire
    <2>6. WritesSafe(c)'
      <3>1. /\ HeadsOf(c)' = HeadsOf(c) /\ JournalOf(c)' = JournalOf(c)
            /\ PartOf(c)' = PartOf(c) /\ mutations' = mutations
        BY <2>3, <2>4 DEF HeadsOf, JournalOf, PartOf, IntentOf, tables
      <3> QED
        BY <1>1, <2>2, <2>3, <2>4, <3>1, Known DEF WritesSafe
    <2>7. \A id \in gone : \A d \in Client \ {c} : id \notin txn[d].shared
      BY <1>1, <1>2 DEF Blockers, Some, gone
    <2>8. /\ \A id \in t.shared : \A d \in Client \ {c} : id \notin txn[d].dead
          /\ t.locks => \A d \in Client \ {c} : ~ Holds(d, l.intent.part)
      BY <1>2, <2>4, Known DEF Apart, Holds
    <2> QED
      BY <1>2, <2>3, <2>4, <2>5, <2>6, <2>7, <2>8, EndStep DEF Ends
  <1> QED
    BY <1>3, <1>4
-----------------------------------------------------------------------------
(* The end of a finalisation or a retirement.                              *)

\* The committed tables become what the transaction saw.
Ended(c) ==
  /\ heads' = HeadsOf(c) /\ mutations' = MutationsOf(c) /\ journal' = JournalOf(c)
  /\ issued' = issued /\ txn' = [txn EXCEPT ![c] = NoWrites]

LEMMA EndCommits ==
  ASSUME LockedInv, NEW c \in Client, End(c)
  PROVE  Ended(c)
  <1>1. heads' = HeadsOf(c)
    BY DEF End, Commit, HeadsOf
  <1>2. mutations' = MutationsOf(c)
    BY DEF End, Commit, MutationsOf
  <1>3. journal' = JournalOf(c)
    BY DEF End, Commit, JournalOf
  <1> QED
    BY <1>1, <1>2, <1>3 DEF End, Commit, Ended

\* What the heads are that it saw.
LEMMA SeenHeads ==
  ASSUME LockedInv, NEW c \in Client, NEW l \in issued, PartOf(c) = l.intent.part,
         l.intent \in Intents, l.intent.part \in Partition,
         Ending(call[c].at, txn[c], l), NEW p, p = l.intent.part, NEW hs, hs = HeadsOf(c)
  PROVE  /\ hs = [r \in Partition |-> hs[r]]
         /\ \A r \in Partition \ {p} : hs[r] = heads[r]
         /\ ~ txn[c].locks => hs[p] = heads[p]
         /\ txn[c].locks => \/ /\ hs[p] = InstalledHead(heads[p], l.intent)
                               /\ txn[c].shared = {l.intent.mutation}
                            \/ hs[p] = RetiredHead(heads[p])
  <1>1. CASE ~ txn[c].locks
    BY <1>1 DEF Ending, HeadsOf, None
  <1>2. CASE txn[c].locks
    <2>1. \/ /\ txn[c].head = {InstalledHead(heads[p], l.intent)}
             /\ txn[c].shared = {l.intent.mutation}
          \/ txn[c].head = {RetiredHead(heads[p])}
      BY <1>2 DEF Ending, WroteInstall, WroteRetire, Some
    <2> QED
      BY <1>2, <2>1 DEF HeadsOf, None
  <1> QED
    BY <1>1, <1>2

LEMMA EndKnown ==
  ASSUME LockedInv, NEW c \in Client, call[c].at = "commit", Ended(c)
  PROVE  TablesKnown' /\ Commits(c)
  <1>1. PICK l \in issued :
          /\ call[c].lease = Some(l) /\ call[c].intent = Some(l.intent)
          /\ PartOf(c) = l.intent.part
          /\ l.intent \in Intents /\ l.intent.part \in Partition
          /\ Ending(call[c].at, txn[c], l)
    BY ItsLease DEF Ends
  <1> DEFINE p == l.intent.part
             i == l.intent
  <1>2. WritesSafe(c) /\ TablesKnown
    BY Known DEF LockedInv
  <1>3. /\ heads' = [r \in Partition |-> heads'[r]]
        /\ \A r \in Partition \ {p} : heads'[r] = heads[r]
        /\ ~ txn[c].locks => heads'[p] = heads[p]
        /\ txn[c].locks => \/ /\ heads'[p] = InstalledHead(heads[p], i)
                              /\ txn[c].shared = {i.mutation}
                           \/ heads'[p] = RetiredHead(heads[p])
    BY <1>1, SeenHeads DEF Ended
  <1>4. /\ IsFiniteSet(journal')
        /\ \A j, k \in journal' : j.pub = k.pub => j = k
        /\ \A j \in journal' : \E m \in issued : j = RowOf(m, j.status)
        /\ \A j : j.part # p => (j \in journal' <=> j \in journal)
        /\ \A j \in journal' : \E k \in journal : k.pub = j.pub /\ k.mutation = j.mutation
        /\ txn[c].locks => \A j \in journal' : j.part = p => j.status # "pending"
        /\ ~ txn[c].locks => journal' = journal
    BY <1>1, SeenJournal DEF Ended
  <1>5. /\ issued' = issued /\ txn[c].staged = {}
        /\ mutations' = {m \in mutations : m.id \notin txn[c].dead}
    BY <1>1 DEF Ended, Ending, MutationsOf
  <1>6. \A id \in txn[c].dead : ~ Referenced(id, heads', journal')
    BY <1>2 DEF WritesSafe, Ended
  <1> HIDE DEF p, i
  <1>7. ASSUME NEW r \in Partition
        PROVE  /\ IsHead(heads'[r]) /\ HeadOK(heads'[r]) /\ heads'[r].gen = heads[r].gen
               /\ heads'[r].pending = heads[r].pending \/ heads'[r].pending = {}
               /\ \/ heads'[r].active = heads[r].active /\ heads'[r].token = heads[r].token
                     /\ heads'[r].status = heads[r].status
                  \/ heads'[r].active = {i.mutation} /\ heads'[r].token = i.token
                     /\ (heads'[r].status = "revision" <=> i.op = "replace")
                     /\ i.mutation \in txn[c].shared
               /\ heads'[r] # heads[r] => txn[c].locks /\ r = p /\ heads'[r].pending = {}
    <2>1. CASE heads'[r] = heads[r]
      BY <2>1, HeadOfPartition
    <2>2. CASE heads'[r] # heads[r]
      <3>1. r = p /\ txn[c].locks
        BY <1>3, <2>2
      <3>2. CASE heads'[p] = InstalledHead(heads[p], i) /\ txn[c].shared = {i.mutation}
        <4>1. /\ IsHead(heads'[p]) /\ HeadOK(heads'[p]) /\ heads'[p].pending = {}
              /\ heads'[p].gen = heads[p].gen
          BY <1>1, <3>1, <3>2, EndedFields DEF i
        <4>2. /\ heads'[p].active = {i.mutation} /\ heads'[p].token = i.token
              /\ heads'[p].status = (IF i.op = "replace" THEN "revision" ELSE "deleted")
          BY <3>1, <3>2, HeadOfPartition DEF InstalledHead, IsHead, Some, None
        <4> QED
          BY <3>1, <3>2, <4>1, <4>2
      <3>3. CASE heads'[p] = RetiredHead(heads[p])
        <4>1. /\ IsHead(heads'[p]) /\ HeadOK(heads'[p]) /\ heads'[p].pending = {}
              /\ heads'[p].gen = heads[p].gen
          BY <1>1, <3>1, <3>3, EndedFields
        <4>2. /\ heads'[p].active = heads[p].active /\ heads'[p].token = heads[p].token
              /\ heads'[p].status = heads[p].status
          BY <3>1, <3>3, HeadOfPartition DEF RetiredHead, IsHead, None
        <4> QED
          BY <3>1, <4>1, <4>2
      <3> QED
        BY <1>3, <3>1, <3>2, <3>3
    <2> QED
      BY <2>1, <2>2
  <1>8. ASSUME NEW r \in Partition, NEW id, InHead(id, heads'[r])
        PROVE  InHead(id, heads[r]) \/ id \in txn[c].shared
    BY <1>7, <1>8 DEF InHead, Some
  <1>9. ASSUME NEW id, \E m \in mutations : m.id = id, Referenced(id, heads', journal')
        PROVE  \E m \in mutations' : m.id = id
    BY <1>5, <1>6, <1>9
  <1>10. LeasesDistinct' /\ LeasesKnown'
    <2>1. \A m \in issued : m.intent \in Intents /\ m.intent.part \in Partition
      BY <1>2 DEF TablesKnown, LeasesKnown, LockedInv, LockedAssumption
    <2> QED
      BY <1>2, <1>5, <1>7, <2>1 DEF TablesKnown, LeasesDistinct, LeasesKnown
  <1>11. HeadsKnown'
    <2> SUFFICES ASSUME NEW r \in Partition
                 PROVE  /\ heads'[r].status = "revision" => \E k \in Intents :
                             k.op = "replace" /\ heads'[r].active = Some(k.mutation)
                             /\ heads'[r].token = k.token
                        /\ \A q \in heads'[r].pending : \E m \in issued :
                             m.intent.part = r /\ m.gen = heads'[r].gen /\ q = PendingOf(m)
      BY <1>3, <1>5, <1>7 DEF HeadsKnown
    <2>1. /\ heads[r].status = "revision" => \E k \in Intents :
                k.op = "replace" /\ heads[r].active = Some(k.mutation)
                /\ heads[r].token = k.token
          /\ \A q \in heads[r].pending : \E m \in issued :
                m.intent.part = r /\ m.gen = heads[r].gen /\ q = PendingOf(m)
      BY <1>2 DEF TablesKnown, HeadsKnown
    <2>2. heads'[r].status = "revision" => \E k \in Intents :
            k.op = "replace" /\ heads'[r].active = Some(k.mutation)
            /\ heads'[r].token = k.token
      BY <1>1, <1>7, <2>1 DEF i, Some
    <2> QED
      BY <1>7, <2>1, <2>2
  <1>12. JournalKnown'
    BY <1>4, <1>5 DEF JournalKnown
  <1>13. MutationsKnown'
    BY <1>2, <1>5 DEF TablesKnown, MutationsKnown
  <1>14. ReferencesResolve'
    <2>1. ASSUME NEW id, NEW r \in Partition, InHead(id, heads'[r])
          PROVE  \E m \in mutations' : m.id = id
      <3>1. \E m \in mutations : m.id = id
        <4>1. CASE id \in txn[c].shared
          BY <1>2, <1>5, <4>1 DEF WritesSafe
        <4>2. CASE InHead(id, heads[r])
          BY <1>2, <4>2 DEF TablesKnown, ReferencesResolve, InHead, Some
        <4> QED
          BY <1>8, <2>1, <4>1, <4>2
      <3> QED
        BY <1>9, <2>1, <3>1 DEF Referenced, InHead
    <2>2. ASSUME NEW r \in Partition, NEW id \in heads'[r].active
          PROVE  \E m \in mutations' : m.id = id
      <3>1. heads'[r].active = Some(id)
        BY <1>7 DEF HeadOK, AtMostOne, Some
      <3> QED
        BY <2>1, <3>1 DEF InHead
    <2>3. ASSUME NEW j \in journal' PROVE \E m \in mutations' : m.id = j.mutation
      <3>1. \E m \in mutations : m.id = j.mutation
        BY <1>2, <1>4 DEF TablesKnown, ReferencesResolve
      <3> QED
        BY <1>9, <3>1 DEF Referenced
    <2> QED
      BY <2>1, <2>2, <2>3 DEF ReferencesResolve, InHead
  <1>15. JournalMatchesHead'
    <2> DEFINE Rows(js, r) == {<<j.pub, j.mutation, j.gen>> : j \in
                                 {k \in js : k.part = r /\ k.status = "pending"}}
               Pending(h) == {<<q.pub, q.mutation, q.gen>> : q \in h.pending}
    <2>1. \A r \in Partition : Rows(journal, r) = Pending(heads[r])
      BY <1>2 DEF TablesKnown, JournalMatchesHead
    <2>2. ASSUME NEW r \in Partition PROVE Rows(journal', r) = Pending(heads'[r])
      <3>1. CASE r = p /\ txn[c].locks
        <4>1. Rows(journal', r) = {}
          BY <1>4, <3>1
        <4>2. heads'[r].pending = {}
          BY <1>1, <1>3, <3>1, EndedFields DEF p, i
        <4> QED
          BY <4>1, <4>2
      <3>2. CASE r # p
        <4>1. Rows(journal', r) = Rows(journal, r)
          BY <1>4, <3>2
        <4>2. heads'[r] = heads[r]
          BY <1>3, <3>2
        <4> QED
          BY <2>1, <4>1, <4>2
      <3>3. CASE ~ txn[c].locks
        <4>1. journal' = journal /\ heads'[r] = heads[r]
          BY <1>3, <1>4, <3>3
        <4> QED
          BY <2>1, <4>1
      <3> QED
        BY <3>1, <3>2, <3>3
    <2> QED
      BY <2>2 DEF JournalMatchesHead
  <1>16. HistoryBounded'
    <2> SUFFICES ASSUME NEW r \in Partition
                 PROVE  Cardinality(Completed(journal', r)) <= Retained
      BY DEF HistoryBounded, Completed
    <2>1. CASE r = p /\ txn[c].locks
      BY <1>1, <1>2, <2>1 DEF WritesSafe, Ended, p
    <2>2. CASE r # p
      <3>1. Completed(journal', r) = Completed(journal, r)
        BY <1>4, <2>2 DEF Completed
      <3> QED
        BY <1>2, <3>1 DEF TablesKnown, HistoryBounded, Completed
    <2>3. CASE ~ txn[c].locks
      BY <1>2, <1>4, <2>3 DEF TablesKnown, HistoryBounded, Completed
    <2> QED
      BY <2>1, <2>2, <2>3
  <1>17. Commits(c)
    <2>1. txn[c].locks \/ UNCHANGED <<heads, journal>>
      <3>1. ~ txn[c].locks => heads' = heads
        BY <1>2, <1>3 DEF TablesKnown, HeadsKnown
      <3> QED
        BY <1>4, <3>1
    <2> QED
      BY <1>1, <1>3, <1>4, <1>5, <1>8, <2>1 DEF Commits, Ended, p
  <1> QED
    BY <1>10, <1>11, <1>12, <1>13, <1>14, <1>15, <1>16, <1>17 DEF TablesKnown

LEMMA EndKeeps ==
  ASSUME LockedInv, NEW c \in Client, End(c)
  PROVE  LockedInv'
  <1>1. call[c].at = "commit"
    BY DEF End
  <1>2. Ended(c)
    BY EndCommits
  <1>3. TablesKnown' /\ Commits(c)
    BY <1>1, <1>2, EndKnown
  <1>4. PICK at \in {"Finalized", "Retired"} :
          call' = [call EXCEPT ![c] = [call[c] EXCEPT !.seen = {}, !.at = at]]
    BY DEF End
  <1> DEFINE a == [call[c] EXCEPT !.seen = {}, !.at = at]
  <1>5. Moves(c) /\ txn'[c] = NoWrites /\ call'[c] = a
    <2>1. call' = [call EXCEPT ![c] = a] /\ txn' = [txn EXCEPT ![c] = NoWrites]
      BY <1>2, <1>4 DEF Ended
    <2> HIDE DEF a
    <2> QED
      BY <2>1, Changes
  <1>6. /\ IsCall(call'[c]) /\ call'[c].at = at /\ call'[c].intent = call[c].intent
    BY <1>5, Known DEF IsCall
  <1>7. call[c].intent \subseteq Intents /\ \E i \in call[c].intent : call[c].intent = Some(i)
    BY <1>1, Known DEF CallKnown
  <1>8. Resting(call[c])'
    BY <1>6, <1>7 DEF Resting, Begins, Ends
  <1> QED
    BY <1>3, <1>5, <1>8, CommitStep
-----------------------------------------------------------------------------
(* The invariant, and what follows from it.                                *)

LEMMA InitInv ==
  ASSUME LockedAssumption, Init
  PROVE  LockedInv
  <1>1. LeasesDistinct /\ LeasesKnown /\ JournalKnown /\ MutationsKnown
    BY FS_EmptySet DEF Init, LeasesDistinct, LeasesKnown, JournalKnown, MutationsKnown
  <1>2. HeadsKnown
    <2>1. IsHead(FreshHead) /\ HeadOK(FreshHead)
      BY DEF IsHead, FreshHead, HeadOK, AtMostOne, None
    <2>2. FreshHead.status = "never" /\ FreshHead.pending = {}
      BY DEF FreshHead, None
    <2> QED
      BY <2>1, <2>2 DEF Init, HeadsKnown
  <1>3. ReferencesResolve /\ JournalMatchesHead
    BY DEF Init, ReferencesResolve, JournalMatchesHead, FreshHead, None
  <1>4. HistoryBounded
    <2>1. \A p : {j \in journal : j.part = p /\ j.status # "pending"} = {}
      BY DEF Init
    <2>2. Cardinality({}) = 0 /\ Retained \in Nat
      BY FS_EmptySet DEF LockedAssumption
    <2> QED
      BY <2>1, <2>2 DEF HistoryBounded
  <1>5. \A c \in Client : call[c] = Idle /\ txn[c] = NoWrites
    BY DEF Init
  <1>6. CallsKnown
    <2>1. IsCall(Idle) /\ IsTxn(NoWrites) /\ Idle.at = "idle" /\ Idle.intent = {}
      BY NoWritesFields DEF Idle, IsCall, None
    <2>2. call = [c \in Client |-> call[c]] /\ txn = [c \in Client |-> txn[c]]
      BY DEF Init
    <2> QED
      BY <1>5, <2>1, <2>2 DEF CallsKnown, CallKnown, Begins, Ends
  <1>7. \A c \in Client : WritesSafe(c)
    BY <1>5, NoWritesFields DEF WritesSafe
  <1>8. \A c, d \in Client : c # d => Apart(c, d)
    BY <1>5, NoWritesFields DEF Apart, None
  <1>9. NoCircle
    <2>1. Deleters = {}
      BY <1>5 DEF Deleters, Idle
    <2> QED
      BY <2>1 DEF NoCircle
  <1> QED
    BY <1>1, <1>2, <1>3, <1>4, <1>6, <1>7, <1>8, <1>9 DEF LockedInv, TablesKnown

LEMMA NextInv ==
  ASSUME LockedInv, [Next]_vars
  PROVE  LockedInv'
  <1>1. CASE UNCHANGED vars
    <2>1. UNCHANGED tables /\ call' = call /\ txn' = txn
      BY <1>1 DEF vars, tables
    <2>2. TablesStay /\ TablesKnown'
      BY <2>1, NothingIssued, StayKnown
    <2>3. \A c \in Client : CallKnown(call[c], txn[c])' /\ WritesSafe(c)'
      BY <2>1, <2>2, Known, OthersKnown
    <2>4. \A c, d \in Client : c # d => Apart(c, d)'
      BY <2>1 DEF LockedInv, Apart, PartOf, IntentOf
    <2>5. NoCircle'
      <3>1. Deleters' = Deleters
        BY <2>1 DEF Deleters
      <3>2. \A c, d : Waits(c, d)' <=> Waits(c, d)
        BY <2>1 DEF Waits
      <3> QED
        BY <3>1, <3>2 DEF LockedInv, NoCircle
    <2>6. LockedAssumption'
      BY DEF LockedInv, LockedAssumption, AtMostOne
    <2> QED
      BY <2>1, <2>2, <2>3, <2>4, <2>5, <2>6 DEF LockedInv, CallsKnown
  <1>2. ASSUME NEW c \in Client, NEW i \in Intents, Ask(c, i)
        PROVE  LockedInv'
    BY <1>2, AskKeeps
  <1>3. ASSUME NEW c \in Client, NEW l \in issued, Finalize(c, l) \/ Supersede(c, l)
        PROVE  LockedInv'
    BY <1>3, StartKeeps DEF Finalize, Supersede
  <1>4. ASSUME NEW c \in Client, Step(c)
        PROVE  LockedInv'
    BY <1>4, StageKeeps, CheckDigestKeeps, StoreChunksKeeps, FindHeadKeeps, LockHeadKeeps,
       AllocateKeeps, GrantLeaseKeeps, InstallKeeps, ConfirmKeeps, ClearKeeps,
       ExpireKeeps, CollectKeeps, DeleteKeeps, EndKeeps
    DEF Step
  <1>5. ASSUME NEW c \in Client, Leave(c)
        PROVE  LockedInv'
    BY <1>5, LeaveKeeps
  <1> QED
    BY <1>1, <1>2, <1>3, <1>4, <1>5 DEF Next

\* The invariant above holds of every behaviour of the PostgreSQL coordinator
\* (storage/postgres/projection-publication.ts), for any number of clients.
THEOREM LockedInvariant == LockedAssumption /\ Spec => []LockedInv
  <1>1. LockedAssumption /\ Init => LockedInv
    BY InitInv
  <1>2. LockedInv /\ [Next]_vars => LockedInv'
    BY NextInv
  <1> QED
    BY <1>1, <1>2, PTL DEF Spec

\* The heads a transaction has written satisfy the CHECK constraints as well.
LEMMA WrittenHeads ==
  ASSUME LockedInv, NEW c \in Client, NEW h \in txn[c].head
  PROVE  HeadOK(h)
  <1>1. call[c].at \in Begins \cup Ends
    <2> SUFFICES ASSUME call[c].at \notin Begins \cup Ends PROVE FALSE
      OBVIOUS
    <2> QED
      BY Known, NoWritesFields DEF CallKnown, None
  <1>2. CASE call[c].at \in Begins
    <2>1. PICK i \in Intents : call[c].intent = Some(i) /\ i.slots \in Nat
      BY <1>2, ItsIntent DEF Begins
    <2>2. Beginning(call[c].at, txn[c], i)
      BY <1>2, <2>1, Known DEF CallKnown, Some
    <2>3. PICK pub \in PublicationId : h = GrantedHead(heads[i.part], i, pub)
      BY <2>2 DEF Beginning, Some, None
    <2>4. /\ h.status = heads[i.part].status /\ h.active = heads[i.part].active
          /\ h.token = heads[i.part].token /\ h.gen = heads[i.part].gen + 1
          /\ h.slots = i.slots /\ i.part \in Partition
          /\ h.pending = Some(PendingOf(LeaseOf(i, pub, heads[i.part].gen + 1, i.slots)))
      BY <2>1, <2>3, GrantedFields
    <2>5. HeadOK(heads[i.part]) /\ AtMostOne(h.pending)
      BY <2>4, HeadOfPartition DEF AtMostOne, Some
    <2> QED
      BY <2>1, <2>4, <2>5 DEF HeadOK
  <1>3. CASE call[c].at \in Ends
    <2>1. PICK l \in issued : /\ l.intent \in Intents /\ l.intent.part \in Partition
                              /\ Ending(call[c].at, txn[c], l)
      BY <1>3, ItsLease
    <2>2. h = InstalledHead(heads[l.intent.part], l.intent) \/ h = RetiredHead(heads[l.intent.part])
      BY <2>1 DEF Ending, WroteInstall, WroteRetire, Some, None
    <2> QED
      BY <2>1, <2>2, EndedFields
  <1> QED
    BY <1>1, <1>2, <1>3

\* Everything has its type, and the CHECK constraints and the keys of the three
\* tables hold (storage/postgres/projection-publication.ts).
THEOREM CoordinatorIsTyped == LockedAssumption /\ Spec => []TypeOK
  <1>1. ASSUME LockedInv PROVE TypeOK
    <2>1. \A p \in Partition : HeadOK(heads[p])
      BY <1>1, HeadOfPartition
    <2>2. \A c \in Client : \A h \in txn[c].head : HeadOK(h)
      BY <1>1, WrittenHeads
    <2>3. \A c \in Client :
            /\ call[c].intent \subseteq Intents
            /\ call[c].at \in Results \cup {"idle"} => txn[c] = NoWrites
      BY <1>1, Known DEF CallKnown, Results, Begins, Ends
    <2>4. \A m, n \in mutations : m.id = n.id => m = n
      BY <1>1 DEF LockedInv, TablesKnown, MutationsKnown
    <2>5. ASSUME NEW j \in journal, NEW k \in journal,
                 j.pub = k.pub \/ (j.part = k.part /\ j.gen = k.gen)
          PROVE  j = k
      <3>1. PICK l \in issued : j = RowOf(l, j.status)
        BY <1>1 DEF LockedInv, TablesKnown, JournalKnown
      <3>2. PICK m \in issued : k = RowOf(m, k.status)
        BY <1>1 DEF LockedInv, TablesKnown, JournalKnown
      <3>3. /\ j.pub = l.pub /\ j.part = l.intent.part /\ j.gen = l.gen
            /\ k.pub = m.pub /\ k.part = m.intent.part /\ k.gen = m.gen
        BY <3>1, <3>2 DEF RowOf
      <3>4. l.pub = m.pub
        BY <1>1, <2>5, <3>3 DEF LockedInv, TablesKnown, LeasesDistinct
      <3> QED
        BY <1>1, <3>3, <3>4 DEF LockedInv, TablesKnown, JournalKnown
    <2> QED
      BY <2>1, <2>2, <2>3, <2>4, <2>5 DEF TypeOK
  <1> QED
    BY <1>1, LockedInvariant, PTL

\* The one mutation a head in the status "revision" joins.
LEMMA ActiveStored ==
  ASSUME LockedInv, NEW p \in Partition, heads[p].status = "revision"
  PROVE  \E i \in Intents, m \in mutations :
           /\ i.op = "replace" /\ JoinedActive(heads[p]) = {m}
           /\ m.rev = i.rev /\ m.token = i.token /\ heads[p].token = i.token
  <1>1. PICK i \in Intents : /\ i.op = "replace" /\ heads[p].active = Some(i.mutation)
                             /\ heads[p].token = i.token
    BY DEF LockedInv, TablesKnown, HeadsKnown
  <1>2. PICK m \in mutations : m.id = i.mutation
    BY <1>1 DEF LockedInv, TablesKnown, ReferencesResolve, Some
  <1>3. JoinedActive(heads[p]) = {m}
    BY <1>1, <1>2 DEF JoinedActive, Some, LockedInv, TablesKnown, MutationsKnown
  <1>4. PICK k \in Intents : m = MutationRow(k)
    BY DEF LockedInv, TablesKnown, MutationsKnown
  <1>5. m.id = k.mutation /\ m.rev = k.rev /\ m.token = k.token
    BY <1>4 DEF MutationRow
  <1>6. k.rev = i.rev /\ k.token = i.token
    BY <1>2, <1>5 DEF LockedInv, LockedAssumption
  <1> QED
    BY <1>1, <1>3, <1>5, <1>6

\* The committed tables agree: what heads and journal name is stored, readers
\* find one inventory of an active revision, the journal is pending where the head
\* is, and no more than Retained completed publications are kept
\* (storage/postgres/projection-publication.ts).
THEOREM CommittedTablesAgree ==
  LockedAssumption /\ Spec =>
    [](ReferencesResolve /\ ActiveRevisionReadable /\ JournalMatchesHead /\ HistoryBounded)
  <1>1. ASSUME LockedInv PROVE ActiveRevisionReadable
    <2> SUFFICES ASSUME NEW p \in Partition, heads[p].status = "revision"
                 PROVE  /\ Cardinality(ActiveRevision(p)) = 1
                        /\ \A m \in JoinedActive(heads[p]) : m.token = heads[p].token
      BY DEF ActiveRevisionReadable
    <2>1. PICK i \in Intents, m \in mutations :
            /\ i.op = "replace" /\ JoinedActive(heads[p]) = {m}
            /\ m.rev = i.rev /\ m.token = i.token /\ heads[p].token = i.token
      BY <1>1, ActiveStored
    <2>2. ActiveRevision(p) = i.rev
      BY <2>1 DEF ActiveRevision
    <2>3. PICK rev \in i.rev : i.rev = {rev}
      BY <1>1, <2>1 DEF LockedInv, LockedAssumption, AtMostOne, None
    <2>4. Cardinality({rev}) = 1
      BY FS_Singleton
    <2> QED
      BY <2>1, <2>2, <2>3, <2>4
  <1>2. ASSUME LockedInv
        PROVE  ReferencesResolve /\ ActiveRevisionReadable /\ JournalMatchesHead /\ HistoryBounded
    BY <1>1, <1>2 DEF LockedInv, TablesKnown
  <1> QED
    BY <1>2, LockedInvariant, PTL
-----------------------------------------------------------------------------
(* The register of leases: begins grant when they commit, endings install or *)
(* retire when they commit, and every other statement stutters.              *)

LEMMA OneHead ==
  ASSUME LockedInv, NEW p \in Partition, NEW g, heads' = [r \in Partition |-> heads'[r]],
         heads'[p] = g, \A r \in Partition \ {p} : heads'[r] = heads[r]
  PROVE  heads' = [heads EXCEPT ![p] = g]
  BY DEF LockedInv, TablesKnown, HeadsKnown

LEMMA GrantImplements ==
  ASSUME LockedInv, NEW c \in Client, GrantLease(c)
  PROVE  \E p \in Partition : Register!Grant(p)
  <1> DEFINE i == IntentOf(c)
             old == heads[i.part]
  <1>1. PICK pub \in PublicationId :
          /\ i \in Intents /\ PartOf(c) = i.part /\ Beginning("journal", txn[c], i)
          /\ txn[c].head = Some(GrantedHead(old, i, pub))
          /\ Commit(c, WithRows(txn[c], {RowOf(LeaseOf(i, pub, old.gen + 1, i.slots), "pending")}))
    BY GrantWrites
  <1> DEFINE w == WithRows(txn[c], {RowOf(LeaseOf(i, pub, old.gen + 1, i.slots), "pending")})
             g == GrantedHead(old, i, pub)
             q == Some([mutation |-> i.mutation, digest |-> i.digest, pub |-> pub,
                        gen |-> old.gen + 1, op |-> i.op, slots |-> i.slots])
  <1>2. i.part \in Partition /\ Grantable(old, i)
    BY <1>1 DEF Beginning, LockedInv, LockedAssumption
  <1>3. w.head = {g}
    <2>1. IsTxn(txn[c])
      BY Known
    <2> HIDE DEF g, i, old
    <2>2. w.head = txn[c].head
      BY <2>1, RowsField
    <2> QED
      BY <1>1, <2>2 DEF Some, g
  <1>4. heads' = [r \in Partition |-> IF r = i.part THEN g ELSE heads[r]]
    <2>1. Commit(c, w) /\ PartOf(c) = i.part
      BY <1>1
    <2> HIDE DEF w, g, i, old
    <2> QED
      BY <1>3, <2>1 DEF Commit, None
  <1>5. heads' = [heads EXCEPT ![i.part].gen = old.gen + 1, ![i.part].slots = i.slots,
                               ![i.part].pending = q]
    <2>1. heads' = [heads EXCEPT ![i.part] = g]
      <3> HIDE DEF g, i, old
      <3> QED
        BY <1>2, <1>4, OneHead
    <2>2. g = [old EXCEPT !.gen = old.gen + 1, !.slots = i.slots, !.pending = q]
      BY DEF GrantedHead
    <2>3. heads = [p \in Partition |-> heads[p]]
      BY DEF LockedInv, TablesKnown, HeadsKnown
    <2> HIDE DEF q, g
    <2> QED
      BY <1>2, <2>1, <2>2, <2>3
  <1> QED
    BY <1>1, <1>2, <1>5
    DEF Grantable, Register!Grant, None, Register!None, Register!Some, Some,
        ActiveMatchesExpectedToken, Register!ActiveMatchesExpectedToken

LEMMA EndImplements ==
  ASSUME LockedInv, NEW c \in Client, End(c), heads' # heads
  PROVE  \E p \in Partition : Register!Install(p) \/ Register!Retire(p)
  <1>1. call[c].at = "commit" /\ heads' = HeadsOf(c)
    BY EndCommits DEF End, Ended
  <1>2. PICK l \in issued :
          /\ PartOf(c) = l.intent.part /\ l.intent \in Intents /\ l.intent.part \in Partition
          /\ Ending(call[c].at, txn[c], l)
    BY <1>1, ItsLease DEF Ends
  <1> DEFINE p == l.intent.part
             i == l.intent
             old == heads[p]
  <1>3. /\ heads' = [r \in Partition |-> heads'[r]]
        /\ \A r \in Partition \ {p} : heads'[r] = heads[r]
        /\ ~ txn[c].locks => heads'[p] = old
        /\ txn[c].locks => heads'[p] = InstalledHead(old, i) \/ heads'[p] = RetiredHead(old)
    BY <1>1, <1>2, SeenHeads
  <1>4. heads = [r \in Partition |-> heads[r]]
    BY DEF LockedInv, TablesKnown, HeadsKnown
  <1>5. txn[c].locks
    <2> SUFFICES ASSUME ~ txn[c].locks PROVE FALSE
      OBVIOUS
    <2>1. \A r \in Partition : heads'[r] = heads[r]
      BY <1>3
    <2> HIDE DEF p, old
    <2> QED
      BY <1>3, <1>4, <2>1
  <1>6. CASE heads'[p] = InstalledHead(old, i)
    <2>1. PICK q \in old.pending : q.mutation = i.mutation /\ q.digest = i.digest
      BY <1>2, <1>5, PendingRow DEF Ending, SupersedeMatches
    <2> DEFINE status == IF i.op = "replace" THEN "revision" ELSE "deleted"
               active == Some(i.mutation)
    <2>2. heads' = [heads EXCEPT ![p].status = status, ![p].active = active,
                                 ![p].token = i.token, ![p].pending = None]
      <3>1. heads' = [heads EXCEPT ![p] = InstalledHead(old, i)]
        BY <1>2, <1>3, <1>6, OneHead
      <3>2. InstalledHead(old, i) = [old EXCEPT !.status = status, !.active = active,
                                                !.token = i.token, !.pending = None]
        BY DEF InstalledHead
      <3> HIDE DEF status, active
      <3> QED
        BY <1>2, <1>4, <3>1, <3>2
    <2> QED
      BY <1>2, <2>1, <2>2
      DEF Register!Install, Register!PendingIsMutation, Some, Register!Some, None,
          Register!None
  <1>7. CASE heads'[p] = RetiredHead(old)
    <2>1. heads' = [heads EXCEPT ![p] = RetiredHead(old)]
      BY <1>2, <1>3, <1>7, OneHead
    <2>2. heads' = [heads EXCEPT ![p].pending = None]
      BY <1>2, <1>4, <2>1 DEF RetiredHead
    <2> QED
      BY <1>2, <2>2 DEF Register!Retire, None, Register!None
  <1> QED
    BY <1>3, <1>5, <1>6, <1>7

LEMMA StepImplements ==
  ASSUME LockedInv, [Next]_vars
  PROVE  [Register!Next]_heads
  <1> SUFFICES ASSUME heads' # heads
               PROVE  \E p \in Partition : Register!Grant(p) \/ Register!Install(p)
                                           \/ Register!Retire(p)
    <2>1. ASSUME NEW p \in Partition, heads' # heads,
                 Register!Grant(p) \/ Register!Install(p) \/ Register!Retire(p)
          PROVE  heads'[p] # heads[p]
      <3>1. PICK h : heads' = [heads EXCEPT ![p] = h]
        BY <2>1 DEF Register!Grant, Register!Install, Register!Retire
      <3> QED
        BY <2>1, <3>1 DEF LockedInv, TablesKnown, HeadsKnown
    <2> QED
      BY <2>1 DEF Register!Next
  <1>1. ~ UNCHANGED vars /\ ~ UNCHANGED tables
    BY DEF vars, tables
  <1>2. ASSUME NEW c \in Client, Step(c)
        PROVE  GrantLease(c) \/ End(c)
    BY <1>1, <1>2
    DEF Step, Stage, CheckDigest, StoreChunks, FindHead, LockHead, Decide, Allocate, Install,
        ConfirmFinalized, Clear, ExpireHistory, Collect, Delete, Write, Rollback, Fail, tables
  <1>3. PICK c \in Client : Step(c)
    BY <1>1 DEF Next, Ask, Finalize, Supersede, StartWith, Leave
  <1> QED
    BY <1>2, <1>3, GrantImplements, EndImplements

\* The transactions of all clients together implement the register of leases: a
\* head changes only by a grant against the active token, by an installation of
\* the pending publication, or by its retirement
\* (storage/postgres/projection-publication.ts).
THEOREM TransactionsImplementRegister == LockedAssumption /\ Spec => ImplementsRegister
  <1>1. Init => Register!Init
    BY DEF Init, Register!Init, FreshHead, Register!FreshHead, None, Register!None
  <1>2. LockedInv /\ [Next]_vars => [Register!Next]_heads
    BY StepImplements
  <1> QED
    BY <1>1, <1>2, LockedInvariant, PTL DEF Spec, ImplementsRegister, Register!Spec
-----------------------------------------------------------------------------
(* Nobody waits for ever.                                                  *)

\* Where a transaction is that has written or locked something.
LEMMA WritersAt ==
  ASSUME LockedInv, NEW d \in Client
  PROVE  /\ txn[d].staged # {} => call[d].at \in Begins
         /\ txn[d].dead # {} => call[d].at = "commit"
         /\ txn[d].locks => call[d].at \in {"allocate", "journal"} \cup Ends
         /\ txn[d].shared # {} => call[d].at \in {"journal"} \cup Ends
  <1>1. CASE call[d].at \notin Begins \cup Ends
    <2>1. txn[d] = NoWrites
      BY <1>1, Known DEF CallKnown
    <2> QED
      BY <2>1, NoWritesFields
  <1>2. CASE call[d].at \in Begins
    <2>1. PICK i \in Intents : call[d].intent = Some(i)
      BY <1>2, ItsIntent DEF Begins
    <2>2. Beginning(call[d].at, txn[d], i)
      BY <1>2, <2>1, Known DEF CallKnown, Some
    <2> QED
      BY <1>2, <2>2 DEF Beginning
  <1>3. CASE call[d].at \in Ends
    <2>1. PICK l \in issued : Ending(call[d].at, txn[d], l)
      BY <1>3, ItsLease
    <2> QED
      BY <1>3, <2>1 DEF Ending
  <1> QED
    BY <1>1, <1>2, <1>3

\* Two transactions of one partition never expire or mark the same row: one of
\* them has no lock, and so nothing to write.
LEMMA ExpireNeverWaits ==
  ASSUME LockedInv, NEW c \in Client, call[c].at = "expire", NEW d \in Client \ {c}
  PROVE  {j.pub : j \in Expired(JournalOf(c), PartOf(c))}
           \cap (txn[d].expired \cup {j.pub : j \in txn[d].rows}) = {}
  <1>1. PICK l \in issued : PartOf(c) = l.intent.part /\ Ending(call[c].at, txn[c], l)
    BY ItsLease DEF Ends
  <1> DEFINE rows == JournalOf(c)
             p == l.intent.part
  <1>2. /\ ~ txn[c].locks => Expired(rows, p) = {}
        /\ Expired(rows, p) \subseteq rows
        /\ \A j \in Expired(rows, p) : \E m \in issued : m.pub = j.pub /\ m.intent.part = p
        /\ Cardinality({j \in Completed(rows, p) : j \notin Expired(rows, p)}) <= Retained
    BY <1>1, ExpiredRows
  <1> SUFFICES ASSUME NEW j \in Expired(rows, l.intent.part),
                      j.pub \in txn[d].expired \cup {k.pub : k \in txn[d].rows}
               PROVE  FALSE
    BY <1>1
  <1>3. txn[d].expired # {} \/ txn[d].rows # {}
    OBVIOUS
  <1>4. call[d].at \in Ends
    <2>1. CASE call[d].at \notin Begins \cup Ends
      BY <2>1, <1>3, Known, NoWritesFields DEF CallKnown
    <2>2. CASE call[d].at \in Begins
      <3>1. PICK i \in Intents : call[d].intent = Some(i)
        BY <2>2, ItsIntent DEF Begins
      <3>2. Beginning(call[d].at, txn[d], i)
        BY <2>2, <3>1, Known DEF CallKnown, Some
      <3> QED
        BY <1>3, <3>2 DEF Beginning
    <2> QED
      BY <2>1, <2>2
  <1>5. PICK m \in issued : /\ PartOf(d) = m.intent.part /\ m.intent.part \in Partition
                            /\ Ending(call[d].at, txn[d], m)
    BY <1>4, ItsLease
  <1>6. txn[d].locks
    BY <1>3, <1>5 DEF Ending
  <1>7. \E n \in issued : n.pub = j.pub /\ n.intent.part = m.intent.part
    <2>1. CASE j.pub \in txn[d].expired
      BY <1>5, <2>1 DEF Ending
    <2>2. CASE j.pub \in {k.pub : k \in txn[d].rows}
      <3>1. PICK status : txn[d].rows = Marked(m, status)
        BY <1>5, <1>6 DEF Ending, WroteInstall, WroteRetire
      <3>2. PICK k \in txn[d].rows : k.pub = j.pub
        BY <2>2
      <3>3. k.pub = m.pub
        BY <3>1, <3>2, MarkedRow DEF RowOf, Marked
      <3> QED
        BY <3>2, <3>3
    <2> QED
      BY <2>1, <2>2
  <1>8. PartOf(d) = PartOf(c)
    BY <1>1, <1>2, <1>5, <1>7 DEF LockedInv, TablesKnown, LeasesDistinct
  <1> QED
    BY <1>2, <1>6, <1>8, Known DEF Apart

\* What the transaction is doing that another one waits for.
LEMMA BlockedBy ==
  ASSUME LockedInv, NEW c \in Client, NEW d \in Blockers(c)
  PROVE  /\ d \in Client \ {c}
         /\ \/ call[c].at = "stage" /\ (txn[d].staged # {} \/ txn[d].dead # {})
            \/ call[c].at \in {"chunks", "allocate"} /\ txn[d].dead # {}
            \/ call[c].at \in {"head", "lock", "install", "clear"} /\ txn[d].locks
            \/ call[c].at = "delete" /\ (txn[d].dead # {} \/ Waits(c, d))
  <1>1. d \in Client \ {c}
    BY DEF Blockers
  <1>2. PICK i \in call[c].intent : d \in Blockers(c)
    BY DEF Blockers
  <1>3. CASE call[c].at = "expire"
    <2>1. call[c].intent = Some(IntentOf(c)) /\ PartOf(c) = IntentOf(c).part
      BY <1>3, ItsIntent
    <2>2. {j.pub : j \in Expired(JournalOf(c), PartOf(c))}
            \cap (txn[d].expired \cup {j.pub : j \in txn[d].rows}) # {}
      BY <1>3, <2>1 DEF Blockers, Some
    <2> QED
      BY <1>1, <1>3, <2>2, ExpireNeverWaits
  <1>4. CASE call[c].at # "expire"
    BY <1>1, <1>4 DEF Blockers, Holds, Waits
  <1> QED
    BY <1>3, <1>4, <1>1

\* PostgreSQL aborts no transaction of the coordinator to break a circle of waits,
\* whatever the number of clients (storage/postgres/projection-publication.ts).
THEOREM WaitsAlwaysEnd == LockedAssumption /\ Spec => []WaitsEnd
  <1>1. ASSUME LockedInv, NEW S \in SUBSET Client, S # {},
               \A c \in S : Blockers(c) \cap S # {}
        PROVE  FALSE
    <2>1. \A c \in S : \E d \in S : d \in Blockers(c)
      BY <1>1
    <2>2. \A c \in S : call[c].at \in {"stage", "chunks", "allocate", "head", "lock", "install",
                                       "clear", "delete"}
      BY <1>1, <2>1, BlockedBy
    <2>3. \A c \in S : txn[c].dead = {}
      BY <1>1, <2>2, WritersAt
    <2>4. \A c \in S : call[c].at # "delete"
      <3> DEFINE D == {c \in S : call[c].at = "delete"}
      <3> SUFFICES ASSUME D # {} PROVE FALSE
        OBVIOUS
      <3>1. D \in SUBSET Deleters
        BY DEF Deleters
      <3>2. PICK c \in D : \A d \in D \ {c} : ~ Waits(c, d)
        BY <1>1, <3>1 DEF LockedInv, NoCircle
      <3>3. PICK d \in S : d \in Blockers(c)
        BY <2>1
      <3>4. d # c /\ Waits(c, d)
        BY <1>1, <2>3, <3>3, BlockedBy
      <3>5. call[d].at = "delete"
        BY <1>1, <2>2, <3>4, WritersAt DEF Waits, Ends
      <3> QED
        BY <3>2, <3>4, <3>5
    <2>5. \A c \in S : ~ txn[c].locks
      <3> SUFFICES ASSUME NEW c \in S, txn[c].locks PROVE FALSE
        OBVIOUS
      <3>1. call[c].at = "allocate"
        BY <1>1, <2>2, <2>4, WritersAt DEF Ends
      <3> QED
        BY <1>1, <2>1, <2>3, <3>1, BlockedBy
    <2>6. \A c \in S : call[c].at = "stage"
      BY <1>1, <2>1, <2>3, <2>4, <2>5, BlockedBy
    <2>7. \A c \in S : txn[c].staged = {}
      BY <1>1, <2>6, WritersAt DEF Begins
    <2>8. PICK c \in S, d \in S : d \in Blockers(c)
      BY <1>1, <2>1
    <2> QED
      BY <1>1, <2>3, <2>6, <2>7, <2>8, BlockedBy
  <1>2. ASSUME LockedInv PROVE WaitsEnd
    <2> SUFFICES ASSUME NEW S \in (SUBSET Client) \ {{}}
                 PROVE  \E c \in S : Blockers(c) \cap S = {}
      BY DEF WaitsEnd
    <2>1. S \in SUBSET Client /\ S # {}
      OBVIOUS
    <2> QED
      BY <1>1, <1>2, <2>1
  <1> QED
    BY <1>2, LockedInvariant, PTL
=============================================================================

-------------------------- MODULE CoordinatorClients --------------------------
(***************************************************************************)
(* The D1 publication coordinator driven by clients that are as free as    *)
(* its interface lets them be: several clients, each sending any intent to *)
(* any index generation, finalising or superseding any lease that was ever  *)
(* granted (a duplicate delivery hands the same lease to two clients), and  *)
(* crashing in the middle of a call.  What holds here holds whatever the    *)
(* projection index built on the coordinator does.                         *)
(***************************************************************************)
EXTENDS PublicationCoordinator

CONSTANT Intents  \* the publications clients ask for

AtMostOne(option) == \A x, y \in option : x = y

\* A mutation id is a hash of everything logical in the plan, so that two
\* intents with one id and digest agree on it; only the index generation they
\* are sent to may differ.
ASSUME IntentsAssumption ==
  /\ \A i \in Intents :
       /\ DOMAIN i = {"part", "op", "mutation", "digest", "expected", "token", "rev",
                      "required", "slots", "max"}
       /\ i.part \in Partition
       /\ i.op \in {"replace", "delete"}
       /\ i.required \in Nat /\ i.slots \in Nat
       /\ AtMostOne(i.token) /\ AtMostOne(i.rev)
       /\ IF i.op = "replace" THEN i.token # None /\ i.rev # None
          ELSE i.token = None /\ i.rev = None
  /\ \A i, j \in Intents :
       i.mutation = j.mutation /\ i.digest = j.digest
         => j = [i EXCEPT !.part = j.part]

Init == CoordinatorInit

Ask(c) == \E i \in Intents : BeginRead(c, i)

Conclude(c) == \E l \in issued : Finalize(c, l)

Retire(c) == \E l \in issued : Supersede(c, l)

\* The client takes the result, or crashes in the middle of the call.
Leave(c) ==
  /\ call[c] # Idle
  /\ call' = [call EXCEPT ![c] = Idle]
  /\ UNCHANGED tables

Next ==
  \E c \in Client : Ask(c) \/ Conclude(c) \/ Retire(c) \/ Leave(c)
                    \/ CoordinatorStep(c)

Spec == Init /\ [][Next]_coordinatorVars
-----------------------------------------------------------------------------
(* Types, and the row constraints of the schema                            *)
(* (migrations/d1/0002_projection_publications.sql).                       *)

MutationIds == {i.mutation : i \in Intents}
Digests == {i.digest : i \in Intents}
Tokens == UNION {i.token : i \in Intents}
Revisions == UNION {i.rev : i \in Intents}
Operations == {"replace", "delete"}

Pendings ==
  [mutation : MutationIds, digest : Digests, pub : PublicationId,
   gen : Nat \ {0}, op : Operations, slots : Nat]

Heads ==
  [status : {"never", "revision", "deleted"}, active : SUBSET MutationIds,
   token : SUBSET Tokens, gen : Nat, slots : Nat, pending : SUBSET Pendings]

Leases ==
  [intent : Intents, pub : PublicationId, gen : Nat \ {0}, slots : Nat]

MutationRows ==
  [id : MutationIds, digest : Digests, op : Operations,
   rev : SUBSET Revisions, required : Nat, token : SUBSET Tokens]

JournalRows ==
  [pub : PublicationId, mutation : MutationIds, part : Partition,
   gen : Nat \ {0}, slots : Nat, status : {"pending", "committed", "superseded"}]

Calls ==
  [at : Results \cup {"idle", "outcome", "batch", "trim", "digest", "after", "confirm"},
   intent : SUBSET Intents, lease : SUBSET Leases]

\* Every variable has its type, and every head satisfies the CHECK that ties
\* active_status, active_mutation_id and active_token together.
TypeOK ==
  /\ heads \in [Partition -> Heads]
  /\ \A p \in Partition :
       /\ AtMostOne(heads[p].active)
       /\ AtMostOne(heads[p].token)
       /\ AtMostOne(heads[p].pending)
       /\ (heads[p].active = None) <=> (heads[p].status = "never")
       /\ (heads[p].token # None) <=> (heads[p].status = "revision")
  /\ mutations \subseteq MutationRows
  /\ journal \subseteq JournalRows
  /\ issued \subseteq Leases
  /\ call \in [Client -> Calls]
-----------------------------------------------------------------------------
(* Safety of the coordinator.                                              *)

ReplacedAsPlanned(p) ==
  (heads'[p].active # heads[p].active \/ heads'[p].token # heads[p].token) =>
    \E l \in issued : /\ l.intent.part = p
                     /\ l.intent.expected = heads[p].token
                     /\ heads'[p].active = Some(l.intent.mutation)
                     /\ heads'[p].token = l.intent.token

\* No lost update: beginPublication compares the token, finalizePublication
\* replaces it two or more steps later without looking at it again.  Still,
\* the active revision only ever changes by a lease whose plan was made
\* against the token it replaces.
NoLostUpdate == [][\A p \in Partition : ReplacedAsPlanned(p)]_coordinatorVars

CommittedAsPublished(p) ==
  heads'[p].active # heads[p].active =>
    \E l \in issued, m \in mutations' :
      /\ \E q \in heads[p].pending : q.pub = l.pub
      /\ l \in UNION {call'[c].lease : c \in Client}
      /\ heads'[p].active = Some(m.id)
      /\ m.id = l.intent.mutation /\ m.digest = l.intent.digest

\* The payload D1 commits is the payload that was published: whichever digest
\* a mutation id was first or last staged with, the revision that becomes
\* active is stored with the digest of the lease that was finalised.
PayloadIsCommitted ==
  [][\A p \in Partition : CommittedAsPublished(p)]_coordinatorVars

Register == INSTANCE LeaseRegister

\* Batches and reads together implement the promise of every coordinator:
\* each step of the heads grants, installs or retires one publication.
ImplementsRegister == Register!Spec
=============================================================================

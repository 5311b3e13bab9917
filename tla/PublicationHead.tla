--------------------------- MODULE PublicationHead ---------------------------
(***************************************************************************)
(* The decisions every publication coordinator makes by comparing one      *)
(* durable head with one publication intent (storage/publication-head.ts), *)
(* over the head and intent shapes of indexing/projection-publication.ts.  *)
(*                                                                         *)
(* An Effect Option is a set of at most one element, so that SQL's          *)
(* "both NULL or equal" is set equality.                                   *)
(*                                                                         *)
(* A head is a record with fields                                          *)
(*   status   active_status: "never", "revision" or "deleted"              *)
(*   active   Option of the active mutation id                             *)
(*   token    Option of the active revision token                          *)
(*   gen      last_allocated_generation                                    *)
(*   slots    slot_high_water                                              *)
(*   pending  Option of [mutation, digest, pub, gen, op, slots]            *)
(* A head that has no row in the table is FreshHead.                       *)
(*                                                                         *)
(* An intent is a record with fields                                       *)
(*   part      the index generation of the coordinator it is sent to       *)
(*   op        "replace" or "delete"                                       *)
(*   mutation  mutationId            digest  payloadDigest                 *)
(*   expected  Option of the token the plan was made against               *)
(*   token     Option of the token it installs (None for a deletion)       *)
(*   rev       Option of the revision whose inventory it carries           *)
(*   required, slots, max   the three slot counts                          *)
(***************************************************************************)
EXTENDS Integers, FiniteSets

None == {}
Some(x) == {x}

FreshHead ==
  [status |-> "never", active |-> None, token |-> None, gen |-> 0,
   slots |-> 0, pending |-> None]

\* The coordinator joins the digest of the active mutation to the head.
SameActiveIntent(head, activeDigest, intent) ==
  /\ head.active = Some(intent.mutation)
  /\ activeDigest = Some(intent.digest)

PendingIsMutation(head, intent) ==
  \E p \in head.pending : /\ p.mutation = intent.mutation
                          /\ p.digest = intent.digest

SamePendingIntent(head, intent) ==
  \E p \in head.pending : /\ p.mutation = intent.mutation
                          /\ p.digest = intent.digest
                          /\ p.slots = intent.slots

ActiveMatchesExpectedToken(head, intent) ==
  IF intent.expected = None THEN head.status # "revision"
  ELSE head.status = "revision" /\ head.token = intent.expected

PlanIsStale(head, intent) ==
  /\ head.pending = None
  /\ ActiveMatchesExpectedToken(head, intent)
  /\ head.slots > intent.slots

\* Authority to publish: intent, publication identity, generation, closure.
LeaseOf(intent, pub, gen, slots) ==
  [intent |-> intent, pub |-> pub, gen |-> gen, slots |-> slots]

\* Mutant of ResumedLeases: resuming allocates another generation.
ResumedLeasesUnderNewGeneration(head, intent) ==
  {LeaseOf(intent, p.pub, p.gen + 1, p.slots) : p \in head.pending}

ResumedLeases(head, intent) ==
  {LeaseOf(intent, p.pub, p.gen, p.slots) : p \in head.pending}
=============================================================================

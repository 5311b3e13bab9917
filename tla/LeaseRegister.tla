---------------------------- MODULE LeaseRegister ----------------------------
(***************************************************************************)
(* What a publication coordinator promises of its durable heads, whichever *)
(* database keeps them and in however many statements                      *)
(* (ProjectionPublicationCoordinatorService in                             *)
(* indexing/projection-publication.ts): a publication is granted against   *)
(* the token that is active, under a new generation and a closure that     *)
(* never shrinks; while it is pending no other is granted; and it ends by   *)
(* becoming active or by being retired, and in no other way.               *)
(***************************************************************************)
EXTENDS PublicationHead

CONSTANTS Partition, PublicationId, Intents

VARIABLE heads

Init == heads = [p \in Partition |-> FreshHead]

Grant(p) ==
  \E i \in {j \in Intents : j.part = p}, pub \in PublicationId :
    LET gen == heads[p].gen + 1
    IN  /\ heads[p].pending = None
        /\ ActiveMatchesExpectedToken(heads[p], i)
        /\ heads[p].slots <= i.slots /\ i.slots <= i.max
        /\ heads' = [heads EXCEPT
             ![p].gen = gen, ![p].slots = i.slots,
             ![p].pending = Some([mutation |-> i.mutation, digest |-> i.digest,
                                  pub |-> pub, gen |-> gen, op |-> i.op,
                                  slots |-> i.slots])]

Install(p) ==
  \E i \in {j \in Intents : j.part = p} :
    /\ PendingIsMutation(heads[p], i)
    /\ heads' = [heads EXCEPT
         ![p].status = IF i.op = "replace" THEN "revision" ELSE "deleted",
         ![p].active = Some(i.mutation), ![p].token = i.token,
         ![p].pending = None]

Retire(p) == heads' = [heads EXCEPT ![p].pending = None]

\* A step that changes a head; the others stutter.
Next ==
  \E p \in Partition :
    /\ heads'[p] # heads[p]
    /\ Grant(p) \/ Install(p) \/ Retire(p)

Spec == Init /\ [][Next]_heads
=============================================================================

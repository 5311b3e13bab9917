-------------------------- MODULE MCPostgresTopology --------------------------
(***************************************************************************)
(* Three documents whose relations cross, in two versions of one relation,   *)
(* and two connections.                                                     *)
(***************************************************************************)
EXTENDS PostgresTopology

CONSTANTS old, new, s1, s2

\* A behaviour is of one part: "crossing" publishers, one of which may lose its
\* connection, or a "shared" target that they leave behind.
VARIABLE part

MCDoc == 1..3
MCDefinition == {old, new}
MCManifests == {{new}, {old, new}}

To(def, d, targets) ==
  [kind |-> "replace", doc |-> d, registered |-> {},
   links |-> [def : {def}, src : {d}, tgt : targets]]

Without(d) == [kind |-> "delete", doc |-> d, registered |-> {}, links |-> {}]

\* 1 and 3 refer to 2, in turn or together; 1 and 2 refer to each other.
Crossing ==
  {To(new, 1, {}), To(new, 1, {2}), To(old, 1, {2, 3}), To(new, 2, {1}), To(new, 3, {2}),
   To(new, 3, {}), Without(1), Without(2)}

\* The writers that leave a shared target behind.
SharedTarget == {To(new, 1, {}), To(new, 1, {2}), To(old, 3, {2}), Without(3)}

MCWrites == Crossing \cup SharedTarget

MCInit == Init /\ part \in {"crossing", "shared"}

Asked == IF part = "shared" THEN SharedTarget ELSE Crossing

MCNext ==
  /\ Next
  /\ \A w \in Session : job'[w] \in Asked \cup Prunings
  /\ part = "shared" => failures' = 0
  /\ UNCHANGED part

MCSpec ==
  /\ MCInit /\ [][MCNext]_<<vars, part>>
  /\ \A w \in Session : WF_vars(Statement(w)) /\ WF_vars(AbortVictim(w)) /\ WF_vars(BeginPrune(w))
=============================================================================

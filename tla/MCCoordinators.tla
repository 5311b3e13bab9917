---------------------------- MODULE MCCoordinators ----------------------------
(***************************************************************************)
(* Small instances of the two publication coordinators.  A behaviour is of   *)
(* one part, and the variables of the other coordinator stay as they are:    *)
(*   "rivals", "reused"   CoordinatorClients, with different intents         *)
(*   "generations", "twice", "crowd"   LockedCoordinator                     *)
(*   "restaged"   LockedCoordinator, under a specification of its own          *)
(***************************************************************************)
EXTENDS CoordinatorClients, TLC

CONSTANTS blue, green,   \* index generations sharing the database
          u1, u2, u3,    \* publication ids
          c1, c2,        \* clients
          v1, v2, d1, d2, d3   \* publication ids and clients of the crowd

VARIABLES part, pgHeads, pgMutations, pgJournal, pgIssued, pgCall, pgTxn

pgVars == <<pgHeads, pgMutations, pgJournal, pgIssued, pgCall, pgTxn>>
vars == <<part, coordinatorVars, pgVars>>

Replacement(p, id, digest, expected, slots) ==
  [part |-> p, op |-> "replace", mutation |-> id, digest |-> digest,
   expected |-> expected, token |-> Some(id), rev |-> Some(id),
   required |-> 1, slots |-> slots, max |-> 2]

Deletion(p, id, expected, slots) ==
  [part |-> p, op |-> "delete", mutation |-> id, digest |-> "all",
   expected |-> expected, token |-> None, rev |-> None,
   required |-> 0, slots |-> slots, max |-> 2]

\* Two rivals for an empty head, one sent to both index generations; a wider
\* successor of the first, and the deletion of the first.
Rivals ==
  {Replacement(blue, "A", "x", None, 1),
   Replacement(blue, "B", "x", None, 1),
   Replacement(green, "A", "x", None, 1),
   Replacement(blue, "C", "x", Some("A"), 2),
   Deletion(blue, "D", Some("A"), 1)}

\* One plan embedded twice: the same mutation id with two digests.
Reused ==
  {Replacement(blue, "A", "x", None, 1),
   Replacement(blue, "A", "y", None, 1),
   Replacement(blue, "E", "x", None, 3),
   Deletion(blue, "F", None, 1),
   Deletion(blue, "D", Some("A"), 1)}

MCIntents == Rivals \cup Reused

\* One plan sent to both index generations, its successor and its deletion:
\* whoever commits last retires a mutation another generation asks for.
Successive == Rivals \ {Replacement(blue, "B", "x", None, 1)}

\* Rivals for an empty head and one plan embedded twice.
Twice ==
  {Replacement(blue, "A", "x", None, 1),
   Replacement(blue, "A", "y", None, 1),
   Replacement(blue, "B", "x", None, 2),
   Replacement(blue, "E", "x", None, 3),
   Deletion(blue, "F", None, 1)}

Generations == INSTANCE LockedCoordinator WITH
  Intents <- Successive, heads <- pgHeads, mutations <- pgMutations,
  journal <- pgJournal, issued <- pgIssued, call <- pgCall, txn <- pgTxn
EmbeddedTwice == INSTANCE LockedCoordinator WITH
  Intents <- Twice, heads <- pgHeads, mutations <- pgMutations,
  journal <- pgJournal, issued <- pgIssued, call <- pgCall, txn <- pgTxn
Crowd == INSTANCE LockedCoordinator WITH
  Client <- {d1, d2, d3}, PublicationId <- {v1, v2}, Intents <- Successive,
  heads <- pgHeads, mutations <- pgMutations,
  journal <- pgJournal, issued <- pgIssued, call <- pgCall, txn <- pgTxn

Restaged == INSTANCE LockedCoordinator WITH
  Partition <- {blue}, PublicationId <- {u1, u2, u3, v1},
  Intents <- {Replacement(blue, "A", "x", None, 1), Replacement(blue, "A", "y", None, 1),
              Replacement(blue, "B", "x", None, 1)},
  heads <- pgHeads, mutations <- pgMutations,
  journal <- pgJournal, issued <- pgIssued, call <- pgCall, txn <- pgTxn

ASSUME Parameters ==
  /\ Generations!LockedAssumption /\ EmbeddedTwice!LockedAssumption
  /\ Crowd!LockedAssumption /\ Restaged!LockedAssumption
-----------------------------------------------------------------------------
MCInit ==
  /\ Init
  /\ \/ part \in {"rivals", "reused", "generations"} /\ Generations!Init
     \/ part = "twice" /\ EmbeddedTwice!Init
     \/ part = "crowd" /\ Crowd!Init

Asked == CASE part = "rivals" -> Rivals [] part = "reused" -> Reused [] OTHER -> {}

D1Next ==
  /\ part \in {"rivals", "reused"}
  /\ Next
  /\ \A c \in Client : call'[c].intent \subseteq Asked
  /\ UNCHANGED <<part, pgVars>>

PostgresNext ==
  /\ \/ part = "generations" /\ Generations!Next
     \/ part = "twice" /\ EmbeddedTwice!Next
     \/ part = "crowd" /\ Crowd!Next
  /\ UNCHANGED <<part, coordinatorVars>>

MCNext == D1Next \/ PostgresNext
MCSpec == MCInit /\ [][MCNext]_vars

\* One group of permutations for all parts: a permutation of two clients is
\* one of the crowd's two publication ids, and the other way round for three.
Permuted(list, f) == [x \in {list[i] : i \in DOMAIN list} |->
                     list[f[CHOOSE i \in DOMAIN list : list[i] = x]]]
Symmetry ==
  {Permuted(<<c1, c2>>, f) @@ Permuted(<<v1, v2>>, f)
     @@ Permuted(<<u1, u2, u3>>, g) @@ Permuted(<<d1, d2, d3>>, g) :
   f \in Permutations(1..2), g \in Permutations(1..3)}
LeaseSymmetry == Permutations({u1, u2, u3, v1})

\* In this part c2 only asks for A with the digest x, and calls are not cut off:
\* what the bounds leave is enough for a counterexample.
RestagedNext ==
  /\ Restaged!Next
  /\ pgCall'[c2].intent \subseteq {Replacement(blue, "A", "x", None, 1)}
  /\ \A c \in Client :
       pgCall'[c].at = "idle" => pgCall[c].at \in Restaged!Results \union {"idle"}
  /\ UNCHANGED <<part, coordinatorVars>>

RestagedSpec ==
  /\ Init /\ part = "restaged" /\ Restaged!Init
  /\ [][RestagedNext]_vars
-----------------------------------------------------------------------------
\* What TablesAgree says of the D1 tables, of the PostgreSQL tables after every
\* commit, although the snapshots of one transaction miss what another one is
\* about to commit
\* (storage/postgres/projection-publication.ts).
LockedTablesAgree ==
  /\ part = "generations" =>
       /\ Generations!ReferencesResolve /\ Generations!ActiveRevisionReadable
       /\ Generations!JournalMatchesHead /\ Generations!HistoryBounded
  /\ part = "twice" => EmbeddedTwice!ReferencesResolve

\* A coordinator "rejects a mutation ID reused with a different payload"
\* (tests/support/projection-publication-coordinator-suite.ts:329): whatever
\* publication is pending, its mutation is stored with its own payload.  Not so
\* where the mutation was collected and staged again with another payload after
\* the digests had been compared (storage/postgres/projection-publication.ts:513).
ReusedPayloadRejected == Restaged!PendingHasItsPayload

LockedRegister == INSTANCE LeaseRegister WITH
  PublicationId <- {u1, u2, u3, v1, v2}, Intents <- MCIntents \cup Twice, heads <- pgHeads

\* The transactions of all connections together implement the register of leases
\* (storage/postgres/projection-publication.ts).
LockedImplementsRegister == LockedRegister!Spec

\* Three connections never wait for each other in a circle
\* (storage/postgres/projection-publication.ts).
WaitsEnd ==
  /\ part \in {"generations", "twice"} => Generations!WaitsEnd
  /\ part = "crowd" => Crowd!WaitsEnd
=============================================================================

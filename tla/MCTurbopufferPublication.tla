---------------------- MODULE MCTurbopufferPublication ----------------------
(* Small instances of TurbopufferPublication. *)
EXTENDS TurbopufferPublication, TLC

CONSTANTS here,        \* the only index generation
          u1, u2, u3,  \* publication ids
          w1, w2,      \* workers
          short, long, \* a revision of one chunk, and one of two
          x, y         \* embeddings

MCSlotCount == [r \in {short, long} |-> IF r = long THEN 2 ELSE 1]

Symmetry == Permutations(Client) \cup Permutations(PublicationId)

=============================================================================

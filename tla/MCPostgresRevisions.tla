-------------------------- MODULE MCPostgresRevisions --------------------------
(***************************************************************************)
(* Two versions of a projection whose revisions share a chunk, and a change   *)
(* of the embedding profile.                                                *)
(***************************************************************************)
EXTENDS PostgresRevisions

CONSTANTS x, y, v1, v2, p1, p2, w1, w2

MCRevisions ==
  {[version |-> v1, contents |-> {x}], [version |-> v1, contents |-> {x, y}],
   [version |-> v2, contents |-> {y}]}

MCManifests == {{v1}, {v1, v2}}
=============================================================================

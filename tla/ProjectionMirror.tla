--------------------------- MODULE ProjectionMirror ---------------------------
(***************************************************************************)
(* PostgreSQL is the index that is written and another projection index, the *)
(* target, the one that is searched (storage/postgres/projection-index-copy.ts *)
(* and migration 0007).  A trigger records what changes; a drain copies the      *)
(* recorded projections and clears their records, and a copy takes over what       *)
(* was stored before the trigger existed.  Each of their reads is a statement        *)
(* of its own, and writers go on in between.                                          *)
(*                                                                                     *)
(* A content stands for a revision: its hash in the revision row, and its rows in the    *)
(* chunk table.  The target's calls are atomic (InMemoryIndex, TurbopufferPublication).   *)
(***************************************************************************)
EXTENDS Integers, FiniteSets, FiniteSetsExt

CONSTANTS
  Key,           \* document projections, numbered in key order
  SourceContent, \* revisions that may be indexed
  Earlier,       \* those that were indexed before the trigger existed
  Registered,    \* those of a projection version that the manifest knows
  Runner,        \* processes that drain or copy
  BatchSize,     \* changes or revision rows read at a time
  MaxChanges     \* BOUND on the changes of the source

ASSUME MirrorAssumption ==
  /\ IsFiniteSet(Key) /\ Key \subseteq Nat \ {0} /\ Earlier \union Registered \subseteq SourceContent
  /\ BatchSize \in Nat \ {0} /\ MaxChanges \in Nat

VARIABLES
  source,      \* by key, Option of the content that PostgreSQL holds
  changes,     \* by key, the sequence number of its recorded change, or 0
  sequence,
  target,      \* by key, Option of [hash, chunks, token]
  tokens,      \* tokens the target has given
  run,         \* by runner, the drain or copy at work
  copied,      \* history: whether a copy has come to its end
  had,         \* history: by key, the contents PostgreSQL has held
  restored     \* history: keys that were given a former content again

mirrorVars == <<source, changes, sequence, target, tokens, run, copied, had, restored>>
sourceVars == <<source, changes, sequence, had, restored>>

None == {}
Some(x) == {x}
The(option) == CHOOSE x \in option : TRUE

Stopped ==
  [at |-> "idle", copies |-> FALSE, after |-> 0, batch |-> {}, rows |-> <<>>,
   chunks |-> <<>>, held |-> <<>>, left |-> {}, failed |-> {}]

\* The trigger comes to a database that holds revisions, and to an empty target.
MirrorInit ==
  /\ source \in [Key -> {None} \union {Some(c) : c \in Earlier}]
  /\ changes = [k \in Key |-> 0] /\ sequence = 0
  /\ target = [k \in Key |-> None] /\ tokens = 0
  /\ run = [r \in Runner |-> Stopped]
  /\ copied = FALSE /\ had = source /\ restored = {}

\* A committed write of the projection, its record renewed by the trigger.
ChangeSource(k, content) ==
  /\ sequence < MaxChanges
  /\ source[k] # content
  /\ source' = [source EXCEPT ![k] = content]
  /\ sequence' = sequence + 1
  /\ changes' = [changes EXCEPT ![k] = sequence']
  /\ had' = [had EXCEPT ![k] = @ \union content]
  /\ restored' = IF content \intersect had[k] = {} THEN restored ELSE restored \union {k}
  /\ UNCHANGED <<target, tokens, run, copied>>
-----------------------------------------------------------------------------
Run(r) == run[r]
KeysOf(r) == {c.key : c \in Run(r).batch}
Goes(r, next) == run' = [run EXCEPT ![r] = next]

Start(r) ==
  /\ Run(r).at = "idle"
  /\ \E copies \in BOOLEAN : Goes(r, [Stopped EXCEPT !.at = "batch", !.copies = copies])
  /\ UNCHANGED <<sourceVars, target, tokens, copied>>

First(found) == {c \in found : Cardinality({d \in found : d.place < c.place}) < BatchSize}

\* readChanges, in the order of their sequence numbers.
Changes(after) ==
  First({[key |-> k, place |-> changes[k]] : k \in {k \in Key : changes[k] > after}})

\* readRevisionRows, in the order of their keys.
Page(after) ==
  First({[key |-> k, place |-> k] : k \in {k \in Key : k > after /\ source[k] # None}})

ReadBatch(r) ==
  /\ Run(r).at = "batch" /\ ~Run(r).copies
  /\ LET batch == Changes(Run(r).after)
     IN Goes(r, IF batch = {} THEN Stopped
                ELSE [Run(r) EXCEPT !.at = "rows", !.batch = batch, !.failed = {},
                                    !.after = Max({c.place : c \in batch})])
  /\ UNCHANGED <<sourceVars, target, tokens, copied>>

\* The revision rows of the changed projections.
SourceRows(r) == [k \in KeysOf(r) |-> source[k]]

ReadRows(r) ==
  /\ Run(r).at = "rows"
  /\ Goes(r, [Run(r) EXCEPT !.at = "chunks", !.rows = SourceRows(r)])
  /\ UNCHANGED <<sourceVars, target, tokens, copied>>

\* A copy's page is read with its rows; a copy that finds none has come to its end.
ReadPage(r) ==
  /\ Run(r).at = "batch" /\ Run(r).copies
  /\ LET page == Page(Run(r).after)
     IN /\ Goes(r, IF page = {} THEN Stopped
                   ELSE [Run(r) EXCEPT !.at = "tokens", !.batch = page,
                                       !.after = Max({c.place : c \in page}),
                                       !.rows = [k \in {c.key : c \in page} |-> source[k]]])
        /\ copied' = (copied \/ page = {})
  /\ UNCHANGED <<sourceVars, target, tokens>>

\* The chunks of a projection, whatever revision they are of by now.
ReadChunks(r) ==
  /\ Run(r).at = "chunks"
  /\ Goes(r, [Run(r) EXCEPT !.at = IF Run(r).copies THEN "write" ELSE "tokens",
                            !.chunks = [k \in KeysOf(r) |-> source[k]],
                            !.left = KeysOf(r)])
  /\ UNCHANGED <<sourceVars, target, tokens, copied>>

LoadTargets(r) ==
  /\ Run(r).at = "tokens"
  /\ Goes(r, [Run(r) EXCEPT !.at = IF Run(r).copies THEN "chunks" ELSE "write",
                            !.held = [k \in KeysOf(r) |-> target[k]]])
  /\ UNCHANGED <<sourceVars, target, tokens, copied>>
-----------------------------------------------------------------------------
(* Writing to the target.                                                  *)

\* A row of an unknown version, or whose chunks are gone.
Unregistered(r, k) ==
  Run(r).rows[k] # None /\ ~(Run(r).rows[k] \subseteq Registered /\ Run(r).chunks[k] # None)

\* Mutant of Reflected: a target that holds any revision is taken for a copy.
ReflectedByAny(r, k) == Run(r).rows[k] # None /\ Run(r).held[k] # None

\* The target holds the revision already, by its hash, or has nothing to delete.
Reflected(r, k) ==
  IF Run(r).rows[k] = None THEN ~Run(r).copies /\ Run(r).held[k] = None
  ELSE {held.hash : held \in Run(r).held[k]} = Run(r).rows[k]

TokenIn(option) == {held.token : held \in option}

Applied(r, k) ==
  IF Run(r).rows[k] = None
  THEN /\ target' = [target EXCEPT ![k] = None]
       /\ UNCHANGED tokens
  ELSE /\ TokenIn(target[k]) = TokenIn(Run(r).held[k])
       /\ tokens' = tokens + 1
       /\ target' = [target EXCEPT ![k] =
            Some([hash |-> The(Run(r).rows[k]), chunks |-> The(Run(r).chunks[k]), token |-> tokens'])]

Wrote(r, k) == Goes(r, [Run(r) EXCEPT !.left = @ \ {k}])

\* A drain goes on with the next projection, a copy fails.
Failed(r, k) ==
  Goes(r, IF Run(r).copies THEN Stopped
          ELSE [Run(r) EXCEPT !.left = @ \ {k}, !.failed = @ \union {k}])

\* A conflict, an unavailable target, or an answer that is lost.
Write(r, k) ==
  /\ Run(r).at = "write" /\ k \in Run(r).left
  /\ \/ /\ Unregistered(r, k) \/ Reflected(r, k)
        /\ Wrote(r, k)
        /\ UNCHANGED <<target, tokens>>
     \/ /\ ~Unregistered(r, k) /\ ~Reflected(r, k)
        /\ \/ Applied(r, k) /\ Wrote(r, k)
           \/ Applied(r, k) /\ Failed(r, k)
           \/ Failed(r, k) /\ UNCHANGED <<target, tokens>>
  /\ UNCHANGED <<sourceVars, copied>>

\* Mutant of Cleared: whatever is recorded of the projections by now.
ClearedOfKeys(r) == {c.key : c \in {d \in Run(r).batch : d.key \notin Run(r).failed}}

\* Mutant of Cleared: the failed ones too.
ClearedAll(r) == {c.key : c \in {d \in Run(r).batch : changes[d.key] = d.place}}

\* clearChanges: records that are still those that were read, and did not fail.
Cleared(r) ==
  {c.key : c \in {d \in Run(r).batch : d.key \notin Run(r).failed /\ changes[d.key] = d.place}}

\* A short batch was the last, and the drain may have had its maximumBatches.
ClearBatch(r) ==
  /\ Run(r).at = "write" /\ Run(r).left = {} /\ ~Run(r).copies
  /\ changes' = [k \in Key |-> IF k \in Cleared(r) THEN 0 ELSE changes[k]]
  /\ \/ Goes(r, Stopped)
     \/ /\ Cardinality(Run(r).batch) = BatchSize
        /\ Goes(r, [Stopped EXCEPT !.at = "batch", !.after = Run(r).after])
  /\ UNCHANGED <<source, sequence, had, restored, target, tokens, copied>>

\* The copy has written its page.
TurnPage(r) ==
  /\ Run(r).at = "write" /\ Run(r).left = {} /\ Run(r).copies
  /\ \/ Goes(r, Stopped)
     \/ Goes(r, [Stopped EXCEPT !.at = "batch", !.copies = TRUE, !.after = Run(r).after])
  /\ UNCHANGED <<sourceVars, target, tokens, copied>>

\* A read fails, or the process ends; the write under way may have been applied.
Crash(r) ==
  /\ Run(r).at # "idle"
  /\ Goes(r, Stopped)
  /\ \/ UNCHANGED <<target, tokens>>
     \/ /\ Run(r).at = "write"
        /\ \E k \in Run(r).left :
             ~Unregistered(r, k) /\ ~Reflected(r, k) /\ Applied(r, k)
  /\ UNCHANGED <<sourceVars, copied>>

MirrorNext ==
  \/ \E k \in Key, content \in {None} \union {Some(c) : c \in SourceContent} : ChangeSource(k, content)
  \/ \E r \in Runner :
       \/ Start(r) \/ ReadBatch(r) \/ ReadRows(r) \/ ReadPage(r) \/ ReadChunks(r)
       \/ LoadTargets(r) \/ ClearBatch(r) \/ TurnPage(r) \/ Crash(r)
       \/ \E k \in Key : Write(r, k)

MirrorSpec == MirrorInit /\ [][MirrorNext]_mirrorVars
-----------------------------------------------------------------------------
Quiet == /\ copied
         /\ \A r \in Runner : Run(r).at = "idle"
         /\ \A k \in Key : changes[k] = 0

\* "A projection rewritten while a drain runs keeps its record, so the drain cannot
\* clear a change it did not copy": once a copy has ended, and no change is recorded
\* and no drain at work, the target holds the revision that PostgreSQL holds, or none
\* where it holds none, whatever changed between the statements of a drain and
\* whichever of its writes failed or were cut off.  Projections of versions that the
\* manifest does not know are not copied.  A row and the chunks of another revision
\* may be read together; the next drain replaces them, unless the projection has
\* been given the row's revision again by then.
MirrorIsCurrent ==
  Quiet =>
    \A k \in Key : source[k] \subseteq Registered =>
      /\ {held.hash : held \in target[k]} = source[k]
      /\ k \notin restored => {held.chunks : held \in target[k]} = source[k]

\* The same of restored projections (see "Findings" in the README).
RestoredIsCurrent ==
  Quiet => \A k \in Key : source[k] \subseteq Registered =>
             {held.chunks : held \in target[k]} = source[k]
=============================================================================

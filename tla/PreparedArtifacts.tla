-------------------------- MODULE PreparedArtifacts --------------------------
(***************************************************************************)
(* Prepared mutations as values and as durable artifacts                    *)
(* (indexing/prepared-mutation.ts): several runs of an indexing program     *)
(* capture replacements in whatever order their fibers reach the store, and  *)
(* freeze, encode, persist and decode them; what is persisted may be damaged *)
(* before it is decoded.                                                    *)
(*                                                                         *)
(* Documents, projections, sections, contents, JSON keys and JSON leaves are *)
(* numbers, of which content 0 is blank.  Document keys, chunk ids and       *)
(* content hashes are injective functions of what they are made from.  An    *)
(* object of JSON is the sequence of its <<key, leaf>> pairs in insertion     *)
(* order.                                                                   *)
(***************************************************************************)
EXTENDS Integers, Sequences, FiniteSets, SequencesExt

CONSTANTS
  Program,    \* the names of the replacements that each run captures
  Forms,      \* by name, the values a run may compute for it
  MayDamage   \* whether persisted artifacts are damaged

ArtifactAssumption == MayDamage \in BOOLEAN

VARIABLES
  objects,   \* by run and name, the application's object
  captured,  \* by run, the names in the order they reached the store
  prepared,  \* by run, Option of the result of prepare
  stored,    \* by run, Option of the persisted artifact, or of a refusal
  damaged,
  decoded    \* by run, Option of the result of decoding

vars == <<objects, captured, prepared, stored, damaged, decoded>>

None == {}
Some(x) == {x}
Runs == DOMAIN Program
Accepted(value) == [reason |-> "accepted", value |-> value]
Refused(reason) == [reason |-> reason, value |-> <<>>]
Null == [kind |-> "null", fields |-> <<>>]
Tagged(value) == [kind |-> "some", fields |-> value]

Init ==
  /\ objects = [r \in Runs |-> <<>>]
  /\ captured = [r \in Runs |-> <<>>]
  /\ prepared = [r \in Runs |-> None]
  /\ stored = [r \in Runs |-> None]
  /\ damaged = [r \in Runs |-> FALSE]
  /\ decoded = [r \in Runs |-> None]
-----------------------------------------------------------------------------
(* Identity and order.                                                     *)

IsProjection(operation) == operation.tag = "ReplaceProjectedRevision"

\* projectionIdentity, relationIdentity.
Identity(operation) ==
  IF IsProjection(operation) THEN <<1, operation.document, operation.projection>>
  ELSE <<2, operation.document, 0>>

\* compareIdentity.
Precedes(left, right) ==
  LET l == Identity(left)
      r == Identity(right)
  IN  \E i \in 1..3 : l[i] < r[i] /\ \A k \in 1..(i - 1) : l[k] = r[k]

\* A stable sort, as JavaScript's is.
StableSort(sequence, Before(_, _)) ==
  LET Place(i) == Cardinality({k \in DOMAIN sequence :
                    \/ Before(sequence[k], sequence[i])
                    \/ k <= i /\ ~Before(sequence[i], sequence[k])})
  IN  [n \in DOMAIN sequence |-> sequence[CHOOSE i \in DOMAIN sequence : Place(i) = n]]

Sorted(operations) == StableSort(operations, Precedes)
-----------------------------------------------------------------------------
(* Validation.                                                             *)

DocumentKeyOf(reference) == reference
ContentHashOf(content) == <<"hash", content>>
ChunkIdOf(operation, chunk) ==
  <<operation.document, operation.projection, chunk.section, chunk.part>>

Distinct(sequence) == IsInjective(sequence)
Each(sequence, Field(_)) == [i \in DOMAIN sequence |-> Field(sequence[i])]

\* planProjectedRevisionReplacement.
Plannable(operation, reusable) ==
  LET chunks == operation.chunks
      hashes == {chunks[i].hash : i \in DOMAIN chunks}
      supplied == ToSet(operation.embeddings)
  IN  /\ Distinct(Each(chunks, LAMBDA c : c.id))
      /\ Distinct(Each(chunks, LAMBDA c : c.ordinal))
      /\ Distinct(Each(chunks, LAMBDA c : <<c.section, c.part>>))
      /\ \A i \in DOMAIN chunks : chunks[i].ordinal >= 0 /\ chunks[i].content # 0
      /\ Distinct(operation.embeddings)
      /\ supplied \subseteq hashes
      /\ hashes \subseteq supplied \union reusable

\* validateProjectionReplacement: a replacement of a revision may reuse its
\* vectors, and only the store can tell which they are.
ValidProjection(operation) ==
  /\ Plannable(operation,
       IF operation.expected = None THEN {}
       ELSE {operation.chunks[i].hash : i \in DOMAIN operation.chunks})
  /\ DocumentKeyOf(operation.target) = operation.document
  /\ operation.policy # "weightless"
  /\ \A i \in DOMAIN operation.chunks :
       LET chunk == operation.chunks[i]
       IN  /\ chunk.id = ChunkIdOf(operation, chunk)
           /\ chunk.hash = ContentHashOf(chunk.content)

\* planOutgoingGraphRelationReplacement.
ValidTopology(operation) ==
  LET relations == operation.relations
  IN  /\ DocumentKeyOf(operation.target) = operation.document
      /\ Distinct(Each(relations, LAMBDA r : r.id))
      /\ \A i \in DOMAIN relations :
           LET targets == relations[i].targets
           IN  /\ \A k \in DOMAIN targets : DocumentKeyOf(targets[k].reference) = targets[k].key
               /\ Distinct(Each(targets, LAMBDA t : t.key))
-----------------------------------------------------------------------------
(* Capture and preparation.                                                *)

\* Mutant of Frozen: the prepared mutation shares the application's object.
FrozenByReference(r, name) == [name |-> name, copy |-> None]

\* freezeProjectionReplacement, freezeRelationReplacement: a deep copy.
Frozen(r, name) == [name |-> name, copy |-> Some(objects[r][name])]

\* What a prepared operation holds when it is read.
Held(r, cell) == IF cell.copy = None THEN objects[r][cell.name] ELSE CHOOSE o \in cell.copy : TRUE

\* prepareMutation, after both lists have been sorted.
Prepared(operations) ==
  IF Distinct(Each(operations, Identity)) THEN Accepted(operations)
  ELSE Refused("duplicate_operation")

Capture(r) ==
  /\ prepared[r] = None
  /\ \E name \in Program[r] \ ToSet(captured[r]) : \E form \in Forms[name] :
       /\ captured' = [captured EXCEPT ![r] = Append(@, name)]
       /\ objects' = [objects EXCEPT ![r] = (name :> form) @@ @]
  /\ UNCHANGED <<prepared, stored, damaged, decoded>>

\* prepareGraphMutation, once the program is through.
Prepare(r) ==
  /\ prepared[r] = None
  /\ ToSet(captured[r]) = Program[r]
  /\ LET cells == StableSort(Each(captured[r], LAMBDA name : Frozen(r, name)),
                             LAMBDA a, b : Precedes(Held(r, a), Held(r, b)))
         result == Prepared(Each(cells, LAMBDA cell : Held(r, cell)))
     IN  prepared' = [prepared EXCEPT ![r] = Some([result EXCEPT !.value =
           IF result.reason = "accepted" THEN cells ELSE <<>>])]
  /\ UNCHANGED <<objects, captured, stored, damaged, decoded>>

Mutation(r) == LET result == CHOOSE p \in prepared[r] : TRUE
               IN  Each(result.value, LAMBDA cell : Held(r, cell))

\* The application goes on using the objects it indexed, and empties one.
Reuse(r) ==
  /\ prepared[r] # None
  /\ \E name \in Program[r] :
       objects' = [objects EXCEPT ![r][name].embeddings = <<>>]
  /\ UNCHANGED <<captured, prepared, stored, damaged, decoded>>
-----------------------------------------------------------------------------
(* Artifacts.  A token, a context or metadata that is absent needs a JSON   *)
(* form that no present one has; metadata may itself be null.               *)

\* Mutant of MetadataToArtifact: absent metadata becomes null.
MetadataToArtifactUntagged(metadata) ==
  IF metadata = None THEN Tagged(Null) ELSE Tagged(CHOOSE m \in metadata : TRUE)

MetadataToArtifact(metadata) ==
  IF metadata = None THEN [kind |-> "none", fields |-> Null]
  ELSE Tagged(CHOOSE m \in metadata : TRUE)

\* chunkToArtifact, chunkFromArtifact.
ChunkToArtifact(chunk) == [chunk EXCEPT !.metadata = MetadataToArtifact(@)]
ChunkFromArtifact(chunk) ==
  [chunk EXCEPT !.metadata = IF @.kind = "none" THEN None ELSE Some(@.fields)]

\* projectionToArtifact, topologyToArtifact, mutationToArtifact.
ToArtifact(operations) ==
  [json |-> TRUE, version |-> 1, excess |-> FALSE,
   operations |-> Each(operations, LAMBDA o :
     IF IsProjection(o) THEN [o EXCEPT !.chunks = Each(@, ChunkToArtifact)] ELSE o)]

\* projectionFromArtifact, topologyFromArtifact.
FromArtifact(artifact) ==
  Each(artifact.operations, LAMBDA o :
    IF IsProjection(o) THEN [o EXCEPT !.chunks = Each(@, ChunkFromArtifact)] ELSE o)

\* Mutant of CanonicalJson: objects keep their insertion order.
CanonicalJsonAsInserted(json) == json

\* canonicalJsonValue, on the only JSON whose keys the schema leaves open.
CanonicalJson(json) ==
  [json EXCEPT !.fields = StableSort(@, LAMBDA a, b : a[1] < b[1])]

CanonicalChunk(chunk) == [chunk EXCEPT !.metadata.fields = CanonicalJson(@)]

Canonical(artifact) ==
  [artifact EXCEPT !.operations = Each(@, LAMBDA o :
     IF IsProjection(o) THEN [o EXCEPT !.chunks = Each(@, CanonicalChunk)] ELSE o)]

\* The schema of artifacts, with excess properties refused.
WellFormed(artifact) ==
  /\ artifact.version = 1
  /\ ~artifact.excess
  /\ \A i \in DOMAIN artifact.operations :
       IsProjection(artifact.operations[i]) => artifact.operations[i].chunks # <<>>

\* Mutant of FirstInvalid: content hashes and chunk ids are taken as stored.
FirstInvalidTrusting(operations) ==
  {i \in DOMAIN operations :
     IF IsProjection(operations[i]) THEN ~Plannable(operations[i],
        {operations[i].chunks[k].hash : k \in DOMAIN operations[i].chunks})
     ELSE ~ValidTopology(operations[i])}

\* The operations that prepareMutationFromArtifact refuses.
FirstInvalid(operations) ==
  {i \in DOMAIN operations :
     IF IsProjection(operations[i]) THEN ~ValidProjection(operations[i])
     ELSE ~ValidTopology(operations[i])}

\* prepareMutationFromArtifact.
FromStored(artifact) ==
  LET operations == FromArtifact(artifact)
      invalid == FirstInvalid(operations)
  IN  IF ~WellFormed(artifact) THEN Refused("invalid_shape")
      ELSE IF invalid # {}
        THEN LET first == CHOOSE i \in invalid : \A k \in invalid : i <= k
             IN  Refused(IF IsProjection(operations[first]) THEN "invalid_projection"
                         ELSE "invalid_topology")
      ELSE Prepared(Sorted(operations))

\* encodePreparedGraphMutation.
Encoded(operations) ==
  LET normalized == FromStored(ToArtifact(operations))
  IN  IF normalized.reason # "accepted" THEN normalized
      ELSE Accepted(Canonical(ToArtifact(normalized.value)))

\* decodePreparedGraphMutation.
Decoded(artifact) ==
  IF ~artifact.json THEN Refused("invalid_json") ELSE FromStored(artifact)

Encode(r) ==
  /\ stored[r] = None
  /\ \E result \in prepared[r] :
       /\ result.reason = "accepted"
       /\ stored' = [stored EXCEPT ![r] = Some(Encoded(Mutation(r)))]
  /\ UNCHANGED <<objects, captured, prepared, damaged, decoded>>

\* What else may be found where the artifact was stored.
WithChunk(artifact, i, k, chunk) == [artifact EXCEPT !.operations[i].chunks[k] = chunk]
Damages(artifact) ==
  {[artifact EXCEPT !.json = FALSE], [artifact EXCEPT !.version = 2],
   [artifact EXCEPT !.excess = TRUE], [artifact EXCEPT !.operations = Reverse(@)]}
  \union {[artifact EXCEPT !.operations = Append(@, o)] : o \in ToSet(artifact.operations)}
  \union {[artifact EXCEPT !.operations[i].target = @ + 1] : i \in DOMAIN artifact.operations}
  \union UNION {
    {[artifact EXCEPT !.operations[i].embeddings = <<>>],
     [artifact EXCEPT !.operations[i].policy = "weightless"],
     [artifact EXCEPT !.operations[i].projection = @ + 1],
     [artifact EXCEPT !.operations[i].expected = None]}
    \union UNION {
      {WithChunk(artifact, i, k, [artifact.operations[i].chunks[k] EXCEPT !.content = @ + 1]),
       WithChunk(artifact, i, k, [artifact.operations[i].chunks[k] EXCEPT !.part = @ + 1])}
      : k \in DOMAIN artifact.operations[i].chunks}
    : i \in {n \in DOMAIN artifact.operations : IsProjection(artifact.operations[n])}}

Damage(r) ==
  /\ MayDamage /\ ~damaged[r] /\ decoded[r] = None
  /\ \E result \in stored[r] :
       /\ result.reason = "accepted"
       /\ \E found \in Damages(result.value) :
            stored' = [stored EXCEPT ![r] = Some(Accepted(found))]
  /\ damaged' = [damaged EXCEPT ![r] = TRUE]
  /\ UNCHANGED <<objects, captured, prepared, decoded>>

Decode(r) ==
  /\ decoded[r] = None
  /\ \E result \in stored[r] :
       /\ result.reason = "accepted"
       /\ decoded' = [decoded EXCEPT ![r] = Some(Decoded(result.value))]
  /\ UNCHANGED <<objects, captured, prepared, stored, damaged>>

Finished ==
  /\ \A r \in Runs :
       \/ decoded[r] # None
       \/ \E result \in prepared[r] : result.reason # "accepted"
       \/ \E result \in stored[r] : result.reason # "accepted"
  /\ UNCHANGED vars

Next ==
  \/ \E r \in Runs : Capture(r) \/ Prepare(r) \/ Reuse(r) \/ Encode(r) \/ Damage(r) \/ Decode(r)
  \/ Finished

Spec == Init /\ [][Next]_vars
-----------------------------------------------------------------------------
LeavesPrepared == \A r \in Runs : prepared[r] # None => Mutation(r)' = Mutation(r)

\* Capture: the complete input of a mutation is copied when it is frozen.  No
\* later step of the application changes what will be encoded or replayed.
PreparedIsFrozen == [][LeavesPrepared]_vars

\* Canonical JSON: two runs of one program over equal values persist the same
\* artifact, whatever order their replacements were captured in and whatever
\* order their metadata's keys were set in.
SameWorkSameArtifact ==
  \A r, q \in Runs :
    /\ Program[r] = Program[q]
    /\ stored[r] # None /\ stored[q] # None
    /\ ~damaged[r] /\ ~damaged[q]
    => stored[r] = stored[q]

\* Decoding "reconstructs the same copied, deeply frozen replay value": what
\* is decoded is what was prepared, up to the order of JSON keys.
RoundTrip ==
  \A r \in Runs : \A result \in decoded[r] :
    ~damaged[r] =>
      /\ result.reason = "accepted"
      /\ Canonical(ToArtifact(result.value)) = Canonical(ToArtifact(Mutation(r)))
      /\ FromArtifact(ToArtifact(Mutation(r))) = Mutation(r)

\* Whatever is found where an artifact was stored, what decoding accepts of it
\* writes no state twice, writes topologies last, stores no vector under
\* content it was not made from, and needs no vector that cannot exist.
DecodedIsSound ==
  \A r \in Runs : \A result \in decoded[r] :
    LET operations == result.value
    IN  /\ \A i, k \in DOMAIN operations :
             i < k => /\ Identity(operations[i]) # Identity(operations[k])
                      /\ IsProjection(operations[k]) => IsProjection(operations[i])
        /\ \A i \in DOMAIN operations : IsProjection(operations[i]) =>
             \A k \in DOMAIN operations[i].chunks :
               LET chunk == operations[i].chunks[k]
               IN  /\ chunk.hash = ContentHashOf(chunk.content)
                   /\ chunk.id[1] = operations[i].target
                   /\ operations[i].expected = None =>
                        chunk.hash \in ToSet(operations[i].embeddings)
=============================================================================

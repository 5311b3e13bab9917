------------------------------ MODULE MCIndexing ------------------------------
(***************************************************************************)
(* What is indexed, on small instances.  A behaviour is of one part:         *)
(*   "texts"    documents of one section whose text is cut                     *)
(*   "edits"    pairs of documents that differ in an edit, and faulty ones      *)
(*   "memory"   delta indexing over the in-memory store                          *)
(*   "reuse"    the vectors of Turbopuffer publications                           *)
(*   "mirror"   the copy of a PostgreSQL index in another one                      *)
(***************************************************************************)
EXTENDS VectorReuse, ProjectionMirror, SequencesExt, TLC

VARIABLES
  part,
  document, policy, at, reason, section, remaining, fragments, chunks,
  revisions, tokenSequence, fiber, starts, replaced, told, refused

projectionVars == <<document, policy, at, reason, section, remaining, fragments, chunks>>
memoryVars == <<tokenSequence, fiber, starts, replaced, told, refused>>
vars == <<part, projectionVars, revisions, memoryVars, reuseVars, mirrorVars>>

A == <<"a">>
B == <<"b">>
AB == <<"a", "b">>
Piece(key, label, content, metadata) ==
  [key |-> key, label |-> label, content |-> content, metadata |-> metadata]
Configured(version, chunker, maximum, text, metadata) ==
  [version |-> version, chunker |-> chunker, maximum |-> maximum, text |-> text,
   metadata |-> metadata]
-----------------------------------------------------------------------------
\* What a splitter meets: every text of up to six units of ink, blanks and tabs
\* that starts and ends with ink, and texts a selector should not have answered.
Inked(text) == text # <<>> /\ text[1] = "a" /\ text[Len(text)] = "a"
CutTexts == {t \in BoundedSeq({"a", " ", "\t"}, 6) : Inked(t)} \union {<<>>, <<" ", "a">>}
CutDocuments ==
  [id : {1}, context : {Nothing, Just(A), Just(AB)},
   sections : {<<Piece("k", label, content, Nothing)>> :
                 label \in {Nothing, Just(B)}, content \in CutTexts} \union {<<>>}]

Texts == INSTANCE DocumentProjection WITH
  Candidates <- CutDocuments,
  Policies <- {Configured(1, "section", n, "disabled", Nothing) : n \in {1, 2, 5, 6}},
  CustomAnswers <- {}, MaxRevisions <- 1

\* Documents that differ in what an author edits, and documents with faults.
Long == <<"a", " ", "b">>
EditSections ==
  {Piece("k", label, content, Nothing) : label \in {Nothing, Just(A)}, content \in {A, Long}}
    \union {Piece("l", Nothing, content, Nothing) : content \in {B, Long}}
EditDocuments ==
  [id : {1}, context : {Nothing, Just(A)}, sections : BoundedSeq(EditSections, 2)]
    \union [id : {1, 2}, context : {Nothing},
            sections : {<<Piece("k", Nothing, A, m)>> :
                          m \in {Nothing, Just("m"), Just("n"), Just("bad")}}]
EditPolicies ==
  {Configured(1, "section", 5, "disabled", Nothing),
   Configured(1, "section", 5, "english", {"m", "n"}),
   Configured(1, "custom", 2, "disabled", Nothing)}
Answered(content, embedding) == [content |-> content, embedding |-> embedding]
EditAnswers ==
  {<<>>, <<Answered(A, A)>>, <<Answered(A, B), Answered(A, A)>>, <<Answered(A, <<" ">>)>>,
   <<Answered(A, <<"a", "b", "a">>)>>}

Edits == INSTANCE DocumentProjection WITH
  Candidates <- EditDocuments, Policies <- EditPolicies, CustomAnswers <- EditAnswers,
  MaxRevisions <- 2

\* One projection in each of two graphs, contents that chunks share and exchange,
\* and deployments of either graph that know one version.
Registration(versions) == [kind |-> "page", projection |-> "body", versions |-> versions]

Memory == INSTANCE InMemoryIndex WITH
  Key <- [graph : {"a", "b"}, kind : {"page"}, projection : {"body"}],
  Revisions <- {[version |-> 1, chunks |-> <<"x", "y">>],
                [version |-> 2, chunks |-> <<"y", "y", "x">>]},
  Profile <- {"p", "q"},
  Manifests <- {[graph |-> "a", registered |-> {Registration({2})}],
                [graph |-> "b", registered |-> {Registration({})}]},
  MaxStarts <- 4

\* Two revisions that share a text, of which one may be deleted and published again
\* while the other is planned against it; two projections, and a version that the
\* manifest of the mirror does not know.
MCRevisionTexts == {<<"a", "b">>, <<"c", "a">>}

Symmetry == Permutations(Worker)

ASSUME Parameters == Memory!IndexAssumption
-----------------------------------------------------------------------------
Unused == 0

NoProjection ==
  /\ document = Unused /\ policy = Unused /\ at = Unused /\ reason = Unused
  /\ section = Unused /\ remaining = Unused /\ fragments = Unused /\ chunks = Unused
NoMemory ==
  /\ tokenSequence = Unused /\ fiber = Unused /\ starts = Unused
  /\ replaced = Unused /\ told = Unused /\ refused = Unused
NoReuse == ReuseInit
NoMirror == MirrorInit /\ \A k \in Key : source[k] = None

Init ==
  \/ part = "texts" /\ Texts!Init /\ NoMemory /\ NoReuse /\ NoMirror
  \/ part = "edits" /\ Edits!Init /\ NoMemory /\ NoReuse /\ NoMirror
  \/ part = "memory" /\ Memory!Init /\ NoProjection /\ NoReuse /\ NoMirror
  \/ /\ part = "reuse" /\ ReuseInit
     /\ NoProjection /\ revisions = Unused /\ NoMemory /\ NoMirror
  \/ /\ part = "mirror" /\ MirrorInit
     /\ NoProjection /\ revisions = Unused /\ NoMemory /\ NoReuse

Only(p, others) == part = p /\ UNCHANGED <<part, others>>

Cutting == Only("texts", <<memoryVars, reuseVars, mirrorVars>>)
Editing == Only("edits", <<memoryVars, reuseVars, mirrorVars>>)
Remembering == Only("memory", <<projectionVars, reuseVars, mirrorVars>>)
Reusing == Only("reuse", <<projectionVars, revisions, memoryVars, mirrorVars>>)
Mirroring == Only("mirror", <<projectionVars, revisions, memoryVars, reuseVars>>)

Next ==
  \/ Cutting /\ Texts!Next
  \/ Editing /\ Edits!Next
  \/ Remembering /\ Memory!Next
  \/ Reusing /\ ReuseNext
  \/ Mirroring /\ MirrorNext

Spec == Init /\ [][Next]_vars
-----------------------------------------------------------------------------
\* Identities follow edits.  Editing, adding or removing one section keeps the
\* identities and content hashes of every other, no two chunks of a revision share
\* an identity, equal revision hashes mean that all that is stored is equal, and
\* cutting a section into chunks of the configured size loses nothing of it
\* (document/chunking-strategy.ts, document-identity.ts, document-projection.ts).
EditsAreLocal ==
  /\ part = "texts" => Texts!BuiltInChunksFit /\ Texts!NothingLost
  /\ part = "edits" => Edits!ChunksApart /\ Edits!RevisionTellsApart /\ Edits!EditsAreLocal

DeltasAreComplete ==
  /\ part = "reuse" => QuietDeltaSuffices /\ OneVectorPerText
  /\ part = "memory" => Memory!DeltaSuffices /\ Memory!CommitsAddUp

ReplacementsAreDeltas ==
  /\ part = "reuse" => KeepsVectors
  /\ part = "memory" => Memory!ReplacesWhatItSaw

\* An indexer sends only the vectors that its snapshot lacked.  When nobody
\* overtook it that is enough: every chunk gets one vector, of its own text and
\* profile, and the one that was stored for that text where there was one; what
\* callers were told adds up to what is stored; and nothing is replaced that the
\* plan had not seen (indexing/projection-index.ts, storage/in-memory.ts and
\* loadReusableVectors of storage/turbopuffer/projection-index.ts).
DeltasSuffice == []DeltasAreComplete /\ [][ReplacementsAreDeltas]_vars
=============================================================================

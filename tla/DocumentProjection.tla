-------------------------- MODULE DocumentProjection --------------------------
(***************************************************************************)
(* One projection of documents turned into revisions: a selector's answer is *)
(* parsed, every section is cut into chunks by the built-in or a custom        *)
(* chunker, and the chunks and the revision get the identities that delta        *)
(* indexing and publication compare (document/document-projection.ts,             *)
(* chunking-strategy.ts, document-identity.ts, document-instance.ts).              *)
(*                                                                                *)
(* A text is a sequence of UTF-16 units, the units JavaScript's length and         *)
(* slice count.  SHA-256 is the identity on what is hashed.                         *)
(***************************************************************************)
EXTENDS Integers, Sequences, FiniteSetsExt, SequencesExt

CONSTANTS
  Candidates,       \* what selectors answer: [id, context, sections]
  Policies,         \* configured projections: [version, chunker, maximum, text, metadata]
  CustomAnswers,    \* what custom chunkers answer: sequences of [content, embedding]
  MaxRevisions      \* bound on the revisions built

VARIABLES
  document,     \* Option of the document being projected
  policy,       \* Option of the projection it goes through
  at,           \* "idle", "section", "split", "fragments", "done" or "failed"
  reason,       \* why it failed
  section,      \* the section being cut
  remaining,    \* what is left of its content
  fragments,    \* its pieces so far
  chunks,       \* the chunks of the revision so far
  revisions     \* history: the revisions built, each with its document and policy

vars == <<document, policy, at, reason, section, remaining, fragments, chunks, revisions>>

None == {}
Some(x) == {x}
The(option) == CHOOSE x \in option : TRUE
-----------------------------------------------------------------------------
(* Texts.                                                                  *)

\* Only a blank and a newline are readable boundaries; trim removes tabs too.
Boundaries == {" ", "\n"}
Blank == Boundaries \union {"\t"}
High == {"H1", "H2"}
Low == {"L"}

Solid(text) == {i \in DOMAIN text : text[i] \notin Blank}

Trim(text) ==
  IF Solid(text) = {} THEN <<>> ELSE SubSeq(text, Min(Solid(text)), Max(Solid(text)))

WellFormed(text) == text # <<>> /\ Trim(text) = text

\* UTF-8 has no bytes for half a surrogate pair: each becomes U+FFFD.
Paired(text, i) ==
  \/ text[i] \notin High \union Low
  \/ text[i] \in High /\ i < Len(text) /\ text[i + 1] \in Low
  \/ text[i] \in Low /\ i > 1 /\ text[i - 1] \in High

Bytes(text) == [i \in DOMAIN text |-> IF Paired(text, i) THEN text[i] ELSE "FFFD"]
-----------------------------------------------------------------------------
(* Identities.                                                             *)

DocumentKeyOf(d) == d.id

\* Mutant: chunks are numbered through the document.
ChunkIdOfOrdinal(key, chunk) == <<key, chunk.ordinal>>

ChunkIdOf(key, chunk) == <<key, chunk.sectionKey, chunk.sectionPart>>

ContentHashOf(text) == Bytes(text)

\* Mutant: only what is embedded and its place are hashed.
HashedWithoutText(chunk) ==
  [chunkId |-> chunk.chunkId, contentHash |-> chunk.contentHash, metadata |-> chunk.metadata]

Hashed(chunk) ==
  [chunkId |-> chunk.chunkId,
   ordinal |-> chunk.ordinal,
   sectionIndex |-> chunk.sectionIndex,
   sectionPart |-> chunk.sectionPart,
   content |-> chunk.content,
   contentHash |-> chunk.contentHash,
   text |-> chunk.text,
   metadata |-> chunk.metadata]

RevisionHashOf(key, p, identified) ==
  [documentKey |-> key,
   version |-> p.version,
   chunking |-> <<p.chunker, p.maximum>>,
   text |-> p.text,
   chunks |-> [i \in DOMAIN identified |-> Hashed(identified[i])]]

Identify(key, c) ==
  [chunkId |-> ChunkIdOf(key, c),
   contentHash |-> ContentHashOf(c.embedding)] @@ c
-----------------------------------------------------------------------------
(* Parsing what a selector answered.                                       *)

ShapeFits(d) ==
  /\ \A text \in d.context : WellFormed(text)
  /\ \A s \in Range(d.sections) :
       /\ s.key # ""
       /\ \A text \in s.label : WellFormed(text)
       /\ WellFormed(s.content)

\* metadata: the values the projection's schema accepts, none when it has no schema.
MetadataFault(p, s) ==
  IF p.metadata = None
  THEN IF s.metadata = None THEN "none" ELSE "unexpected_metadata"
  ELSE IF s.metadata = None THEN "missing_metadata"
  ELSE IF s.metadata \subseteq p.metadata THEN "none" ELSE "invalid_metadata"

FaultySections(p, d) == {i \in DOMAIN d.sections : MetadataFault(p, d.sections[i]) # "none"}

\* Mutant: repeated keys are looked for from the second section on.
KeysRepeatLater(d) ==
  \E i, j \in DOMAIN d.sections : 1 < i /\ i < j /\ d.sections[i].key = d.sections[j].key

KeysRepeat(d) ==
  \E i, j \in DOMAIN d.sections : i < j /\ d.sections[i].key = d.sections[j].key

OutputFault(p, d) ==
  IF ~ShapeFits(d) THEN "invalid_shape"
  ELSE IF FaultySections(p, d) # {}
       THEN MetadataFault(p, d.sections[Min(FaultySections(p, d))])
  ELSE IF d.sections = <<>> THEN "empty_sections"
  ELSE IF KeysRepeat(d) THEN "duplicate_section_key"
  ELSE "none"
-----------------------------------------------------------------------------
(* The state machine.                                                      *)

Init ==
  /\ document = None
  /\ policy = None
  /\ at = "idle"
  /\ reason = "none"
  /\ section = 1
  /\ remaining = <<>>
  /\ fragments = <<>>
  /\ chunks = <<>>
  /\ revisions = <<>>

Document == The(document)
Policy == The(policy)
Section == Document.sections[section]

Fail(why) == at' = "failed" /\ reason' = why

Enter(step) == at' = step /\ UNCHANGED reason

Ready == at \in {"idle", "done"} /\ Len(revisions) < MaxRevisions

Select(d, p) ==
  /\ Ready
  /\ document' = Some(d)
  /\ policy' = Some(p)
  /\ section' = 1
  /\ remaining' = <<>>
  /\ fragments' = <<>>
  /\ chunks' = <<>>
  /\ UNCHANGED revisions
  /\ IF OutputFault(p, d) = "none"
     THEN at' = "section" /\ reason' = "none"
     ELSE Fail(OutputFault(p, d))

\* The document's own schema or its identity is refused.
RefuseInstance ==
  /\ Ready
  /\ \E why \in {"InvalidDocumentValue", "InvalidDocumentIdentity"} : Fail(why)
  /\ UNCHANGED <<document, policy, section, remaining, fragments, chunks, revisions>>

Separator == <<"\n", "\n">>

Prefix(d, s) ==
  IF d.context # None /\ s.label # None
  THEN The(d.context) \o Separator \o The(s.label)
  ELSE IF d.context \union s.label = None THEN <<>> ELSE The(d.context \union s.label)

SeparatorOf(prefix) == IF prefix = <<>> THEN <<>> ELSE Separator

\* Mutant: the separator is not taken off the budget.
BodyBudgetLoose(d, p, s) == p.maximum - Len(Prefix(d, s))

BodyBudget(d, p, s) ==
  p.maximum - Len(Prefix(d, s)) - Len(SeparatorOf(Prefix(d, s)))

Embedding(content) ==
  Prefix(Document, Section) \o SeparatorOf(Prefix(Document, Section)) \o content

Fragment(content) == [content |-> content, embedding |-> Embedding(content)]

Budget == BodyBudget(Document, Policy, Section)

BeginSection ==
  /\ at = "section"
  /\ section <= Len(Document.sections)
  /\ Policy.chunker = "section"
  /\ IF Budget < 1
     THEN /\ fragments' = <<Fragment(Section.content)>>
          /\ Enter("fragments")
          /\ UNCHANGED remaining
     ELSE /\ remaining' = Trim(Section.content)
          /\ fragments' = <<>>
          /\ Enter("split")
  /\ UNCHANGED <<document, policy, section, chunks, revisions>>

\* The slice end, found from zero-based positions in the first maximum + 1 units.
CutEnd(text, maximum) ==
  LET found == {i \in 1..(maximum + 1) : text[i] \in Boundaries}
      boundary == IF found = {} THEN -1 ELSE Max(found) - 1
  IN IF boundary >= (3 * maximum) \div 5 THEN boundary ELSE maximum

\* Mutant: the unit at the cut is taken for a blank.
AfterBoundary(text, end) == Trim(SubSeq(text, end + 2, Len(text)))

After(text, end) == Trim(SubSeq(text, end + 1, Len(text)))

Cut ==
  /\ at = "split"
  /\ Len(remaining) > Budget
  /\ LET end == CutEnd(remaining, Budget) IN
       /\ fragments' = Append(fragments, Fragment(Trim(SubSeq(remaining, 1, end))))
       /\ remaining' = After(remaining, end)
  /\ UNCHANGED <<document, policy, at, reason, section, chunks, revisions>>

LastPiece ==
  /\ at = "split"
  /\ Len(remaining) <= Budget
  /\ fragments' = IF remaining = <<>> THEN fragments ELSE Append(fragments, Fragment(remaining))
  /\ remaining' = <<>>
  /\ Enter("fragments")
  /\ UNCHANGED <<document, policy, section, chunks, revisions>>

\* A custom chunker throws or answers anything.
CustomChunk ==
  /\ at = "section"
  /\ section <= Len(Document.sections)
  /\ Policy.chunker = "custom"
  /\ \/ /\ Fail("invalid_output")
        /\ UNCHANGED fragments
     \/ /\ \E answer \in CustomAnswers : fragments' = answer
        /\ Enter("fragments")
  /\ UNCHANGED <<document, policy, section, remaining, chunks, revisions>>

OutputFits ==
  /\ fragments # <<>>
  /\ \A f \in Range(fragments) : WellFormed(f.content) /\ WellFormed(f.embedding)

TooLong == \E f \in Range(fragments) : Len(f.embedding) > Policy.maximum

\* Sections, parts and ordinals count from zero.
Chunk(part) ==
  [ordinal |-> Len(chunks) + part - 1,
   sectionKey |-> Section.key,
   sectionIndex |-> section - 1,
   sectionPart |-> part - 1,
   content |-> fragments[part].content,
   embedding |-> fragments[part].embedding,
   text |-> [context |-> Document.context, label |-> Section.label,
             content |-> fragments[part].content],
   metadata |-> Section.metadata]

TakeFragments ==
  /\ at = "fragments"
  /\ IF ~OutputFits THEN Fail("invalid_output") /\ UNCHANGED <<section, fragments, chunks>>
     ELSE IF TooLong THEN Fail("chunk_exceeds_maximum") /\ UNCHANGED <<section, fragments, chunks>>
     ELSE /\ chunks' = chunks \o [part \in DOMAIN fragments |-> Chunk(part)]
          /\ section' = section + 1
          /\ fragments' = <<>>
          /\ Enter("section")
  /\ UNCHANGED <<document, policy, remaining, revisions>>

Finish ==
  /\ at = "section"
  /\ section > Len(Document.sections)
  /\ LET key == DocumentKeyOf(Document)
         identified == [i \in DOMAIN chunks |-> Identify(key, chunks[i])]
     IN revisions' = Append(revisions,
          [document |-> Document, policy |-> Policy, chunks |-> identified,
           revisionHash |-> RevisionHashOf(key, Policy, identified)])
  /\ chunks' = <<>>
  /\ Enter("done")
  /\ UNCHANGED <<document, policy, section, remaining, fragments>>

Step == BeginSection \/ Cut \/ LastPiece \/ CustomChunk \/ TakeFragments \/ Finish

Next ==
  \/ \E d \in Candidates, p \in Policies : Select(d, p)
  \/ RefuseInstance
  \/ Step

Spec == Init /\ [][Next]_vars
-----------------------------------------------------------------------------
(* Properties.                                                             *)

\* The built-in chunker never answers what the core refuses, and exceeds the
\* maximum only when a section's context and label leave no room for one unit.
BuiltInChunksFit ==
  at = "failed" /\ policy # None /\ Policy.chunker = "section" =>
    /\ reason # "invalid_output"
    /\ reason = "chunk_exceeds_maximum" => Budget < 1

\* Cutting loses nothing but blanks and reorders nothing: the pieces of a section,
\* joined, are its content without its blanks.
Ink(text) == SelectSeq(text, LAMBDA u : u \notin Blank)

PiecesOf(r, s) == SelectSeq(r.chunks, LAMBDA c : c.sectionIndex = s - 1)

NothingLost ==
  \A r \in Range(revisions) : r.policy.chunker = "section" =>
    \A s \in DOMAIN r.document.sections :
      FoldSeq(LAMBDA c, ink : ink \o Ink(c.content), <<>>, PiecesOf(r, s))
        = Ink(r.document.sections[s].content)

\* Two chunks of one revision never share an identity, so that storing one never
\* overwrites another.
ChunksApart ==
  \A r \in Range(revisions) : \A i, j \in DOMAIN r.chunks :
    i # j => r.chunks[i].chunkId # r.chunks[j].chunkId

\* Revisions with one revision hash would be stored alike: the hash that makes an
\* index answer Unchanged sees every stored field of every chunk and every policy.
StoredChunk(c) ==
  [id |-> c.chunkId, key |-> c.sectionKey, content |-> c.content, text |-> c.text,
   metadata |-> c.metadata, bytes |-> Bytes(c.embedding)]

StoredForm(r) ==
  [id |-> r.document.id, version |-> r.policy.version, chunker |-> r.policy.chunker,
   text |-> r.policy.text, chunks |-> [i \in DOMAIN r.chunks |-> StoredChunk(r.chunks[i])]]

RevisionTellsApart ==
  \A r, q \in Range(revisions) :
    r.revisionHash = q.revisionHash => StoredForm(r) = StoredForm(q)

\* Editing, adding or removing one section keeps the identities and the content
\* hashes of every other section, so that its vectors and rows are kept.
Idents(r, s) ==
  LET pieces == PiecesOf(r, s)
  IN [i \in DOMAIN pieces |-> <<pieces[i].chunkId, pieces[i].contentHash>>]

EditsAreLocal ==
  \A r, q \in Range(revisions) :
    /\ r.document.id = q.document.id
    /\ r.document.context = q.document.context
    /\ r.policy.chunker = "section" /\ q.policy.chunker = "section"
    /\ r.policy.maximum = q.policy.maximum
    => \A s \in DOMAIN r.document.sections, t \in DOMAIN q.document.sections :
         LET a == r.document.sections[s]
             b == q.document.sections[t]
         IN a.key = b.key /\ a.label = b.label /\ a.content = b.content
              => Idents(r, s) = Idents(q, t)

\* A content hash stands for the exact text that is embedded.
HashIsExact ==
  \A r, q \in Range(revisions) : \A i \in DOMAIN r.chunks, j \in DOMAIN q.chunks :
    r.chunks[i].contentHash = q.chunks[j].contentHash
      => r.chunks[i].embedding = q.chunks[j].embedding
=============================================================================

------------------------------ MODULE VectorReuse ------------------------------
(***************************************************************************)
(* Where the vectors of a Turbopuffer publication come from.  An indexer    *)
(* embeds what the active snapshot lacks; the store reads the rest back from *)
(* the provider's live rows, makes the digest of the publication from both,    *)
(* and does so again for every replay (indexing/projection-index.ts and          *)
(* replaceAttempt in storage/turbopuffer/projection-index.ts).                     *)
(*                                                                                  *)
(* The coordinator answers in one step and a publication lands whole: how they       *)
(* manage is PublicationCoordinator's and TurbopufferPublication's subject.            *)
(***************************************************************************)
EXTENDS Integers, Sequences, FiniteSets

CONSTANTS
  Worker,
  RevisionTexts, \* sequences of content hashes; a chunk is known by its place
  Nonce,         \* embedding a text twice may give different vectors
  MaxCommands,   \* bound on the commands ever made
  MaxGeneration  \* bound on the publications

\* A revision has chunks; a deletion publishes the one that has none.
ASSUME ReuseAssumption == RevisionTexts \subseteq Seq(STRING) \ {<<>>}

VARIABLES
  head,       \* [gen, active, pending]: Options of publications
  live,       \* Option of the publication whose rows the namespace holds
  sent,       \* publications whose write requests may be on their way
  commands,   \* the replacements made so far; any may be replayed
  work        \* the store operation of each worker

reuseVars == <<head, live, sent, commands, work>>

Nothing == {}
Just(x) == {x}
Its(option) == CHOOSE x \in option : TRUE
ContentOf(r) == {r[i] : i \in DOMAIN r}

\* A deletion publishes the empty revision, and leaves no token.
TokenOf(active) ==
  IF active = Nothing \/ Its(active).rev = <<>> THEN Nothing ELSE Just(Its(active).mutation)

\* A vector: the text that was embedded and how that request came out.
Embedded(content, nonce) == [hash |-> content, vector |-> <<content, nonce>>]

Doing(at, command, current, reusable, lease) ==
  [at |-> at, command |-> command, current |-> current, reusable |-> reusable, lease |-> lease]

Resting(at) == Doing(at, Nothing, Nothing, {}, Nothing)

Does(w, step) == work' = [work EXCEPT ![w] = step]

ReuseInit ==
  /\ head = [gen |-> 0, active |-> Nothing, pending |-> Nothing]
  /\ live = Nothing
  /\ sent = {}
  /\ commands = {}
  /\ work = [w \in Worker |-> Resting("idle")]
-----------------------------------------------------------------------------
(* Planning.                                                               *)

\* What the active snapshot proves to be stored.
Stored(active) == IF active = Nothing THEN {} ELSE ContentOf(Its(active).rev)

\* Mutant of Missing: everything is embedded again.
MissingAll(r, active) == ContentOf(r)

Missing(r, active) == ContentOf(r) \ Stored(active)

\* indexProjectedRevision up to the command it sends, which may be captured.
Prepare ==
  /\ Cardinality(commands) < MaxCommands
  /\ \E r \in {q \in RevisionTexts : \A p \in head.active : p.rev # q}, n \in Nonce :
       commands' = commands \union
         {[expected |-> TokenOf(head.active), rev |-> r,
           embeddings |-> {Embedded(c, n) : c \in Missing(r, head.active)}]}
  /\ UNCHANGED <<head, live, sent, work>>

Replace(w) ==
  /\ work[w].at = "idle"
  /\ \E c \in commands : Does(w, Doing("load", Just(c), Nothing, {}, Nothing))
  /\ UNCHANGED <<head, live, sent, commands>>

LoadCurrent(w) ==
  /\ work[w].at = "load"
  /\ Does(w, Doing("vectors", work[w].command, TokenOf(head.active), {}, Nothing))
  /\ UNCHANGED <<head, live, sent, commands>>

\* Mutant of LiveVectors: rows are matched to the chunks in their place.
LiveVectorsByPlace(command, shown) ==
  UNION {{[hash |-> command.rev[i], vector |-> v.vector] :
            v \in UNION {{u \in p.vectors : i \in DOMAIN p.rev /\ u.hash = p.rev[i]} : p \in shown}} :
           i \in DOMAIN command.rev}

\* Mutant of LiveVectors: only rows of the active publication are read.
LiveVectorsOfActive(command, shown) == UNION {p.vectors : p \in shown \intersect head.active}

\* Strongly consistent: the live rows of the document, whoever published them.
LiveVectors(command, shown) == UNION {p.vectors : p \in shown}

Supplied(command) == {v.hash : v \in command.embeddings}

\* Mutant of NeedsReusable: a command with vectors of its own is taken for complete.
NeedsReusableIfBare(command) == Supplied(command) = {}

NeedsReusable(command) == ~(ContentOf(command.rev) \subseteq Supplied(command))

LoadVectors(w) ==
  /\ work[w].at = "vectors"
  /\ \E c \in work[w].command :
       LET found == IF work[w].current = Nothing \/ ~NeedsReusable(c)
                    THEN {} ELSE LiveVectors(c, live)
       IN Does(w, Doing("begin", work[w].command, work[w].current, found, Nothing))
  /\ UNCHANGED <<head, live, sent, commands>>

\* planProjectedRevisionReplacement: what is supplied overrides what is reused.
Plan(command, reusable) ==
  command.embeddings \union
    {v \in reusable : v.hash \in ContentOf(command.rev) \ Supplied(command)}

Complete(command, reusable) ==
  ContentOf(command.rev) \subseteq {v.hash : v \in Plan(command, reusable)}

\* The mutation hashes the plan without its vectors; the digest is the vectors.
MutationOf(command) == <<command.expected, command.rev>>

PublicationOf(command, reusable) ==
  [gen |-> head.gen + 1, mutation |-> MutationOf(command), rev |-> command.rev,
   vectors |-> Plan(command, reusable)]

Is(option, command) == \E p \in option : p.mutation = MutationOf(command)

AgreesWith(option, command, reusable) ==
  \A p \in option : p.vectors = Plan(command, reusable)

\* The publication that the coordinator compares a command with.
Known(command) ==
  LET latest == IF head.pending # Nothing THEN head.pending ELSE head.active
  IN IF Is(latest, command) THEN latest ELSE Nothing

Answer(w, what) ==
  /\ Does(w, Resting(what))
  /\ UNCHANGED head

TakeLease(w, p) ==
  /\ head' = [gen |-> p.gen, active |-> head.active, pending |-> Just(p)]
  /\ Does(w, Doing("publish", Nothing, Nothing, {}, Just(p)))

\* The coordinator's answers; a mutation known with other vectors is refused.
Begin(w) ==
  /\ work[w].at = "begin"
  /\ \E c \in work[w].command :
       LET reusable == work[w].reusable
       IN  \/ ~Complete(c, reusable) /\ Answer(w, "invalid")
           \/ /\ Complete(c, reusable)
              /\ \/ \E p \in head.pending :
                      /\ Is(head.pending, c)
                      /\ AgreesWith(head.pending, c, reusable)
                      /\ TakeLease(w, p)
                 \/ Known(c) # Nothing /\ ~AgreesWith(Known(c), c, reusable) /\ Answer(w, "reused")
                 \/ /\ head.pending # Nothing
                    /\ ~Is(head.pending, c)
                    /\ Answer(w, "in_progress")
                 \/ /\ head.pending = Nothing
                    /\ Is(head.active, c)
                    /\ AgreesWith(head.active, c, reusable)
                    /\ Answer(w, "committed")
                 \/ /\ head.pending = Nothing
                    /\ ~Is(head.active, c)
                    /\ c.expected # TokenOf(head.active)
                    /\ Answer(w, "conflict")
                 \/ /\ head.pending = Nothing
                    /\ ~Is(head.active, c)
                    /\ c.expected = TokenOf(head.active)
                    /\ head.gen < MaxGeneration
                    /\ TakeLease(w, PublicationOf(c, reusable))
  /\ UNCHANGED <<live, sent, commands>>
-----------------------------------------------------------------------------
(* Publishing.                                                             *)

Send(w) ==
  /\ work[w].at = "publish"
  /\ sent' = sent \union work[w].lease
  /\ Does(w, Doing("await", Nothing, Nothing, {}, work[w].lease))
  /\ UNCHANGED <<head, live, commands>>

\* Mutant of Admits: the write has no condition.
AdmitsAll(p) == TRUE

\* The upsert condition.
Admits(p) == \A old \in live : old.gen <= p.gen

\* A request lands now, late or again.
Land ==
  /\ \E p \in sent : Admits(p) /\ live' = Just(p)
  /\ UNCHANGED <<head, sent, commands, work>>

PendingIsActive == head' = [gen |-> head.gen, active |-> head.pending, pending |-> Nothing]

Finalize(w) ==
  /\ work[w].at = "await"
  /\ head.pending = work[w].lease
  /\ live = head.pending
  /\ PendingIsActive
  /\ Does(w, Resting("committed"))
  /\ UNCHANGED <<live, sent, commands>>

\* A deletion takes the same way; its command is made from what is current.
Delete ==
  /\ head.pending = Nothing
  /\ head.gen < MaxGeneration
  /\ TokenOf(head.active) # Nothing
  /\ LET p == [gen |-> head.gen + 1, mutation |-> <<TokenOf(head.active), <<>>>>,
               rev |-> <<>>, vectors |-> {}]
     IN /\ head' = [gen |-> p.gen, active |-> head.active, pending |-> Just(p)]
        /\ sent' = sent \union {p}
  /\ UNCHANGED <<live, commands, work>>

FinalizeDeletion ==
  /\ \E p \in head.pending : p.rev = <<>>
  /\ live = head.pending
  /\ PendingIsActive
  /\ UNCHANGED <<live, sent, commands, work>>

\* The caller takes the answer, or the process stops; leases are left alone.
Quit(w) ==
  /\ work[w].at # "idle"
  /\ Does(w, Resting("idle"))
  /\ UNCHANGED <<head, live, sent, commands>>

ReuseNext ==
  \/ Prepare \/ Land \/ Delete \/ FinalizeDeletion
  \/ \E w \in Worker :
       Replace(w) \/ LoadCurrent(w) \/ LoadVectors(w) \/ Begin(w) \/ Send(w) \/ Finalize(w) \/ Quit(w)

ReuseSpec == ReuseInit /\ [][ReuseNext]_reuseVars
-----------------------------------------------------------------------------
(* Properties.                                                             *)

\* Whatever was published, and read back from whatever was live by then, every chunk
\* of a publication has exactly one vector, and it is one of the chunk's own text.
OneVectorPerText ==
  \A p \in head.active \union head.pending \union live :
    /\ \A content \in ContentOf(p.rev) : Cardinality({v \in p.vectors : v.hash = content}) = 1
    /\ \A v \in p.vectors : v.hash \in ContentOf(p.rev) /\ v.vector[1] = v.hash

\* The same publication made twice, with a deletion in between, has one token.
Recurred(token) ==
  \E p, q \in sent : p.gen # q.gen /\ token = Just(p.mutation) /\ token = Just(q.mutation)

\* Vectors of p that its successor q needs are q's own.
Kept(p, q) == \A v \in p.vectors : v.hash \in ContentOf(q.rev) => v \in q.vectors

KeepsVectors ==
  head'.active # head.active =>
    \A p \in head.active, q \in head'.active :
      q.mutation[1] # Nothing /\ ~Recurred(q.mutation[1]) => Kept(p, q)

\* A vector is never made again for a text that the replaced revision had: it is the one
\* that was stored for it, through any chain of publications, unless the revision was
\* deleted and published again while its successor was being planned.
VectorsAreKept == [][KeepsVectors]_reuseVars

\* What a command reads back when it is planned now.
ReadNow(command) ==
  IF TokenOf(head.active) = Nothing \/ ~NeedsReusable(command) THEN {}
  ELSE LiveVectors(command, live)

\* A replay of the command of the pending publication gets its digest, and so its lease.
Resumes(c) ==
  Is(head.pending, c) /\ (\E p \in head.pending : c.embeddings \subseteq p.vectors) =>
    Complete(c, ReadNow(c)) /\ AgreesWith(head.pending, c, ReadNow(c))

\* "Only the exact prepared mutation may resume that publication ID and generation"
\* (ADR 0002): whoever replays the command of the pending publication reads back the
\* same vectors and is given its lease, whether the rows that are live by then are the
\* replaced revision's or already the publication's own.  That may fail where the
\* revision it was made against was deleted and published again.
ReplaysResume == \A c \in commands : ~Recurred(c.expected) => Resumes(c)

\* The same after a recurrence (see "Findings" in the README).
ReplaysAlwaysResume == \A c \in commands : Resumes(c)

\* An indexer that nobody overtook can always be published: what its command lacks is
\* read back from the rows of the revision it was made against.
QuietDeltaSuffices ==
  \A c \in commands :
    c.expected = TokenOf(head.active) /\ head.pending = Nothing => Complete(c, ReadNow(c))

\* ProjectionIndexStoreService: chunks without an embedding reuse a vector from the
\* expected snapshot, and an indexer that another writer overtook gets a conflict.
\* A command that embeds all its snapshot lacked is then never refused as invalid.
OvertakenIsConflict == \A w \in Worker : work[w].at # "invalid"
=============================================================================

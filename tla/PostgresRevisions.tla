--------------------------- MODULE PostgresRevisions ---------------------------
(***************************************************************************)
(* The PostgreSQL projection index (storage/postgres/runtime.ts) and the     *)
(* delta indexing that uses it (indexing/projection-index.ts), for one        *)
(* projection of one document.                                              *)
(*                                                                         *)
(* An indexing run loads the stored revision, has missing contents embedded   *)
(* and replaces the revision in a READ COMMITTED transaction, expecting the   *)
(* token it loaded; after a conflict its caller runs it again (ADR 0001:204).  *)
(* Deployments whose manifests register different versions index, delete and  *)
(* prune the same projection.  A content stands for its hash and a vector for what it was     *)
(* computed from.  What a transaction does behind its last lock is one step    *)
(* with its commit, for nobody sees the tables in between.                    *)
(***************************************************************************)
EXTENDS Naturals, FiniteSets

CONSTANTS
  Worker,     \* connections that index, delete or prune
  Content,    \* hashes of chunk contents
  Profile,    \* embedding profiles
  Version,    \* projection versions
  Revisions,  \* projected revisions: [version, contents]
  Manifests,  \* the versions that a pruning deployment has registered
  MaxStarts   \* bound: how many operations are started

ASSUME RevisionsAssumption ==
  /\ Revisions \subseteq [version : Version, contents : SUBSET Content]
  /\ Manifests \subseteq SUBSET Version
  /\ MaxStarts \in Nat

VARIABLES
  revision,  \* projected_revisions: Option of the row
  chunks,    \* projected_chunks: contents with their vectors
  at,        \* where each worker is
  task,      \* what it is to do
  snapshot,  \* the row it loaded, and the removals until then
  supplied,  \* the contents it had embedded
  found,     \* whether its pruning statement saw a stale row
  starts,    \* operations started
  removals,  \* history: how often the row was removed
  births     \* history: how many rows were committed

tables == <<revision, chunks, removals, births>>
local == <<at, task, snapshot, supplied, found>>
vars == <<tables, local, starts>>

\* The birth of a row is history: it tells rows with equal tokens apart.
Row == [token : Nat, rev : Revisions, profile : Profile, birth : Nat]

Vector == [profile : Profile, content : Content]

Chunk == [content : Content, vector : Vector]

Task == [kind : {"index", "delete", "prune"}, rev : SUBSET Revisions, profile : SUBSET Profile,
         registered : SUBSET Version]

NoTask == [kind |-> "delete", rev |-> {}, profile |-> {}, registered |-> {}]

Init ==
  /\ revision = {}
  /\ chunks = {}
  /\ at = [w \in Worker |-> "idle"]
  /\ task = [w \in Worker |-> NoTask]
  /\ snapshot = [w \in Worker |-> [row |-> {}, removals |-> 0]]
  /\ supplied = [w \in Worker |-> {}]
  /\ found = [w \in Worker |-> FALSE]
  /\ starts = 0
  /\ removals = 0
  /\ births = 0
-----------------------------------------------------------------------------
(* The delta plan and the locks.                                            *)

\* snapshotProvesRevision: nothing is left to do.
Proves(rows, rev, p) == \E r \in rows : r.rev = rev /\ r.profile = p

\* Mutant of Reusable: vectors are matched by content alone.
ReusableByContent(rows, p) == {c \in chunks : rows # {}}

\* Vectors are matched by content, within one embedding profile.
Reusable(rows, p) == {c \in chunks : \E r \in rows : r.profile = p}

Contents(cs) == {c.content : c \in cs}

Token(rows) == {r.token : r \in rows}

\* Mutant of ExpectedMatches: a plan against no row replaces any row.
ExpectedMatchesOrNone(w) ==
  \/ snapshot[w].row = {}
  \/ Token(snapshot[w].row) = Token(revision)

ExpectedMatches(w) == Token(snapshot[w].row) = Token(revision)

\* The lock on ("projection", document, projection), which prunings do not take.
MemberLocked(w) == \E v \in Worker \ {w} : at[v] \in {"read", "replace"}

\* The row lock of the replacement that has read the row.
RowLocked(w) == revision # {} /\ \E v \in Worker \ {w} : at[v] = "replace"

Vectors(w, p) ==
  {c \in Reusable(revision, p) : c.content \notin supplied[w]}
    \cup {[content |-> x, vector |-> [profile |-> p, content |-> x]] : x \in supplied[w]}

\* The row is removed, its chunks follow by the cascade, and statements that
\* waited for it skip it.
Remove ==
  /\ revision' = {}
  /\ chunks' = {}
  /\ removals' = IF revision = {} THEN removals ELSE removals + 1
  /\ UNCHANGED births
-----------------------------------------------------------------------------
(* Indexing.                                                               *)

Begin(w, t, first) ==
  /\ at[w] = "idle" /\ starts < MaxStarts
  /\ starts' = starts + 1
  /\ at' = [at EXCEPT ![w] = first]
  /\ task' = [task EXCEPT ![w] = t]
  /\ UNCHANGED <<tables, snapshot, supplied, found>>

BeginIndex(w) ==
  \E rev \in Revisions, p \in Profile :
    Begin(w, [kind |-> "index", rev |-> {rev}, profile |-> {p}, registered |-> {}], "load")

\* loadRevisions is one statement, outside of any transaction.
Load(w) ==
  /\ at[w] = "load"
  /\ \E rev \in task[w].rev, p \in task[w].profile :
       /\ at' = [at EXCEPT ![w] = IF Proves(revision, rev, p) THEN "idle" ELSE "member"]
       /\ supplied' = [supplied EXCEPT ![w] = rev.contents \ Contents(Reusable(revision, p))]
  /\ snapshot' = [snapshot EXCEPT ![w] = [row |-> revision, removals |-> removals]]
  /\ UNCHANGED <<tables, task, found, starts>>

LockMember(w) ==
  /\ at[w] = "member"
  /\ ~MemberLocked(w)
  /\ at' = [at EXCEPT ![w] = "read"]
  /\ UNCHANGED <<tables, task, snapshot, supplied, found, starts>>

\* Mutant of Rejected: the plan is sent again as it is.
RejectedKeepsPlan(w) == at' = [at EXCEPT ![w] = "member"]

\* The transaction rolls back with ProjectionIndexConflict, or for a vector
\* that is missing, and the indexing is planned again.
Rejected(w) == at' = [at EXCEPT ![w] = "load"]

\* SELECT ... FOR UPDATE, the comparison of tokens, and the plan against the
\* vectors stored by now.
ReadCurrent(w) ==
  /\ at[w] = "read" /\ task[w].kind = "index"
  /\ \E rev \in task[w].rev, p \in task[w].profile :
       IF ExpectedMatches(w) /\ rev.contents \subseteq Contents(Vectors(w, p))
       THEN at' = [at EXCEPT ![w] = "replace"]
       ELSE Rejected(w)
  /\ UNCHANGED <<tables, task, snapshot, supplied, found, starts>>

\* Mutant of NextToken: counted from what was stored before.
NextTokenFromNone(rows) == IF rows = {} THEN 0 ELSE 1 + CHOOSE n \in Token(rows) : TRUE

\* A row is inserted with token 1 and updated with the next one.
NextToken(rows) == IF rows = {} THEN 1 ELSE 1 + CHOOSE n \in Token(rows) : TRUE

Replace(w) ==
  /\ at[w] = "replace"
  /\ \E rev \in task[w].rev, p \in task[w].profile :
       /\ revision' = {[token |-> NextToken(revision), rev |-> rev, profile |-> p,
                        birth |-> births + 1]}
       /\ chunks' = {c \in Vectors(w, p) : c.content \in rev.contents}
  /\ births' = births + 1
  /\ at' = [at EXCEPT ![w] = "idle"]
  /\ UNCHANGED <<task, snapshot, supplied, found, starts, removals>>
-----------------------------------------------------------------------------
(* Deletion and pruning.                                                   *)

BeginDelete(w) == Begin(w, NoTask, "member")

DeleteRevision(w) ==
  /\ at[w] = "read" /\ task[w].kind = "delete"
  /\ ~RowLocked(w)
  /\ Remove
  /\ found' = [v \in Worker |-> FALSE]
  /\ at' = [at EXCEPT ![w] = "idle"]
  /\ UNCHANGED <<task, snapshot, supplied, starts>>

BeginPrune(w) ==
  \E m \in Manifests :
    Begin(w, [kind |-> "prune", rev |-> {}, profile |-> {}, registered |-> m], "prune")

Stale(w) == \E r \in revision : r.rev.version \notin task[w].registered

\* The DELETE statement starts: rows are found in its snapshot.
FindStale(w) ==
  /\ at[w] = "prune"
  /\ found' = [found EXCEPT ![w] = Stale(w)]
  /\ at' = [at EXCEPT ![w] = IF Stale(w) THEN "remove" ELSE "idle"]
  /\ UNCHANGED <<tables, task, snapshot, supplied, starts>>

\* Mutant of StillStale: the row is removed as it was found.
StillFound(w) == found[w]

\* A row that changed meanwhile is compared again, one that went is skipped.
StillStale(w) == found[w] /\ Stale(w)

RemoveStale(w) ==
  /\ at[w] = "remove"
  /\ ~RowLocked(w)
  /\ IF StillStale(w) THEN Remove /\ found' = [v \in Worker |-> FALSE]
     ELSE UNCHANGED tables /\ found' = [found EXCEPT ![w] = FALSE]
  /\ at' = [at EXCEPT ![w] = "idle"]
  /\ UNCHANGED <<task, snapshot, supplied, starts>>

\* A failure, an interruption or a lost connection: whatever transaction was
\* open rolls back.
Stop(w) ==
  /\ at[w] # "idle"
  /\ at' = [at EXCEPT ![w] = "idle"]
  /\ found' = [found EXCEPT ![w] = FALSE]
  /\ UNCHANGED <<tables, task, snapshot, supplied, starts>>

Proceed(w) ==
  \/ Load(w) \/ LockMember(w) \/ ReadCurrent(w) \/ Replace(w)
  \/ DeleteRevision(w) \/ FindStale(w) \/ RemoveStale(w)

Next ==
  \E w \in Worker :
    BeginIndex(w) \/ BeginDelete(w) \/ BeginPrune(w) \/ Proceed(w) \/ Stop(w)

Spec == Init /\ [][Next]_vars

\* The database answers, and callers go on after a conflict.
FairSpec == Spec /\ \A w \in Worker : WF_vars(Proceed(w))
-----------------------------------------------------------------------------
(* Properties.                                                             *)

\* Every variable has its type; the row is at most one, as its key demands.
TypeOK ==
  /\ revision \in SUBSET Row /\ Cardinality(revision) <= 1
  /\ \A r \in revision : r.token > 0
  /\ chunks \in SUBSET Chunk
  /\ at \in [Worker -> {"idle", "load", "member", "read", "replace", "prune", "remove"}]
  /\ task \in [Worker -> Task]
  /\ snapshot \in [Worker -> [row : SUBSET Row, removals : Nat]]
  /\ supplied \in [Worker -> SUBSET Content]
  /\ found \in [Worker -> BOOLEAN]
  /\ starts \in 0..MaxStarts
  /\ removals \in Nat /\ births \in Nat

\* What is stored is one complete revision: a vector for each of its contents
\* and no other, each computed from that content by the revision's profile,
\* although vectors were reused from whatever was stored at the time.
RevisionIsWhole ==
  /\ revision = {} => chunks = {}
  /\ \A r \in revision :
       chunks = {[content |-> x, vector |-> [profile |-> r.profile, content |-> x]] :
                   x \in r.rev.contents}

Births(rows) == {r.birth : r \in rows}

\* A replacement takes the place of the very row that it was planned against,
\* unless the row was removed after the plan was made.
ReplacesPlanned ==
  [][\A w \in Worker : Replace(w) =>
       \/ Births(snapshot[w].row) = Births(revision)
       \/ snapshot[w].removals < removals]_vars

\* A pruning never removes a row whose version it has registered, not even
\* one that was committed while it waited.
PruningSparesRegistered ==
  [][\A w \in Worker : RemoveStale(w) =>
       \A r \in revision : r.rev.version \in task[w].registered => revision' = revision]_vars

\* A revision only replaces the one its plan was made against, and a pruning
\* takes nothing that is registered, although both were read in an earlier
\* statement (storage/postgres/runtime.ts).
WritesArePlanned == ReplacesPlanned /\ PruningSparesRegistered

\* An indexing that is tried again after each conflict ends: it only conflicts
\* when another writer got through.
IndexingEnds == \A w \in Worker : at[w] = "load" ~> at[w] = "idle"

\* "PostgreSQL projection tokens prevent lost projection updates" (ADR 0001):
\* whatever row a replacement takes the place of, its plan has seen it.
TokensPreventLostUpdates ==
  [][\A w \in Worker : Replace(w) => Births(revision) \subseteq Births(snapshot[w].row)]_vars
=============================================================================

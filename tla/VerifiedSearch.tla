---------------------------- MODULE VerifiedSearch ----------------------------
(***************************************************************************)
(* Searches of the Turbopuffer namespace                                   *)
(* (storage/turbopuffer/projection-search.ts) while documents are          *)
(* published: rows are read from the provider first, and the active         *)
(* revisions of their documents from the coordinator afterwards.           *)
(*                                                                         *)
(* Each document projection changes as ProjectionRegister says (the store   *)
(* is shown to implement it): a successor is accepted, its rows replace     *)
(* the visible ones in one write, and it is committed.                      *)
(***************************************************************************)
EXTENDS Integers, FiniteSets

CONSTANTS
  Doc,          \* document projections of the namespace
  Revision,     \* revisions a document can be published with
  Inventory,    \* the <<chunk id, content hash>> pairs of each revision
  Searcher,     \* concurrent searches, of any stores
  ChunkLimit,   \* chunksPerDocument
  MaxChanges    \* BOUND on the changes accepted

ASSUME SearchAssumption == ChunkLimit \in Nat \ {0} /\ MaxChanges \in Nat

VARIABLES
  active,     \* Option of [token, content], by document
  successor,  \* Option of the change under way, by document
  visible,    \* the live rows, by document
  changes,    \* how many changes were accepted
  shown,      \* history: the namespaces queries could have seen so far
  search      \* the search each searcher is executing

searchVars == <<active, successor, visible, changes, shown, search>>
registers == <<active, successor, visible, changes, shown>>

RowsOf(r) == {[rev |-> r, chunk |-> pair[1], hash |-> pair[2]] : pair \in Inventory[r]}

\* journal: whether the store verifies candidates in the journal; strong: whether
\* it reads the latest writes; rows: the provider's answer; since: history, the revisions of each document
\* that were active since the query; quiet: history, whether no document of
\* the answer was being changed since the query.
Idle ==
  [at |-> "idle", journal |-> FALSE, strong |-> FALSE, rows |-> {},
   since |-> [d \in Doc |-> {}], quiet |-> TRUE]

SearchInit ==
  /\ active = [d \in Doc |-> {}]
  /\ successor = [d \in Doc |-> {}]
  /\ visible = [d \in Doc |-> {}]
  /\ changes = 0
  /\ shown = {visible}
  /\ search = [s \in Searcher |-> Idle]
-----------------------------------------------------------------------------
(* Publications (the register's actions, one document each).               *)

ActiveRevisions(d) == {row.rev : row \in UNION {a.content : a \in active[d]}}

Accept(d) ==
  /\ changes < MaxChanges /\ successor[d] = {}
  /\ \E r \in Revision \cup {"deleted"} :
       successor' = [successor EXCEPT ![d] =
         {[expected |-> UNION {a.token : a \in active[d]},
           token |-> IF r = "deleted" THEN {} ELSE {changes},
           content |-> IF r = "deleted" THEN {} ELSE RowsOf(r)]}]
  /\ changes' = changes + 1
  /\ search' = [s \in Searcher |->
       [search[s] EXCEPT !.quiet = @ /\ \A row \in search[s].rows : row.doc # d]]
  /\ UNCHANGED <<active, visible, shown>>

\* Mutant of Show: slots beyond the new revision are not tombstoned.
ShowWithoutTombstones(d) ==
  /\ \E s \in successor[d] :
       visible' = [visible EXCEPT ![d] = s.content \cup
                     {row \in @ : \A new \in s.content : new.chunk # row.chunk}]
  /\ shown' = shown \cup {visible'}
  /\ UNCHANGED <<active, successor, changes, search>>

\* One conditional write replaces every slot of the closure.
Show(d) ==
  /\ \E s \in successor[d] : visible' = [visible EXCEPT ![d] = s.content]
  /\ shown' = shown \cup {visible'}
  /\ UNCHANGED <<active, successor, changes, search>>

Commit(d) ==
  /\ \E s \in successor[d] :
       /\ visible[d] = s.content
       /\ active' = [active EXCEPT ![d] =
            IF s.token = {} THEN {} ELSE {[token |-> s.token, content |-> s.content]}]
       /\ search' = [q \in Searcher |->
            IF search[q].at = "idle" THEN search[q]
            ELSE [search[q] EXCEPT !.since[d] = @ \cup {row.rev : row \in s.content}]]
  /\ successor' = [successor EXCEPT ![d] = {}]
  /\ UNCHANGED <<visible, changes, shown>>
-----------------------------------------------------------------------------
(* Searches.                                                               *)

\* The rows of a namespace, as a query returns them.
Rows(namespace) ==
  UNION {{[doc |-> d, rev |-> row.rev, chunk |-> row.chunk, hash |-> row.hash] :
            row \in namespace[d]} : d \in Doc}

\* What a filtered, ranked and limited query may return of the rows: both
\* channels of a hybrid search are subqueries of one snapshot.
Answers(rows) ==
  {answer \in SUBSET rows :
     \A d \in Doc : Cardinality({row \in answer : row.doc = d}) <= ChunkLimit}

\* Mutant of Namespaces: the configured consistency is not sent.
NamespacesOfDefault(strong) == shown

\* A strong query sees the latest writes, an eventual one some past state.
Namespaces(strong) == IF strong THEN {visible} ELSE shown

\* Stores of one namespace may be configured differently.
Query(s) ==
  /\ search[s].at = "idle"
  /\ \E journal \in BOOLEAN, strong \in BOOLEAN :
     \E namespace \in Namespaces(strong) :
       \E answer \in Answers(Rows(namespace)) :
         search' = [search EXCEPT ![s] =
           [at |-> "verify", journal |-> journal, strong |-> strong, rows |-> answer,
            since |-> [d \in Doc |-> ActiveRevisions(d)],
            quiet |-> \A row \in answer : successor[row.doc] = {}]]
  /\ UNCHANGED registers

\* Mutant of Matches: the chunk alone is compared.
MatchesChunk(row, revision) ==
  \E chunk \in revision : chunk.chunk = row.chunk /\ chunk.hash = row.hash

\* The row's revision hash, chunk id and content hash are the active ones.
Matches(row, revision) ==
  \E chunk \in revision :
    /\ chunk.rev = row.rev /\ chunk.chunk = row.chunk /\ chunk.hash = row.hash

\* Every row is checked against one read of the active revisions; a row that
\* does not match, or a document without one, fails the whole search.
Verify(s) ==
  /\ search[s].at = "verify"
  /\ search' = [search EXCEPT ![s].at =
       IF search[s].journal =>
            \A row \in search[s].rows : \E a \in active[row.doc] : Matches(row, a.content)
         THEN "answered" ELSE "failed"]
  /\ UNCHANGED registers

Leave(s) ==
  /\ search[s].at \in {"answered", "failed"}
  /\ search' = [search EXCEPT ![s] = Idle]
  /\ UNCHANGED registers

SearchNext ==
  \/ \E d \in Doc : Accept(d) \/ Show(d) \/ Commit(d)
  \/ \E s \in Searcher : Query(s) \/ Verify(s) \/ Leave(s)

SearchSpec == SearchInit /\ [][SearchNext]_searchVars
-----------------------------------------------------------------------------
(* Properties.                                                             *)

\* No search mixes two revisions of one document, verified or not, within a
\* channel or across the channels of a hybrid search.
WholeRevisions ==
  \A s \in Searcher : search[s].at = "answered" =>
    \A x, y \in search[s].rows : x.doc = y.doc => x.rev = y.rev

\* Whatever the provider returns, and however old, an answer that was verified
\* against the journal holds only revisions that were active at some moment
\* between the query and the answer: pending rows do not escape.
AnswersWereActive ==
  \A s \in Searcher : search[s].at = "answered" /\ search[s].journal =>
    \A row \in search[s].rows : row.rev \in search[s].since[row.doc]

\* The gate raises no false alarm: when no document of the answer is being
\* changed, a search with strong reads does not fail.
QuietSearchSucceeds ==
  \A s \in Searcher : search[s].at = "failed" /\ search[s].strong => ~search[s].quiet

\* What a caller of a search may rely on (projection-search.ts), whatever is
\* published while it runs and however old the provider's rows.
SearchesAreSound == WholeRevisions /\ AnswersWereActive /\ QuietSearchSucceeds
=============================================================================

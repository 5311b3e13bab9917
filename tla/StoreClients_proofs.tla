-------------------------- MODULE StoreClients_proofs --------------------------
(***************************************************************************)
(* What is proved about those who use the stores: searches that are verified *)
(* while documents are published (VerifiedSearch), a request to the provider  *)
(* with its retries (RetryingTransport), where the vectors of a publication    *)
(* come from (VectorReuse), requests that share one batch (CoalescedWrites),    *)
(* the workflows over a document (DocumentWorkflows), indexing into memory       *)
(* (InMemoryIndex), and the population of a retrieval (GraphRetrieval).           *)
(***************************************************************************)
EXTENDS VerifiedSearch, RetryingTransport, VectorReuse, Integers, Sequences,
        FiniteSetTheorems, WellFoundedInduction, TLAPS

-----------------------------------------------------------------------------
(* Searches, of any documents and revisions, any number of them at a time,    *)
(* and however stale the provider's rows.                                    *)
(*                                                                         *)
(* The argument: whatever a query can see of one document was written by one  *)
(* publication; the revision that is active when an answer is verified is     *)
(* among those that were active since the query; and a document that nobody   *)
(* changes has exactly its active rows in the namespace.                     *)

OneRevision(content) == \A x, y \in content : x.rev = y.rev

ActiveContent(d) == UNION {a.content : a \in active[d]}

\* What the registers of the documents hold comes from one publication each.
RegistersHold ==
  /\ DOMAIN active = Doc /\ DOMAIN successor = Doc /\ DOMAIN visible = Doc
  /\ \A d \in Doc :
       /\ \A a, b \in active[d] : a = b
       /\ \A a \in active[d] : OneRevision(a.content)
       /\ \A s, t \in successor[d] : s = t
       /\ \A s \in successor[d] : OneRevision(s.content) /\ (s.token = {} => s.content = {})
       /\ OneRevision(visible[d])
       /\ successor[d] = {} => visible[d] = ActiveContent(d)
  /\ \A namespace \in shown : \A d \in Doc : OneRevision(namespace[d])

IsSearch(q) ==
  /\ q = [at |-> q.at, journal |-> q.journal, strong |-> q.strong, rows |-> q.rows,
          since |-> q.since, quiet |-> q.quiet]
  /\ DOMAIN q.since = Doc
  /\ \A row \in q.rows : row.doc \in Doc

MatchesActive(row) == \E a \in active[row.doc] : Matches(row, a.content)

\* What a search that is under way, or has ended, knows of the registers.
SearchHolds(q) ==
  /\ IsSearch(q)
  /\ \A x, y \in q.rows : x.doc = y.doc => x.rev = y.rev
  /\ q.at # "idle" => \A d \in Doc : ActiveRevisions(d) \subseteq q.since[d]
  /\ q.journal /\ q.at = "answered" => \A row \in q.rows : row.rev \in q.since[row.doc]
  /\ q.strong /\ q.at = "verify" /\ q.quiet =>
       \A row \in q.rows : successor[row.doc] = {} /\ MatchesActive(row)
  /\ q.strong /\ q.at = "failed" => ~ q.quiet

SearchInv ==
  /\ RegistersHold
  /\ search = [s \in Searcher |-> search[s]]
  /\ \A s \in Searcher : SearchHolds(search[s])
-----------------------------------------------------------------------------
LEMMA SearchesStart == SearchInit => SearchInv
<1> SUFFICES ASSUME SearchInit PROVE SearchInv
  OBVIOUS
<1>1. RegistersHold
  BY DEF SearchInit, RegistersHold, OneRevision, ActiveContent
<1>2. /\ IsSearch(Idle) /\ Idle.rows = {} /\ Idle.at = "idle"
  BY DEF Idle, IsSearch
<1> QED BY <1>1, <1>2 DEF SearchInit, SearchInv, SearchHolds

LEMMA RowsOfOne == \A r : OneRevision(RowsOf(r))
BY DEF OneRevision, RowsOf

\* A query reads rows of one publication for each document.
LEMMA AnswerOfOne ==
  ASSUME NEW namespace, \A d \in Doc : OneRevision(namespace[d]),
         NEW answer \in Answers(Rows(namespace))
  PROVE  /\ \A row \in answer : row.doc \in Doc /\ \E x \in namespace[row.doc] :
              row.rev = x.rev /\ row.chunk = x.chunk /\ row.hash = x.hash
         /\ \A x, y \in answer : x.doc = y.doc => x.rev = y.rev
<1>1. ASSUME NEW row \in answer
      PROVE  \E d \in Doc : \E x \in namespace[d] :
               row = [doc |-> d, rev |-> x.rev, chunk |-> x.chunk, hash |-> x.hash]
  BY DEF Answers, Rows
<1>2. ASSUME NEW row \in answer
      PROVE  row.doc \in Doc /\ \E x \in namespace[row.doc] :
               row.rev = x.rev /\ row.chunk = x.chunk /\ row.hash = x.hash
  BY <1>1
<1> QED BY <1>2 DEF OneRevision
-----------------------------------------------------------------------------
(* Publications.                                                           *)

LEMMA AcceptHolds ==
  ASSUME SearchInv, NEW d \in Doc, Accept(d)
  PROVE  SearchInv'
<1>1. PICK s : /\ successor' = [successor EXCEPT ![d] = {s}]
               /\ OneRevision(s.content) /\ (s.token = {} => s.content = {})
  <2>1. PICK r \in Revision \cup {"deleted"} :
          successor' = [successor EXCEPT ![d] =
            {[expected |-> UNION {a.token : a \in active[d]},
              token |-> IF r = "deleted" THEN {} ELSE {changes},
              content |-> IF r = "deleted" THEN {} ELSE RowsOf(r)]}]
    BY DEF Accept
  <2> DEFINE t == [expected |-> UNION {a.token : a \in active[d]},
                   token |-> IF r = "deleted" THEN {} ELSE {changes},
                   content |-> IF r = "deleted" THEN {} ELSE RowsOf(r)]
  <2>2. OneRevision(t.content) /\ (t.token = {} => t.content = {})
    BY RowsOfOne DEF OneRevision
  <2>3. successor' = [successor EXCEPT ![d] = {t}]
    BY <2>1
  <2> HIDE DEF t
  <2> QED BY <2>2, <2>3
<1>2. UNCHANGED <<active, visible, shown>>
  BY DEF Accept
<1>3. RegistersHold'
  BY <1>1, <1>2 DEF SearchInv, RegistersHold, ActiveContent
<1>4. search' = [q \in Searcher |->
        [search[q] EXCEPT !.quiet = @ /\ \A row \in search[q].rows : row.doc # d]]
  BY DEF Accept
<1>5. ASSUME NEW q \in Searcher PROVE SearchHolds(search[q])'
  <2>1. SearchHolds(search[q]) /\ IsSearch(search[q])
    BY DEF SearchInv, SearchHolds
  <2>2. /\ IsSearch(search'[q]) /\ search'[q].at = search[q].at
        /\ search'[q].journal = search[q].journal /\ search'[q].strong = search[q].strong
        /\ search'[q].rows = search[q].rows /\ search'[q].since = search[q].since
        /\ search'[q].quiet => search[q].quiet /\ \A row \in search[q].rows : row.doc # d
    BY <1>4, <2>1 DEF IsSearch
  <2>3. \A row \in search[q].rows : row.doc # d => successor'[row.doc] = successor[row.doc]
    BY <1>1, <2>1 DEF IsSearch, SearchInv, RegistersHold
  <2> QED
    BY <1>2, <2>1, <2>2, <2>3 DEF SearchHolds, ActiveRevisions, MatchesActive
<1> QED BY <1>3, <1>4, <1>5 DEF SearchInv

LEMMA ShowHolds ==
  ASSUME SearchInv, NEW d \in Doc, Show(d)
  PROVE  SearchInv'
<1>1. PICK s \in successor[d] : visible' = [visible EXCEPT ![d] = s.content]
  BY DEF Show
<1>2. /\ shown' = shown \cup {visible'}
      /\ UNCHANGED <<active, successor, search>>
  BY DEF Show
<1>3. \A e \in Doc : OneRevision(visible'[e])
  BY <1>1 DEF SearchInv, RegistersHold
<1>4. RegistersHold'
  BY <1>1, <1>2, <1>3 DEF SearchInv, RegistersHold, ActiveContent
<1>5. \A q \in Searcher : SearchHolds(search[q])'
  BY <1>2 DEF SearchInv, SearchHolds, ActiveRevisions, MatchesActive
<1> QED BY <1>2, <1>4, <1>5 DEF SearchInv

WithSince(q, since) == [q EXCEPT !.since = since]

LEMMA SinceField ==
  ASSUME NEW q, IsSearch(q), NEW since, DOMAIN since = Doc, NEW r, r = WithSince(q, since)
  PROVE  /\ IsSearch(r) /\ r.at = q.at /\ r.journal = q.journal /\ r.strong = q.strong
         /\ r.rows = q.rows /\ r.since = since
         /\ r.quiet = q.quiet
BY DEF IsSearch, WithSince

LEMMA CommitHolds ==
  ASSUME SearchInv, NEW d \in Doc, Commit(d)
  PROVE  SearchInv'
<1>1. PICK s \in successor[d] :
        /\ visible[d] = s.content
        /\ active' = [active EXCEPT ![d] =
             IF s.token = {} THEN {} ELSE {[token |-> s.token, content |-> s.content]}]
        /\ search' = [q \in Searcher |->
             IF search[q].at = "idle" THEN search[q]
             ELSE [search[q] EXCEPT !.since[d] = @ \cup {row.rev : row \in s.content}]]
  BY DEF Commit
<1>2. successor' = [successor EXCEPT ![d] = {}] /\ UNCHANGED <<visible, shown>>
  BY DEF Commit
<1>3. /\ \A e \in Doc \ {d} : active'[e] = active[e] /\ successor'[e] = successor[e]
      /\ successor'[d] = {} /\ DOMAIN active' = Doc /\ DOMAIN successor' = Doc
  BY <1>1, <1>2 DEF SearchInv, RegistersHold
<1>7. /\ \A a, b \in active'[d] : a = b
      /\ \A a \in active'[d] : a.content = s.content
      /\ UNION {a.content : a \in active'[d]} = s.content
  <2>1. active'[d] = IF s.token = {} THEN {}
                     ELSE {[token |-> s.token, content |-> s.content]}
    BY <1>1 DEF SearchInv, RegistersHold
  <2>2. s.token = {} => s.content = {}
    BY DEF SearchInv, RegistersHold
  <2>3. CASE s.token = {}
    BY <2>1, <2>2, <2>3
  <2>4. CASE s.token # {}
    <3> DEFINE a == [token |-> s.token, content |-> s.content]
    <3>1. a.content = s.content
      OBVIOUS
    <3>2. active'[d] = {a}
      BY <2>1, <2>4
    <3> HIDE DEF a
    <3> QED BY <3>1, <3>2
  <2> QED BY <2>3, <2>4
<1>4. RegistersHold'
  BY <1>1, <1>2, <1>3, <1>7 DEF SearchInv, RegistersHold, ActiveContent
<1>5. ASSUME NEW q \in Searcher PROVE SearchHolds(search[q])'
  <2>1. SearchHolds(search[q]) /\ IsSearch(search[q])
    BY DEF SearchInv, SearchHolds
  <2>2. /\ IsSearch(search'[q]) /\ search'[q].at = search[q].at
        /\ search'[q].journal = search[q].journal /\ search'[q].strong = search[q].strong
        /\ search'[q].rows = search[q].rows /\ search'[q].quiet = search[q].quiet
        /\ \A e \in Doc : search[q].since[e] \subseteq search'[q].since[e]
        /\ search[q].at # "idle" => {row.rev : row \in s.content} \subseteq search'[q].since[d]
    <3>1. CASE search[q].at = "idle"
      BY <1>1, <2>1, <3>1
    <3>2. CASE search[q].at # "idle"
      <4>1. search'[q] = [search[q] EXCEPT !.since[d] = @ \cup {row.rev : row \in s.content}]
        BY <1>1, <3>2
      <4> DEFINE revs == {row.rev : row \in s.content}
                 since == [search[q].since EXCEPT ![d] = search[q].since[d] \cup revs]
      <4>2. search'[q] = WithSince(search[q], since)
        <5>1. search'[q] = [search[q] EXCEPT !.since[d] = search[q].since[d] \cup revs]
          BY <4>1
        <5> HIDE DEF revs
        <5> QED BY <5>1, Zenon DEF WithSince
      <4> HIDE DEF revs
      <4>3. /\ IsSearch(search'[q]) /\ search'[q].at = search[q].at
        /\ search'[q].journal = search[q].journal /\ search'[q].strong = search[q].strong
            /\ search'[q].rows = search[q].rows /\ search'[q].quiet = search[q].quiet
            /\ search'[q].since = [search[q].since EXCEPT ![d] = search[q].since[d] \cup revs]
        <5>1. DOMAIN since = Doc
          BY <2>1 DEF IsSearch
        <5>2. search'[q].since = since /\ IsSearch(search'[q]) /\ search'[q].at = search[q].at
        /\ search'[q].journal = search[q].journal /\ search'[q].strong = search[q].strong
              /\ search'[q].rows = search[q].rows /\ search'[q].quiet = search[q].quiet
          <6> HIDE DEF since
          <6> QED BY <2>1, <4>2, <5>1, SinceField
        <5> QED BY <5>2
      <4>4. \A e \in Doc : search[q].since[e] \subseteq search'[q].since[e]
        BY <2>1, <4>3 DEF IsSearch
      <4>5. revs \subseteq search'[q].since[d]
        BY <2>1, <4>3 DEF IsSearch
      <4> QED BY <4>3, <4>4, <4>5 DEF revs
    <3> QED BY <3>1, <3>2
  <2>3. search'[q].at # "idle" => \A e \in Doc : ActiveRevisions(e)' \subseteq search'[q].since[e]
    <3> SUFFICES ASSUME search[q].at # "idle", NEW e \in Doc
                 PROVE  ActiveRevisions(e)' \subseteq search'[q].since[e]
      BY <2>2
    <3>1. CASE e = d
      BY <1>7, <2>2, <3>1 DEF ActiveRevisions
    <3>2. CASE e # d
      <4>1. ActiveRevisions(e)' = ActiveRevisions(e)
        BY <1>3, <3>2 DEF ActiveRevisions
      <4> QED BY <2>1, <2>2, <4>1 DEF SearchHolds
    <3> QED BY <3>1, <3>2
  <2>4. \A row \in search[q].rows : successor[row.doc] = {} =>
          successor'[row.doc] = {} /\ (MatchesActive(row) => MatchesActive(row)')
    BY <1>1, <1>3, <2>1 DEF IsSearch, MatchesActive
  <2> QED BY <2>1, <2>2, <2>3, <2>4 DEF SearchHolds, IsSearch
<1> QED BY <1>1, <1>4, <1>5 DEF SearchInv
-----------------------------------------------------------------------------
(* Searches.                                                               *)

LEMMA QueryHolds ==
  ASSUME SearchInv, NEW s \in Searcher, Query(s)
  PROVE  SearchInv'
<1>0. PICK journal \in BOOLEAN, strong \in BOOLEAN :
        \E namespace \in Namespaces(strong) : \E answer \in Answers(Rows(namespace)) :
          search' = [search EXCEPT ![s] =
            [at |-> "verify", journal |-> journal, strong |-> strong, rows |-> answer,
             since |-> [d \in Doc |-> ActiveRevisions(d)],
             quiet |-> \A row \in answer : successor[row.doc] = {}]]
  BY DEF Query
<1> DEFINE asked(answer) == [at |-> "verify", journal |-> journal, strong |-> strong, rows |-> answer,
                             since |-> [d \in Doc |-> ActiveRevisions(d)],
                             quiet |-> \A row \in answer : successor[row.doc] = {}]
<1> PICK namespace \in Namespaces(strong) :
      \E answer \in Answers(Rows(namespace)) : search' = [search EXCEPT ![s] = asked(answer)]
  BY <1>0
<1>1. PICK answer \in Answers(Rows(namespace)) : search' = [search EXCEPT ![s] = asked(answer)]
  OBVIOUS
<1>2. UNCHANGED registers
  BY DEF Query
<1>3. \A d \in Doc : OneRevision(namespace[d])
  BY DEF Namespaces, SearchInv, RegistersHold
<1>4. /\ \A row \in answer : row.doc \in Doc /\ \E x \in namespace[row.doc] :
            row.rev = x.rev /\ row.chunk = x.chunk /\ row.hash = x.hash
      /\ \A x, y \in answer : x.doc = y.doc => x.rev = y.rev
  BY <1>3, AnswerOfOne
<1>5. /\ search'[s].at = "verify" /\ search'[s].rows = answer
      /\ search'[s].journal = journal /\ search'[s].strong = strong
      /\ search'[s].since = [d \in Doc |-> ActiveRevisions(d)]
      /\ search'[s].quiet <=> \A row \in answer : successor[row.doc] = {}
      /\ IsSearch(search'[s])
  <2> DEFINE q == [at |-> "verify", journal |-> journal, strong |-> strong, rows |-> answer,
                   since |-> [d \in Doc |-> ActiveRevisions(d)],
                   quiet |-> \A row \in answer : successor[row.doc] = {}]
  <2>1. search'[s] = q
    BY <1>1 DEF SearchInv
  <2>2. /\ q.at = "verify" /\ q.rows = answer /\ q.journal = journal /\ q.strong = strong
        /\ q.since = [d \in Doc |-> ActiveRevisions(d)]
        /\ q.quiet = \A row \in answer : successor[row.doc] = {}
        /\ q = [at |-> q.at, journal |-> q.journal, strong |-> q.strong, rows |-> q.rows,
                since |-> q.since, quiet |-> q.quiet]
    OBVIOUS
  <2> HIDE DEF q
  <2> QED BY <1>4, <2>1, <2>2 DEF IsSearch
<1>6. strong /\ search'[s].quiet => \A row \in answer : MatchesActive(row)
  <2> SUFFICES ASSUME strong, search'[s].quiet, NEW row \in answer
               PROVE  MatchesActive(row)
    OBVIOUS
  <2>1. namespace = visible /\ successor[row.doc] = {} /\ row.doc \in Doc
    BY <1>4, <1>5 DEF Namespaces
  <2>2. PICK x \in ActiveContent(row.doc) :
          row.rev = x.rev /\ row.chunk = x.chunk /\ row.hash = x.hash
    BY <1>4, <2>1 DEF SearchInv, RegistersHold
  <2> QED BY <2>2 DEF ActiveContent, MatchesActive, Matches
<1>7. SearchHolds(search[s])'
  BY <1>2, <1>4, <1>5, <1>6
  DEF SearchHolds, registers, ActiveRevisions, MatchesActive
<1>8. RegistersHold'
  BY <1>2 DEF registers, SearchInv, RegistersHold, ActiveContent
<1>9. \A q \in Searcher \ {s} : SearchHolds(search[q])'
  BY <1>1, <1>2 DEF SearchInv, SearchHolds, registers, ActiveRevisions, MatchesActive
<1>10. search' = [q \in Searcher |-> search'[q]]
  BY <1>1 DEF SearchInv
<1> QED BY <1>7, <1>8, <1>9, <1>10 DEF SearchInv

WithAt(q, at) == [q EXCEPT !.at = at]

LEMMA AtField ==
  ASSUME NEW q, IsSearch(q), NEW at, NEW r, r = WithAt(q, at)
  PROVE  /\ IsSearch(r) /\ r.at = at /\ r.journal = q.journal /\ r.strong = q.strong
         /\ r.rows = q.rows /\ r.since = q.since
         /\ r.quiet = q.quiet
BY DEF IsSearch, WithAt

LEMMA VerifyHolds ==
  ASSUME SearchInv, NEW s \in Searcher, Verify(s)
  PROVE  SearchInv'
<1> DEFINE verified == search[s].journal => \A row \in search[s].rows : MatchesActive(row)
<1>1. PICK at \in {"answered", "failed"} :
        /\ at = "answered" <=> verified
        /\ search' = [search EXCEPT ![s] = WithAt(search[s], at)]
  BY DEF Verify, WithAt, MatchesActive
<1>2. search[s].at = "verify" /\ UNCHANGED registers
  BY DEF Verify
<1>3. SearchHolds(search[s]) /\ IsSearch(search[s])
  BY DEF SearchInv, SearchHolds
<1>4. /\ IsSearch(search'[s]) /\ search'[s].at = at /\ search'[s].rows = search[s].rows
      /\ search'[s].since = search[s].since /\ search'[s].quiet = search[s].quiet
      /\ search'[s].journal = search[s].journal /\ search'[s].strong = search[s].strong
  <2>1. search'[s] = WithAt(search[s], at)
    BY <1>1 DEF SearchInv
  <2> QED BY <1>3, <2>1, AtField
<1>5. search[s].journal /\ at = "answered" =>
        \A row \in search[s].rows : row.rev \in search[s].since[row.doc]
  <2> SUFFICES ASSUME search[s].journal, at = "answered", NEW row \in search[s].rows
               PROVE  row.rev \in search[s].since[row.doc]
    OBVIOUS
  <2>1. row.doc \in Doc /\ MatchesActive(row)
    BY <1>1, <1>3 DEF IsSearch
  <2>2. PICK a \in active[row.doc] : Matches(row, a.content)
    BY <2>1 DEF MatchesActive
  <2>3. PICK chunk \in a.content : chunk.rev = row.rev
    BY <2>2 DEF Matches
  <2>4. row.rev \in ActiveRevisions(row.doc)
    BY <2>3 DEF ActiveRevisions
  <2> QED BY <1>2, <1>3, <2>1, <2>4 DEF SearchHolds
<1>6. search[s].strong /\ at = "failed" => ~ search[s].quiet
  BY <1>1, <1>2, <1>3 DEF SearchHolds
<1>7. SearchHolds(search[s])'
  BY <1>1, <1>2, <1>3, <1>4, <1>5, <1>6
  DEF SearchHolds, registers, ActiveRevisions, MatchesActive
<1>8. RegistersHold'
  BY <1>2 DEF registers, SearchInv, RegistersHold, ActiveContent
<1>9. \A q \in Searcher \ {s} : SearchHolds(search[q])'
  BY <1>1, <1>2 DEF SearchInv, SearchHolds, registers, ActiveRevisions, MatchesActive
<1>10. search' = [q \in Searcher |-> search'[q]]
  BY <1>1 DEF SearchInv
<1> QED BY <1>7, <1>8, <1>9, <1>10 DEF SearchInv

LEMMA LeaveHolds ==
  ASSUME SearchInv, NEW s \in Searcher, Leave(s)
  PROVE  SearchInv'
<1>1. search' = [search EXCEPT ![s] = Idle] /\ UNCHANGED registers
  BY DEF Leave
<1>2. IsSearch(Idle) /\ Idle.rows = {} /\ Idle.at = "idle"
  BY DEF Idle, IsSearch
<1>3. search'[s] = Idle /\ search' = [q \in Searcher |-> search'[q]]
  BY <1>1 DEF SearchInv
<1>4. SearchHolds(search[s])'
  BY <1>2, <1>3 DEF SearchHolds
<1>5. RegistersHold'
  BY <1>1 DEF registers, SearchInv, RegistersHold, ActiveContent
<1>6. \A q \in Searcher \ {s} : SearchHolds(search[q])'
  BY <1>1 DEF registers, SearchInv, SearchHolds, ActiveRevisions, MatchesActive
<1> QED BY <1>3, <1>4, <1>5, <1>6 DEF SearchInv

LEMMA SearchesStep == SearchInv /\ [SearchNext]_searchVars => SearchInv'
<1> SUFFICES ASSUME SearchInv, [SearchNext]_searchVars PROVE SearchInv'
  OBVIOUS
<1>1. CASE UNCHANGED searchVars
  BY <1>1 DEF searchVars, SearchInv, RegistersHold, ActiveContent, SearchHolds, ActiveRevisions,
              MatchesActive
<1> QED
  BY <1>1, AcceptHolds, ShowHolds, CommitHolds, QueryHolds, VerifyHolds, LeaveHolds DEF SearchNext

LEMMA SearchInvariant == SearchSpec => []SearchInv
BY SearchesStart, SearchesStep, PTL DEF SearchSpec

\* What a caller of a search may rely on (storage/turbopuffer/projection-search.ts),
\* however the stores are configured, whatever is published while the search runs and
\* however old the rows its provider returns: no answer mixes two revisions of one
\* document, verified or not; one that was verified against the journal holds only
\* revisions that were active while the search ran; and a search that reads the
\* latest writes fails only when a document of its answer is being changed.
THEOREM SearchesStaySound == SearchSpec => []SearchesAreSound
<1>1. SearchInv => WholeRevisions
  BY DEF SearchInv, SearchHolds, WholeRevisions
<1>2. SearchInv => AnswersWereActive
  BY DEF SearchInv, SearchHolds, AnswersWereActive
<1>3. SearchInv => QuietSearchSucceeds
  BY DEF SearchInv, SearchHolds, QuietSearchSucceeds
<1>4. SearchInv => SearchesAreSound
  BY <1>1, <1>2, <1>3 DEF SearchesAreSound
<1> QED BY <1>4, SearchInvariant, PTL
-----------------------------------------------------------------------------
(* A request and its retries, whatever the bound on them.                    *)
(*                                                                         *)
(* The argument: while no outcome was ambiguous, every attempt but the one     *)
(* being sent was refused, and a refused attempt is neither on its way nor     *)
(* applied.                                                                *)

\* What was sent and not refused, as long as every outcome was a refusal.
RefusedOnly ==
  ~ambiguous =>
    /\ state = "sending" => wire \cup applied \subseteq {left}
    /\ state = "waiting" \/ (state = "ended" /\ error # {}) => wire \cup applied = {}

\* An ambiguous outcome is never forgotten.
ReportIsCautious ==
  state = "ended" => \A e \in error : e.outcome = "definitely_not_applied" => ~ambiguous

RequestInv ==
  /\ state \in {"sending", "waiting", "ended"} /\ ambiguous \in BOOLEAN
  /\ RefusedOnly /\ ReportIsCautious

\* What a failed attempt leaves behind.
LEMMA FailedKeeps ==
  ASSUME RequestInv, state = "sending", NEW e, Failed(e),
         e = [e EXCEPT !.outcome = e.outcome], "outcome" \in DOMAIN e,
         \/ e.outcome = "unknown" /\ wire' \cup applied' \subseteq wire \cup applied
         \/ e.outcome = "definitely_not_applied" /\ wire' \cup applied' \subseteq (wire \cup applied) \ {left}
  PROVE  RequestInv'
<1> DEFINE seen == ambiguous \/ e.outcome # "definitely_not_applied"
           again == left > 0 /\ Retryable(e)
<1>1. /\ ambiguous' = seen
      /\ state' = IF again THEN "waiting" ELSE "ended"
      /\ error' = IF again THEN {e} ELSE {Reported(e, seen)}
  BY DEF Failed
<1> HIDE DEF again
<1>2. state' \in {"waiting", "ended"} /\ ambiguous' \in BOOLEAN /\ error' # {}
  BY <1>1 DEF RequestInv
<1>3. ReportIsCautious'
  <2>1. CASE seen
    <3>1. Reported(e, seen).outcome = "unknown"
      BY <2>1 DEF Reported, WithUnknownOutcome
    <3> QED BY <1>1, <2>1, <3>1 DEF ReportIsCautious
  <2>2. CASE ~seen
    BY <1>1, <2>2 DEF ReportIsCautious
  <2> QED BY <2>1, <2>2
<1>4. RefusedOnly'
  <2>1. SUFFICES ASSUME ~ambiguous' PROVE wire' \cup applied' = {}
    BY <1>2 DEF RefusedOnly
  <2>2. ~ambiguous /\ e.outcome = "definitely_not_applied"
    BY <1>1, <2>1
  <2>3. wire \cup applied \subseteq {left}
    BY <2>2 DEF RequestInv, RefusedOnly
  <2> QED BY <2>2, <2>3
<1> QED BY <1>2, <1>3, <1>4 DEF RequestInv

LEMMA RequestStarts == RequestInit => RequestInv
<1> SUFFICES ASSUME RequestInit PROVE RequestInv
  OBVIOUS
<1> QED BY DEF RequestInit, RequestInv, RefusedOnly, ReportIsCautious

LEMMA RequestSteps == RequestInv /\ [RequestNext]_requestVars => RequestInv'
<1> SUFFICES ASSUME RequestInv, [RequestNext]_requestVars PROVE RequestInv'
  OBVIOUS
<1> USE DEF RequestInv, RefusedOnly, ReportIsCautious
<1>1. CASE Succeed
  BY <1>1 DEF Succeed
<1>2. ASSUME NEW s \in Statuses, NEW d \in Directives, Refused(s, d) PROVE RequestInv'
  <2>1. Failure(s, d).outcome = "definitely_not_applied"
    BY <1>2 DEF Refused, Failure, RequestOutcome, DefinitelyNotApplied
  <2>2. wire' \cup applied' \subseteq (wire \cup applied) \ {left}
    BY <1>2 DEF Refused
  <2> QED BY <1>2, <2>1, <2>2, FailedKeeps DEF Refused, Failure
<1>3. ASSUME NEW s \in Statuses, NEW d \in Directives, Ambiguous(s, d) PROVE RequestInv'
  <2>1. Failure(s, d).outcome = "unknown"
    BY <1>3 DEF Ambiguous, Failure, RequestOutcome, DefinitelyNotApplied
  <2> QED BY <1>3, <2>1, FailedKeeps DEF Ambiguous, Failure
<1>4. ASSUME NEW k \in NoAnswer, Lost(k) PROVE RequestInv'
  <2>1. Unanswered(k).outcome = "unknown"
    BY DEF Unanswered
  <2> QED BY <1>4, <2>1, FailedKeeps DEF Lost, Unanswered
<1>5. CASE SendAgain
  BY <1>5 DEF SendAgain
<1>6. ASSUME NEW a \in Attempts, Apply(a) \/ Drop(a) PROVE RequestInv'
  BY <1>6 DEF Apply, Drop
<1>7. CASE UNCHANGED requestVars
  BY <1>7 DEF requestVars
<1> QED
  BY <1>1, <1>2, <1>3, <1>4, <1>5, <1>6, <1>7 DEF RequestNext, Client, Ended

\* client.ts: one ambiguous attempt makes the whole request's outcome unknown.  So
\* a request that is reported as definitely not applied was applied by none of its
\* attempts, and none is still on its way, whatever the provider answers or
\* loses and however many retries there are.
THEOREM DefiniteStaysFinal == RequestSpec => []DefiniteIsFinal
<1>1. RequestInv => DefiniteIsFinal
  BY DEF RequestInv, RefusedOnly, ReportIsCautious, DefiniteIsFinal
<1> QED BY <1>1, RequestStarts, RequestSteps, PTL DEF RequestSpec
-----------------------------------------------------------------------------
(* The vectors of publications, of any revisions, workers and deletions, with   *)
(* any number of commands that may be replayed at any time, and requests that     *)
(* land late or again.                                                            *)
(*                                                                                 *)
(* The argument: generations order what may land, so that live rows are those of     *)
(* the active or the pending publication; a command's token names a publication not   *)
(* after the active one, and what it reads back is not before that; and where the       *)
(* token was given once, all of it is the active publication's, whose vectors the        *)
(* pending one then has of every text that both have.                                     *)

\* One vector, of its own text, for each of the hashes.
OneEach(vectors, hashes) ==
  /\ \A v \in vectors : v.hash \in hashes /\ v.vector[1] = v.hash
  /\ \A h \in hashes : \E v \in vectors : v.hash = h
  /\ \A v, w \in vectors : v.hash = w.hash => v = w

PublicationOK(p) == p.mutation[2] = p.rev /\ OneEach(p.vectors, ContentOf(p.rev))

\* What the revision that a token names has stored.
StoredUnder(token) == IF token = Nothing THEN {} ELSE ContentOf(Its(token)[2])

AtMostOne(option) == \A x, y \in option : x = y

WorkShape(x) ==
  /\ AtMostOne(x.lease)
  /\ x.at \in {"publish", "await"} => x.lease # Nothing

Shapes ==
  /\ AtMostOne(head.active) /\ AtMostOne(head.pending) /\ AtMostOne(live)
  /\ DOMAIN work = Worker
  /\ \A w \in Worker : WorkShape(work[w])

\* A request that may still land is of the active or the pending publication, or
\* too late.
InTime(p) == p \in head.active \/ p \in head.pending \/ \E a \in head.active : p.gen < a.gen

Ordered ==
  /\ head.gen \in Nat
  /\ \A p \in head.active : p.gen \in Nat /\ p.gen <= head.gen
  /\ head.pending = Nothing => \A p \in head.active : p.gen = head.gen
  /\ \A q \in head.pending : q.gen = head.gen /\ \A p \in head.active : p.gen < q.gen
  /\ \A p \in sent : p.gen \in Nat /\ p.gen <= head.gen /\ InTime(p)
  /\ \A w \in Worker : \A p \in work[w].lease : p.gen \in Nat /\ p.gen <= head.gen /\ InTime(p)
  /\ head.active \subseteq sent /\ live \subseteq sent
  /\ \A a \in head.active : live # Nothing /\ \A l \in live : a.gen <= l.gen

Whole ==
  /\ \A p \in sent : PublicationOK(p)
  /\ \A q \in head.pending : PublicationOK(q)
  /\ \A w \in Worker : \A p \in work[w].lease : PublicationOK(p)

\* The publication a command expects is out, and not after the active one.
Based(c) ==
  c.expected # Nothing =>
    \E a \in sent : c.expected = Just(a.mutation) /\ \E b \in head.active : a.gen <= b.gen

CommandOK(c) ==
  /\ c.rev \in RevisionTexts
  /\ OneEach(c.embeddings, ContentOf(c.rev) \ StoredUnder(c.expected))
  /\ Based(c)

\* Reused vectors are those of one publication, not before the expected one.
ReadFrom(c, reusable) ==
  \/ reusable = {}
  \/ \E s \in sent :
       /\ reusable = s.vectors
       /\ c.expected # Nothing => \E a \in sent : c.expected = Just(a.mutation) /\ a.gen <= s.gen

Commanded ==
  /\ \A c \in commands : CommandOK(c)
  /\ \A w \in Worker : work[w].command \subseteq commands
  /\ \A w \in Worker : work[w].at = "begin" =>
       \A c \in work[w].command : ReadFrom(c, work[w].reusable)

\* What a pending publication reuses it has from the active one.
Reusing ==
  \A q \in head.pending :
    /\ q.mutation[1] = TokenOf(head.active)
    /\ q.mutation[1] # Nothing /\ ~Recurred(q.mutation[1]) =>
         \A a \in head.active, v \in q.vectors : v.hash \in ContentOf(a.rev) => v \in a.vectors

ReuseInv == Shapes /\ Ordered /\ Whole /\ Commanded /\ Reusing
-----------------------------------------------------------------------------
LEMMA NoContent == ContentOf(<<>>) = {}
BY DEF ContentOf

LEMMA TokenOfOne ==
  ASSUME NEW option, AtMostOne(option), NEW a \in option
  PROVE  /\ Its(option) = a
         /\ TokenOf(option) = IF a.rev = <<>> THEN Nothing ELSE Just(a.mutation)
<1>1. Its(option) = a
  BY DEF Its, AtMostOne
<1> QED
  BY <1>1 DEF TokenOf, Nothing

LEMMA TokenStores ==
  ASSUME NEW option, AtMostOne(option), \A a \in option : PublicationOK(a)
  PROVE  StoredUnder(TokenOf(option)) = Stored(option)
<1>1. CASE option = {}
  BY <1>1 DEF StoredUnder, Stored, TokenOf, Nothing
<1>2. ASSUME NEW a \in option PROVE StoredUnder(TokenOf(option)) = Stored(option)
  <2>1. Stored(option) = ContentOf(a.rev)
    BY TokenOfOne DEF Stored, Nothing
  <2>2. CASE a.rev = <<>>
    BY <2>1, <2>2, TokenOfOne, NoContent DEF StoredUnder
  <2>3. CASE a.rev # <<>>
    <3>1. TokenOf(option) = {a.mutation}
      BY <2>3, TokenOfOne DEF Just
    <3>2. Its({a.mutation}) = a.mutation
      BY DEF Its
    <3> QED BY <2>1, <3>1, <3>2 DEF StoredUnder, PublicationOK, Nothing
  <2> QED BY <2>2, <2>3
<1> QED
  BY <1>1, <1>2

LEMMA PlanIsWhole ==
  ASSUME NEW c, NEW hashes, OneEach(c.embeddings, hashes), hashes \subseteq ContentOf(c.rev),
         NEW reusable, reusable = {} \/ \E s : PublicationOK(s) /\ reusable = s.vectors,
         Complete(c, reusable)
  PROVE  OneEach(Plan(c, reusable), ContentOf(c.rev))
<1>1. Supplied(c) = hashes
  BY DEF Supplied, OneEach
<1>2. \A v \in reusable : v.vector[1] = v.hash
  BY DEF PublicationOK, OneEach
<1>3. \A v, w \in reusable : v.hash = w.hash => v = w
  BY DEF PublicationOK, OneEach
<1>4. \A v \in Plan(c, reusable) : \/ v \in c.embeddings /\ v.hash \in hashes
                                   \/ v \in reusable /\ v.hash \in ContentOf(c.rev) \ hashes
  BY <1>1 DEF Plan, OneEach
<1>5. \A v \in Plan(c, reusable) : v.hash \in ContentOf(c.rev) /\ v.vector[1] = v.hash
  BY <1>2, <1>4 DEF OneEach
<1>6. \A h \in ContentOf(c.rev) : \E v \in Plan(c, reusable) : v.hash = h
  BY DEF Complete
<1>7. \A v, w \in Plan(c, reusable) : v.hash = w.hash => v = w
  BY <1>3, <1>4 DEF OneEach
<1> QED
  BY <1>5, <1>6, <1>7 DEF OneEach

\* Rows that are live are of the active or of the pending publication.
LEMMA LiveOnes ==
  ASSUME Shapes, Ordered, NEW l \in live
  PROVE  l \in head.active \/ l \in head.pending
<1>1. InTime(l) /\ l.gen \in Nat
  BY DEF Ordered
<1>2. \A a \in head.active : a.gen \in Nat /\ a.gen <= l.gen
  BY DEF Ordered
<1> QED
  BY <1>1, <1>2 DEF InTime
-----------------------------------------------------------------------------
LEMMA DoingFields ==
  ASSUME NEW at, NEW command, NEW current, NEW reusable, NEW lease
  PROVE  LET x == Doing(at, command, current, reusable, lease)
         IN  /\ x.at = at /\ x.command = command /\ x.reusable = reusable /\ x.lease = lease
             /\ AtMostOne(lease) /\ (at \in {"publish", "await"} => lease # Nothing) => WorkShape(x)
BY DEF Doing, WorkShape

LEMMA Reworked ==
  ASSUME Shapes, NEW w \in Worker, NEW x, WorkShape(x), Does(w, x)
  PROVE  /\ work'[w] = x /\ \A u \in Worker : u # w => work'[u] = work[u]
         /\ DOMAIN work' = Worker /\ \A u \in Worker : WorkShape(work'[u])
BY DEF Shapes, Does

\* Steps of indexers and operations that the stores do not see.
LEMMA WorkStep ==
  ASSUME ReuseInv, UNCHANGED <<head, live, sent>>,
         NEW w \in Worker, NEW x, WorkShape(x), Does(w, x),
         \A p \in x.lease : p \in work[w].lease \/ p \in head.pending
  PROVE  Shapes' /\ Ordered' /\ Whole' /\ Reusing'
<1>1. /\ work'[w] = x /\ \A u \in Worker : u # w => work'[u] = work[u]
      /\ DOMAIN work' = Worker /\ \A u \in Worker : WorkShape(work'[u])
  BY Reworked DEF ReuseInv
<1>2. Shapes'
  BY <1>1 DEF ReuseInv, Shapes
<1>3. \A u \in Worker : \A p \in work'[u].lease : p \in work[u].lease \/ p \in head.pending
  BY <1>1
<1>4. \A p : InTime(p)' <=> InTime(p)
  BY DEF InTime
<1>5. Ordered'
  BY <1>3, <1>4 DEF ReuseInv, Ordered, InTime
<1>6. Whole'
  BY <1>3 DEF ReuseInv, Whole
<1>7. Reusing'
  BY DEF ReuseInv, Reusing, Recurred
<1> QED
  BY <1>2, <1>5, <1>6, <1>7

LEMMA CommandedStep ==
  ASSUME ReuseInv, UNCHANGED <<head, sent, commands>>,
         NEW w \in Worker, NEW x, WorkShape(x), Does(w, x),
         x.command \subseteq commands,
         x.at = "begin" => \A c \in x.command : ReadFrom(c, x.reusable)
  PROVE  Commanded'
<1>1. work'[w] = x /\ \A u \in Worker : u # w => work'[u] = work[u]
  BY Reworked DEF ReuseInv
<1>2. \A c : CommandOK(c)' <=> CommandOK(c)
  BY DEF CommandOK, Based
<1>3. \A c, r : ReadFrom(c, r)' <=> ReadFrom(c, r)
  BY DEF ReadFrom
<1> QED
  BY <1>1, <1>2, <1>3 DEF ReuseInv, Commanded

LEMMA PrepareKeeps ==
  ASSUME ReuseInv, Prepare
  PROVE  ReuseInv'
<1>1. PICK r \in RevisionTexts, n \in Nonce :
        commands' = commands \union
          {[expected |-> TokenOf(head.active), rev |-> r,
            embeddings |-> {Embedded(c, n) : c \in Missing(r, head.active)}]}
  BY DEF Prepare
<1> DEFINE new == [expected |-> TokenOf(head.active), rev |-> r,
                   embeddings |-> {Embedded(c, n) : c \in Missing(r, head.active)}]
<1>2. UNCHANGED <<head, live, sent, work>>
  BY DEF Prepare
<1>3. StoredUnder(TokenOf(head.active)) = Stored(head.active)
  BY TokenStores DEF ReuseInv, Shapes, Whole, Ordered
<1>4. OneEach(new.embeddings, ContentOf(new.rev) \ StoredUnder(new.expected))
  <2> DEFINE missing == Missing(r, head.active)
             vectors == {Embedded(c, n) : c \in missing}
  <2>1. \A c \in missing : Embedded(c, n).hash = c /\ Embedded(c, n).vector[1] = c
    BY DEF Embedded
  <2>2. OneEach(vectors, missing)
    <3>1. \A v \in vectors : v.hash \in missing /\ v.vector[1] = v.hash
      BY <2>1
    <3>2. \A h \in missing : \E v \in vectors : v.hash = h
      BY <2>1
    <3>3. \A v, u \in vectors : v.hash = u.hash => v = u
      BY <2>1
    <3> HIDE DEF missing, vectors
    <3> QED BY <3>1, <3>2, <3>3 DEF OneEach
  <2>3. missing = ContentOf(new.rev) \ StoredUnder(new.expected)
    BY <1>3 DEF Missing
  <2> QED BY <2>2, <2>3
<1>5. Based(new)
  <2> SUFFICES ASSUME TokenOf(head.active) # Nothing
               PROVE  \E a \in sent : /\ TokenOf(head.active) = Just(a.mutation)
                                      /\ \E b \in head.active : a.gen <= b.gen
    BY DEF Based
  <2>1. PICK a \in head.active : TRUE
    BY DEF TokenOf, Nothing
  <2>2. TokenOf(head.active) = Just(a.mutation)
    BY TokenOfOne DEF ReuseInv, Shapes
  <2>3. a \in sent /\ a.gen \in Nat
    BY DEF ReuseInv, Ordered
  <2>4. a.gen <= a.gen
    BY <2>3
  <2> QED BY <2>1, <2>2, <2>3, <2>4
<1>6. CommandOK(new)
  BY <1>4, <1>5 DEF CommandOK
<1> HIDE DEF new
<1>7. \A c : CommandOK(c)' <=> CommandOK(c)
  BY <1>2 DEF CommandOK, Based
<1>8. \A c, x : ReadFrom(c, x)' <=> ReadFrom(c, x)
  BY <1>2 DEF ReadFrom
<1>9. commands' = commands \union {new}
  BY <1>1 DEF new
<1>10. Commanded'
  BY <1>2, <1>6, <1>7, <1>8, <1>9 DEF ReuseInv, Commanded
<1>11. Shapes' /\ Ordered' /\ Whole' /\ Reusing'
  BY <1>2 DEF ReuseInv, Shapes, Ordered, Whole, Reusing, Recurred, InTime
<1> QED
  BY <1>10, <1>11 DEF ReuseInv

LEMMA ReplaceKeeps ==
  ASSUME ReuseInv, NEW w \in Worker, Replace(w)
  PROVE  ReuseInv'
<1>1. PICK c \in commands : Does(w, Doing("load", Just(c), Nothing, {}, Nothing))
  BY DEF Replace
<1> DEFINE x == Doing("load", Just(c), Nothing, {}, Nothing)
<1>2. WorkShape(x) /\ x.command \subseteq commands /\ x.at # "begin" /\ x.lease = {}
  BY DoingFields DEF AtMostOne, Nothing, Just
<1> HIDE DEF x
<1>3. Does(w, x) /\ UNCHANGED <<head, live, sent, commands>>
  BY <1>1 DEF Replace, x
<1> QED
  BY <1>2, <1>3, WorkStep, CommandedStep DEF ReuseInv

LEMMA LoadCurrentKeeps ==
  ASSUME ReuseInv, NEW w \in Worker, LoadCurrent(w)
  PROVE  ReuseInv'
<1> DEFINE x == Doing("vectors", work[w].command, TokenOf(head.active), {}, Nothing)
<1>1. WorkShape(x) /\ x.command = work[w].command /\ x.at = "vectors" /\ x.lease = {}
  BY DoingFields DEF AtMostOne, Nothing
<1> HIDE DEF x
<1>2. Does(w, x) /\ UNCHANGED <<head, live, sent, commands>>
  BY DEF LoadCurrent, x
<1>3. work[w].command \subseteq commands
  BY DEF ReuseInv, Commanded
<1> QED
  BY <1>1, <1>2, <1>3, WorkStep, CommandedStep DEF ReuseInv

LEMMA LoadVectorsKeeps ==
  ASSUME ReuseInv, NEW w \in Worker, LoadVectors(w)
  PROVE  ReuseInv'
<1>1. PICK c \in work[w].command :
        LET found == IF work[w].current = Nothing \/ ~NeedsReusable(c)
                     THEN {} ELSE LiveVectors(c, live)
        IN Does(w, Doing("begin", work[w].command, work[w].current, found, Nothing))
  BY DEF LoadVectors
<1> DEFINE found == IF work[w].current = Nothing \/ ~NeedsReusable(c)
                    THEN {} ELSE LiveVectors(c, live)
           x == Doing("begin", work[w].command, work[w].current, found, Nothing)
<1>2. Does(w, x) /\ UNCHANGED <<head, live, sent, commands>>
  BY <1>1 DEF LoadVectors
<1>3. found = {} \/ \E l \in live : found = l.vectors
  <2>1. CASE live = {}
    BY <2>1 DEF LiveVectors
  <2>2. ASSUME NEW l \in live PROVE LiveVectors(c, live) = l.vectors
    BY DEF LiveVectors, ReuseInv, Shapes, AtMostOne
  <2> QED BY <2>1, <2>2
<1> HIDE DEF found
<1>4. \A d \in commands : ReadFrom(d, found)
  <2> SUFFICES ASSUME NEW d \in commands, found # {} PROVE ReadFrom(d, found)
    BY DEF ReadFrom
  <2>1. PICK l \in live : found = l.vectors
    BY <1>3
  <2>2. l \in sent /\ \A b \in head.active : b.gen <= l.gen
    BY DEF ReuseInv, Ordered
  <2>3. ASSUME d.expected # Nothing
        PROVE  \E a \in sent : d.expected = Just(a.mutation) /\ a.gen <= l.gen
    <3>1. Based(d)
      BY DEF ReuseInv, Commanded, CommandOK
    <3>2. PICK a \in sent : d.expected = Just(a.mutation) /\ \E b \in head.active : a.gen <= b.gen
      BY <2>3, <3>1 DEF Based
    <3>3. PICK b \in head.active : a.gen <= b.gen
      BY <3>2
    <3>4. a.gen \in Nat /\ b.gen \in Nat /\ l.gen \in Nat
      BY <2>2 DEF ReuseInv, Ordered
    <3>5. a.gen <= l.gen
      BY <2>2, <3>3, <3>4
    <3> QED BY <3>2, <3>5
  <2> QED BY <2>1, <2>2, <2>3 DEF ReadFrom
<1>5. WorkShape(x) /\ x.command = work[w].command /\ x.reusable = found /\ x.lease = {}
  BY DoingFields DEF AtMostOne, Nothing
<1> HIDE DEF x
<1>6. work[w].command \subseteq commands
  BY DEF ReuseInv, Commanded
<1>7. x.command \subseteq commands /\ \A d \in x.command : ReadFrom(d, x.reusable)
  BY <1>4, <1>5, <1>6
<1> QED
  BY <1>2, <1>5, <1>7, WorkStep, CommandedStep DEF ReuseInv

LEMMA QuitKeeps ==
  ASSUME ReuseInv, NEW w \in Worker, NEW what,
         what \notin {"begin", "publish", "await"}, Answer(w, what), UNCHANGED <<live, sent, commands>>
  PROVE  ReuseInv'
<1> DEFINE x == Resting(what)
<1>1. WorkShape(x) /\ x.command \subseteq commands /\ x.at # "begin" /\ x.lease = {}
  BY DoingFields DEF Resting, AtMostOne, Nothing
<1>2. Does(w, x) /\ UNCHANGED <<head, live, sent, commands>>
  BY DEF Answer
<1> HIDE DEF x
<1> QED
  BY <1>1, <1>2, WorkStep, CommandedStep DEF ReuseInv

\* The lease of a publication that has just been allocated or is pending already.
LEMMA LeaseShape ==
  ASSUME NEW p
  PROVE  LET x == Doing("publish", Nothing, Nothing, {}, Just(p))
         IN  WorkShape(x) /\ x.command = {} /\ x.at = "publish" /\ x.lease = {p}
BY DoingFields DEF AtMostOne, Just, Nothing

LEMMA ResumeKeeps ==
  ASSUME ReuseInv, NEW w \in Worker, NEW p \in head.pending, TakeLease(w, p),
         UNCHANGED <<live, sent, commands>>
  PROVE  ReuseInv'
<1> DEFINE x == Doing("publish", Nothing, Nothing, {}, Just(p))
<1>1. WorkShape(x) /\ x.command = {} /\ x.at = "publish" /\ x.lease = {p}
  BY LeaseShape
<1>2. Does(w, x)
  BY DEF TakeLease
<1> HIDE DEF x
<1>3. head'.gen = head.gen /\ head'.active = head.active /\ head'.pending = head.pending
  BY DEF TakeLease, Just, ReuseInv, Shapes, Ordered, AtMostOne
<1>4. work'[w] = x /\ \A u \in Worker : u # w => work'[u] = work[u]
  BY <1>1, <1>2, Reworked DEF ReuseInv
<1>5. DOMAIN work' = Worker /\ \A u \in Worker : WorkShape(work'[u])
  BY <1>1, <1>2, Reworked DEF ReuseInv
<1>6. Shapes'
  BY <1>3, <1>5 DEF ReuseInv, Shapes
<1>7. \A q : InTime(q)' <=> InTime(q)
  BY <1>3 DEF InTime
<1>8. InTime(p) /\ PublicationOK(p) /\ p.gen \in Nat /\ p.gen <= head.gen
  BY DEF InTime, ReuseInv, Ordered, Whole
<1>9. \A u \in Worker : \A q \in work'[u].lease : q = p \/ q \in work[u].lease
  BY <1>1, <1>4
<1>10. Ordered'
  BY <1>3, <1>7, <1>8, <1>9 DEF ReuseInv, Ordered
<1>11. Whole'
  BY <1>3, <1>8, <1>9 DEF ReuseInv, Whole
<1>12. Commanded'
  <2>1. \A c : CommandOK(c)' <=> CommandOK(c)
    BY <1>3 DEF CommandOK, Based
  <2>2. \A c, r : ReadFrom(c, r)' <=> ReadFrom(c, r)
    BY DEF ReadFrom
  <2>3. \A u \in Worker : work'[u] = work[u] \/ (work'[u].command = {} /\ work'[u].at # "begin")
    BY <1>1, <1>4
  <2> QED BY <2>1, <2>2, <2>3 DEF ReuseInv, Commanded
<1>13. Reusing'
  BY <1>3 DEF ReuseInv, Reusing, Recurred
<1> QED
  BY <1>6, <1>10, <1>11, <1>12, <1>13 DEF ReuseInv

\* Nothing is pending: all that may land is the active publication or too late.
LEMMA QuietOnes ==
  ASSUME Shapes, Ordered, head.pending = Nothing, NEW s \in sent, NEW a \in head.active,
         a.gen <= s.gen
  PROVE  s = a
<1>1. InTime(s) /\ s.gen \in Nat /\ a.gen \in Nat
  BY DEF Ordered
<1>2. \A b \in head.active : b = a
  BY DEF Shapes, AtMostOne
<1> QED
  BY <1>1, <1>2 DEF InTime, Nothing

\* What a new publication takes from live rows is the active publication's.
LEMMA ReusedIsActive ==
  ASSUME ReuseInv, NEW c, CommandOK(c), NEW reusable, ReadFrom(c, reusable), head.pending = Nothing,
         c.expected = TokenOf(head.active), c.expected # Nothing, ~Recurred(c.expected),
         Complete(c, reusable), NEW a \in head.active, NEW v \in Plan(c, reusable),
         v.hash \in ContentOf(a.rev)
  PROVE  v \in a.vectors
<1>1. TokenOf(head.active) = Just(a.mutation)
  BY TokenOfOne DEF ReuseInv, Shapes
<1>2. StoredUnder(c.expected) = ContentOf(a.rev)
  <2>1. StoredUnder(TokenOf(head.active)) = Stored(head.active)
    BY TokenStores DEF ReuseInv, Shapes, Ordered, Whole
  <2>2. Its(head.active) = a
    BY TokenOfOne DEF ReuseInv, Shapes
  <2> QED BY <2>1, <2>2 DEF Stored, Nothing
<1>3. v \in reusable
  BY <1>2 DEF Plan, CommandOK, OneEach
<1>4. PICK s \in sent : /\ reusable = s.vectors
                        /\ \E b \in sent : c.expected = Just(b.mutation) /\ b.gen <= s.gen
  BY <1>3 DEF ReadFrom
<1>5. PICK b \in sent : c.expected = Just(b.mutation) /\ b.gen <= s.gen
  BY <1>4
<1>6. a \in sent
  BY DEF ReuseInv, Ordered
<1>7. b.gen = a.gen
  BY <1>1, <1>5, <1>6 DEF Recurred
<1>8. s = a
  BY <1>5, <1>7, QuietOnes DEF ReuseInv
<1> QED
  BY <1>3, <1>4, <1>8

\* A new publication becomes the pending one.
LEMMA Allocated ==
  ASSUME ReuseInv, head.pending = Nothing, NEW p, p.gen = head.gen + 1, PublicationOK(p),
         p.mutation[1] = TokenOf(head.active),
         p.mutation[1] # Nothing /\ ~Recurred(p.mutation[1]) =>
           \A a \in head.active, v \in p.vectors : v.hash \in ContentOf(a.rev) => v \in a.vectors,
         head' = [gen |-> p.gen, active |-> head.active, pending |-> Just(p)],
         UNCHANGED <<live, commands>>, sent' = sent \/ sent' = sent \union {p},
         DOMAIN work' = Worker,
         \A u \in Worker :
           \/ work'[u] = work[u]
           \/ WorkShape(work'[u]) /\ work'[u].command = {} /\ work'[u].at # "begin" /\ work'[u].lease = {p}
  PROVE  ReuseInv'
<1>1. head'.gen = head.gen + 1 /\ head'.active = head.active /\ head'.pending = {p}
  BY DEF Just
<1>2. Shapes'
  BY <1>1 DEF ReuseInv, Shapes, AtMostOne
<1>3. \A q : InTime(q) \/ q = p => InTime(q)'
  BY <1>1 DEF InTime, Nothing
<1>4. \A u \in Worker : \A q \in work'[u].lease : q = p \/ q \in work[u].lease
  OBVIOUS
<1>5. \A q \in sent' : q = p \/ q \in sent
  OBVIOUS
<1>6. sent \subseteq sent'
  OBVIOUS
<1>7. Ordered'
  <2>1. head.gen \in Nat /\ p.gen \in Nat /\ head'.gen = p.gen
    BY <1>1 DEF ReuseInv, Ordered
  <2>2. \A q \in head.active : q.gen \in Nat /\ q.gen = head.gen
    BY DEF ReuseInv, Ordered
  <2>3. \A q \in sent' : q.gen \in Nat /\ q.gen <= head'.gen /\ InTime(q)'
    BY <1>1, <1>3, <1>5, <2>1 DEF ReuseInv, Ordered
  <2>4. \A u \in Worker : \A q \in work'[u].lease : q.gen \in Nat /\ q.gen <= head'.gen /\ InTime(q)'
    BY <1>1, <1>3, <1>4, <2>1 DEF ReuseInv, Ordered
  <2>5. /\ \A q \in head'.active : q.gen \in Nat /\ q.gen <= head'.gen
        /\ head'.pending # Nothing
        /\ \A q \in head'.pending : q.gen = head'.gen /\ \A r \in head'.active : r.gen < q.gen
    BY <1>1, <2>1, <2>2 DEF Nothing
  <2>6. /\ head'.active \subseteq sent' /\ live' \subseteq sent'
        /\ \A a \in head'.active : live' # Nothing /\ \A l \in live' : a.gen <= l.gen
    BY <1>1, <1>6 DEF ReuseInv, Ordered
  <2> QED BY <1>1, <2>1, <2>3, <2>4, <2>5, <2>6 DEF Ordered
<1>8. Whole'
  BY <1>1, <1>4, <1>5 DEF ReuseInv, Whole
<1>9. Commanded'
  <2>1. \A c : CommandOK(c) => CommandOK(c)'
    BY <1>1, <1>6 DEF CommandOK, Based
  <2>2. \A c, r : ReadFrom(c, r) => ReadFrom(c, r)'
    BY <1>6 DEF ReadFrom
  <2> QED BY <2>1, <2>2 DEF ReuseInv, Commanded
<1>10. Reusing'
  <2>1. \A t : Recurred(t) => Recurred(t)'
    BY <1>6 DEF Recurred
  <2> QED BY <1>1, <2>1 DEF Reusing
<1> QED
  BY <1>2, <1>7, <1>8, <1>9, <1>10 DEF ReuseInv

LEMMA AllocateKeeps ==
  ASSUME ReuseInv, NEW w \in Worker, work[w].at = "begin", NEW c \in work[w].command,
         Complete(c, work[w].reusable), head.pending = Nothing, c.expected = TokenOf(head.active),
         TakeLease(w, PublicationOf(c, work[w].reusable)), UNCHANGED <<live, sent, commands>>
  PROVE  ReuseInv'
<1> DEFINE reusable == work[w].reusable
           p == PublicationOf(c, reusable)
           x == Doing("publish", Nothing, Nothing, {}, Just(p))
<1>1. CommandOK(c) /\ ReadFrom(c, reusable)
  BY DEF ReuseInv, Commanded
<1>2. /\ p.gen = head.gen + 1 /\ p.mutation[1] = c.expected /\ p.mutation[2] = c.rev
      /\ p.rev = c.rev /\ p.vectors = Plan(c, reusable)
  BY DEF PublicationOf, MutationOf
<1>3. WorkShape(x) /\ x.command = {} /\ x.at = "publish" /\ x.lease = {p}
  BY LeaseShape
<1>4. Does(w, x) /\ head' = [gen |-> p.gen, active |-> head.active, pending |-> Just(p)]
  BY DEF TakeLease
<1> HIDE DEF p, x, reusable
<1>5. /\ work'[w] = x /\ \A u \in Worker : u # w => work'[u] = work[u]
      /\ DOMAIN work' = Worker
  BY <1>3, <1>4, Reworked DEF ReuseInv
<1>6. OneEach(Plan(c, reusable), ContentOf(c.rev))
  <2>1. reusable = {} \/ \E s : PublicationOK(s) /\ reusable = s.vectors
    BY <1>1 DEF ReadFrom, ReuseInv, Whole
  <2>2. Complete(c, reusable)
    BY DEF reusable
  <2> QED BY <1>1, <2>1, <2>2, PlanIsWhole DEF CommandOK
<1>7. PublicationOK(p)
  BY <1>2, <1>6 DEF PublicationOK
<1>8. p.mutation[1] # Nothing /\ ~Recurred(p.mutation[1]) =>
        \A a \in head.active, v \in p.vectors : v.hash \in ContentOf(a.rev) => v \in a.vectors
  <2>1. Complete(c, reusable)
    BY DEF reusable
  <2> QED BY <1>1, <1>2, <2>1, ReusedIsActive
<1>9. \A u \in Worker :
        \/ work'[u] = work[u]
        \/ WorkShape(work'[u]) /\ work'[u].command = {} /\ work'[u].at # "begin" /\ work'[u].lease = {p}
  BY <1>3, <1>5
<1> QED
  BY <1>2, <1>4, <1>5, <1>7, <1>8, <1>9, Allocated

LEMMA BeginKeeps ==
  ASSUME ReuseInv, NEW w \in Worker, Begin(w)
  PROVE  ReuseInv'
<1>1. PICK c \in work[w].command :
        LET reusable == work[w].reusable
        IN  \/ \E what \in {"invalid", "reused", "in_progress", "committed", "conflict"} : Answer(w, what)
            \/ \E p \in head.pending : TakeLease(w, p)
            \/ /\ Complete(c, reusable) /\ head.pending = Nothing
               /\ c.expected = TokenOf(head.active) /\ TakeLease(w, PublicationOf(c, reusable))
  BY DEF Begin
<1>2. work[w].at = "begin" /\ UNCHANGED <<live, sent, commands>>
  BY DEF Begin
<1>3. CASE \E what \in {"invalid", "reused", "in_progress", "committed", "conflict"} : Answer(w, what)
  BY <1>2, <1>3, QuitKeeps
<1>4. CASE \E p \in head.pending : TakeLease(w, p)
  BY <1>2, <1>4, ResumeKeeps
<1>5. CASE /\ Complete(c, work[w].reusable) /\ head.pending = Nothing
           /\ c.expected = TokenOf(head.active) /\ TakeLease(w, PublicationOf(c, work[w].reusable))
  BY <1>2, <1>5, AllocateKeeps
<1> QED
  BY <1>1, <1>3, <1>4, <1>5

LEMMA DeleteKeeps ==
  ASSUME ReuseInv, Delete
  PROVE  ReuseInv'
<1> DEFINE p == [gen |-> head.gen + 1, mutation |-> <<TokenOf(head.active), <<>>>>,
                 rev |-> <<>>, vectors |-> {}]
<1>1. /\ p.gen = head.gen + 1 /\ p.mutation[1] = TokenOf(head.active)
      /\ p.mutation[2] = p.rev /\ p.rev = <<>> /\ p.vectors = {}
  OBVIOUS
<1>2. /\ head.pending = Nothing /\ sent' = sent \union {p} /\ UNCHANGED <<live, commands, work>>
      /\ head' = [gen |-> p.gen, active |-> head.active, pending |-> Just(p)]
  BY DEF Delete
<1> HIDE DEF p
<1>3. PublicationOK(p)
  BY <1>1, NoContent DEF PublicationOK, OneEach
<1>4. DOMAIN work' = Worker /\ \A u \in Worker : work'[u] = work[u]
  BY <1>2 DEF ReuseInv, Shapes
<1> QED
  BY <1>1, <1>2, <1>3, <1>4, Allocated

LEMMA SendKeeps ==
  ASSUME ReuseInv, NEW w \in Worker, Send(w)
  PROVE  ReuseInv'
<1> DEFINE x == Doing("await", Nothing, Nothing, {}, work[w].lease)
<1>1. WorkShape(work[w])
  BY DEF ReuseInv, Shapes
<1>2. /\ work[w].at = "publish" /\ Does(w, x) /\ sent' = sent \union work[w].lease
      /\ UNCHANGED <<head, live, commands>>
  BY DEF Send
<1>3. WorkShape(x) /\ x.command = {} /\ x.at = "await" /\ x.lease = work[w].lease
  BY <1>1, <1>2, DoingFields DEF WorkShape, Nothing
<1> HIDE DEF x
<1>4. /\ work'[w] = x /\ \A u \in Worker : u # w => work'[u] = work[u]
      /\ DOMAIN work' = Worker /\ \A u \in Worker : WorkShape(work'[u])
  BY <1>2, <1>3, Reworked DEF ReuseInv
<1>5. \A u \in Worker : work'[u].lease = work[u].lease
  BY <1>3, <1>4
<1>6. \A q \in sent' : q \in sent \/ q \in work[w].lease
  BY <1>2
<1>7. Shapes'
  BY <1>2, <1>4 DEF ReuseInv, Shapes
<1>8. \A q : InTime(q)' <=> InTime(q)
  BY <1>2 DEF InTime
<1>9. Ordered'
  BY <1>2, <1>5, <1>6, <1>8 DEF ReuseInv, Ordered
<1>10. Whole'
  BY <1>2, <1>5, <1>6 DEF ReuseInv, Whole
<1>11. Commanded'
  <2>1. \A c : CommandOK(c) => CommandOK(c)'
    BY <1>2 DEF CommandOK, Based
  <2>2. \A c, r : ReadFrom(c, r) => ReadFrom(c, r)'
    BY <1>2 DEF ReadFrom
  <2>3. \A u \in Worker : work'[u] = work[u] \/ (work'[u].command = {} /\ work'[u].at # "begin")
    BY <1>3, <1>4
  <2> QED BY <1>2, <2>1, <2>2, <2>3 DEF ReuseInv, Commanded
<1>12. Reusing'
  <2>1. \A t : Recurred(t) => Recurred(t)'
    BY <1>2 DEF Recurred
  <2> QED BY <1>2, <2>1 DEF ReuseInv, Reusing
<1> QED
  BY <1>7, <1>9, <1>10, <1>11, <1>12 DEF ReuseInv

LEMMA LandKeeps ==
  ASSUME ReuseInv, Land
  PROVE  ReuseInv'
<1>1. PICK p \in sent : Admits(p) /\ live' = {p}
  BY DEF Land, Just
<1>2. UNCHANGED <<head, sent, commands, work>>
  BY DEF Land
<1>3. \A a \in head.active : live' # Nothing /\ \A l \in live' : a.gen <= l.gen
  <2> SUFFICES ASSUME NEW a \in head.active PROVE a.gen <= p.gen
    BY <1>1 DEF Nothing
  <2>1. PICK l \in live : a.gen <= l.gen
    BY DEF ReuseInv, Ordered, Nothing
  <2>2. l.gen <= p.gen
    BY <1>1 DEF Admits
  <2>3. a.gen \in Nat /\ l.gen \in Nat /\ p.gen \in Nat
    BY DEF ReuseInv, Ordered
  <2> QED BY <2>1, <2>2, <2>3
<1>4. Shapes'
  BY <1>1, <1>2 DEF ReuseInv, Shapes, AtMostOne
<1>5. Ordered'
  BY <1>1, <1>2, <1>3 DEF ReuseInv, Ordered, InTime
<1>6. Whole' /\ Reusing' /\ Commanded'
  BY <1>2 DEF ReuseInv, Whole, Reusing, Recurred, Commanded, CommandOK, Based, ReadFrom
<1> QED
  BY <1>4, <1>5, <1>6 DEF ReuseInv

\* The pending publication is live and becomes the active one.
LEMMA FinalizedKeeps ==
  ASSUME ReuseInv, head.pending # Nothing, live = head.pending, PendingIsActive,
         UNCHANGED <<live, sent, commands>>, DOMAIN work' = Worker,
         \A u \in Worker :
           \/ work'[u] = work[u]
           \/ WorkShape(work'[u]) /\ work'[u].command = {} /\ work'[u].at # "begin" /\ work'[u].lease = {}
  PROVE  ReuseInv'
<1> PICK p \in head.pending : TRUE
  BY DEF Nothing
<1>1. head.pending = {p}
  BY DEF ReuseInv, Shapes, AtMostOne
<1>2. head'.gen = head.gen /\ head'.active = {p} /\ head'.pending = {} /\ live' = {p}
  BY <1>1 DEF PendingIsActive, Nothing
<1>3. /\ p.gen = head.gen /\ head.gen \in Nat /\ p \in sent
      /\ \A a \in head.active : a.gen \in Nat /\ a.gen < p.gen
  BY <1>1 DEF ReuseInv, Ordered
<1>4. \A u \in Worker : work'[u].lease \subseteq work[u].lease
  OBVIOUS
<1>5. Shapes'
  BY <1>2 DEF ReuseInv, Shapes, AtMostOne
<1>6. ASSUME NEW q, q.gen \in Nat, InTime(q) PROVE InTime(q)'
  BY <1>1, <1>2, <1>3, <1>6 DEF InTime
<1>7. Ordered'
  <2>1. \A q \in sent' : q.gen \in Nat /\ q.gen <= head'.gen /\ InTime(q)'
    BY <1>2, <1>6 DEF ReuseInv, Ordered
  <2>2. \A u \in Worker : \A q \in work'[u].lease : q.gen \in Nat /\ q.gen <= head'.gen /\ InTime(q)'
    BY <1>2, <1>4, <1>6 DEF ReuseInv, Ordered
  <2>3. p.gen <= p.gen
    BY <1>3
  <2> QED BY <1>2, <1>3, <2>1, <2>2, <2>3 DEF Ordered, Nothing
<1>8. Whole'
  BY <1>2, <1>4 DEF ReuseInv, Whole
<1>9. Commanded'
  <2>1. ASSUME NEW c, Based(c) PROVE Based(c)'
    <3> SUFFICES ASSUME c.expected # Nothing
                 PROVE  \E a \in sent : c.expected = Just(a.mutation) /\ a.gen <= p.gen
      BY <1>2 DEF Based
    <3>1. PICK a \in sent : c.expected = Just(a.mutation) /\ \E b \in head.active : a.gen <= b.gen
      BY <2>1 DEF Based
    <3>2. a.gen \in Nat
      BY DEF ReuseInv, Ordered
    <3>3. a.gen <= p.gen
      BY <1>3, <3>1, <3>2
    <3> QED BY <3>1, <3>3
  <2>2. \A c : CommandOK(c) => CommandOK(c)'
    BY <2>1 DEF CommandOK
  <2>3. \A c, r : ReadFrom(c, r) => ReadFrom(c, r)'
    BY DEF ReadFrom
  <2> QED BY <2>2, <2>3 DEF ReuseInv, Commanded
<1>10. Reusing'
  BY <1>2 DEF Reusing
<1> QED
  BY <1>5, <1>7, <1>8, <1>9, <1>10 DEF ReuseInv

LEMMA FinalizeKeeps ==
  ASSUME ReuseInv, NEW w \in Worker, Finalize(w)
  PROVE  ReuseInv'
<1> DEFINE x == Resting("committed")
<1>1. WorkShape(x) /\ x.command = {} /\ x.at # "begin" /\ x.lease = {}
  BY DoingFields DEF Resting, AtMostOne, Nothing
<1>2. /\ Does(w, x) /\ UNCHANGED <<live, sent, commands>> /\ PendingIsActive
      /\ live = head.pending /\ head.pending = work[w].lease /\ work[w].at = "await"
  BY DEF Finalize
<1>3. head.pending # Nothing
  BY <1>2 DEF ReuseInv, Shapes, WorkShape
<1> HIDE DEF x
<1>4. /\ work'[w] = x /\ \A u \in Worker : u # w => work'[u] = work[u]
      /\ DOMAIN work' = Worker
  BY <1>1, <1>2, Reworked DEF ReuseInv
<1> QED
  BY <1>1, <1>2, <1>3, <1>4, FinalizedKeeps

LEMMA FinalizeDeletionKeeps ==
  ASSUME ReuseInv, FinalizeDeletion
  PROVE  ReuseInv'
<1>1. /\ head.pending # Nothing /\ live = head.pending /\ PendingIsActive
      /\ UNCHANGED <<live, sent, commands, work>>
  BY DEF FinalizeDeletion, Nothing
<1> QED
  BY <1>1, FinalizedKeeps DEF ReuseInv, Shapes

LEMMA ReuseStart == ReuseInit => ReuseInv
<1> SUFFICES ASSUME ReuseInit PROVE ReuseInv
  OBVIOUS
<1>1. /\ head.gen = 0 /\ head.active = {} /\ head.pending = {} /\ live = {} /\ sent = {}
      /\ commands = {} /\ work = [w \in Worker |-> Resting("idle")]
  BY DEF ReuseInit, Nothing
<1>2. /\ WorkShape(Resting("idle")) /\ Resting("idle").command = {} /\ Resting("idle").at # "begin"
      /\ Resting("idle").lease = {}
  BY DoingFields DEF Resting, AtMostOne, Nothing
<1>3. Shapes
  BY <1>1, <1>2 DEF Shapes, AtMostOne
<1>4. Ordered
  BY <1>1, <1>2 DEF Ordered
<1>5. Whole /\ Commanded /\ Reusing
  BY <1>1, <1>2 DEF Whole, Commanded, Reusing
<1> QED
  BY <1>3, <1>4, <1>5 DEF ReuseInv

LEMMA ReuseStep == ReuseInv /\ [ReuseNext]_reuseVars => ReuseInv'
<1> SUFFICES ASSUME ReuseInv, [ReuseNext]_reuseVars PROVE ReuseInv'
  OBVIOUS
<1>1. CASE Prepare
  BY <1>1, PrepareKeeps
<1>2. CASE Land
  BY <1>2, LandKeeps
<1>3. CASE Delete
  BY <1>3, DeleteKeeps
<1>4. CASE FinalizeDeletion
  BY <1>4, FinalizeDeletionKeeps
<1>5. ASSUME NEW w \in Worker,
             Replace(w) \/ LoadCurrent(w) \/ LoadVectors(w) \/ Begin(w) \/ Send(w) \/ Finalize(w) \/ Quit(w)
      PROVE  ReuseInv'
  <2>1. Quit(w) => ReuseInv'
    BY QuitKeeps DEF Quit, Answer
  <2> QED
    BY <1>5, <2>1, ReplaceKeeps, LoadCurrentKeeps, LoadVectorsKeeps, BeginKeeps, SendKeeps, FinalizeKeeps
<1>6. CASE UNCHANGED reuseVars
  <2>1. UNCHANGED head /\ UNCHANGED live /\ UNCHANGED sent /\ UNCHANGED commands /\ UNCHANGED work
    BY <1>6 DEF reuseVars
  <2>2. Shapes' /\ Ordered' /\ Whole' /\ Reusing'
    BY <2>1 DEF ReuseInv, Shapes, Ordered, Whole, Reusing, Recurred, InTime
  <2>3. Commanded'
    BY <2>1 DEF ReuseInv, Commanded, CommandOK, Based, ReadFrom
  <2> QED BY <2>2, <2>3 DEF ReuseInv
<1> QED
  BY <1>1, <1>2, <1>3, <1>4, <1>5, <1>6 DEF ReuseNext
-----------------------------------------------------------------------------
\* A command gets the digest of p from any rows that hold what it lacks, as p has it.
LEMMA SameDigest ==
  ASSUME NEW c, NEW p, OneEach(p.vectors, ContentOf(c.rev)), c.embeddings \subseteq p.vectors,
         NEW rows,
         \A h \in ContentOf(c.rev) \ Supplied(c) : \E v \in rows : v.hash = h,
         \A v \in rows : v.hash \in ContentOf(c.rev) \ Supplied(c) => v \in p.vectors
  PROVE  Complete(c, rows) /\ p.vectors = Plan(c, rows)
<1>1. Complete(c, rows)
  <2> SUFFICES ASSUME NEW h \in ContentOf(c.rev)
               PROVE  \E v \in Plan(c, rows) : v.hash = h
    BY DEF Complete
  <2>1. CASE h \in Supplied(c)
    BY <2>1 DEF Supplied, Plan
  <2>2. CASE h \notin Supplied(c)
    BY <2>2 DEF Plan
  <2> QED BY <2>1, <2>2
<1>2. Plan(c, rows) \subseteq p.vectors
  BY DEF Plan
<1>3. ASSUME NEW v \in p.vectors PROVE v \in Plan(c, rows)
  <2>1. PICK u \in Plan(c, rows) : u.hash = v.hash
    BY <1>1 DEF Complete, OneEach
  <2> QED BY <1>2, <2>1 DEF OneEach
<1> QED
  BY <1>1, <1>2, <1>3

\* What a command reads back now: nothing that it needs, or the rows that are live.
LEMMA RowsReadNow ==
  ASSUME ReuseInv, NEW c \in commands, c.expected = TokenOf(head.active)
  PROVE  \/ ContentOf(c.rev) \subseteq Supplied(c)
         \/ \E a \in head.active, l \in live :
              /\ ReadNow(c) = l.vectors /\ c.expected # Nothing
              /\ ContentOf(c.rev) \ Supplied(c) \subseteq ContentOf(a.rev)
<1>1. Supplied(c) = ContentOf(c.rev) \ StoredUnder(c.expected)
  BY DEF ReuseInv, Commanded, CommandOK, OneEach, Supplied
<1>2. CASE c.expected = Nothing
  BY <1>1, <1>2 DEF StoredUnder
<1>3. CASE c.expected # Nothing /\ NeedsReusable(c)
  <2>1. PICK a \in head.active : TRUE
    BY <1>3 DEF TokenOf, Nothing
  <2>2. PICK l \in live : TRUE
    BY <2>1 DEF ReuseInv, Ordered, Nothing
  <2>3. ReadNow(c) = l.vectors
    BY <1>3 DEF ReadNow, LiveVectors, ReuseInv, Shapes, AtMostOne
  <2>4. StoredUnder(c.expected) = ContentOf(a.rev)
    <3>1. StoredUnder(TokenOf(head.active)) = Stored(head.active)
      BY TokenStores DEF ReuseInv, Shapes, Ordered, Whole
    <3>2. Its(head.active) = a
      BY TokenOfOne DEF ReuseInv, Shapes
    <3> QED BY <3>1, <3>2 DEF Stored, Nothing
  <2> QED BY <1>1, <1>3, <2>3, <2>4
<1> QED
  BY <1>2, <1>3 DEF NeedsReusable

LEMMA ActiveHas ==
  ASSUME ReuseInv, NEW a \in head.active
  PROVE  PublicationOK(a)
BY DEF ReuseInv, Ordered, Whole

\* Vectors of the active publication that the pending one needs are the pending one's.
LEMMA PendingKeeps ==
  ASSUME ReuseInv, NEW a \in head.active, NEW q \in head.pending,
         q.mutation[1] # Nothing, ~Recurred(q.mutation[1]),
         NEW v \in a.vectors, v.hash \in ContentOf(q.rev)
  PROVE  v \in q.vectors
<1>1. PublicationOK(a) /\ PublicationOK(q)
  BY ActiveHas DEF ReuseInv, Whole
<1>2. PICK u \in q.vectors : u.hash = v.hash
  BY <1>1 DEF PublicationOK, OneEach
<1>3. v.hash \in ContentOf(a.rev)
  BY <1>1 DEF PublicationOK, OneEach
<1>4. u \in a.vectors
  BY <1>2, <1>3 DEF ReuseInv, Reusing
<1> QED
  BY <1>1, <1>2, <1>4 DEF PublicationOK, OneEach

LEMMA PendingResumes ==
  ASSUME ReuseInv, NEW c \in commands, ~Recurred(c.expected)
  PROVE  Resumes(c)
<1> SUFFICES ASSUME Is(head.pending, c), NEW p \in head.pending, c.embeddings \subseteq p.vectors
             PROVE  Complete(c, ReadNow(c)) /\ p.vectors = Plan(c, ReadNow(c))
  BY DEF Resumes, AgreesWith, ReuseInv, Shapes, AtMostOne
<1>1. p.mutation = <<c.expected, c.rev>>
  BY DEF Is, MutationOf, ReuseInv, Shapes, AtMostOne
<1>2. c.expected = TokenOf(head.active) /\ p.mutation[1] = c.expected
  BY <1>1 DEF ReuseInv, Reusing
<1>3. OneEach(p.vectors, ContentOf(c.rev))
  BY <1>1 DEF ReuseInv, Whole, PublicationOK
<1>4. CASE ContentOf(c.rev) \subseteq Supplied(c)
  BY <1>3, <1>4, SameDigest
<1>5. ASSUME NEW a \in head.active, NEW l \in live, ReadNow(c) = l.vectors, c.expected # Nothing,
             ContentOf(c.rev) \ Supplied(c) \subseteq ContentOf(a.rev)
      PROVE  Complete(c, ReadNow(c)) /\ p.vectors = Plan(c, ReadNow(c))
  <2>1. CASE l = p
    <3>1. \A h \in ContentOf(c.rev) \ Supplied(c) : \E v \in p.vectors : v.hash = h
      BY <1>3 DEF OneEach
    <3> QED BY <1>3, <1>5, <2>1, <3>1, SameDigest
  <2>2. CASE l = a
    <3>1. \A h \in ContentOf(c.rev) \ Supplied(c) : \E v \in a.vectors : v.hash = h
      BY <1>5, ActiveHas DEF PublicationOK, OneEach
    <3>2. p.rev = c.rev
      BY <1>1 DEF ReuseInv, Whole, PublicationOK
    <3>3. \A v \in a.vectors : v.hash \in ContentOf(c.rev) => v \in p.vectors
      BY <1>2, <1>5, <3>2, PendingKeeps
    <3> QED BY <1>3, <1>5, <2>2, <3>1, <3>3, SameDigest
  <2>3. l = p \/ l = a
    BY LiveOnes DEF ReuseInv, Shapes, AtMostOne
  <2> QED BY <2>1, <2>2, <2>3
<1> QED
  BY <1>2, <1>4, <1>5, RowsReadNow

LEMMA QuietCompletes ==
  ASSUME ReuseInv, NEW c \in commands, c.expected = TokenOf(head.active), head.pending = Nothing
  PROVE  Complete(c, ReadNow(c))
<1>1. CASE ContentOf(c.rev) \subseteq Supplied(c)
  BY <1>1 DEF Complete, Plan, Supplied
<1>2. ASSUME NEW a \in head.active, NEW l \in live, ReadNow(c) = l.vectors,
             ContentOf(c.rev) \ Supplied(c) \subseteq ContentOf(a.rev)
      PROVE  Complete(c, ReadNow(c))
  <2>1. l = a
    BY LiveOnes DEF ReuseInv, Shapes, AtMostOne, Nothing
  <2>2. \A h \in ContentOf(c.rev) \ Supplied(c) : \E v \in a.vectors : v.hash = h
    BY <1>2, ActiveHas DEF PublicationOK, OneEach
  <2> SUFFICES ASSUME NEW h \in ContentOf(c.rev)
               PROVE  \E v \in Plan(c, a.vectors) : v.hash = h
    BY <1>2, <2>1 DEF Complete
  <2>3. CASE h \in Supplied(c)
    BY <2>3 DEF Supplied, Plan
  <2>4. CASE h \notin Supplied(c)
    BY <2>2, <2>4 DEF Plan
  <2> QED BY <2>3, <2>4
<1> QED
  BY <1>1, <1>2, RowsReadNow

LEMMA OneVector ==
  ASSUME ReuseInv
  PROVE  OneVectorPerText
<1> SUFFICES ASSUME NEW p \in head.active \union head.pending \union live
             PROVE  /\ \A content \in ContentOf(p.rev) :
                         Cardinality({v \in p.vectors : v.hash = content}) = 1
                    /\ \A v \in p.vectors : v.hash \in ContentOf(p.rev) /\ v.vector[1] = v.hash
  BY DEF OneVectorPerText
<1>1. OneEach(p.vectors, ContentOf(p.rev))
  BY DEF ReuseInv, Ordered, Whole, PublicationOK
<1>2. ASSUME NEW content \in ContentOf(p.rev)
      PROVE  Cardinality({v \in p.vectors : v.hash = content}) = 1
  <2>1. PICK v \in p.vectors : v.hash = content
    BY <1>1 DEF OneEach
  <2>2. {u \in p.vectors : u.hash = content} = {v}
    BY <1>1, <2>1 DEF OneEach
  <2> QED BY <2>2, FS_Singleton
<1> QED
  BY <1>1, <1>2 DEF OneEach

\* Only a publication that was pending becomes the active one.
LEMMA ActiveChanges ==
  ASSUME ReuseInv, [ReuseNext]_reuseVars, head'.active # head.active
  PROVE  head'.active = head.pending
<1>1. CASE FinalizeDeletion
  BY <1>1 DEF FinalizeDeletion, PendingIsActive
<1>2. ASSUME NEW w \in Worker, Finalize(w) PROVE head'.active = head.pending
  BY <1>2 DEF Finalize, PendingIsActive
<1>3. ASSUME NEW w \in Worker, Begin(w) PROVE head'.active = head.active
  BY <1>3 DEF Begin, TakeLease, Answer
<1>4. CASE Delete
  BY <1>4 DEF Delete
<1>5. ASSUME NEW w \in Worker, Replace(w) \/ LoadCurrent(w) \/ LoadVectors(w) \/ Send(w) \/ Quit(w)
      PROVE  head' = head
  BY <1>5 DEF Replace, LoadCurrent, LoadVectors, Send, Quit
<1>6. CASE Prepare \/ Land \/ UNCHANGED reuseVars
  BY <1>6 DEF Prepare, Land, reuseVars
<1> QED
  BY <1>1, <1>2, <1>3, <1>4, <1>5, <1>6 DEF ReuseNext

LEMMA StepKeepsVectors ==
  ASSUME ReuseInv, [ReuseNext]_reuseVars
  PROVE  KeepsVectors
BY ActiveChanges, PendingKeeps DEF KeepsVectors, Kept

LEMMA ReuseAlways == ReuseSpec => []ReuseInv
BY ReuseStart, ReuseStep, PTL DEF ReuseSpec

\* "Only the exact prepared mutation may resume that publication ID and generation" (ADR
\* 0002), as far as replaceAttempt gets: whatever workers, requests and restarts did in
\* between, a replay of the command of the pending publication reads back the same
\* vectors, makes the same digest and is given the lease, unless the revision it expects
\* was published twice.
THEOREM ReplaysStayResumable == ReuseSpec => []ReplaysResume
<1>1. ReuseInv => ReplaysResume
  BY PendingResumes DEF ReplaysResume
<1> QED
  BY <1>1, ReuseAlways, PTL

\* planProjectedRevisionReplacement never finds a chunk without a vector for an indexer
\* that nobody overtook, and every chunk of what is published or live has one vector, of
\* its own text, wherever it came from.
THEOREM QuietDeltasSuffice == ReuseSpec => [](QuietDeltaSuffices /\ OneVectorPerText)
<1>1. ReuseInv => QuietDeltaSuffices
  BY QuietCompletes DEF QuietDeltaSuffices
<1>2. ReuseInv => OneVectorPerText
  BY OneVector
<1> QED
  BY <1>1, <1>2, ReuseAlways, PTL

\* Through any chain of publications a text that stays keeps the vector it was stored
\* with (loadReusableVectors reads it back, and supplied vectors are of new texts only),
\* unless the replaced revision was published twice.
THEOREM VectorsStayKept == ReuseSpec => VectorsAreKept
<1>1. ReuseInv /\ [ReuseNext]_reuseVars => KeepsVectors
  BY StepKeepsVectors
<1> QED
  BY <1>1, ReuseAlways, PTL DEF ReuseSpec, VectorsAreKept
-----------------------------------------------------------------------------
(* Requests that share a batch: any requests, keys and sizes of batches.      *)
(*                                                                         *)
(* The argument: a request is in one open or running batch at most, while it    *)
(* has no answer, and once in it.  Whatever is live of a document was written   *)
(* by one publication, so that a merged write takes all rows of a publication     *)
(* or none, and the documents of a batch differ, so that what the provider       *)
(* counts is the sum of the publications it took.                                *)

CONSTANTS Request, KeyOf, MaximumBatch, Payload
VARIABLES pending, timers, running, answer, rows, written, landed

Merged == INSTANCE CoalescedWrites WITH Publication <- Payload, applied <- landed

In(batch, r) == \E i \in 1..Len(batch) : batch[i] = r
NoRepeats(batch) == \A i, j \in 1..Len(batch) : batch[i] = batch[j] => i = j

\* What is in an open batch of a key.
OpenOK(k, batch) ==
  /\ NoRepeats(batch)
  /\ \A r \in Request : In(batch, r) => KeyOf[r] = k /\ answer[r] = Merged!Unsettled

BatchesInv ==
  /\ pending \in [Merged!Keys -> Seq(Request)]
  /\ running \subseteq Seq(Request)
  /\ answer = [r \in Request |-> answer[r]]
  /\ Merged!TimersFit
  /\ \A k \in Merged!Keys : OpenOK(k, pending[k])
  /\ \A b \in running : b # <<>> /\ NoRepeats(b)
  /\ Merged!RunOnce

LEMMA InBatch == ASSUME NEW batch, NEW r PROVE Merged!Contains(batch, r) <=> In(batch, r)
BY DEF Merged!Contains, In

LEMMA Appended ==
  ASSUME NEW s \in Seq(Request), NEW r \in Request, ~In(s, r), NoRepeats(s)
  PROVE  /\ Append(s, r) \in Seq(Request)
         /\ NoRepeats(Append(s, r))
         /\ \A x : In(Append(s, r), x) <=> In(s, x) \/ x = r
         /\ Append(s, r) # <<>>
         /\ s # <<>> => Head(Append(s, r)) = Head(s)
<1>1. /\ Append(s, r) \in Seq(Request)
      /\ Len(Append(s, r)) = Len(s) + 1 /\ Len(s) \in Nat
      /\ \A i \in 1..Len(s) : Append(s, r)[i] = s[i]
      /\ Append(s, r)[Len(s) + 1] = r
  OBVIOUS
<1>2. NoRepeats(Append(s, r))
  BY <1>1 DEF NoRepeats, In
<1>3. \A x : In(Append(s, r), x) <=> In(s, x) \/ x = r
  BY <1>1 DEF In
<1>4. Append(s, r) # <<>>
  BY <1>1
<1>5. s # <<>> => Head(Append(s, r)) = Head(s)
  OBVIOUS
<1> QED BY <1>1, <1>2, <1>3, <1>4, <1>5

\* The requests of a key's open batch that a step leaves as they are.
LEMMA FlushKeeps ==
  ASSUME BatchesInv, NEW k \in Merged!Keys, NEW batch \in Seq(Request), batch # <<>>,
         OpenOK(k, batch),
         \A b \in running : \A r \in Request : ~(In(b, r) /\ In(batch, r)),
         pending[k] # <<>> => Head(batch) = Head(pending[k]),
         Merged!Flushed(k, batch), UNCHANGED answer
  PROVE  BatchesInv'
<1>1. /\ running' = running \cup {batch}
      /\ pending' = [pending EXCEPT ![k] = <<>>]
      /\ timers' = timers \ {<<k, Head(batch)>>}
      /\ pending \in [Merged!Keys -> Seq(Request)]
  BY DEF Merged!Flushed, Merged!TimerOf, BatchesInv
<1>2. /\ pending' \in [Merged!Keys -> Seq(Request)]
      /\ pending'[k] = <<>>
      /\ \A j \in Merged!Keys \ {k} : pending'[j] = pending[j]
  BY <1>1
<1>3. Merged!TimersFit'
  <2>1. timers = {<<j, Head(pending[j])>> : j \in {i \in Merged!Keys : pending[i] # <<>>}}
    BY DEF BatchesInv, Merged!TimersFit, Merged!TimerOf
  <2>2. timers' = {<<j, Head(pending'[j])>> : j \in {i \in Merged!Keys : pending'[i] # <<>>}}
    BY <1>1, <1>2, <2>1
  <2> QED BY <2>2 DEF Merged!TimersFit, Merged!TimerOf
<1>4. ASSUME NEW j \in Merged!Keys PROVE OpenOK(j, pending[j])'
  <2>1. CASE j = k
    BY <1>2, <2>1 DEF OpenOK, NoRepeats, In
  <2>2. CASE j # k
    BY <1>2, <2>2 DEF OpenOK, BatchesInv
  <2> QED BY <2>1, <2>2
<1>5. Merged!RunOnce'
  <2>1. \A b, c \in running' : \A r \in Request : In(b, r) /\ In(c, r) => b = c
    BY <1>1, InBatch DEF BatchesInv, Merged!RunOnce
  <2>2. ASSUME NEW b \in running', NEW r \in Request, In(b, r)
        PROVE  answer'[r] = Merged!Unsettled /\ \A j \in Merged!Keys : ~In(pending'[j], r)
    <3>1. CASE b = batch
      <4>1. answer[r] = Merged!Unsettled /\ KeyOf[r] = k
        BY <2>2, <3>1 DEF OpenOK
      <4>2. ~In(<<>>, r)
        BY DEF In
      <4>3. \A j \in Merged!Keys : In(pending[j], r) => j = k
        BY <4>1 DEF BatchesInv, OpenOK
      <4>4. ASSUME NEW j \in Merged!Keys PROVE ~In(pending'[j], r)
        BY <4>2, <4>3, <1>2
      <4> QED BY <4>1, <4>4
    <3>2. CASE b \in running
      <4>1. answer[r] = Merged!Unsettled /\ \A j \in Merged!Keys : ~In(pending[j], r)
        BY <2>2, <3>2, InBatch DEF BatchesInv, Merged!RunOnce
      <4>2. ~In(<<>>, r)
        BY DEF In
      <4> QED BY <4>1, <4>2, <1>2
    <3> QED BY <1>1, <3>1, <3>2
  <2> QED BY <2>1, <2>2, InBatch DEF Merged!RunOnce
<1> QED BY <1>1, <1>2, <1>3, <1>4, <1>5 DEF BatchesInv, OpenOK

LEMMA SubmitKeeps ==
  ASSUME BatchesInv, NEW r \in Request, Merged!Submit(r) PROVE BatchesInv'
<1> DEFINE k == KeyOf[r]
           batch == Append(pending[k], r)
<1>1. k \in Merged!Keys /\ pending[k] \in Seq(Request)
  BY DEF Merged!Keys, BatchesInv
<1>2. /\ answer[r] = Merged!Unsettled
      /\ \A j \in Merged!Keys : ~In(pending[j], r)
      /\ \A b \in running : ~In(b, r)
      /\ UNCHANGED answer
  BY InBatch DEF Merged!Submit, Merged!Submitted
<1>3. OpenOK(k, pending[k])
  BY <1>1 DEF BatchesInv
<1>4. /\ batch \in Seq(Request)
      /\ NoRepeats(batch)
      /\ \A x : In(batch, x) <=> In(pending[k], x) \/ x = r
      /\ batch # <<>>
      /\ pending[k] # <<>> => Head(batch) = Head(pending[k])
  BY <1>1, <1>2, <1>3, Appended DEF OpenOK
<1>5. OpenOK(k, batch)
  BY <1>2, <1>3, <1>4 DEF OpenOK
<1>6. \A b \in running : \A x \in Request : ~(In(b, x) /\ In(batch, x))
  BY <1>1, <1>2, <1>4, InBatch DEF BatchesInv, Merged!RunOnce
<1>7. CASE Merged!Flushed(k, batch)
  BY <1>1, <1>2, <1>4, <1>5, <1>6, <1>7, FlushKeeps
<1>8. CASE /\ pending' = [pending EXCEPT ![k] = batch]
           /\ timers' = timers \cup {Merged!TimerOf(k, batch)}
           /\ UNCHANGED running
  <2> HIDE DEF k, batch
  <2>1. /\ pending' \in [Merged!Keys -> Seq(Request)]
        /\ pending'[k] = batch
        /\ \A j \in Merged!Keys \ {k} : pending'[j] = pending[j]
    BY <1>1, <1>4, <1>8 DEF BatchesInv
  <2>2. Merged!TimersFit'
    <3>1. timers = {<<j, Head(pending[j])>> : j \in {i \in Merged!Keys : pending[i] # <<>>}}
      BY DEF BatchesInv, Merged!TimersFit, Merged!TimerOf
    <3>2. timers' = timers \cup {<<k, Head(batch)>>}
      BY <1>8 DEF Merged!TimerOf
    <3>3. timers' = {<<j, Head(pending'[j])>> : j \in {i \in Merged!Keys : pending'[i] # <<>>}}
      BY <1>1, <1>4, <2>1, <3>1, <3>2
    <3> QED BY <3>3 DEF Merged!TimersFit, Merged!TimerOf
  <2>3. ASSUME NEW j \in Merged!Keys PROVE OpenOK(j, pending[j])'
    BY <1>2, <1>5, <2>1 DEF OpenOK, BatchesInv
  <2>4. Merged!RunOnce'
    <3>1. \A b \in running : \A x \in Request : In(b, x) =>
            answer[x] = Merged!Unsettled /\ \A j \in Merged!Keys : ~In(pending'[j], x)
      BY <1>1, <1>6, <2>1, InBatch DEF BatchesInv, Merged!RunOnce
    <3> QED BY <1>2, <1>8, <3>1, InBatch DEF BatchesInv, Merged!RunOnce
  <2> QED BY <1>2, <1>8, <2>1, <2>2, <2>3, <2>4 DEF BatchesInv, OpenOK
<1> QED BY <1>7, <1>8 DEF Merged!Submit

LEMMA FireKeeps ==
  ASSUME BatchesInv, NEW t \in timers, Merged!Fire(t) PROVE BatchesInv'
<1>1. PICK k \in Merged!Keys : pending[k] # <<>> /\ t = <<k, Head(pending[k])>>
  BY DEF BatchesInv, Merged!TimersFit, Merged!TimerOf
<1>2. Merged!Flushed(k, pending[k]) /\ UNCHANGED answer
  BY <1>1 DEF Merged!Fire
<1>3. pending[k] \in Seq(Request) /\ OpenOK(k, pending[k])
  BY DEF BatchesInv
<1>4. \A b \in running : \A r \in Request : ~(In(b, r) /\ In(pending[k], r))
  BY InBatch DEF BatchesInv, Merged!RunOnce
<1> QED BY <1>1, <1>2, <1>3, <1>4, FlushKeeps

LEMMA SettleKeeps ==
  ASSUME BatchesInv, NEW batch, NEW results, Merged!Settle(batch, results) PROVE BatchesInv'
<1>1. /\ batch \in running
      /\ answer' = Merged!Settled(batch, results)
      /\ running' = running \ {batch}
      /\ UNCHANGED <<pending, timers>>
  BY DEF Merged!Settle
<1>2. \A r \in Request : ~In(batch, r) => answer'[r] = answer[r]
  BY <1>1, InBatch DEF Merged!Settled
<1>3. answer' = [r \in Request |-> answer'[r]]
  BY <1>1 DEF Merged!Settled
<1>4. ASSUME NEW k \in Merged!Keys PROVE OpenOK(k, pending[k])'
  BY <1>1, <1>2, InBatch DEF BatchesInv, OpenOK, Merged!RunOnce
<1>5. Merged!RunOnce'
  BY <1>1, <1>2, InBatch DEF BatchesInv, Merged!RunOnce
<1>6. Merged!TimersFit'
  BY <1>1 DEF BatchesInv, Merged!TimersFit
<1> QED BY <1>1, <1>3, <1>4, <1>5, <1>6 DEF BatchesInv

LEMMA BatchesStart == Merged!CoalescerInit => BatchesInv
<1> SUFFICES ASSUME Merged!CoalescerInit PROVE BatchesInv
  OBVIOUS
<1>1. <<>> \in Seq(Request) /\ \A r : ~In(<<>>, r)
  BY DEF In
<1>2. pending = [k \in Merged!Keys |-> <<>>] /\ timers = {} /\ running = {}
      /\ answer = [r \in Request |-> Merged!Unsettled]
  BY DEF Merged!CoalescerInit
<1>3. \A k \in Merged!Keys : OpenOK(k, pending[k])
  BY <1>1, <1>2 DEF OpenOK, NoRepeats
<1>4. Merged!TimersFit /\ Merged!RunOnce
  BY <1>2 DEF Merged!TimersFit, Merged!RunOnce
<1>5. pending \in [Merged!Keys -> Seq(Request)]
  BY <1>1, <1>2
<1> QED BY <1>2, <1>3, <1>4, <1>5 DEF BatchesInv
LEMMA CollectKeeps ==
  ASSUME BatchesInv,
         \/ \E r \in Request : Merged!Submit(r)
         \/ \E t \in timers : Merged!Fire(t)
  PROVE  BatchesInv' /\ UNCHANGED answer
BY SubmitKeeps, FireKeeps DEF Merged!Submit, Merged!Fire

LEMMA BatchesStay == ASSUME BatchesInv, UNCHANGED Merged!coalescerVars PROVE BatchesInv'
BY DEF BatchesInv, OpenOK, Merged!coalescerVars, Merged!TimersFit, Merged!RunOnce

LEMMA SettledFrom ==
  ASSUME BatchesInv, NEW batch, NEW results, Merged!Settle(batch, results), NEW r \in Request
  PROVE  \/ answer'[r] = answer[r]
         \/ answer'[r] = Merged!Failed
         \/ \E i \in 1..Len(batch) : /\ batch[i] = r
                                     /\ Len(results) = Len(batch)
                                     /\ answer'[r] = results[i]
BY DEF Merged!Settle, Merged!Settled, Merged!Contains

LEMMA CoalescerSteps ==
  BatchesInv /\ Merged!AnsweredByOwn /\ [Merged!Next]_(Merged!coalescerVars)
    => BatchesInv' /\ Merged!AnsweredByOwn'
<1> SUFFICES ASSUME BatchesInv, Merged!AnsweredByOwn, [Merged!Next]_(Merged!coalescerVars)
             PROVE  BatchesInv' /\ Merged!AnsweredByOwn'
  OBVIOUS
<1>1. CASE \/ \E r \in Request : Merged!Submit(r)
           \/ \E t \in timers : Merged!Fire(t)
  BY <1>1, CollectKeeps DEF Merged!AnsweredByOwn
<1>2. ASSUME NEW b \in running, Merged!Complete(b) PROVE BatchesInv' /\ Merged!AnsweredByOwn'
  <2>1. PICK n \in 0..Len(b) : Merged!Settle(b, [i \in 1..n |-> Merged!Fulfilled(b[i])])
    BY <1>2 DEF Merged!Complete
  <2>2. BatchesInv'
    BY <2>1, SettleKeeps
  <2>3. ASSUME NEW r \in Request
        PROVE  answer'[r] \in {Merged!Unsettled, Merged!Failed, Merged!Fulfilled(r)}
    <3>1. CASE \E i \in 1..Len(b) :
                 /\ b[i] = r
                 /\ Len([j \in 1..n |-> Merged!Fulfilled(b[j])]) = Len(b)
                 /\ answer'[r] = [j \in 1..n |-> Merged!Fulfilled(b[j])][i]
      <4>1. b \in Seq(Request) /\ Len(b) \in Nat
        BY DEF BatchesInv
      <4>2. n \in Nat /\ Len([j \in 1..n |-> Merged!Fulfilled(b[j])]) = n
        BY <4>1
      <4> QED BY <3>1, <4>2
    <3> QED BY <2>1, <3>1, SettledFrom DEF Merged!AnsweredByOwn
  <2> QED BY <2>2, <2>3 DEF Merged!AnsweredByOwn
<1>3. CASE UNCHANGED Merged!coalescerVars
  BY <1>3, BatchesStay DEF Merged!AnsweredByOwn, Merged!coalescerVars
<1> QED BY <1>1, <1>2, <1>3 DEF Merged!Next, Merged!Finished

\* Each request is answered with its own result or fails, is in one batch at a
\* time and not run again, and waits no longer than one window (coalesce.ts),
\* however many requests arrive in whatever order.
THEOREM BatchesStayApart ==
  Merged!Spec => [](Merged!AnsweredByOwn /\ Merged!RunOnce /\ Merged!TimersFit)
<1>1. Merged!Init => BatchesInv /\ Merged!AnsweredByOwn
  BY BatchesStart DEF Merged!Init, Merged!CoalescerInit, Merged!AnsweredByOwn
<1>2. BatchesInv => Merged!RunOnce /\ Merged!TimersFit
  BY DEF BatchesInv
<1> QED BY <1>1, <1>2, CoalescerSteps, PTL DEF Merged!Spec
-----------------------------------------------------------------------------
LEMMA SameCardinality == ASSUME NEW S PROVE Merged!Cardinality(S) = Cardinality(S)
BY DEF Cardinality, Merged!Cardinality

HeldBy(q, d) ==
  \A id \in Merged!AllRows : id[1] = d =>
    rows[id] = IF id \in Merged!RowIds(q) THEN {[gen |-> Payload[q].gen, pub |-> Payload[q].pub]}
               ELSE {}

\* The rows of a document are those of one publication.
OneHolds(d) ==
  \/ \A id \in Merged!AllRows : id[1] = d => rows[id] = {}
  \/ \E q \in Request : Payload[q].doc = d /\ HeldBy(q, d)

LandedOf(r) == IF landed[r] = 0 THEN {} ELSE Merged!RowIds(r)
LandedIn(batch) == UNION {LandedOf(batch[i]) : i \in 1..Len(batch)}

\* A response tells what was applied.
IsTrue(w) ==
  /\ w.batch \in running
  /\ w.response.ok =>
       /\ ~ Merged!NamesTwice(w.batch)
       /\ w.response.count = Cardinality(LandedIn(w.batch))
       /\ w.response.ids \subseteq {LandedIn(w.batch)}

ToldTruly(r) ==
  /\ landed[r] \in {0, Merged!Size(r)}
  /\ landed[r] # 0 => \E row \in rows[<<Payload[r].doc, 0>>] : row.gen >= Payload[r].gen
  /\ answer[r] \notin {Merged!Unsettled, Merged!Failed} => answer[r] = Merged!Fulfilled(landed[r])

WritesInv ==
  /\ BatchesInv
  /\ rows = [id \in Merged!AllRows |-> rows[id]]
  /\ \A r \in Request : OneHolds(Payload[r].doc)
  /\ landed = [r \in Request |-> landed[r]]
  /\ \A r \in Request : ToldTruly(r)
  /\ \A w \in written : IsTrue(w)
  /\ \A v, w \in written : v.batch = w.batch => v = w

LEMMA RowIdsAre ==
  ASSUME Merged!WritesAssumption, NEW r \in Request
  PROVE  /\ Merged!RowIds(r) \subseteq Merged!AllRows
         /\ <<Payload[r].doc, 0>> \in Merged!RowIds(r)
         /\ \A id \in Merged!RowIds(r) : id[1] = Payload[r].doc
         /\ IsFiniteSet(Merged!RowIds(r))
         /\ Merged!Size(r) = Cardinality(Merged!RowIds(r))
         /\ Merged!Size(r) \in Nat /\ Merged!Size(r) # 0
<1>1. Payload[r].slots \in Nat
  BY DEF Merged!WritesAssumption
<1>2. /\ Merged!RowIds(r) \subseteq Merged!AllRows
      /\ <<Payload[r].doc, 0>> \in Merged!RowIds(r)
      /\ \A id \in Merged!RowIds(r) : id[1] = Payload[r].doc
  BY <1>1 DEF Merged!RowIds, Merged!AllRows
<1>3. IsFiniteSet(Merged!RowIds(r))
  <2>1. IsFiniteSet(0..Payload[r].slots)
    BY <1>1, FS_Interval
  <2> DEFINE f == [s \in 0..Payload[r].slots |-> <<Payload[r].doc, s>>]
  <2>2. f \in Surjection(0..Payload[r].slots, Merged!RowIds(r))
    BY DEF Surjection, Merged!RowIds
  <2> HIDE DEF f
  <2> QED BY <2>1, <2>2, FS_Surjection
<1>4. Merged!Size(r) = Cardinality(Merged!RowIds(r))
  BY SameCardinality DEF Merged!Size
<1>5. Merged!Size(r) \in Nat /\ Merged!Size(r) # 0
  BY <1>2, <1>3, <1>4, FS_CardinalityType, FS_EmptySet
<1> QED BY <1>2, <1>3, <1>4, <1>5

\* A conditional write is applied as a whole or not at all, and as a whole it
\* replaces all rows of its document.
LEMMA AllOrNothing ==
  ASSUME Merged!WritesAssumption, WritesInv, NEW r \in Request
  PROVE  \/ Merged!AffectedOf(r) = {}
         \/ /\ Merged!AffectedOf(r) = Merged!RowIds(r)
            /\ \A id \in Merged!AllRows \ Merged!RowIds(r) : id[1] = Payload[r].doc => rows[id] = {}
<1> DEFINE d == Payload[r].doc
<1>1. OneHolds(d)
  BY DEF WritesInv
<1>2. Merged!RowIds(r) \subseteq Merged!AllRows /\ \A id \in Merged!RowIds(r) : id[1] = d
  BY RowIdsAre
<1>3. CASE \A id \in Merged!AllRows : id[1] = d => rows[id] = {}
  BY <1>2, <1>3 DEF Merged!AffectedOf, Merged!Admits
<1>4. ASSUME NEW q \in Request, Payload[q].doc = d, HeldBy(q, d)
      PROVE  \/ Merged!AffectedOf(r) = {}
             \/ /\ Merged!AffectedOf(r) = Merged!RowIds(r)
                /\ \A id \in Merged!AllRows \ Merged!RowIds(r) : id[1] = d => rows[id] = {}
  <2>1. /\ Payload[q].gen \in Nat /\ Payload[r].gen \in Nat
        /\ Payload[q].slots \in Nat /\ Payload[r].slots \in Nat
    BY DEF Merged!WritesAssumption
  <2>2. ASSUME NEW x \in Request, NEW y \in Request, Payload[x].doc = d, Payload[y].doc = d,
               Payload[x].slots <= Payload[y].slots
        PROVE  Merged!RowIds(x) \subseteq Merged!RowIds(y)
    BY <2>2 DEF Merged!RowIds, Merged!WritesAssumption
  <2>3. CASE Payload[q].gen < Payload[r].gen
    <3>1. Merged!RowIds(q) \subseteq Merged!RowIds(r)
      BY <1>4, <2>2, <2>3 DEF Merged!WritesAssumption
    <3>2. \A id \in Merged!RowIds(r) : Merged!Admits(r, id)
      BY <1>2, <1>4, <2>3 DEF Merged!Admits, HeldBy
    <3> QED BY <3>1, <3>2, <1>4 DEF HeldBy, Merged!AffectedOf
  <2>4. CASE Payload[q].gen = Payload[r].gen
    <3>1. Payload[q].pub = Payload[r].pub /\ Payload[q].slots = Payload[r].slots
      BY <1>4, <2>4 DEF Merged!WritesAssumption
    <3>2. Merged!RowIds(q) \subseteq Merged!RowIds(r)
      BY <1>4, <2>1, <2>2, <3>1
    <3>3. \A id \in Merged!RowIds(r) : Merged!Admits(r, id)
      BY <1>2, <1>4, <2>4, <3>1 DEF Merged!Admits, HeldBy
    <3> QED BY <3>2, <3>3, <1>4 DEF HeldBy, Merged!AffectedOf
  <2>5. CASE Payload[q].gen > Payload[r].gen
    <3>1. Merged!RowIds(r) \subseteq Merged!RowIds(q)
      BY <1>4, <2>2, <2>5 DEF Merged!WritesAssumption
    <3>2. ASSUME NEW id \in Merged!RowIds(r) PROVE ~ Merged!Admits(r, id)
      <4>1. rows[id] = {[gen |-> Payload[q].gen, pub |-> Payload[q].pub]}
        BY <1>2, <1>4, <3>1 DEF HeldBy
      <4> QED BY <4>1, <2>1, <2>5 DEF Merged!Admits
    <3> QED BY <3>2 DEF Merged!AffectedOf
  <2> QED BY <2>1, <2>3, <2>4, <2>5
<1> QED BY <1>1, <1>3, <1>4 DEF OneHolds
LEMMA RunningBatch ==
  ASSUME WritesInv, NEW b \in running
  PROVE  /\ b \in Seq(Request) /\ Len(b) \in Nat
         /\ \A i \in 1..Len(b) : b[i] \in Request /\ answer[b[i]] = Merged!Unsettled
         /\ NoRepeats(b)
         /\ \A c \in running : \A r \in Request : In(b, r) /\ In(c, r) => b = c
<1>1. b \in Seq(Request) /\ Len(b) \in Nat /\ \A i \in 1..Len(b) : b[i] \in Request
  BY DEF WritesInv, BatchesInv
<1>2. \A i \in 1..Len(b) : In(b, b[i])
  BY DEF In
<1> QED BY <1>1, <1>2, InBatch DEF WritesInv, BatchesInv, Merged!RunOnce

LEMMA DocumentsDiffer ==
  ASSUME Merged!WritesAssumption, NEW b, \A i \in 1..Len(b) : b[i] \in Request,
         ~ Merged!NamesTwice(b), NEW i \in 1..Len(b), NEW j \in 1..Len(b),
         Payload[b[i]].doc = Payload[b[j]].doc
  PROVE  i = j
<1>1. /\ <<Payload[b[i]].doc, 0>> \in Merged!RowIds(b[i])
      /\ <<Payload[b[i]].doc, 0>> \in Merged!RowIds(b[j])
  BY RowIdsAre
<1> QED BY <1>1 DEF Merged!NamesTwice

\* The rows a merged write leaves.
LEMMA RowsWritten ==
  ASSUME Merged!WritesAssumption, WritesInv, NEW b \in running, Merged!Write(b)
  PROVE  /\ \A i \in 1..Len(b) : \A id \in Merged!AffectedOf(b[i]) :
              rows'[id] = {[gen |-> Payload[b[i]].gen, pub |-> Payload[b[i]].pub]}
         /\ \A id \in Merged!AllRows :
              (\A i \in 1..Len(b) : id \notin Merged!AffectedOf(b[i])) => rows'[id] = rows[id]
<1> DEFINE by(id) == {i \in 1..Len(b) : id \in Merged!AffectedOf(b[i])}
<1>1. rows' = [id \in Merged!AllRows |->
                IF by(id) = {} THEN rows[id]
                ELSE {[gen |-> Payload[b[i]].gen, pub |-> Payload[b[i]].pub] : i \in by(id)}]
  BY DEF Merged!Write
<1>2. ASSUME NEW i \in 1..Len(b), NEW id \in Merged!AffectedOf(b[i])
      PROVE  id \in Merged!AllRows /\ by(id) = {i}
  <2>1. \A j \in 1..Len(b) : Merged!AffectedOf(b[j]) \subseteq Merged!RowIds(b[j])
    BY DEF Merged!AffectedOf
  <2>2. id \in Merged!AllRows
    BY <2>1, RunningBatch, RowIdsAre
  <2>3. \A j \in 1..Len(b) : id \in Merged!AffectedOf(b[j]) => j = i
    BY <2>1 DEF Merged!Write, Merged!NamesTwice
  <2> QED BY <2>2, <2>3
<1> HIDE DEF by
<1>3. ASSUME NEW i \in 1..Len(b), NEW id \in Merged!AffectedOf(b[i])
      PROVE  rows'[id] = {[gen |-> Payload[b[i]].gen, pub |-> Payload[b[i]].pub]}
  BY <1>1, <1>2
<1>4. ASSUME NEW id \in Merged!AllRows, \A i \in 1..Len(b) : id \notin Merged!AffectedOf(b[i])
      PROVE  rows'[id] = rows[id]
  <2>1. by(id) = {}
    BY <1>4 DEF by
  <2> QED BY <1>1, <2>1
<1> QED BY <1>3, <1>4

LEMMA WrittenHolds ==
  ASSUME Merged!WritesAssumption, WritesInv, NEW b \in running, Merged!Write(b), NEW r \in Request
  PROVE  OneHolds(Payload[r].doc)'
<1> DEFINE d == Payload[r].doc
<1>1. \A i \in 1..Len(b) : b[i] \in Request
  BY RunningBatch
<1>2. OneHolds(d)
  BY DEF WritesInv
<1>3. ASSUME NEW i \in 1..Len(b), Payload[b[i]].doc = d,
             Merged!AffectedOf(b[i]) = Merged!RowIds(b[i])
      PROVE  HeldBy(b[i], d)'
  <2> SUFFICES ASSUME NEW id \in Merged!AllRows, id[1] = d
               PROVE  rows'[id] = IF id \in Merged!RowIds(b[i])
                                  THEN {[gen |-> Payload[b[i]].gen, pub |-> Payload[b[i]].pub]}
                                  ELSE {}
    BY DEF HeldBy
  <2>1. CASE id \in Merged!RowIds(b[i])
    BY <1>3, <2>1, RowsWritten
  <2>2. CASE id \notin Merged!RowIds(b[i])
    <3>1. ASSUME NEW j \in 1..Len(b), id \in Merged!AffectedOf(b[j]) PROVE FALSE
      <4>1. id \in Merged!RowIds(b[j]) /\ Payload[b[j]].doc = d
        BY <1>1, <3>1, RowIdsAre DEF Merged!AffectedOf
      <4>2. i = j
        BY <1>1, <1>3, <4>1, DocumentsDiffer DEF Merged!Write
      <4> QED BY <2>2, <4>1, <4>2
    <3>2. rows'[id] = rows[id]
      BY <3>1, RowsWritten
    <3>3. <<Payload[b[i]].doc, 0>> \in Merged!RowIds(b[i])
      BY <1>1, RowIdsAre
    <3>4. rows[id] = {}
      BY <1>1, <1>3, <2>2, <3>3, AllOrNothing
    <3> QED BY <2>2, <3>2, <3>4
  <2> QED BY <2>1, <2>2
<1>4. CASE \A i \in 1..Len(b) : Payload[b[i]].doc = d => Merged!AffectedOf(b[i]) = {}
  <2>1. ASSUME NEW id \in Merged!AllRows, id[1] = d PROVE rows'[id] = rows[id]
    <3>1. \A i \in 1..Len(b) : id \notin Merged!AffectedOf(b[i])
      BY <1>1, <1>4, <2>1, RowIdsAre DEF Merged!AffectedOf
    <3> QED BY <3>1, RowsWritten
  <2> QED BY <1>2, <2>1 DEF OneHolds, HeldBy
<1>5. \A i \in 1..Len(b) : Merged!AffectedOf(b[i]) \in {{}, Merged!RowIds(b[i])}
  BY <1>1, AllOrNothing
<1>6. ASSUME NEW i \in 1..Len(b), Payload[b[i]].doc = d, Merged!AffectedOf(b[i]) # {}
      PROVE  OneHolds(d)'
  BY <1>1, <1>3, <1>5, <1>6 DEF OneHolds
<1> QED BY <1>4, <1>6

LEMMA WrittenTruly ==
  ASSUME Merged!WritesAssumption, WritesInv, NEW b \in running, Merged!Write(b), NEW r \in Request
  PROVE  /\ In(b, r) => landed'[r] = Cardinality(Merged!AffectedOf(r))
         /\ ~In(b, r) => landed'[r] = landed[r]
         /\ ToldTruly(r)'
<1>1. landed' = [q \in Request |-> IF In(b, q) THEN Cardinality(Merged!AffectedOf(q)) ELSE landed[q]]
  BY InBatch, SameCardinality DEF Merged!Write
<1>2. UNCHANGED answer
  BY DEF Merged!Write, Merged!coalescerVars
<1>3. ToldTruly(r)
  BY DEF WritesInv
<1>4. /\ <<Payload[r].doc, 0>> \in Merged!RowIds(r)
      /\ Merged!RowIds(r) \subseteq Merged!AllRows
      /\ Merged!Size(r) = Cardinality(Merged!RowIds(r))
  BY RowIdsAre
<1>5. Payload[r].gen \in Nat
  BY DEF Merged!WritesAssumption
<1>6. ASSUME In(b, r) PROVE ToldTruly(r)'
  <2>1. PICK i \in 1..Len(b) : b[i] = r
    BY <1>6 DEF In
  <2>2. answer[r] = Merged!Unsettled
    BY <2>1, RunningBatch
  <2>3. landed'[r] = Cardinality(Merged!AffectedOf(r))
    BY <1>1, <1>6
  <2>4. CASE Merged!AffectedOf(r) = {}
    BY <1>2, <2>2, <2>3, <2>4, FS_EmptySet DEF ToldTruly
  <2>5. CASE Merged!AffectedOf(r) = Merged!RowIds(r)
    <3>1. rows'[<<Payload[r].doc, 0>>] = {[gen |-> Payload[r].gen, pub |-> Payload[r].pub]}
      BY <1>4, <2>1, <2>5, RowsWritten
    <3>2. \E row \in rows'[<<Payload[r].doc, 0>>] : row.gen >= Payload[r].gen
      BY <1>5, <3>1
    <3>3. landed'[r] = Merged!Size(r)
      BY <1>4, <2>3, <2>5
    <3> QED BY <1>2, <2>2, <3>2, <3>3 DEF ToldTruly
  <2> QED BY <2>4, <2>5, AllOrNothing
<1>7. ASSUME ~In(b, r) PROVE ToldTruly(r)'
  <2>1. landed'[r] = landed[r]
    BY <1>1, <1>7
  <2>2. ASSUME landed[r] # 0
        PROVE  \E row \in rows'[<<Payload[r].doc, 0>>] : row.gen >= Payload[r].gen
    <3> DEFINE id == <<Payload[r].doc, 0>>
    <3>1. PICK old \in rows[id] : old.gen >= Payload[r].gen
      BY <1>3, <2>2 DEF ToldTruly
    <3>2. CASE \A i \in 1..Len(b) : id \notin Merged!AffectedOf(b[i])
      BY <1>4, <3>1, <3>2, RowsWritten
    <3>3. ASSUME NEW i \in 1..Len(b), id \in Merged!AffectedOf(b[i])
          PROVE  \E row \in rows'[id] : row.gen >= Payload[r].gen
      <4>1. Payload[b[i]].gen \in Nat
        BY RunningBatch DEF Merged!WritesAssumption
      <4>2. old.gen < Payload[b[i]].gen \/ old.gen = Payload[b[i]].gen
        BY <3>1, <3>3 DEF Merged!AffectedOf, Merged!Admits
      <4>3. rows'[id] = {[gen |-> Payload[b[i]].gen, pub |-> Payload[b[i]].pub]}
        BY <3>3, RowsWritten
      <4>4. old.gen \in Int
        <5>1. OneHolds(Payload[r].doc)
          BY DEF WritesInv
        <5>2. PICK q \in Request : rows[id] \subseteq {[gen |-> Payload[q].gen, pub |-> Payload[q].pub]}
          BY <1>4, <3>1, <5>1 DEF OneHolds, HeldBy
        <5> QED BY <3>1, <5>2 DEF Merged!WritesAssumption
      <4> QED BY <1>5, <3>1, <4>1, <4>2, <4>3, <4>4
    <3> QED BY <3>2, <3>3
  <2> QED BY <1>2, <1>3, <2>1, <2>2 DEF ToldTruly, Merged!Size, Merged!RowIds, Merged!Unsettled, Merged!Failed, Merged!Fulfilled
<1> QED BY <1>1, <1>6, <1>7
LEMMA WriteKeeps ==
  ASSUME Merged!WritesAssumption, WritesInv, NEW b \in running, Merged!Write(b)
  PROVE  WritesInv'
<1>1. BatchesInv' /\ UNCHANGED <<running, answer>>
  BY BatchesStay DEF Merged!Write, WritesInv, Merged!coalescerVars
<1>2. PICK response \in Merged!Responses(b) \cup {Merged!Failure} :
        written' = written \cup {[batch |-> b, response |-> response]}
  BY DEF Merged!Write
<1>3. \A i \in 1..Len(b) : b[i] \in Request
  BY RunningBatch
<1>4. ASSUME NEW w \in written PROVE IsTrue(w)'
  <2>1. IsTrue(w) /\ w.batch # b
    BY DEF WritesInv, Merged!Write
  <2>2. \A i \in 1..Len(w.batch) : w.batch[i] \in Request /\ In(w.batch, w.batch[i])
    BY <2>1, RunningBatch DEF IsTrue, In
  <2>3. \A i \in 1..Len(w.batch) : ~In(b, w.batch[i])
    BY <2>1, <2>2, RunningBatch DEF IsTrue
  <2>4. \A i \in 1..Len(w.batch) : landed'[w.batch[i]] = landed[w.batch[i]]
    BY <2>2, <2>3, WrittenTruly
  <2>5. LandedIn(w.batch)' = LandedIn(w.batch)
    BY <2>4 DEF LandedIn, LandedOf
  <2> QED BY <1>1, <2>1, <2>5 DEF IsTrue
<1>5. LandedIn(b)' = UNION {Merged!AffectedOf(b[i]) : i \in 1..Len(b)}
  <2>1. ASSUME NEW i \in 1..Len(b) PROVE LandedOf(b[i])' = Merged!AffectedOf(b[i])
    <3>1. landed'[b[i]] = Cardinality(Merged!AffectedOf(b[i]))
      BY <1>3, WrittenTruly DEF In
    <3>2. CASE Merged!AffectedOf(b[i]) = {}
      BY <3>1, <3>2, FS_EmptySet DEF LandedOf
    <3>3. CASE Merged!AffectedOf(b[i]) = Merged!RowIds(b[i])
      BY <1>3, <3>1, <3>3, RowIdsAre DEF LandedOf
    <3> QED BY <1>3, <3>2, <3>3, AllOrNothing
  <2>2. {LandedOf(b[i])' : i \in 1..Len(b)} = {Merged!AffectedOf(b[i]) : i \in 1..Len(b)}
    BY <2>1
  <2> QED BY <2>2 DEF LandedIn
<1>6. IsTrue([batch |-> b, response |-> response])'
  <2>1. CASE response = Merged!Failure
    BY <1>1, <2>1 DEF IsTrue, Merged!Failure
  <2>2. CASE response \in Merged!Responses(b)
    <3>1. /\ response.count = Cardinality(LandedIn(b)')
          /\ response.ids \subseteq {LandedIn(b)'}
      BY <1>5, <2>2, SameCardinality DEF Merged!Responses
    <3>2. ~ Merged!NamesTwice(b)
      BY DEF Merged!Write
    <3> QED BY <1>1, <3>1, <3>2 DEF IsTrue
  <2> QED BY <1>2, <2>1, <2>2
<1>7. \A v, w \in written' : v.batch = w.batch => v = w
  BY <1>2 DEF WritesInv, Merged!Write
<1>8. /\ rows' = [id \in Merged!AllRows |-> rows'[id]]
      /\ landed' = [r \in Request |-> landed'[r]]
  BY DEF Merged!Write
<1>9. \A w \in written' : IsTrue(w)'
  BY <1>2, <1>4, <1>6
<1> QED BY <1>1, <1>7, <1>8, <1>9, WrittenHolds, WrittenTruly DEF WritesInv

\* Only what is being written or answered changes what is known of the rows.
LEMMA OthersKeep ==
  ASSUME WritesInv, BatchesInv', UNCHANGED <<rows, landed>>,
         \A r \in Request : answer'[r] \in {answer[r], Merged!Failed, Merged!Fulfilled(landed[r])},
         \A w \in written' : IsTrue(w)',
         \A v, w \in written' : v.batch = w.batch => v = w
  PROVE  WritesInv'
<1>1. \A r \in Request : OneHolds(Payload[r].doc)'
  BY DEF WritesInv, OneHolds, HeldBy
<1>2. \A r \in Request : ToldTruly(r)'
  BY DEF WritesInv, ToldTruly
<1> QED BY <1>1, <1>2 DEF WritesInv

LEMMA StillTrue ==
  ASSUME NEW w, IsTrue(w), w.batch \in running', UNCHANGED landed PROVE IsTrue(w)'
BY DEF IsTrue, LandedIn, LandedOf

LEMMA RefuseKeeps ==
  ASSUME WritesInv, NEW b \in running, Merged!Refuse(b) PROVE WritesInv'
<1>1. /\ BatchesInv' /\ UNCHANGED <<rows, landed, running, answer>>
      /\ written' = written \cup {[batch |-> b, response |-> Merged!Failure]}
      /\ \A w \in written : w.batch # b
  BY BatchesStay DEF Merged!Refuse, WritesInv, Merged!coalescerVars
<1>2. IsTrue([batch |-> b, response |-> Merged!Failure])'
  BY <1>1 DEF IsTrue, Merged!Failure
<1>3. \A w \in written : IsTrue(w)'
  BY <1>1, StillTrue DEF WritesInv, IsTrue
<1>4. \A v, w \in written' : v.batch = w.batch => v = w
  BY <1>1 DEF WritesInv
<1> QED BY <1>1, <1>2, <1>3, <1>4, OthersKeep

LEMMA CollectKeepsWrites ==
  ASSUME WritesInv, Merged!Collect PROVE WritesInv'
<1>1. BatchesInv' /\ UNCHANGED <<rows, landed, written, answer>>
  BY CollectKeeps DEF Merged!Collect, WritesInv
<1>2. running \subseteq running'
  BY DEF Merged!Collect, Merged!Submit, Merged!Fire, Merged!Flushed
<1>3. \A w \in written : IsTrue(w)'
  BY <1>1, <1>2, StillTrue DEF WritesInv, IsTrue
<1> QED BY <1>1, <1>3, OthersKeep DEF WritesInv

\* The rows of the publications in a batch, together.
RowsIn(batch) == UNION {Merged!RowIds(batch[i]) : i \in 1..Len(batch)}

LEMMA MergedCount ==
  ASSUME Merged!WritesAssumption, NEW b \in Seq(Request), ~ Merged!NamesTwice(b)
  PROVE  /\ IsFiniteSet(RowsIn(b))
         /\ Cardinality(Merged!MergedRows(b)) = Cardinality(RowsIn(b))
<1> DEFINE rowOf == [pair \in Merged!MergedRows(b) |-> pair[2]]
<1>1. Len(b) \in Nat /\ \A i \in 1..Len(b) : b[i] \in Request
  OBVIOUS
<1>2. \A i \in 1..Len(b) : Merged!RowIds(b[i]) \subseteq Merged!AllRows
  BY <1>1, RowIdsAre
<1>3. Merged!MergedRows(b) = UNION {{i} \X Merged!RowIds(b[i]) : i \in 1..Len(b)}
  BY <1>2 DEF Merged!MergedRows
<1>4. IsFiniteSet(Merged!MergedRows(b))
  <2>1. \A i \in 1..Len(b) : IsFiniteSet({i} \X Merged!RowIds(b[i]))
    BY <1>1, RowIdsAre, FS_Product, FS_Singleton
  <2>2. IsFiniteSet({{i} \X Merged!RowIds(b[i]) : i \in 1..Len(b)})
    <3> DEFINE f == [i \in 1..Len(b) |-> {i} \X Merged!RowIds(b[i])]
    <3>1. f \in Surjection(1..Len(b), {{i} \X Merged!RowIds(b[i]) : i \in 1..Len(b)})
      BY DEF Surjection
    <3>2. IsFiniteSet(1..Len(b))
      BY <1>1, FS_Interval
    <3> HIDE DEF f
    <3> QED BY <3>1, <3>2, FS_Surjection
  <2> QED BY <1>3, <2>1, <2>2, FS_UNION
<1>5. ASSUME NEW p \in Merged!MergedRows(b)
      PROVE  /\ p = <<p[1], p[2]>> /\ p[1] \in 1..Len(b)
             /\ p[2] \in Merged!RowIds(b[p[1]]) /\ p[2] \in RowsIn(b)
  BY DEF Merged!MergedRows, RowsIn
<1>6. ASSUME NEW id \in RowsIn(b) PROVE \E p \in Merged!MergedRows(b) : p[2] = id
  <2>1. PICK i \in 1..Len(b) : id \in Merged!RowIds(b[i])
    BY DEF RowsIn
  <2>2. <<i, id>> \in Merged!MergedRows(b)
    BY <1>3, <2>1
  <2> QED BY <2>2
<1>7. rowOf \in Surjection(Merged!MergedRows(b), RowsIn(b))
  BY <1>5, <1>6 DEF Surjection
<1>8. ASSUME NEW p \in Merged!MergedRows(b), NEW q \in Merged!MergedRows(b), p[2] = q[2]
      PROVE  p = q
  <2>1. p[1] = q[1]
    BY <1>5, <1>8 DEF Merged!NamesTwice
  <2> QED BY <1>5, <1>8, <2>1
<1>9. rowOf \in Bijection(Merged!MergedRows(b), RowsIn(b))
  BY <1>7, <1>8 DEF Bijection, Surjection, Injection, IsInjective
<1> HIDE DEF rowOf
<1> QED BY <1>4, <1>9, FS_Bijection DEF ExistsBijection

\* What a publication is told is what was applied.
LEMMA CountsAreTrue ==
  ASSUME Merged!WritesAssumption, WritesInv, NEW w \in written, NEW i \in 1..Len(w.batch)
  PROVE  Merged!Counts(w.batch, w.response)[i]
           \in {Merged!Failed, Merged!Fulfilled(landed[w.batch[i]])}
<1> DEFINE b == w.batch
           r == b[i]
<1>1. /\ IsTrue(w)
      /\ b \in Seq(Request)
      /\ \A j \in 1..Len(b) : b[j] \in Request
  BY RunningBatch DEF WritesInv, IsTrue
<1>2. SUFFICES ASSUME w.response.ok PROVE Merged!Counts(b, w.response)[i]
           \in {Merged!Failed, Merged!Fulfilled(landed[r])}
  BY DEF Merged!Counts
<1>3. ~ Merged!NamesTwice(b) /\ w.response.count = Cardinality(LandedIn(b))
      /\ w.response.ids \subseteq {LandedIn(b)}
  BY <1>1, <1>2 DEF IsTrue
<1>4. landed[r] \in {0, Merged!Size(r)}
  BY <1>1 DEF WritesInv, ToldTruly
<1>5. LandedIn(b) \subseteq RowsIn(b)
  BY DEF LandedIn, LandedOf, RowsIn
<1>6. /\ IsFiniteSet(RowsIn(b)) /\ IsFiniteSet(LandedIn(b))
      /\ Cardinality(Merged!MergedRows(b)) = Cardinality(RowsIn(b))
  BY <1>1, <1>3, <1>5, MergedCount, FS_Subset
<1>7. Merged!RowIds(r) \cap LandedIn(b) = LandedOf(r)
  <2>1. \A j \in 1..Len(b) : j # i => Merged!RowIds(r) \cap LandedOf(b[j]) = {}
    BY <1>3 DEF LandedOf, Merged!NamesTwice
  <2>2. LandedOf(r) \subseteq Merged!RowIds(r)
    BY DEF LandedOf
  <2> QED BY <2>1, <2>2 DEF LandedIn
<1>8. LandedOf(r) = {} <=> landed[r] = 0
  BY <1>1, RowIdsAre DEF LandedOf
<1>9. Merged!Size(r) = Cardinality(Merged!RowIds(r))
  BY <1>1, RowIdsAre
<1> HIDE DEF b, r
<1>10. CASE w.response.count = Cardinality(RowsIn(b))
  <2>1. LandedIn(b) = RowsIn(b)
    BY <1>3, <1>5, <1>6, <1>10, FS_Subset
  <2>2. Merged!RowIds(r) \subseteq RowsIn(b) /\ Merged!RowIds(r) # {}
    BY <1>1, RowIdsAre DEF RowsIn, b, r
  <2>3. landed[r] = Merged!Size(r)
    BY <1>4, <1>7, <1>8, <2>1, <2>2
  <2> QED BY <1>2, <1>6, <1>10, <2>3, SameCardinality DEF Merged!Counts, b, r
<1>11. CASE w.response.count # Cardinality(RowsIn(b)) /\ w.response.count = 0
  <2>1. LandedIn(b) = {}
    BY <1>3, <1>6, <1>11, FS_EmptySet
  <2>2. landed[r] = 0
    BY <1>7, <1>8, <2>1
  <2> QED BY <1>2, <1>6, <1>11, <2>2, SameCardinality DEF Merged!Counts, b, r
<1>12. CASE w.response.count # Cardinality(RowsIn(b)) /\ w.response.count # 0
  <2>1. CASE w.response.ids = {}
    BY <1>2, <1>6, <1>12, <2>1, SameCardinality DEF Merged!Counts, b, r
  <2>2. CASE w.response.ids = {LandedIn(b)}
    <3>1. Cardinality(Merged!RowIds(r) \cap UNION w.response.ids) = landed[r]
      <4>1. Merged!RowIds(r) \cap UNION w.response.ids = LandedOf(r)
        BY <1>7, <2>2
      <4>2. CASE landed[r] = 0
        BY <1>8, <4>1, <4>2, FS_EmptySet
      <4>3. CASE landed[r] # 0
        BY <1>4, <1>9, <4>1, <4>3 DEF LandedOf
      <4> QED BY <4>2, <4>3
    <3> QED BY <1>2, <1>6, <1>12, <2>2, <3>1, SameCardinality DEF Merged!Counts, b, r
  <2> QED BY <1>3, <2>1, <2>2
<1> QED BY <1>10, <1>11, <1>12
LEMMA AnswerKeeps ==
  ASSUME Merged!WritesAssumption, WritesInv, NEW b \in running, Merged!Answer(b)
  PROVE  WritesInv'
<1>1. PICK w \in written :
        /\ w.batch = b
        /\ Merged!Settle(b, Merged!Counts(b, w.response))
        /\ written' = written \ {w}
        /\ UNCHANGED <<rows, landed>>
  BY DEF Merged!Answer
<1>2. BatchesInv' /\ running' = running \ {b}
  BY <1>1, SettleKeeps DEF WritesInv, Merged!Settle
<1>3. ASSUME NEW r \in Request
      PROVE  answer'[r] \in {answer[r], Merged!Failed, Merged!Fulfilled(landed[r])}
  BY <1>1, SettledFrom, CountsAreTrue DEF WritesInv
<1>4. \A v \in written' : v \in written /\ v.batch # b
  BY <1>1 DEF WritesInv
<1>5. ASSUME NEW v \in written' PROVE IsTrue(v)'
  <2>1. IsTrue(v) /\ v.batch \in running'
    BY <1>2, <1>4 DEF WritesInv, IsTrue
  <2> QED BY <1>1, <2>1, StillTrue
<1>6. \A u, v \in written' : u.batch = v.batch => u = v
  BY <1>4 DEF WritesInv
<1> QED BY <1>1, <1>2, <1>3, <1>5, <1>6, OthersKeep

LEMMA WritesStart == Merged!WritesAssumption /\ Merged!WritesInit => WritesInv
<1> SUFFICES ASSUME Merged!WritesAssumption, Merged!WritesInit PROVE WritesInv
  OBVIOUS
<1>1. /\ BatchesInv
      /\ rows = [id \in Merged!AllRows |-> {}] /\ written = {}
      /\ landed = [r \in Request |-> 0]
      /\ answer = [r \in Request |-> Merged!Unsettled]
  BY BatchesStart DEF Merged!WritesInit, Merged!CoalescerInit
<1>2. \A r \in Request : OneHolds(Payload[r].doc)
  BY <1>1 DEF OneHolds
<1>3. \A r \in Request : ToldTruly(r)
  BY <1>1 DEF ToldTruly
<1> QED BY <1>1, <1>2, <1>3 DEF WritesInv

LEMMA WritesStep ==
  Merged!WritesAssumption /\ WritesInv /\ [Merged!WritesNext]_(Merged!vars) => WritesInv'
<1> SUFFICES ASSUME Merged!WritesAssumption, WritesInv, [Merged!WritesNext]_(Merged!vars)
             PROVE  WritesInv'
  OBVIOUS
<1>1. CASE Merged!Collect
  BY <1>1, CollectKeepsWrites
<1>2. ASSUME NEW b \in running, Merged!Write(b) \/ Merged!Refuse(b) \/ Merged!Answer(b)
      PROVE  WritesInv'
  BY <1>2, WriteKeeps, RefuseKeeps, AnswerKeeps
<1>3. CASE UNCHANGED Merged!vars
  <2>1. UNCHANGED <<rows, landed, written, running, answer>> /\ UNCHANGED Merged!coalescerVars
    BY <1>3 DEF Merged!vars, Merged!coalescerVars
  <2>2. BatchesInv'
    BY <2>1, BatchesStay DEF WritesInv
  <2>3. \A w \in written' : IsTrue(w)'
    BY <2>1, StillTrue DEF WritesInv, IsTrue
  <2> QED BY <2>1, <2>2, <2>3, OthersKeep DEF WritesInv
<1> QED BY <1>1, <1>2, <1>3 DEF Merged!WritesNext, Merged!Finished, Merged!vars

LEMMA ToldAndFenced ==
  ASSUME Merged!WritesAssumption, WritesInv
  PROVE  Merged!AnswersAreTrue /\ Merged!MergedWritesKeepFences
<1>1. ASSUME NEW r \in Request, answer[r] \notin {Merged!Unsettled, Merged!Failed}
      PROVE  answer[r].result = landed[r] /\ answer[r].result \in {0, Merged!Size(r)}
  <2>1. landed[r] \in {0, Merged!Size(r)} /\ answer[r] = Merged!Fulfilled(landed[r])
    BY <1>1 DEF WritesInv, ToldTruly
  <2>2. answer[r].result = landed[r]
    BY <2>1 DEF Merged!Fulfilled
  <2> QED BY <2>1, <2>2
<1>2. ASSUME NEW r \in Request, landed[r] > 0, NEW id \in Merged!RowIds(r)
      PROVE  \E row \in rows[id] : rows[id] = {row} /\ row.gen >= Payload[r].gen
  <2> DEFINE d == Payload[r].doc
             first == <<d, 0>>
  <2>1. /\ id \in Merged!AllRows /\ id[1] = d
        /\ first \in Merged!AllRows
    BY RowIdsAre
  <2>2. PICK old \in rows[first] : old.gen >= Payload[r].gen
    <3>1. landed[r] # 0
      BY <1>2
    <3> QED BY <3>1 DEF WritesInv, ToldTruly
  <2>3. PICK q \in Request : Payload[q].doc = d /\ HeldBy(q, d)
    BY <2>1, <2>2 DEF WritesInv, OneHolds
  <2>4. old = [gen |-> Payload[q].gen, pub |-> Payload[q].pub]
    BY <2>1, <2>2, <2>3 DEF HeldBy
  <2>5. Merged!RowIds(r) \subseteq Merged!RowIds(q)
    <3>1. Payload[r].slots <= Payload[q].slots
      BY <2>2, <2>3, <2>4 DEF Merged!WritesAssumption
    <3> QED BY <2>3, <3>1 DEF Merged!RowIds, Merged!WritesAssumption
  <2>6. rows[id] = {old}
    BY <1>2, <2>1, <2>3, <2>4, <2>5 DEF HeldBy
  <2> QED BY <2>2, <2>6
<1> QED BY <1>1, <1>2 DEF Merged!AnswersAreTrue, Merged!MergedWritesKeepFences

\* A publication that shares a write is told exactly how many of its rows were
\* applied, all of them or none, and the merged write takes no row back that a
\* newer publication has written (makePublicationRowWriter), for batches of any
\* size and any number of publications, of which some are sent again.
THEOREM MergedWritesStayFenced ==
  Merged!WritesAssumption /\ Merged!WritesSpec =>
    [](Merged!RunOnce /\ Merged!AnswersAreTrue /\ Merged!MergedWritesKeepFences)
<1> SUFFICES ASSUME Merged!WritesAssumption
             PROVE  Merged!WritesSpec =>
                      [](Merged!RunOnce /\ Merged!AnswersAreTrue /\ Merged!MergedWritesKeepFences)
  OBVIOUS
<1>1. Merged!WritesInit => WritesInv
  BY WritesStart
<1>2. WritesInv /\ [Merged!WritesNext]_(Merged!vars) => WritesInv'
  BY WritesStep
<1>3. WritesInv => Merged!RunOnce /\ Merged!AnswersAreTrue /\ Merged!MergedWritesKeepFences
  BY ToldAndFenced DEF WritesInv, BatchesInv
<1> QED BY <1>1, <1>2, <1>3, PTL DEF Merged!WritesSpec
-----------------------------------------------------------------------------
(* Workflows: any jobs over one document, retried by their callers.            *)
(*                                                                         *)
(* The argument: as long as no other job has written, what a job has behind it   *)
(* stays as it wrote or found it; the plans of a mutation are of distinct          *)
(* projections, so that none of them invalidates another one's token.              *)

CONSTANTS Job, DocumentContents, AnswersReplays, MaxFaults
VARIABLES revisions, edges, listed, tokens, status, position, read, artifact, captured, faults, alone

Flow == INSTANCE DocumentWorkflows WITH Contents <- DocumentContents

Places(j) == 1..Len(Flow!Projections(j))

IsOf(j, p) == \E i \in Places(j) : Flow!Projections(j)[i] = p

HasContent(j, p) ==
  revisions[p] # {} /\ \A r \in revisions[p] : r.content = Flow!Content(j, p)

RevisionsOK ==
  /\ tokens \in Nat
  /\ revisions = [p \in Flow!AllProjections |-> revisions[p]]
  /\ \A p \in Flow!AllProjections :
       /\ \A r, s \in revisions[p] : r = s
       /\ \A r \in revisions[p] : r.token \in Nat /\ r.by.content = r.content

JobsShape ==
  /\ status = [j \in Flow!Jobs |-> status[j]]
  /\ position \in [Flow!Jobs -> Nat]
  /\ read = [j \in Flow!Jobs |-> read[j]]
  /\ artifact = [j \in Flow!Jobs |-> artifact[j]]
  /\ captured = [j \in Flow!Jobs |-> captured[j]]
  /\ alone = [j \in Flow!Jobs |-> alone[j]]

PlansOf(j) ==
  {plan \in [projection : Flow!AllProjections, expected : SUBSET Nat,
             content : {Flow!Content(j, p) : p \in Flow!AllProjections}] :
     IsOf(j, plan.projection) /\ plan.content = Flow!Content(j, plan.projection)}

\* Plans are of distinct projections of the job, and of its content.
PlansOK(j, plans) ==
  /\ plans \in Seq(PlansOf(j))
  /\ \A m, n \in 1..Len(plans) : plans[m].projection = plans[n].projection => m = n

Installed(plan) == \E r \in revisions[plan.projection] : r.by = plan
PlanHolds(plan) == Flow!ActiveToken(plan.projection) = plan.expected \/ Installed(plan)

\* The first projections have the content of the job, or have a plan.
Covers(j, plans, count) ==
  \A i \in 1..count :
    \/ HasContent(j, Flow!Projections(j)[i])
    \/ \E m \in 1..Len(plans) : plans[m].projection = Flow!Projections(j)[i]

\* What a job that nobody disturbed has done by its position.
Indexing(j) ==
  Job[j].op = "index" /\ status[j] = "running" /\ alone[j] =>
    \A i \in Places(j) : i <= position[j] => HasContent(j, Flow!Projections(j)[i])

Capturing(j) ==
  Job[j].op = "prepare" /\ status[j] = "running" /\ artifact[j] = {} =>
    /\ position[j] <= Len(Flow!Projections(j))
    /\ PlansOK(j, captured[j])
    /\ \A m \in 1..Len(captured[j]) : \E i \in 1..position[j] :
         captured[j][m].projection = Flow!Projections(j)[i]
    /\ \A token \in read[j] : token \in SUBSET Nat
    /\ alone[j] =>
         /\ Covers(j, captured[j], position[j])
         /\ \A m \in 1..Len(captured[j]) :
              Flow!ActiveToken(captured[j][m].projection) = captured[j][m].expected
         /\ \A token \in read[j] : token = Flow!ActiveToken(Flow!NextProjection(j))

Replaying(j) ==
  Job[j].op = "prepare" => \A plans \in artifact[j] :
    /\ artifact[j] = {plans}
    /\ PlansOK(j, plans)
    /\ alone[j] =>
         /\ Covers(j, plans, Len(Flow!Projections(j)))
         /\ \A m \in 1..Len(plans) : PlanHolds(plans[m])
         /\ status[j] = "running" =>
              \A m \in 1..Len(plans) : m <= position[j] => Installed(plans[m])

Removing(j) ==
  Job[j].op = "remove" /\ status[j] = "running" /\ alone[j] =>
    \A i \in Places(j) : i <= position[j] => revisions[Flow!Projections(j)[i]] = {}

Reconciling(j) ==
  Job[j].op = "reconcile" /\ status[j] = "running" /\ alone[j] /\ position[j] > 0 =>
    \A p \in Flow!AllProjections : revisions[p] # {} => IsOf(j, p)

Reading(j) ==
  status[j] = "running" /\ read[j] # {} => position[j] < Len(Flow!Projections(j))

Mine(j) ==
  /\ Reading(j)
  /\ Job[j].op # "prepare" => artifact[j] = {}
  /\ Indexing(j) /\ Capturing(j) /\ Replaying(j) /\ Removing(j) /\ Reconciling(j)
  /\ status[j] = "done" /\ alone[j] => Flow!Achieved(j)

FlowInv == RevisionsOK /\ JobsShape /\ \A j \in Flow!Jobs : Mine(j)
-----------------------------------------------------------------------------
LEMMA ProjectionsAre ==
  ASSUME Flow!WorkflowAssumption, NEW j \in Flow!Jobs
  PROVE  /\ Job[j].op \in {"index", "prepare", "remove", "reconcile"}
         /\ Len(Flow!Projections(j)) \in Nat
         /\ DOMAIN Flow!Projections(j) = Places(j)
         /\ \A i \in Places(j) : Flow!Projections(j)[i] \in Flow!AllProjections
         /\ \A m, n \in Places(j) : Flow!Projections(j)[m] = Flow!Projections(j)[n] => m = n
         /\ \A p : p \in Flow!ToSet(Flow!Projections(j)) <=> IsOf(j, p)
<1>1. Flow!Projections(j) \in Seq(Flow!AllProjections)
  BY DEF Flow!WorkflowAssumption
<1>2. /\ Len(Flow!Projections(j)) \in Nat
      /\ DOMAIN Flow!Projections(j) = Places(j)
      /\ \A i \in Places(j) : Flow!Projections(j)[i] \in Flow!AllProjections
  BY <1>1 DEF Places
<1>3. \A p : p \in Flow!ToSet(Flow!Projections(j)) <=> IsOf(j, p)
  BY <1>2 DEF Flow!ToSet, IsOf
<1> QED BY <1>2, <1>3 DEF Flow!WorkflowAssumption

\* What a step of another job leaves of a job: all, unless it disturbs it.
Untouched(j) ==
  /\ status'[j] = status[j] /\ position'[j] = position[j] /\ read'[j] = read[j]
  /\ artifact'[j] = artifact[j] /\ captured'[j] = captured[j]

LEMMA BystanderKeeps ==
  ASSUME NEW j \in Flow!Jobs, Mine(j), Untouched(j),
         \/ ~alone'[j]
         \/ alone'[j] = alone[j] /\ UNCHANGED <<revisions, edges, listed>>
  PROVE  Mine(j)'
<1>1. Job[j].op # "prepare" => artifact'[j] = {}
  BY DEF Mine, Untouched
<1>0. Reading(j)'
  BY DEF Mine, Reading, Untouched
<1>2. CASE ~alone'[j]
  <2>1. Indexing(j)' /\ Removing(j)' /\ Reconciling(j)'
    BY <1>2 DEF Indexing, Removing, Reconciling
  <2>2. Capturing(j)'
    BY <1>2 DEF Mine, Capturing, Untouched, PlansOK, PlansOf
  <2>3. Replaying(j)'
    BY <1>2 DEF Mine, Replaying, Untouched, PlansOK, PlansOf
  <2> QED BY <1>0, <1>1, <1>2, <2>1, <2>2, <2>3 DEF Mine
<1>3. CASE alone'[j] = alone[j] /\ UNCHANGED <<revisions, edges, listed>>
  <2>1. Indexing(j)' /\ Removing(j)' /\ Reconciling(j)'
    BY <1>3 DEF Mine, Indexing, Removing, Reconciling, Untouched, HasContent
  <2>2. Capturing(j)'
    <3>1. PlansOK(j, captured[j])' <=> PlansOK(j, captured[j])
      BY DEF Untouched, PlansOK, PlansOf
    <3>2. Covers(j, captured[j], position[j])' <=> Covers(j, captured[j], position[j])
      BY <1>3 DEF Untouched, Covers, HasContent
    <3>3. Flow!NextProjection(j)' = Flow!NextProjection(j)
      BY DEF Untouched, Flow!NextProjection
    <3> QED BY <1>3, <3>1, <3>2, <3>3 DEF Mine, Capturing, Untouched, Flow!ActiveToken
  <2>3. Replaying(j)'
    <3>1. ASSUME NEW plans
          PROVE  /\ PlansOK(j, plans)' <=> PlansOK(j, plans)
                 /\ Covers(j, plans, Len(Flow!Projections(j)))'
                      <=> Covers(j, plans, Len(Flow!Projections(j)))
      BY <1>3 DEF PlansOK, PlansOf, Covers, HasContent
    <3>2. ASSUME NEW plan
          PROVE  (PlanHolds(plan)' <=> PlanHolds(plan)) /\ (Installed(plan)' <=> Installed(plan))
      BY <1>3 DEF PlanHolds, Installed, Flow!ActiveToken
    <3> QED BY <1>3, <3>1, <3>2 DEF Mine, Replaying, Untouched
  <2>4. status'[j] = "done" /\ alone'[j] => Flow!Achieved(j)'
    BY <1>3 DEF Mine, Untouched, Flow!Achieved
  <2> QED BY <1>0, <1>1, <2>1, <2>2, <2>3, <2>4 DEF Mine
<1> QED BY <1>2, <1>3

LEMMA StepKeeps ==
  ASSUME FlowInv, NEW j \in Flow!Jobs, RevisionsOK', JobsShape', Mine(j)',
         \A i \in Flow!Jobs \ {j} :
           /\ Untouched(i)
           /\ ~alone'[i] \/ (alone'[i] = alone[i] /\ UNCHANGED <<revisions, edges, listed>>)
  PROVE  FlowInv'
<1>1. ASSUME NEW i \in Flow!Jobs PROVE Mine(i)'
  <2>1. CASE i = j
    BY <2>1
  <2>2. CASE i # j
    BY <2>2, BystanderKeeps DEF FlowInv
  <2> QED BY <2>1, <2>2
<1> QED BY <1>1 DEF FlowInv

\* A job that writes disturbs every other one.
LEMMA Disturbed ==
  ASSUME JobsShape, NEW j \in Flow!Jobs, Flow!Disturb(j)
  PROVE  /\ alone' = [i \in Flow!Jobs |-> alone'[i]]
         /\ alone'[j] = alone[j]
         /\ \A i \in Flow!Jobs \ {j} : ~alone'[i]
BY DEF Flow!Disturb, JobsShape

LEMMA Continued ==
  ASSUME JobsShape, NEW j \in Flow!Jobs, Flow!Continue(j)
  PROVE  /\ position' \in [Flow!Jobs -> Nat] /\ position[j] \in Nat
         /\ read' = [i \in Flow!Jobs |-> read'[i]]
         /\ position'[j] = position[j] + 1 /\ read'[j] = {}
         /\ \A i \in Flow!Jobs \ {j} : position'[i] = position[i] /\ read'[i] = read[i]
<1>1. /\ position' = [position EXCEPT ![j] = position[j] + 1]
      /\ read' = [read EXCEPT ![j] = {}]
      /\ position \in [Flow!Jobs -> Nat] /\ read = [i \in Flow!Jobs |-> read[i]]
  BY DEF Flow!Continue, Flow!None, JobsShape
<1>2. position[j] + 1 \in Nat
  BY <1>1
<1>3. /\ position' \in [Flow!Jobs -> Nat]
      /\ position'[j] = position[j] + 1
      /\ \A i \in Flow!Jobs \ {j} : position'[i] = position[i]
  BY <1>1, <1>2
<1> QED BY <1>1, <1>3

\* A revision is in place after its replacement, whether or not it was before.
LEMMA ReplacedIs ==
  ASSUME RevisionsOK, NEW plan, plan.projection \in Flow!AllProjections, Flow!Replaced(plan)
  PROVE  /\ RevisionsOK'
         /\ Installed(plan)'
         /\ revisions'[plan.projection] # {}
         /\ \A r \in revisions'[plan.projection] : r.content = plan.content
         /\ \A p \in Flow!AllProjections \ {plan.projection} : revisions'[p] = revisions[p]
<1> DEFINE p == plan.projection
           new == [token |-> tokens + 1, content |-> plan.content, by |-> plan]
<1>1. CASE Flow!AlreadyActive(plan)
  <2>1. UNCHANGED <<revisions, tokens>>
    BY <1>1 DEF Flow!Replaced
  <2>2. PICK r \in revisions[p] : r.by = plan
    BY <1>1 DEF Flow!AlreadyActive
  <2>3. RevisionsOK' /\ r.content = plan.content /\ \A s \in revisions[p] : s = r
    BY <2>1, <2>2 DEF RevisionsOK
  <2> QED BY <2>1, <2>2, <2>3 DEF Installed
<1>2. CASE ~Flow!AlreadyActive(plan)
  <2>1. /\ tokens' = tokens + 1
        /\ revisions' = [revisions EXCEPT ![p] = {new}]
    BY <1>2 DEF Flow!Replaced, Flow!Some
  <2>2. /\ revisions' = [q \in Flow!AllProjections |-> revisions'[q]]
        /\ revisions'[p] = {new}
        /\ \A q \in Flow!AllProjections \ {p} : revisions'[q] = revisions[q]
    BY <2>1 DEF RevisionsOK
  <2>3. new.token \in Nat /\ new.by = plan /\ new.content = plan.content
    BY DEF RevisionsOK
  <2> HIDE DEF new
  <2>4. RevisionsOK'
    BY <2>1, <2>2, <2>3 DEF RevisionsOK
  <2> QED BY <2>2, <2>3, <2>4 DEF Installed
<1> QED BY <1>1, <1>2

\* An attempt that fails leaves nothing to hold but what is durable.
LEMMA FailKeeps ==
  ASSUME FlowInv, NEW j \in Flow!Jobs, Flow!Fail(j),
         UNCHANGED <<revisions, edges, listed, tokens, position, artifact, captured, alone>>
  PROVE  FlowInv'
<1>1. /\ status' = [i \in Flow!Jobs |-> status'[i]] /\ status'[j] = "queued"
      /\ read' = [i \in Flow!Jobs |-> read'[i]] /\ read'[j] = {}
      /\ \A i \in Flow!Jobs \ {j} : status'[i] = status[i] /\ read'[i] = read[i]
  BY DEF Flow!Fail, Flow!None, FlowInv, JobsShape
<1>2. RevisionsOK' /\ JobsShape'
  BY <1>1 DEF FlowInv, RevisionsOK, JobsShape
<1>3. Mine(j)'
  <2>1. Replaying(j)'
    <3>1. ASSUME NEW plans
          PROVE  /\ PlansOK(j, plans)' <=> PlansOK(j, plans)
                 /\ Covers(j, plans, Len(Flow!Projections(j)))'
                      <=> Covers(j, plans, Len(Flow!Projections(j)))
      BY DEF PlansOK, PlansOf, Covers, HasContent
    <3>2. ASSUME NEW plan PROVE PlanHolds(plan)' <=> PlanHolds(plan)
      BY DEF PlanHolds, Installed, Flow!ActiveToken
    <3> QED BY <1>1, <3>1, <3>2 DEF FlowInv, Mine, Replaying
  <2> QED BY <1>1, <2>1 DEF FlowInv, Mine, Reading, Indexing, Capturing, Removing, Reconciling
<1>4. \A i \in Flow!Jobs \ {j} : Untouched(i)
  BY <1>1 DEF Untouched
<1> QED BY <1>2, <1>3, <1>4, StepKeeps

LEMMA NoPlans == ASSUME NEW j PROVE PlansOK(j, <<>>) /\ Len(<<>>) = 0
BY DEF PlansOK

LEMMA StartKeeps ==
  ASSUME Flow!WorkflowAssumption, FlowInv, NEW j \in Flow!Jobs, Flow!Start(j) PROVE FlowInv'
<1>1. /\ status' = [i \in Flow!Jobs |-> status'[i]] /\ status'[j] = "running"
      /\ position' \in [Flow!Jobs -> Nat] /\ position'[j] = 0
      /\ read' = [i \in Flow!Jobs |-> read'[i]] /\ read'[j] = {}
      /\ captured' = [i \in Flow!Jobs |-> captured'[i]] /\ captured'[j] = <<>>
      /\ alone' = [i \in Flow!Jobs |-> alone'[i]]
      /\ artifact[j] # {} => alone'[j] = alone[j]
      /\ \A i \in Flow!Jobs \ {j} :
           /\ status'[i] = status[i] /\ position'[i] = position[i] /\ read'[i] = read[i]
           /\ captured'[i] = captured[i] /\ alone'[i] = alone[i]
      /\ UNCHANGED <<revisions, edges, listed, tokens, artifact>>
  BY DEF Flow!Start, Flow!None, Flow!stores, FlowInv, JobsShape
<1>2. RevisionsOK' /\ JobsShape'
  BY <1>1 DEF FlowInv, RevisionsOK, JobsShape
<1>3. Mine(j)'
  <2>1. Replaying(j)'
    <3>1. ASSUME NEW plans
          PROVE  /\ PlansOK(j, plans)' <=> PlansOK(j, plans)
                 /\ Covers(j, plans, Len(Flow!Projections(j)))'
                      <=> Covers(j, plans, Len(Flow!Projections(j)))
      BY <1>1 DEF PlansOK, PlansOf, Covers, HasContent
    <3>2. ASSUME NEW plan PROVE PlanHolds(plan)' <=> PlanHolds(plan)
      BY <1>1 DEF PlanHolds, Installed, Flow!ActiveToken
    <3> QED BY <1>1, <3>1, <3>2 DEF FlowInv, Mine, Replaying
  <2>2. Capturing(j)'
    <3>1. PlansOK(j, captured[j])' /\ Len(captured'[j]) = 0
      BY <1>1, NoPlans DEF PlansOK, PlansOf
    <3>2. Covers(j, captured[j], position[j])'
      BY <1>1 DEF Covers
    <3> QED BY <1>1, <3>1, <3>2, ProjectionsAre DEF Capturing
  <2>3. Indexing(j)' /\ Removing(j)'
    BY <1>1 DEF Indexing, Removing, Places
  <2> QED BY <1>1, <2>1, <2>2, <2>3 DEF FlowInv, Mine, Reading, Reconciling
<1>4. \A i \in Flow!Jobs \ {j} : Untouched(i)
  BY <1>1 DEF Untouched
<1> QED BY <1>1, <1>2, <1>3, <1>4, StepKeeps

\* The projection a job turns to next.
LEMMA NextIs ==
  ASSUME Flow!WorkflowAssumption, FlowInv, NEW j \in Flow!Jobs,
         position[j] < Len(Flow!Projections(j))
  PROVE  /\ position[j] \in Nat
         /\ position[j] + 1 \in Places(j)
         /\ Flow!NextProjection(j) = Flow!Projections(j)[position[j] + 1]
         /\ Flow!NextProjection(j) \in Flow!AllProjections
         /\ IsOf(j, Flow!NextProjection(j))
<1>1. position[j] \in Nat
  BY DEF FlowInv, JobsShape
<1>2. position[j] + 1 \in Places(j)
  BY <1>1, ProjectionsAre DEF Places
<1> QED BY <1>1, <1>2, ProjectionsAre DEF Flow!NextProjection, IsOf

LEMMA LoadKeeps ==
  ASSUME Flow!WorkflowAssumption, FlowInv, NEW j \in Flow!Jobs, Flow!Load(j) PROVE FlowInv'
<1> DEFINE p == Flow!NextProjection(j)
<1>1. /\ position[j] < Len(Flow!Projections(j)) /\ read[j] = {}
      /\ Job[j].op \in {"index", "prepare"}
      /\ Job[j].op = "prepare" => artifact[j] = {}
      /\ UNCHANGED <<revisions, edges, listed, tokens, status, artifact, captured, alone>>
      /\ status[j] = "running"
  BY DEF Flow!Load, Flow!Planning, Flow!Remaining, Flow!stores, Flow!None
<1>2. /\ position[j] \in Nat /\ position[j] + 1 \in Places(j)
      /\ p = Flow!Projections(j)[position[j] + 1] /\ p \in Flow!AllProjections
  BY <1>1, NextIs
<1>3. RevisionsOK'
  BY <1>1 DEF FlowInv, RevisionsOK
<1>4. CASE Flow!Stored(j, p)
  <2>1. /\ position' \in [Flow!Jobs -> Nat] /\ position'[j] = position[j] + 1
        /\ read' = [i \in Flow!Jobs |-> read'[i]] /\ read'[j] = {}
        /\ \A i \in Flow!Jobs \ {j} : position'[i] = position[i] /\ read'[i] = read[i]
    BY <1>4, Continued DEF Flow!Load, FlowInv
  <2>2. HasContent(j, p)
    BY <1>2, <1>4 DEF Flow!Stored, HasContent, FlowInv, RevisionsOK
  <2>3. \A q : HasContent(j, q)' <=> HasContent(j, q)
    BY <1>1 DEF HasContent
  <2>4. Indexing(j)'
    <3>1. ASSUME Job[j].op = "index", alone[j], NEW i \in Places(j), i <= position[j] + 1
          PROVE  HasContent(j, Flow!Projections(j)[i])
      <4>1. i <= position[j] \/ i = position[j] + 1
        BY <1>2, <3>1 DEF Places
      <4> QED BY <1>1, <1>2, <2>2, <3>1, <4>1 DEF FlowInv, Mine, Indexing
    <3> QED BY <1>1, <2>1, <2>3, <3>1 DEF Indexing
  <2>5. Capturing(j)'
    <3> SUFFICES ASSUME Job[j].op = "prepare" PROVE Capturing(j)'
      BY DEF Capturing
    <3>1. Capturing(j) /\ artifact[j] = {}
      BY <1>1 DEF FlowInv, Mine
    <3>2. PlansOK(j, captured[j])'
      BY <1>1, <3>1 DEF Capturing, PlansOK, PlansOf
    <3>3. alone[j] => Covers(j, captured'[j], position[j] + 1)
      BY <1>1, <1>2, <2>2, <3>1 DEF Capturing, Covers
    <3>4. alone'[j] => Covers(j, captured[j], position[j])'
      BY <1>1, <2>1, <2>3, <3>3 DEF Covers
    <3>5. \A m \in 1..Len(captured'[j]) : \E i \in 1..position'[j] :
            captured'[j][m].projection = Flow!Projections(j)[i]
      BY <1>1, <1>2, <2>1, <3>1 DEF Capturing
    <3>6. position'[j] <= Len(Flow!Projections(j))
      BY <1>2, <2>1 DEF Places
    <3> QED BY <1>1, <2>1, <3>1, <3>2, <3>4, <3>5, <3>6 DEF Capturing, Flow!ActiveToken
  <2>6. Mine(j)'
    BY <1>1, <2>1, <2>4, <2>5 DEF FlowInv, Mine, Reading, Replaying, Removing, Reconciling
  <2>7. JobsShape'
    BY <1>1, <2>1 DEF FlowInv, JobsShape
  <2>8. \A i \in Flow!Jobs \ {j} : Untouched(i)
    BY <1>1, <2>1 DEF Untouched
  <2> QED BY <1>1, <1>3, <2>6, <2>7, <2>8, StepKeeps
<1>5. CASE ~Flow!Stored(j, p)
  <2>1. /\ UNCHANGED position
        /\ read' = [i \in Flow!Jobs |-> read'[i]] /\ read'[j] = {Flow!ActiveToken(p)}
        /\ \A i \in Flow!Jobs \ {j} : read'[i] = read[i]
    BY <1>5 DEF Flow!Load, Flow!Some, FlowInv, JobsShape
  <2>2. Indexing(j)'
    BY <1>1, <2>1 DEF FlowInv, Mine, Indexing, HasContent
  <2>3. Capturing(j)'
    <3> SUFFICES ASSUME Job[j].op = "prepare" PROVE Capturing(j)'
      BY DEF Capturing
    <3>1. Capturing(j) /\ artifact[j] = {}
      BY <1>1 DEF FlowInv, Mine
    <3>2. PlansOK(j, captured[j])'
      BY <1>1, <3>1 DEF Capturing, PlansOK, PlansOf
    <3>3. Covers(j, captured[j], position[j])' <=> Covers(j, captured[j], position[j])
      BY <1>1, <2>1 DEF Covers, HasContent
    <3>4. Flow!ActiveToken(p) \in SUBSET Nat
      BY <1>2 DEF FlowInv, RevisionsOK, Flow!ActiveToken
    <3>5. Flow!NextProjection(j)' = p
      BY <2>1 DEF Flow!NextProjection
    <3> HIDE DEF p
    <3> QED BY <1>1, <2>1, <3>1, <3>2, <3>3, <3>4, <3>5 DEF Capturing, Flow!ActiveToken
  <2>4. Mine(j)'
    BY <1>1, <2>1, <2>2, <2>3 DEF FlowInv, Mine, Reading, Replaying, Removing, Reconciling
  <2>5. JobsShape'
    BY <1>1, <2>1 DEF FlowInv, JobsShape
  <2>6. \A i \in Flow!Jobs \ {j} : Untouched(i)
    BY <1>1, <2>1 DEF Untouched
  <2> QED BY <1>1, <1>3, <2>4, <2>5, <2>6, StepKeeps
<1> QED BY <1>4, <1>5

\* A write leaves the content it was planned with and no other job undisturbed.
LEMMA ReplaceRevisionKeeps ==
  ASSUME Flow!WorkflowAssumption, FlowInv, NEW j \in Flow!Jobs, Flow!ReplaceRevision(j)
  PROVE  FlowInv'
<1> DEFINE p == Flow!NextProjection(j)
<1>1. /\ Job[j].op = "index" /\ status[j] = "running"
      /\ UNCHANGED <<edges, listed, artifact, captured>>
  BY DEF Flow!ReplaceRevision, Flow!Planning
<1>2. PICK expected \in read[j] :
        LET plan == Flow!Plan(p, expected, Flow!Content(j, p))
        IN  IF Flow!Accepts(plan)
              THEN /\ Flow!Replaced(plan) /\ Flow!Continue(j) /\ Flow!Disturb(j)
                   /\ UNCHANGED status
              ELSE Flow!Fail(j) /\ UNCHANGED <<revisions, tokens, position, alone>>
  BY DEF Flow!ReplaceRevision
<1> DEFINE plan == Flow!Plan(p, expected, Flow!Content(j, p))
<1>3. position[j] < Len(Flow!Projections(j))
  BY <1>1, <1>2 DEF FlowInv, Mine, Reading
<1>4. /\ position[j] \in Nat /\ position[j] + 1 \in Places(j)
      /\ p = Flow!Projections(j)[position[j] + 1] /\ p \in Flow!AllProjections
  BY <1>3, NextIs
<1>5. plan.projection = p /\ plan.content = Flow!Content(j, p)
  BY DEF Flow!Plan
<1>6. CASE Flow!Accepts(plan)
  <2>1. Flow!Replaced(plan) /\ Flow!Continue(j) /\ Flow!Disturb(j) /\ UNCHANGED status
    BY <1>2, <1>6
  <2>2. /\ position' \in [Flow!Jobs -> Nat] /\ position'[j] = position[j] + 1
        /\ read' = [i \in Flow!Jobs |-> read'[i]] /\ read'[j] = {}
        /\ \A i \in Flow!Jobs \ {j} : position'[i] = position[i] /\ read'[i] = read[i]
    BY <2>1, Continued DEF FlowInv
  <2>3. /\ alone' = [i \in Flow!Jobs |-> alone'[i]] /\ alone'[j] = alone[j]
        /\ \A i \in Flow!Jobs \ {j} : ~alone'[i]
    BY <2>1, Disturbed DEF FlowInv
  <2>4. /\ RevisionsOK'
        /\ revisions'[p] # {} /\ \A r \in revisions'[p] : r.content = Flow!Content(j, p)
        /\ \A q \in Flow!AllProjections \ {p} : revisions'[q] = revisions[q]
    BY <1>4, <1>5, <2>1, ReplacedIs DEF FlowInv
  <2>5. Indexing(j)'
    <3>1. ASSUME NEW i \in Places(j), i <= position[j] + 1, alone[j]
          PROVE  HasContent(j, Flow!Projections(j)[i])'
      <4>1. CASE Flow!Projections(j)[i] = p
        BY <2>4, <4>1 DEF HasContent
      <4>2. CASE Flow!Projections(j)[i] # p
        <5>1. i <= position[j] /\ Flow!Projections(j)[i] \in Flow!AllProjections
          BY <1>4, <3>1, <4>2, ProjectionsAre DEF Places
        <5> QED BY <1>1, <2>4, <3>1, <4>2, <5>1 DEF FlowInv, Mine, Indexing, HasContent
      <4> QED BY <4>1, <4>2
    <3> QED BY <2>2, <2>3, <3>1 DEF Indexing
  <2>6. Mine(j)'
    BY <1>1, <2>1, <2>2, <2>5 DEF FlowInv, Mine, Reading, Capturing, Replaying, Removing, Reconciling
  <2>7. JobsShape'
    BY <1>1, <2>1, <2>2, <2>3 DEF FlowInv, JobsShape
  <2>8. \A i \in Flow!Jobs \ {j} : Untouched(i)
    BY <1>1, <2>1, <2>2 DEF Untouched
  <2> QED BY <2>3, <2>4, <2>6, <2>7, <2>8, StepKeeps
<1>7. CASE ~Flow!Accepts(plan)
  BY <1>1, <1>2, <1>7, FailKeeps
<1> QED BY <1>6, <1>7

\* A job that ends has achieved what it is for, if nobody disturbed it.
LEMMA FinishKeeps ==
  ASSUME FlowInv, NEW j \in Flow!Jobs, Flow!Disturb(j), Flow!Done(j),
         UNCHANGED <<revisions, tokens, artifact, captured>>,
         alone[j] => Flow!Achieved(j)'
  PROVE  FlowInv'
<1>1. /\ status' = [i \in Flow!Jobs |-> status'[i]] /\ status'[j] = "done"
      /\ \A i \in Flow!Jobs \ {j} : status'[i] = status[i]
      /\ UNCHANGED <<position, read>>
  BY DEF Flow!Done, FlowInv, JobsShape
<1>2. /\ alone' = [i \in Flow!Jobs |-> alone'[i]] /\ alone'[j] = alone[j]
      /\ \A i \in Flow!Jobs \ {j} : ~alone'[i]
  BY Disturbed DEF FlowInv
<1>3. RevisionsOK' /\ JobsShape'
  BY <1>1, <1>2 DEF FlowInv, RevisionsOK, JobsShape
<1>4. Replaying(j)'
  <2>1. ASSUME NEW plans
        PROVE  /\ PlansOK(j, plans)' <=> PlansOK(j, plans)
               /\ Covers(j, plans, Len(Flow!Projections(j)))'
                    <=> Covers(j, plans, Len(Flow!Projections(j)))
    BY DEF PlansOK, PlansOf, Covers, HasContent
  <2>2. ASSUME NEW plan PROVE PlanHolds(plan)' <=> PlanHolds(plan)
    BY DEF PlanHolds, Installed, Flow!ActiveToken
  <2> QED BY <1>1, <1>2, <2>1, <2>2 DEF FlowInv, Mine, Replaying
<1>5. Mine(j)'
  BY <1>1, <1>2, <1>4
  DEF FlowInv, Mine, Reading, Indexing, Capturing, Removing, Reconciling
<1>6. \A i \in Flow!Jobs \ {j} : Untouched(i)
  BY <1>1 DEF Untouched
<1> QED BY <1>2, <1>3, <1>5, <1>6, StepKeeps

\* A document whose projections have their content is stored whole.
LEMMA StoredWhole ==
  ASSUME Flow!WorkflowAssumption, NEW j \in Flow!Jobs,
         \A i \in Places(j) : HasContent(j, Flow!Projections(j)[i])
  PROVE  \A p \in Flow!ToSet(Flow!Projections(j)) :
           {r.content : r \in revisions[p]} = {Flow!Content(j, p)}
<1> SUFFICES ASSUME NEW p \in Flow!ToSet(Flow!Projections(j))
             PROVE  {r.content : r \in revisions[p]} = {Flow!Content(j, p)}
  OBVIOUS
<1>1. HasContent(j, p)
  BY ProjectionsAre DEF IsOf
<1> QED BY <1>1 DEF HasContent

LEMMA ReplaceTopologyKeeps ==
  ASSUME Flow!WorkflowAssumption, FlowInv, NEW j \in Flow!Jobs, Flow!ReplaceTopology(j)
  PROVE  FlowInv'
<1>1. /\ Job[j].op = "index" /\ status[j] = "running"
      /\ position[j] >= Len(Flow!Projections(j)) /\ position[j] \in Nat
      /\ edges' = Flow!Edges(j) /\ listed'
      /\ UNCHANGED <<revisions, tokens, artifact, captured>>
      /\ Flow!Disturb(j) /\ Flow!Done(j)
  BY ProjectionsAre
  DEF Flow!ReplaceTopology, Flow!Planning, Flow!Remaining, FlowInv, JobsShape
<1>2. ASSUME alone[j] PROVE Flow!Achieved(j)'
  <2>1. \A i \in Places(j) : HasContent(j, Flow!Projections(j)[i])
    BY <1>1, <1>2, ProjectionsAre DEF FlowInv, Mine, Indexing, Places
  <2>2. \A p \in Flow!ToSet(Flow!Projections(j)) :
          {r.content : r \in revisions'[p]} = {Flow!Content(j, p)}
    BY <1>1, <2>1, StoredWhole
  <2> QED BY <1>1, <2>2 DEF Flow!Achieved, Flow!Edges
<1> QED BY <1>1, <1>2, FinishKeeps

LEMMA CaptureKeeps ==
  ASSUME Flow!WorkflowAssumption, FlowInv, NEW j \in Flow!Jobs, Flow!Capture(j)
  PROVE  FlowInv'
<1> DEFINE p == Flow!NextProjection(j)
<1>1. /\ Job[j].op = "prepare" /\ status[j] = "running" /\ artifact[j] = {}
      /\ UNCHANGED <<revisions, edges, listed, tokens, status, artifact, alone>>
      /\ Flow!Continue(j)
  BY DEF Flow!Capture, Flow!Planning, Flow!stores, Flow!None
<1>2. PICK expected \in read[j] :
        captured' = [captured EXCEPT ![j] =
          Append(captured[j], Flow!Plan(p, expected, Flow!Content(j, p)))]
  BY DEF Flow!Capture
<1> DEFINE plan == Flow!Plan(p, expected, Flow!Content(j, p))
           now == Append(captured[j], plan)
<1>3. position[j] < Len(Flow!Projections(j))
  BY <1>1, <1>2 DEF FlowInv, Mine, Reading
<1>4. /\ position[j] \in Nat /\ position[j] + 1 \in Places(j)
      /\ p = Flow!Projections(j)[position[j] + 1] /\ p \in Flow!AllProjections
      /\ IsOf(j, p)
  BY <1>3, NextIs
<1>5. Capturing(j)
  BY DEF FlowInv, Mine
<1>6. /\ PlansOK(j, captured[j]) /\ position[j] <= Len(Flow!Projections(j))
      /\ \A m \in 1..Len(captured[j]) : \E i \in 1..position[j] :
           captured[j][m].projection = Flow!Projections(j)[i]
      /\ expected \in SUBSET Nat
  BY <1>1, <1>5 DEF Capturing
<1>7. plan.projection = p /\ plan.expected = expected /\ plan \in PlansOf(j)
  BY <1>4, <1>6 DEF Flow!Plan, PlansOf
<1>8. /\ position' \in [Flow!Jobs -> Nat] /\ position'[j] = position[j] + 1
      /\ read' = [i \in Flow!Jobs |-> read'[i]] /\ read'[j] = {}
      /\ \A i \in Flow!Jobs \ {j} : position'[i] = position[i] /\ read'[i] = read[i]
  BY <1>1, Continued DEF FlowInv
<1>9. /\ captured' = [i \in Flow!Jobs |-> captured'[i]] /\ captured'[j] = now
      /\ \A i \in Flow!Jobs \ {j} : captured'[i] = captured[i]
  BY <1>2 DEF FlowInv, JobsShape
<1> HIDE DEF p, plan
<1>10. /\ now \in Seq(PlansOf(j)) /\ Len(captured[j]) \in Nat
       /\ Len(now) = Len(captured[j]) + 1 /\ now[Len(captured[j]) + 1] = plan
       /\ \A m \in 1..Len(captured[j]) : now[m] = captured[j][m]
  BY <1>6, <1>7 DEF PlansOK
<1> HIDE DEF now
<1>11. \A m \in 1..Len(now) : m = Len(captured[j]) + 1 \/ m \in 1..Len(captured[j])
  BY <1>10
<1>12. \A m \in 1..Len(captured[j]) : captured[j][m].projection # p
  <2> SUFFICES ASSUME NEW m \in 1..Len(captured[j]) PROVE captured[j][m].projection # p
    OBVIOUS
  <2>1. PICK i \in 1..position[j] : captured[j][m].projection = Flow!Projections(j)[i]
    BY <1>6
  <2>2. i \in Places(j) /\ i # position[j] + 1
    BY <1>4 DEF Places
  <2> QED BY <1>4, <2>1, <2>2, ProjectionsAre
<1>13. \A m, n \in 1..Len(now) : now[m].projection = now[n].projection => m = n
  BY <1>6, <1>7, <1>10, <1>11, <1>12 DEF PlansOK
<1>14. PlansOK(j, now) /\ (PlansOK(j, captured[j])' <=> PlansOK(j, now))
  BY <1>9, <1>10, <1>13 DEF PlansOK, PlansOf
<1>15. ASSUME NEW m \in 1..Len(now)
       PROVE  \E i \in 1..(position[j] + 1) : now[m].projection = Flow!Projections(j)[i]
  <2>1. CASE m = Len(captured[j]) + 1
    <3>1. position[j] + 1 \in 1..(position[j] + 1) /\ now[m].projection = p
      BY <1>4, <1>7, <1>10, <2>1
    <3> QED BY <1>4, <3>1
  <2>2. CASE m \in 1..Len(captured[j])
    <3>1. PICK i \in 1..position[j] : captured[j][m].projection = Flow!Projections(j)[i]
      BY <1>6, <2>2
    <3>2. i \in 1..(position[j] + 1) /\ now[m] = captured[j][m]
      BY <1>4, <1>10, <2>2
    <3> QED BY <3>1, <3>2
  <2> QED BY <1>11, <2>1, <2>2
<1>16. ASSUME alone[j]
       PROVE  /\ Covers(j, now, position[j] + 1)
              /\ \A m \in 1..Len(now) : Flow!ActiveToken(now[m].projection) = now[m].expected
  <2>1. Covers(j, captured[j], position[j])
    BY <1>1, <1>5, <1>16 DEF Capturing
  <2>2. Covers(j, now, position[j] + 1)
    <3> SUFFICES ASSUME NEW i \in 1..(position[j] + 1)
                 PROVE  \/ HasContent(j, Flow!Projections(j)[i])
                        \/ \E m \in 1..Len(now) : now[m].projection = Flow!Projections(j)[i]
      BY DEF Covers
    <3>1. CASE i = position[j] + 1
      <4>1. Len(captured[j]) + 1 \in 1..Len(now)
        BY <1>10
      <4> QED BY <1>4, <1>7, <1>10, <3>1, <4>1
    <3>2. CASE i # position[j] + 1
      <4>1. i \in 1..position[j] /\ \A m \in 1..Len(captured[j]) : m \in 1..Len(now)
        BY <1>4, <1>10, <3>2
      <4> QED BY <1>10, <2>1, <4>1 DEF Covers
    <3> QED BY <3>1, <3>2
  <2>3. expected = Flow!ActiveToken(p)
    BY <1>1, <1>5, <1>16 DEF Capturing, p
  <2>4. \A m \in 1..Len(captured[j]) :
          Flow!ActiveToken(captured[j][m].projection) = captured[j][m].expected
    BY <1>1, <1>5, <1>16 DEF Capturing
  <2> QED BY <1>7, <1>10, <1>11, <2>2, <2>3, <2>4
<1>17. \A plans, count : Covers(j, plans, count)' <=> Covers(j, plans, count)
  BY <1>1 DEF Covers, HasContent
<1>18. Covers(j, captured[j], position[j])' <=> Covers(j, now, position[j] + 1)
  BY <1>1, <1>8, <1>9, <1>17 DEF Covers, HasContent
<1>19. Capturing(j)'
  <2>1. position'[j] <= Len(Flow!Projections(j))
    BY <1>3, <1>4, <1>8, ProjectionsAre
  <2>2. \A q : Flow!ActiveToken(q)' = Flow!ActiveToken(q)
    BY <1>1 DEF Flow!ActiveToken
  <2> QED BY <1>1, <1>8, <1>9, <1>14, <1>15, <1>16, <1>18, <2>1, <2>2
          DEF Capturing, Flow!ActiveToken
<1>20. Mine(j)'
  BY <1>1, <1>8, <1>19
  DEF FlowInv, Mine, Reading, Indexing, Replaying, Removing, Reconciling
<1>21. RevisionsOK' /\ JobsShape'
  BY <1>1, <1>8, <1>9 DEF FlowInv, RevisionsOK, JobsShape
<1>22. \A i \in Flow!Jobs \ {j} : Untouched(i)
  BY <1>1, <1>8, <1>9 DEF Untouched
<1> QED BY <1>1, <1>20, <1>21, <1>22, StepKeeps

LEMMA FreezeKeeps ==
  ASSUME Flow!WorkflowAssumption, FlowInv, NEW j \in Flow!Jobs, Flow!Prepare(j)
  PROVE  FlowInv'
<1> DEFINE plans == captured[j]
<1>1. /\ Job[j].op = "prepare" /\ status[j] = "running" /\ artifact[j] = {}
      /\ ~(position[j] < Len(Flow!Projections(j)))
      /\ UNCHANGED <<revisions, edges, listed, tokens, status, read, captured, alone>>
      /\ artifact' = [i \in Flow!Jobs |-> artifact'[i]] /\ artifact'[j] = {plans}
      /\ position' \in [Flow!Jobs -> Nat] /\ position'[j] = 0 /\ position[j] \in Nat
      /\ \A i \in Flow!Jobs \ {j} : position'[i] = position[i] /\ artifact'[i] = artifact[i]
  BY DEF Flow!Prepare, Flow!Planning, Flow!Remaining, Flow!stores, Flow!None, Flow!Some,
         FlowInv, JobsShape
<1>2. Capturing(j) /\ read[j] = {}
  BY <1>1 DEF FlowInv, Mine, Reading
<1>3. PlansOK(j, plans) /\ position[j] = Len(Flow!Projections(j))
  BY <1>1, <1>2, ProjectionsAre DEF Capturing
<1>4. alone[j] => /\ Covers(j, plans, Len(Flow!Projections(j)))
                  /\ \A m \in 1..Len(plans) : PlanHolds(plans[m])
  BY <1>1, <1>2, <1>3 DEF Capturing, PlanHolds
<1> HIDE DEF plans
<1>5. Replaying(j)'
  <2>1. /\ PlansOK(j, plans)' <=> PlansOK(j, plans)
        /\ Covers(j, plans, Len(Flow!Projections(j)))'
             <=> Covers(j, plans, Len(Flow!Projections(j)))
        /\ Len(plans)' = Len(plans)
    BY <1>1 DEF PlansOK, PlansOf, Covers, HasContent, plans
  <2>2. \A m : PlanHolds(plans[m])' <=> PlanHolds(plans[m])
    BY <1>1 DEF PlanHolds, Installed, Flow!ActiveToken, plans
  <2>3. plans' = plans
    BY <1>1 DEF plans
  <2> SUFFICES ASSUME NEW some \in artifact'[j]
               PROVE  /\ artifact'[j] = {some}
                      /\ PlansOK(j, some)'
                      /\ alone'[j] =>
                           /\ Covers(j, some, Len(Flow!Projections(j)))'
                           /\ \A m \in 1..Len(some) : PlanHolds(some[m])'
                           /\ status'[j] = "running" =>
                                \A m \in 1..Len(some) : m <= position'[j] => Installed(some[m])'
    BY DEF Replaying
  <2>4. some = plans
    BY <1>1
  <2>5. \A m \in 1..Len(some) : ~(m <= position'[j])
    BY <1>1
  <2>6. PlansOK(j, some)' /\ (alone'[j] => Covers(j, some, Len(Flow!Projections(j)))')
    BY <1>1, <1>3, <1>4, <2>1, <2>3, <2>4 DEF PlansOK, PlansOf, Covers, HasContent
  <2>7. alone'[j] => \A m \in 1..Len(some) : PlanHolds(some[m])'
    BY <1>1, <1>4, <2>2, <2>3, <2>4 DEF PlanHolds, Installed, Flow!ActiveToken
  <2> QED BY <1>1, <2>4, <2>5, <2>6, <2>7
<1>6. Mine(j)'
  BY <1>1, <1>2, <1>5
  DEF FlowInv, Mine, Reading, Indexing, Capturing, Removing, Reconciling
<1>7. RevisionsOK' /\ JobsShape'
  BY <1>1 DEF FlowInv, RevisionsOK, JobsShape
<1>8. \A i \in Flow!Jobs \ {j} : Untouched(i)
  BY <1>1 DEF Untouched
<1> QED BY <1>1, <1>6, <1>7, <1>8, StepKeeps

\* A plan is refused only where another replacement came in between, and the
\* plans of one mutation are of distinct projections.
LEMMA ReplayKeeps ==
  ASSUME Flow!WorkflowAssumption, FlowInv, NEW j \in Flow!Jobs, Flow!Replay(j)
  PROVE  FlowInv'
<1>1. /\ Job[j].op = "prepare" /\ status[j] = "running"
      /\ UNCHANGED <<artifact, captured>>
  BY DEF Flow!Replay
<1>2. PICK plans \in artifact[j] :
        IF position[j] < Len(plans)
          THEN LET plan == plans[position[j] + 1]
               IN  /\ IF Flow!Accepts(plan)
                        THEN /\ Flow!Replaced(plan) /\ Flow!Continue(j) /\ Flow!Disturb(j)
                             /\ UNCHANGED status
                        ELSE Flow!Fail(j) /\ UNCHANGED <<revisions, tokens, position, alone>>
                   /\ UNCHANGED <<edges, listed>>
          ELSE /\ edges' = Flow!Edges(j) /\ listed' = TRUE
               /\ Flow!Disturb(j) /\ Flow!Done(j)
               /\ UNCHANGED <<revisions, tokens>>
  BY DEF Flow!Replay
<1>3. /\ artifact[j] = {plans} /\ PlansOK(j, plans)
      /\ alone[j] =>
           /\ Covers(j, plans, Len(Flow!Projections(j)))
           /\ \A m \in 1..Len(plans) : PlanHolds(plans[m])
           /\ \A m \in 1..Len(plans) : m <= position[j] => Installed(plans[m])
  BY <1>1 DEF FlowInv, Mine, Replaying
<1>4. position[j] \in Nat /\ Len(plans) \in Nat
  BY <1>3 DEF FlowInv, JobsShape, PlansOK
<1>5. \A m \in 1..Len(plans) :
        /\ plans[m].projection \in Flow!AllProjections
        /\ plans[m].content = Flow!Content(j, plans[m].projection)
  BY <1>3, <1>4 DEF PlansOK, PlansOf
<1>6. CASE position[j] < Len(plans) /\ Flow!Accepts(plans[position[j] + 1])
  <2>0. PICK plan : plan = plans[position[j] + 1]
    OBVIOUS
  <2> DEFINE p == plan.projection
  <2>1. /\ Flow!Replaced(plan) /\ Flow!Continue(j) /\ Flow!Disturb(j)
        /\ UNCHANGED <<status, edges, listed>>
    BY <1>2, <1>6, <2>0
  <2>2. /\ position' \in [Flow!Jobs -> Nat] /\ position'[j] = position[j] + 1
        /\ read' = [i \in Flow!Jobs |-> read'[i]] /\ read'[j] = {}
        /\ \A i \in Flow!Jobs \ {j} : position'[i] = position[i] /\ read'[i] = read[i]
    BY <2>1, Continued DEF FlowInv
  <2>3. /\ alone' = [i \in Flow!Jobs |-> alone'[i]] /\ alone'[j] = alone[j]
        /\ \A i \in Flow!Jobs \ {j} : ~alone'[i]
    BY <2>1, Disturbed DEF FlowInv
  <2>4. position[j] + 1 \in 1..Len(plans)
    BY <1>4, <1>6
  <2>5. /\ RevisionsOK' /\ Installed(plan)'
        /\ revisions'[p] # {} /\ \A r \in revisions'[p] : r.content = Flow!Content(j, p)
        /\ \A q \in Flow!AllProjections \ {p} : revisions'[q] = revisions[q]
    BY <1>5, <2>0, <2>1, <2>4, ReplacedIs DEF FlowInv
  <2>6. PlansOK(j, plans)' <=> PlansOK(j, plans)
    BY DEF PlansOK, PlansOf
  <2>7. ASSUME NEW m \in 1..Len(plans), m # position[j] + 1
        PROVE  /\ PlanHolds(plans[m])' <=> PlanHolds(plans[m])
               /\ Installed(plans[m])' <=> Installed(plans[m])
    <3>1. plans[m].projection \in Flow!AllProjections \ {p}
      BY <1>3, <1>5, <2>0, <2>4, <2>7 DEF PlansOK
    <3> QED BY <2>5, <3>1 DEF PlanHolds, Installed, Flow!ActiveToken
  <2>8. ASSUME alone[j] PROVE Covers(j, plans, Len(Flow!Projections(j)))'
    <3> SUFFICES ASSUME NEW i \in Places(j)
                 PROVE  \/ HasContent(j, Flow!Projections(j)[i])'
                        \/ \E m \in 1..Len(plans) : plans[m].projection = Flow!Projections(j)[i]
      BY DEF Covers, Places
    <3>1. Flow!Projections(j)[i] \in Flow!AllProjections
      BY ProjectionsAre
    <3>2. CASE Flow!Projections(j)[i] = p
      BY <2>5, <3>2 DEF HasContent
    <3>3. CASE Flow!Projections(j)[i] # p
      BY <1>3, <2>5, <2>8, <3>1, <3>3 DEF Covers, HasContent, Places
    <3> QED BY <3>2, <3>3
  <2>9. ASSUME alone[j], NEW m \in 1..Len(plans)
        PROVE  PlanHolds(plans[m])' /\ (m <= position[j] + 1 => Installed(plans[m])')
    <3>1. CASE m = position[j] + 1
      BY <2>0, <2>5, <3>1 DEF PlanHolds, Installed
    <3>2. CASE m # position[j] + 1
      <4>1. m <= position[j] + 1 => m <= position[j]
        BY <1>4, <3>2
      <4> QED BY <1>3, <2>7, <2>9, <3>2, <4>1
    <3> QED BY <3>1, <3>2
  <2>10. Replaying(j)'
    BY <1>1, <1>3, <2>2, <2>3, <2>6, <2>8, <2>9 DEF Replaying
  <2>11. Mine(j)'
    BY <1>1, <1>3, <2>1, <2>2, <2>10
    DEF FlowInv, Mine, Reading, Indexing, Capturing, Removing, Reconciling
  <2>12. JobsShape'
    BY <1>1, <2>1, <2>2, <2>3 DEF FlowInv, JobsShape
  <2>13. \A i \in Flow!Jobs \ {j} : Untouched(i)
    BY <1>1, <2>1, <2>2 DEF Untouched
  <2> QED BY <2>3, <2>5, <2>11, <2>12, <2>13, StepKeeps
<1>7. CASE position[j] < Len(plans) /\ ~Flow!Accepts(plans[position[j] + 1])
  BY <1>1, <1>2, <1>7, FailKeeps
<1>8. CASE ~(position[j] < Len(plans))
  <2>1. /\ edges' = Flow!Edges(j) /\ listed'
        /\ Flow!Disturb(j) /\ Flow!Done(j)
        /\ UNCHANGED <<revisions, tokens>>
    BY <1>2, <1>8
  <2>2. ASSUME alone[j] PROVE Flow!Achieved(j)'
    <3>1. ASSUME NEW i \in Places(j) PROVE HasContent(j, Flow!Projections(j)[i])
      <4> SUFFICES ASSUME NEW m \in 1..Len(plans),
                          plans[m].projection = Flow!Projections(j)[i]
                   PROVE  HasContent(j, Flow!Projections(j)[i])
        BY <1>3, <2>2, <3>1 DEF Covers, Places
      <4>1. Installed(plans[m])
        BY <1>3, <1>4, <1>8, <2>2
      <4>2. PICK r \in revisions[Flow!Projections(j)[i]] : r.by = plans[m]
        BY <4>1 DEF Installed
      <4>3. /\ r.content = Flow!Content(j, Flow!Projections(j)[i])
            /\ \A s \in revisions[Flow!Projections(j)[i]] : s = r
        BY <1>5, <3>1, <4>2, ProjectionsAre DEF FlowInv, RevisionsOK
      <4> QED BY <4>2, <4>3 DEF HasContent
    <3>2. \A p \in Flow!ToSet(Flow!Projections(j)) :
            {r.content : r \in revisions'[p]} = {Flow!Content(j, p)}
      BY <2>1, <3>1, StoredWhole
    <3> QED BY <1>1, <2>1, <3>2 DEF Flow!Achieved, Flow!Edges
  <2> QED BY <1>1, <2>1, <2>2, FinishKeeps
<1> QED BY <1>6, <1>7, <1>8

LEMMA DeleteRevisionKeeps ==
  ASSUME Flow!WorkflowAssumption, FlowInv, NEW j \in Flow!Jobs, Flow!DeleteRevision(j)
  PROVE  FlowInv'
<1> DEFINE p == Flow!NextProjection(j)
<1>1. /\ Job[j].op = "remove" /\ status[j] = "running"
      /\ position[j] < Len(Flow!Projections(j))
      /\ revisions' = [revisions EXCEPT ![p] = {}]
      /\ Flow!Continue(j) /\ Flow!Disturb(j)
      /\ UNCHANGED <<edges, listed, tokens, status, artifact, captured>>
  BY DEF Flow!DeleteRevision, Flow!Remaining, Flow!None
<1>2. /\ position[j] \in Nat /\ position[j] + 1 \in Places(j)
      /\ p = Flow!Projections(j)[position[j] + 1] /\ p \in Flow!AllProjections
  BY <1>1, NextIs
<1>3. /\ position' \in [Flow!Jobs -> Nat] /\ position'[j] = position[j] + 1
      /\ read' = [i \in Flow!Jobs |-> read'[i]] /\ read'[j] = {}
      /\ \A i \in Flow!Jobs \ {j} : position'[i] = position[i] /\ read'[i] = read[i]
  BY <1>1, Continued DEF FlowInv
<1>4. /\ alone' = [i \in Flow!Jobs |-> alone'[i]] /\ alone'[j] = alone[j]
      /\ \A i \in Flow!Jobs \ {j} : ~alone'[i]
  BY <1>1, Disturbed DEF FlowInv
<1> HIDE DEF p
<1>5. /\ revisions' = [q \in Flow!AllProjections |-> revisions'[q]]
      /\ revisions'[p] = {}
      /\ \A q \in Flow!AllProjections \ {p} : revisions'[q] = revisions[q]
  BY <1>1, <1>2 DEF FlowInv, RevisionsOK
<1>6. RevisionsOK' /\ JobsShape'
  BY <1>1, <1>3, <1>4, <1>5 DEF FlowInv, RevisionsOK, JobsShape
<1>7. Removing(j)'
  <2>1. ASSUME NEW i \in Places(j), i <= position[j] + 1, alone[j]
        PROVE  revisions'[Flow!Projections(j)[i]] = {}
    <3>1. CASE i = position[j] + 1
      BY <1>2, <1>5, <3>1
    <3>2. CASE i # position[j] + 1
      <4>1. i <= position[j]
        BY <1>2, <2>1, <3>2 DEF Places
      <4>2. revisions[Flow!Projections(j)[i]] = {} /\ Flow!Projections(j)[i] \in Flow!AllProjections
        BY <1>1, <2>1, <4>1, ProjectionsAre DEF FlowInv, Mine, Removing
      <4> QED BY <1>5, <4>2
    <3> QED BY <3>1, <3>2
  <2> QED BY <1>3, <1>4, <2>1 DEF Removing
<1>8. Mine(j)'
  BY <1>1, <1>3, <1>7
  DEF FlowInv, Mine, Reading, Indexing, Capturing, Replaying, Reconciling
<1>9. \A i \in Flow!Jobs \ {j} : Untouched(i)
  BY <1>1, <1>3 DEF Untouched
<1> QED BY <1>4, <1>6, <1>8, <1>9, StepKeeps

LEMMA DeleteNodeKeeps ==
  ASSUME Flow!WorkflowAssumption, FlowInv, NEW j \in Flow!Jobs, Flow!DeleteNode(j)
  PROVE  FlowInv'
<1>1. /\ Job[j].op = "remove" /\ status[j] = "running"
      /\ position[j] >= Len(Flow!Projections(j)) /\ position[j] \in Nat
      /\ edges' = {} /\ ~listed'
      /\ UNCHANGED <<revisions, tokens, artifact, captured>>
      /\ Flow!Disturb(j) /\ Flow!Done(j)
  BY ProjectionsAre DEF Flow!DeleteNode, Flow!Remaining, FlowInv, JobsShape
<1>2. ASSUME alone[j] PROVE Flow!Achieved(j)'
  <2>1. \A i \in Places(j) : revisions[Flow!Projections(j)[i]] = {}
    BY <1>1, <1>2, ProjectionsAre DEF FlowInv, Mine, Removing, Places
  <2>2. \A p \in Flow!ToSet(Flow!Projections(j)) : revisions'[p] = {}
    BY <1>1, <2>1, ProjectionsAre DEF IsOf
  <2> QED BY <1>1, <2>2 DEF Flow!Achieved, Flow!None
<1> QED BY <1>1, <1>2, FinishKeeps

LEMMA PruneGraphKeeps ==
  ASSUME Flow!WorkflowAssumption, FlowInv, NEW j \in Flow!Jobs, Flow!PruneGraph(j)
  PROVE  FlowInv'
<1>1. /\ Job[j].op = "reconcile" /\ status[j] = "running" /\ position[j] = 0
      /\ revisions' = [p \in Flow!AllProjections |->
                         IF p \in Flow!ToSet(Flow!Projections(j)) THEN revisions[p] ELSE {}]
      /\ Flow!Continue(j) /\ Flow!Disturb(j)
      /\ UNCHANGED <<edges, listed, tokens, status, artifact, captured>>
  BY DEF Flow!PruneGraph, Flow!None
<1>2. /\ position' \in [Flow!Jobs -> Nat] /\ position'[j] = 1
      /\ read' = [i \in Flow!Jobs |-> read'[i]] /\ read'[j] = {}
      /\ \A i \in Flow!Jobs \ {j} : position'[i] = position[i] /\ read'[i] = read[i]
  BY <1>1, Continued DEF FlowInv
<1>3. /\ alone' = [i \in Flow!Jobs |-> alone'[i]] /\ alone'[j] = alone[j]
      /\ \A i \in Flow!Jobs \ {j} : ~alone'[i]
  BY <1>1, Disturbed DEF FlowInv
<1>4. /\ revisions' = [q \in Flow!AllProjections |-> revisions'[q]]
      /\ \A q \in Flow!AllProjections :
           \/ revisions'[q] = {}
           \/ revisions'[q] = revisions[q] /\ q \in Flow!ToSet(Flow!Projections(j))
  BY <1>1
<1>5. RevisionsOK' /\ JobsShape'
  BY <1>1, <1>2, <1>3, <1>4 DEF FlowInv, RevisionsOK, JobsShape
<1>6. Reconciling(j)'
  BY <1>4, ProjectionsAre DEF Reconciling, IsOf, Places
<1>7. Mine(j)'
  BY <1>1, <1>2, <1>6
  DEF FlowInv, Mine, Reading, Indexing, Capturing, Replaying, Removing
<1>8. \A i \in Flow!Jobs \ {j} : Untouched(i)
  BY <1>1, <1>2 DEF Untouched
<1> QED BY <1>3, <1>5, <1>7, <1>8, StepKeeps

LEMMA PruneTopologyKeeps ==
  ASSUME Flow!WorkflowAssumption, FlowInv, NEW j \in Flow!Jobs, Flow!PruneTopology(j)
  PROVE  FlowInv'
<1>1. /\ Job[j].op = "reconcile" /\ status[j] = "running" /\ position[j] = 1
      /\ edges' = {edge \in edges : edge[1] \in Flow!Relations(j)}
      /\ UNCHANGED <<revisions, listed, tokens, artifact, captured>>
      /\ Flow!Disturb(j) /\ Flow!Done(j)
  BY DEF Flow!PruneTopology
<1>2. ASSUME alone[j] PROVE Flow!Achieved(j)'
  <2>1. \A p \in Flow!AllProjections : revisions'[p] # {} => p \in Flow!ToSet(Flow!Projections(j))
    BY <1>1, <1>2, ProjectionsAre DEF FlowInv, Mine, Reconciling
  <2> QED BY <1>1, <2>1 DEF Flow!Achieved, Flow!None, Flow!Relations
<1> QED BY <1>1, <1>2, FinishKeeps

LEMMA FlowStart == ASSUME Flow!Init PROVE FlowInv
BY DEF Flow!Init, Flow!None, FlowInv, RevisionsOK, JobsShape, Mine, Reading, Indexing,
       Capturing, Replaying, Removing, Reconciling

LEMMA FlowStep ==
  ASSUME Flow!WorkflowAssumption, FlowInv, [Flow!Next]_(Flow!vars) PROVE FlowInv'
<1>1. CASE UNCHANGED Flow!vars
  <2>1. UNCHANGED <<revisions, edges, listed, tokens, status, position, read, artifact,
                    captured, alone>>
    BY <1>1 DEF Flow!vars, Flow!stores
  <2>2. RevisionsOK' /\ JobsShape'
    BY <2>1 DEF FlowInv, RevisionsOK, JobsShape
  <2>3. ASSUME NEW j \in Flow!Jobs PROVE Mine(j)'
    BY <2>1, BystanderKeeps DEF FlowInv, Untouched
  <2> QED BY <2>2, <2>3 DEF FlowInv
<1>2. ASSUME NEW j \in Flow!Jobs, Flow!Fault(j) PROVE FlowInv'
  BY <1>2, FailKeeps DEF Flow!Fault, Flow!stores
<1>3. ASSUME NEW j \in Flow!Jobs, Flow!Step(j) PROVE FlowInv'
  BY <1>3, StartKeeps, LoadKeeps, ReplaceRevisionKeeps, ReplaceTopologyKeeps, CaptureKeeps,
     FreezeKeeps, ReplayKeeps, DeleteRevisionKeeps, DeleteNodeKeeps, PruneGraphKeeps,
     PruneTopologyKeeps DEF Flow!Step
<1> QED BY <1>1, <1>2, <1>3 DEF Flow!Next, Flow!Finished

\* Where the index answers a mutation that is active already, nothing but a
\* rival's write has a replay refused.
LEMMA FlowHolds ==
  ASSUME FlowInv
  PROVE  Flow!RetriesConverge /\ (AnswersReplays => Flow!ReplayNotRefused)
<1>1. Flow!RetriesConverge
  BY DEF FlowInv, Mine, Flow!RetriesConverge
<1>2. ASSUME AnswersReplays, NEW j \in Flow!Jobs, NEW plans \in artifact[j],
             status[j] = "running", alone[j], position[j] < Len(plans)
      PROVE  Flow!Accepts(plans[position[j] + 1])
  <2>1. Job[j].op = "prepare" /\ Replaying(j)
    BY <1>2 DEF FlowInv, Mine
  <2>2. PlansOK(j, plans) /\ \A m \in 1..Len(plans) : PlanHolds(plans[m])
    BY <1>2, <2>1 DEF Replaying
  <2>3. position[j] + 1 \in 1..Len(plans)
    BY <1>2, <2>2 DEF FlowInv, JobsShape, PlansOK
  <2> QED BY <1>2, <2>2, <2>3
          DEF PlanHolds, Installed, Flow!Accepts, Flow!AlreadyActive
<1> QED BY <1>1, <1>2 DEF Flow!ReplayNotRefused

LEMMA FlowAlways == Flow!WorkflowAssumption /\ Flow!Spec => []FlowInv
<1> SUFFICES ASSUME Flow!WorkflowAssumption PROVE Flow!Spec => []FlowInv
  OBVIOUS
<1>1. Flow!Init => FlowInv
  BY FlowStart
<1>2. FlowInv /\ [Flow!Next]_(Flow!vars) => FlowInv'
  BY FlowStep
<1> QED BY <1>1, <1>2, PTL DEF Flow!Spec

\* ADR 0001, "retries converge to the retried document input", for any jobs
\* over a document and its projections, any number of failures, and whatever
\* rivals or earlier attempts have left: an attempt that no other job has
\* disturbed ends with the document as its input says.
THEOREM UndisturbedAttemptsConverge ==
  Flow!WorkflowAssumption /\ Flow!Spec => []Flow!RetriesConverge
<1>1. FlowInv => Flow!RetriesConverge
  BY FlowHolds
<1> QED BY <1>1, FlowAlways, PTL

\* Over an index that answers a mutation which is active already, the replay of
\* a prepared mutation is not refused because of its own earlier attempts.
THEOREM UndisturbedReplaysAreTaken ==
  Flow!WorkflowAssumption /\ AnswersReplays /\ Flow!Spec => []Flow!ReplayNotRefused
<1> SUFFICES ASSUME AnswersReplays
             PROVE  Flow!WorkflowAssumption /\ Flow!Spec => []Flow!ReplayNotRefused
  OBVIOUS
<1>1. FlowInv => Flow!ReplayNotRefused
  BY FlowHolds
<1> QED BY <1>1, FlowAlways, PTL
-----------------------------------------------------------------------------
(* Indexing into memory: any fibers, keys, profiles and manifests.            *)
(*                                                                         *)
(* The argument: a token is given out once, so the revision that is stored     *)
(* under the token of a snapshot is the one that was read.  The vectors in a    *)
(* snapshot and those the provider returns are therefore all a plan needs, and  *)
(* the vectors of a row come from its own content.                             *)

CONSTANTS Fiber, Key, Revisions, Profile, Manifests, MaxStarts
VARIABLES indexed, tokenSequence, fiber, starts, replaced, told, refused

Memory == INSTANCE InMemoryIndex WITH Worker <- Fiber, revisions <- indexed

RowOK(r) ==
  /\ r.token \in Nat /\ r.token <= tokenSequence
  /\ DOMAIN r.vectors = DOMAIN r.contents
  /\ \A c \in DOMAIN r.contents : r.vectors[c] = Memory!VectorOf(r.profile, r.contents[c])

RowsOK(stored) == (\A r, s \in stored : r = s) /\ \A r \in stored : RowOK(r)

Tasks == [key : Key, rev : Revisions, profile : Profile]

\* What each fiber has loaded is what is stored, or another token is stored.
SnapshotHolds(f) ==
  f.at \in {"embed", "replace"} =>
    /\ RowsOK(f.snapshot)
    /\ \A t \in f.task : \A x \in f.snapshot : \A r \in indexed[t.key] :
         r.token = x.token => r = x

Requested(f) ==
  UNION {Memory!Range(t.rev.chunks) \ Memory!ReusableContent(f.snapshot, t.profile) : t \in f.task}

\* The embeddings of a fiber are those it asked for.
EmbeddingsHold(f) ==
  f.at = "replace" =>
    /\ Memory!ValidOutput(Requested(f), f.embeddings)
    /\ \A t \in f.task : \A i \in DOMAIN f.embeddings :
         f.embeddings[i].vector = Memory!VectorOf(t.profile, f.embeddings[i].content)

FiberOK(f) ==
  /\ DOMAIN f = {"at", "task", "snapshot", "embeddings"}
  /\ f.at # "idle" => \E t \in Tasks : f.task = {t}
  /\ SnapshotHolds(f) /\ EmbeddingsHold(f)

MemoryInv ==
  /\ tokenSequence \in Nat /\ replaced \in Nat
  /\ DOMAIN indexed = Key
  /\ \A k \in Key : RowsOK(indexed[k])
  /\ fiber = [w \in Fiber |-> fiber[w]]
  /\ \A w \in Fiber : FiberOK(fiber[w])
  /\ ~ refused

LEMMA MemoryStarts == Memory!Init => MemoryInv
BY DEF Memory!Init, Memory!None, Memory!Idle, MemoryInv, RowsOK, FiberOK, SnapshotHolds,
       EmbeddingsHold

LEMMA Going ==
  ASSUME MemoryInv, NEW w \in Fiber, NEW f, Memory!Goes(w, f)
  PROVE  /\ fiber' = [v \in Fiber |-> fiber'[v]]
         /\ fiber'[w] = f /\ \A v \in Fiber \ {w} : fiber'[v] = fiber[v]
BY DEF Memory!Goes, MemoryInv

\* A fiber that leaves the store alone disturbs no other one.
LEMMA FiberKeeps ==
  ASSUME MemoryInv, NEW w \in Fiber, NEW f, Memory!Goes(w, f), FiberOK(f),
         UNCHANGED <<indexed, tokenSequence, replaced, refused>>
  PROVE  MemoryInv'
<1>1. /\ fiber' = [v \in Fiber |-> fiber'[v]]
      /\ \A v \in Fiber : FiberOK(fiber'[v])
  BY Going DEF MemoryInv
<1>2. \A g : FiberOK(g)' <=> FiberOK(g)
  BY DEF FiberOK, SnapshotHolds, EmbeddingsHold, RowsOK, RowOK, Requested
<1>3. \A v \in Fiber : FiberOK(fiber[v])'
  BY <1>1 DEF FiberOK, SnapshotHolds, EmbeddingsHold, RowsOK, RowOK, Requested
<1> QED BY <1>1, <1>3 DEF MemoryInv, RowsOK, RowOK

LEMMA IdleIs == FiberOK(Memory!Idle)
BY DEF FiberOK, Memory!Idle, SnapshotHolds, EmbeddingsHold

LEMMA BeginIndexKeeps ==
  ASSUME MemoryInv, NEW w \in Fiber, Memory!BeginIndex(w) PROVE MemoryInv'
<1>1. PICK k \in Key, r \in Revisions, p \in Profile :
        Memory!Goes(w, [Memory!Idle EXCEPT !.at = "load",
                                           !.task = {[key |-> k, rev |-> r, profile |-> p]}])
  BY DEF Memory!BeginIndex, Memory!Some
<1> DEFINE t == [key |-> k, rev |-> r, profile |-> p]
           f == [Memory!Idle EXCEPT !.at = "load", !.task = {t}]
<1>2. DOMAIN f = {"at", "task", "snapshot", "embeddings"} /\ f.at = "load" /\ f.task = {t}
  BY DEF Memory!Idle
<1>3. t \in Tasks
  BY DEF Tasks
<1> HIDE DEF f, t
<1>4. FiberOK(f)
  BY <1>2, <1>3 DEF FiberOK, SnapshotHolds, EmbeddingsHold
<1> QED BY <1>1, <1>4, FiberKeeps DEF Memory!BeginIndex, f, t

LEMMA TaskIs ==
  ASSUME MemoryInv, NEW w \in Fiber, Memory!At(w) # "idle"
  PROVE  /\ fiber[w].task = {Memory!Task(w)}
         /\ Memory!Task(w) \in Tasks
         /\ FiberOK(fiber[w])
BY DEF MemoryInv, FiberOK, Memory!At, Memory!Task, Memory!The

LEMMA LoadKeepsIt ==
  ASSUME MemoryInv, NEW w \in Fiber, Memory!Load(w) PROVE MemoryInv'
<1> DEFINE stored == indexed[Memory!Task(w).key]
           f == [fiber[w] EXCEPT !.at = "embed", !.snapshot = stored]
<1>1. /\ Memory!At(w) = "load"
      /\ UNCHANGED <<indexed, tokenSequence, replaced, refused>>
      /\ Memory!Goes(w, Memory!Idle) \/ Memory!Goes(w, f)
  BY DEF Memory!Load, Memory!Stored
<1>2. /\ fiber[w].task = {Memory!Task(w)} /\ Memory!Task(w) \in Tasks /\ FiberOK(fiber[w])
  BY <1>1, TaskIs
<1>3. /\ DOMAIN f = {"at", "task", "snapshot", "embeddings"}
      /\ f.at = "embed" /\ f.snapshot = stored /\ f.task = {Memory!Task(w)}
  BY <1>2 DEF FiberOK
<1>4. Memory!Task(w).key \in Key /\ RowsOK(stored)
  BY <1>2 DEF Tasks, MemoryInv
<1>5. FiberOK(f)
  <2> HIDE DEF f
  <2> QED BY <1>2, <1>3, <1>4 DEF FiberOK, SnapshotHolds, EmbeddingsHold, RowsOK
<1> QED BY <1>1, <1>5, FiberKeeps, IdleIs

\* What a provider returns, as far as it is accepted.
Answered(p) == {[content |-> c, vector |-> Memory!VectorOf(p, c)] :
                  c \in UNION {Memory!Range(r.chunks) : r \in Revisions}}

LEMMA CountsAlike == ASSUME NEW S PROVE Memory!Cardinality(S) = Cardinality(S)
BY DEF Cardinality, Memory!Cardinality

LEMMA SequenceOf ==
  ASSUME NEW S, IsFiniteSet(S)
  PROVE  Memory!SetToSeq(S) \in Seq(S)
<1>1. PICK n \in Nat : ExistsBijection(1..n, S)
  BY FS_NatBijection
<1>2. Cardinality(S) = n
  BY <1>1, FS_CountingElements
<1>3. PICK f : f \in Bijection(1..n, S)
  BY <1>1 DEF ExistsBijection
<1>4. f \in [1..Memory!Cardinality(S) -> S] /\ Memory!IsInjective(f)
  BY <1>2, <1>3, CountsAlike DEF Bijection, Injection, Memory!IsInjective, IsInjective
<1>5. Memory!SetToSeq(S) \in [1..Memory!Cardinality(S) -> S]
  BY <1>4 DEF Memory!SetToSeq
<1> QED BY <1>2, <1>5, CountsAlike

LEMMA RequestsAre ==
  ASSUME Memory!IndexAssumption, MemoryInv, NEW w \in Fiber, Memory!At(w) # "idle"
  PROVE  /\ Memory!Requests(w) = Requested(fiber[w])
         /\ Memory!Requests(w) \subseteq Memory!Range(Memory!Task(w).rev.chunks)
         /\ Memory!Requests(w) \subseteq UNION {Memory!Range(r.chunks) : r \in Revisions}
         /\ IsFiniteSet(Memory!Requests(w))
<1> DEFINE t == Memory!Task(w)
           all == Memory!Range(t.rev.chunks)
<1>1. fiber[w].task = {t} /\ t.rev \in Revisions
  BY TaskIs DEF Tasks
<1>2. Memory!Requests(w) = all \ Memory!ReusableContent(fiber[w].snapshot, t.profile)
  BY DEF Memory!Requests, Memory!Snapshot
<1>3. Memory!Requests(w) = Requested(fiber[w])
  BY <1>1, <1>2 DEF Requested
<1>4. IsFiniteSet(all)
  <2> DEFINE chunks == t.rev.chunks
             content == [c \in DOMAIN chunks |-> chunks[c]]
  <2>1. IsFiniteSet(DOMAIN chunks)
    BY <1>1 DEF Memory!IndexAssumption, IsFiniteSet, Memory!IsFiniteSet
  <2>2. all = {chunks[c] : c \in DOMAIN chunks}
    BY DEF Memory!Range
  <2>3. content \in Surjection(DOMAIN chunks, all)
    BY <2>2 DEF Surjection
  <2> HIDE DEF content, all, chunks
  <2> QED BY <2>1, <2>3, FS_Surjection
<1>5. Memory!Requests(w) \subseteq all
  BY <1>2
<1>6. all \subseteq UNION {Memory!Range(r.chunks) : r \in Revisions}
  BY <1>1
<1> QED BY <1>3, <1>4, <1>5, <1>6, FS_Subset

\* Whatever the provider returns has the vectors of its contents, or is noticed.
LEMMA OutputsAre ==
  ASSUME Memory!IndexAssumption, MemoryInv, NEW w \in Fiber, Memory!At(w) # "idle",
         NEW output \in Memory!Outputs(w),
         Memory!ValidOutput(Memory!Requests(w), output),
         NEW i \in DOMAIN output
  PROVE  output[i].vector = Memory!VectorOf(Memory!Task(w).profile, output[i].content)
<1> DEFINE p == Memory!Task(w).profile
           contents == Memory!SetToSeq(Memory!Requests(w))
           right == Memory!Embedded(w, contents)
           all == UNION {Memory!Range(r.chunks) : r \in Revisions}
           E == Answered(p)
<1>1. contents \in Seq(all)
  <2>1. contents \in Seq(Memory!Requests(w)) /\ Memory!Requests(w) \subseteq all
    BY RequestsAre, SequenceOf
  <2> HIDE DEF contents, all
  <2> QED BY <2>1
<1>2. right \in Seq(E)
  <2>1. right = [k \in 1..Len(contents) |->
                   [content |-> contents[k], vector |-> Memory!VectorOf(p, contents[k])]]
    BY DEF Memory!Embedded
  <2>2. \A k \in 1..Len(contents) : contents[k] \in all
    BY <1>1
  <2>3. \A k \in 1..Len(contents) :
          [content |-> contents[k], vector |-> Memory!VectorOf(p, contents[k])] \in E
    BY <2>2 DEF Answered
  <2>4. Len(contents) \in Nat
    BY <1>1
  <2> HIDE DEF contents, E, right
  <2> QED BY <2>1, <2>3, <2>4
<1>3. \A e \in E : e.vector = Memory!VectorOf(p, e.content)
  BY DEF Answered
<1>4. CASE output \in Seq(E)
  <2>1. output[i] \in E
    BY <1>4
  <2> QED BY <1>3, <2>1
<1>5. CASE right # <<>> /\ output = [right EXCEPT ![1].vector = Memory!Garbage]
  <2>1. 1 \in DOMAIN right /\ right[1] \in E
    BY <1>2, <1>5
  <2>2. DOMAIN right[1] = {"content", "vector"}
    BY <2>1 DEF Answered
  <2> HIDE DEF right
  <2>3. 1 \in DOMAIN output /\ output[1].vector = Memory!Garbage
    BY <1>5, <2>1, <2>2
  <2> QED BY <2>3 DEF Memory!ValidOutput
<1>6. CASE output \notin Seq(E) /\ ~ (right # <<>> /\ output = [right EXCEPT ![1].vector = Memory!Garbage])
  <2>1. \/ output = right
        \/ right # <<>> /\ \/ output = Tail(right) \/ output = Append(right, Head(right))
                           \/ \E c \in all : output = Append(right, Memory!Embedded(w, <<c>>)[1])
    BY <1>6 DEF Memory!Outputs
  <2>2. \A c \in all : Memory!Embedded(w, <<c>>)[1] \in E
    BY DEF Memory!Embedded, Answered
  <2> HIDE DEF right, E, all
  <2>3. \A e \in E : Append(right, e) \in Seq(E)
    BY <1>2
  <2>4. right # <<>> => Tail(right) \in Seq(E) /\ Head(right) \in E
    BY <1>2
  <2>5. output \in Seq(E)
    BY <1>2, <2>1, <2>2, <2>3, <2>4
  <2> QED BY <1>6, <2>5
<1> QED BY <1>4, <1>5, <1>6

LEMMA EmbedKeeps ==
  ASSUME Memory!IndexAssumption, MemoryInv, NEW w \in Fiber, Memory!Embed(w) PROVE MemoryInv'
<1>1. /\ Memory!At(w) = "embed"
      /\ UNCHANGED <<indexed, tokenSequence, replaced, refused>>
  BY DEF Memory!Embed
<1>2. PICK output \in Memory!Outputs(w) :
        \/ Memory!Goes(w, Memory!Idle)
        \/ /\ Memory!ValidOutput(Memory!Requests(w), output)
           /\ Memory!Goes(w, [fiber[w] EXCEPT !.at = "replace", !.embeddings = output])
  BY DEF Memory!Embed
<1>3. CASE Memory!Goes(w, Memory!Idle)
  BY <1>1, <1>3, FiberKeeps, IdleIs
<1> DEFINE f == [fiber[w] EXCEPT !.at = "replace", !.embeddings = output]
<1>4. CASE Memory!ValidOutput(Memory!Requests(w), output) /\ Memory!Goes(w, f)
  <2>1. /\ fiber[w].task = {Memory!Task(w)} /\ Memory!Task(w) \in Tasks /\ FiberOK(fiber[w])
        /\ fiber[w].at = "embed"
    BY <1>1, TaskIs DEF Memory!At
  <2>2. /\ DOMAIN f = {"at", "task", "snapshot", "embeddings"}
        /\ f.at = "replace" /\ f.snapshot = fiber[w].snapshot /\ f.task = fiber[w].task
        /\ f.embeddings = output
    BY <2>1 DEF FiberOK
  <2> HIDE DEF f
  <2>3. Requested(f) = Memory!Requests(w)
    BY <1>1, <2>2, RequestsAre DEF Requested
  <2>4. EmbeddingsHold(f)
    BY <1>1, <1>4, <2>1, <2>2, <2>3, OutputsAre DEF EmbeddingsHold
  <2>5. FiberOK(f)
    BY <2>1, <2>2, <2>4 DEF FiberOK, SnapshotHolds
  <2> QED BY <1>1, <1>4, <2>5, FiberKeeps
<1> QED BY <1>2, <1>3, <1>4

\* Where tokens match, the revision that is stored is the one that was loaded.
LEMMA MatchIsSame ==
  ASSUME MemoryInv, NEW w \in Fiber, Memory!At(w) = "replace", Memory!ExpectedTokenMatches(w)
  PROVE  Memory!Stored(w) = Memory!Snapshot(w)
<1> DEFINE stored == indexed[Memory!Task(w).key]
           seen == fiber[w].snapshot
<1>1. /\ RowsOK(stored) /\ RowsOK(seen)
      /\ \A x \in seen : \A r \in stored : r.token = x.token => r = x
  BY TaskIs DEF Memory!At, FiberOK, SnapshotHolds, MemoryInv, Tasks
<1>2. {r.token : r \in stored} = {r.token : r \in seen}
  BY DEF Memory!ExpectedTokenMatches, Memory!TokenOf, Memory!Stored, Memory!Snapshot
<1>3. \A r \in stored : \E x \in seen : x.token = r.token
  BY <1>2
<1>4. \A x \in seen : \E r \in stored : x.token = r.token
  BY <1>2
<1> HIDE DEF stored, seen
<1>5. stored \subseteq seen
  BY <1>1, <1>3
<1>6. seen \subseteq stored
  BY <1>1, <1>4
<1> QED BY <1>5, <1>6 DEF Memory!Stored, Memory!Snapshot, stored, seen

\* The delta, and what is stored, have a vector for every content, and the right one.
LEMMA DeltaIsWhole ==
  ASSUME Memory!IndexAssumption, MemoryInv, NEW w \in Fiber, Memory!At(w) = "replace",
         Memory!ExpectedTokenMatches(w)
  PROVE  /\ Memory!Plannable(w)
         /\ \A v \in Memory!Vectors(w) :
              v.vector = Memory!VectorOf(Memory!Task(w).profile, v.content)
         /\ \A h \in Memory!Range(Memory!Task(w).rev.chunks) :
              \E v \in Memory!Vectors(w) : v.content = h
<1> DEFINE t == Memory!Task(w)
           all == Memory!Range(t.rev.chunks)
           stored == indexed[t.key]
           given == fiber[w].embeddings
           reusable == Memory!ReusableVectors(w)
<1>1. /\ fiber[w].task = {t} /\ t \in Tasks
      /\ Memory!ValidOutput(Memory!Requests(w), given)
      /\ \A i \in DOMAIN given :
           given[i].vector = Memory!VectorOf(t.profile, given[i].content)
  BY TaskIs, RequestsAre DEF FiberOK, EmbeddingsHold, Memory!At
<1>2. stored = fiber[w].snapshot /\ RowsOK(stored)
  BY <1>1, MatchIsSame DEF Memory!Stored, Memory!Snapshot, MemoryInv, Tasks
<1>3. Memory!ToSet(Memory!Embeddings(w)) = {given[i] : i \in DOMAIN given}
  BY DEF Memory!ToSet, Memory!Embeddings
<1>4. reusable = UNION {{[content |-> r.contents[c], vector |-> r.vectors[c]] : c \in DOMAIN r.contents} :
                          r \in {x \in stored : x.profile = t.profile}}
  BY DEF Memory!ReusableVectors, Memory!Stored
<1>5. \A v \in reusable : v.vector = Memory!VectorOf(t.profile, v.content)
  <2> SUFFICES ASSUME NEW v \in reusable
               PROVE  v.vector = Memory!VectorOf(t.profile, v.content)
    OBVIOUS
  <2>1. PICK r \in stored : r.profile = t.profile /\ \E c \in DOMAIN r.contents :
          v = [content |-> r.contents[c], vector |-> r.vectors[c]]
    BY <1>4
  <2> QED BY <1>2, <2>1 DEF RowsOK, RowOK
<1>6. \A h \in Memory!ReusableContent(stored, t.profile) : \E v \in reusable : v.content = h
  <2> SUFFICES ASSUME NEW h \in Memory!ReusableContent(stored, t.profile)
               PROVE  \E v \in reusable : v.content = h
    OBVIOUS
  <2>1. PICK r \in stored : r.profile = t.profile /\ h \in Memory!Range(r.contents)
    BY DEF Memory!ReusableContent
  <2>2. PICK c \in DOMAIN r.contents : h = r.contents[c]
    BY <2>1 DEF Memory!Range
  <2>3. [content |-> r.contents[c], vector |-> r.vectors[c]] \in reusable
    BY <1>4, <2>1
  <2> QED BY <2>2, <2>3
<1>7. all \ Memory!Requests(w) \subseteq Memory!ReusableContent(stored, t.profile)
  BY <1>2 DEF Memory!Requests, Memory!Snapshot
<1>8. /\ Memory!Requests(w) = {given[i].content : i \in DOMAIN given}
      /\ \A i \in DOMAIN given : given[i].content \in Memory!Requests(w)
                                   /\ given[i].vector # Memory!Garbage
      /\ \A i, k \in DOMAIN given : given[i].content = given[k].content => i = k
  BY <1>1 DEF Memory!ValidOutput
<1> DEFINE embedded == {given[i] : i \in DOMAIN given}
<1>9. Memory!Vectors(w) = embedded \union {v \in reusable : \A s \in embedded : s.content # v.content}
  BY <1>3 DEF Memory!Vectors
<1> HIDE DEF reusable, stored, all, t
<1>10. \A v \in Memory!Vectors(w) : v.vector = Memory!VectorOf(t.profile, v.content)
  BY <1>1, <1>5, <1>9
<1>11. ASSUME NEW h \in all PROVE \E v \in Memory!Vectors(w) : v.content = h
  <2>1. CASE h \in Memory!Requests(w)
    BY <1>8, <1>9, <2>1
  <2>2. CASE h \notin Memory!Requests(w)
    BY <1>6, <1>7, <1>9, <2>2
  <2> QED BY <2>1, <2>2
<1>12. Memory!Requests(w) \subseteq all
  BY RequestsAre DEF Memory!At, all, t
<1>13. Memory!ValidOutputOfSome(all, given)
  BY <1>8, <1>12 DEF Memory!ValidOutputOfSome
<1>14. Memory!Plannable(w)
  BY <1>11, <1>13 DEF Memory!Plannable, Memory!Embeddings, all, t
<1> QED BY <1>10, <1>11, <1>14 DEF all, t

\* What the store does leaves every snapshot as good as it was: a new revision
\* has a token that nobody has seen.
LEMMA StoreKeeps ==
  ASSUME MemoryInv, tokenSequence' \in Nat, tokenSequence <= tokenSequence',
         \A k \in Key : \/ indexed'[k] = indexed[k] \/ indexed'[k] = {}
                        \/ \E r : /\ indexed'[k] = {r} /\ RowOK(r)'
                                  /\ r.token > tokenSequence,
         \A v \in Fiber : FiberOK(fiber'[v])
  PROVE  /\ \A k \in Key : RowsOK(indexed[k])'
         /\ \A v \in Fiber : FiberOK(fiber[v])'
<1>1. \A r : RowOK(r) => RowOK(r)'
  BY DEF RowOK, MemoryInv
<1>2. \A stored : RowsOK(stored) => RowsOK(stored)'
  BY <1>1 DEF RowsOK
<1>3. ASSUME NEW k \in Key PROVE (\A r, s \in indexed'[k] : r = s) /\ \A r \in indexed'[k] : RowOK(r)'
  <2>1. CASE indexed'[k] = indexed[k]
    BY <1>1, <2>1 DEF MemoryInv, RowsOK
  <2>2. CASE indexed'[k] = {}
    BY <2>2
  <2>3. CASE \E r : indexed'[k] = {r} /\ RowOK(r)'
    BY <2>3
  <2> QED BY <2>1, <2>2, <2>3
<1>4. ASSUME NEW f, FiberOK(f) PROVE FiberOK(f)'
  <2>1. ASSUME f.at \in {"embed", "replace"}, NEW t \in f.task, NEW x \in f.snapshot,
               NEW r \in indexed'[t.key], r.token = x.token
        PROVE  r = x
    <3>1. t.key \in Key
      BY <1>4, <2>1 DEF FiberOK, Tasks
    <3>2. RowOK(x)
      BY <1>4, <2>1 DEF FiberOK, SnapshotHolds, RowsOK
    <3>3. ~ (r.token > tokenSequence)
      BY <2>1, <3>2 DEF RowOK, MemoryInv
    <3>4. r \in indexed[t.key]
      BY <2>1, <3>1, <3>3
    <3> QED BY <1>4, <2>1, <3>4 DEF FiberOK, SnapshotHolds
  <2>2. SnapshotHolds(f)'
    BY <1>2, <1>4, <2>1 DEF FiberOK, SnapshotHolds
  <2> QED BY <1>4, <2>2 DEF FiberOK, EmbeddingsHold, Requested
<1>5. ASSUME NEW v \in Fiber PROVE FiberOK(fiber[v])'
  <2>1. PICK f : f = fiber'[v]
    OBVIOUS
  <2>2. FiberOK(f)'
    BY <1>4, <2>1
  <2> QED BY <2>1, <2>2 DEF FiberOK, SnapshotHolds, EmbeddingsHold, RowsOK, RowOK, Requested
<1>6. ASSUME NEW k \in Key PROVE RowsOK(indexed[k])'
  <2>1. PICK stored : stored = indexed'[k]
    OBVIOUS
  <2> QED BY <1>3, <2>1 DEF RowsOK, RowOK
<1> QED BY <1>5, <1>6

LEMMA ReplaceRevisionKeepsIt ==
  ASSUME Memory!IndexAssumption, MemoryInv, NEW w \in Fiber, Memory!ReplaceRevision(w)
  PROVE  MemoryInv'
<1> DEFINE t == Memory!Task(w)
<1>1. /\ Memory!At(w) = "replace" /\ fiber[w].task = {t} /\ t \in Tasks
      /\ FiberOK(fiber[w])
  BY TaskIs DEF Memory!ReplaceRevision
<1>2. CASE ~ Memory!ExpectedTokenMatches(w)
  <2> DEFINE f == [Memory!Idle EXCEPT !.at = "load", !.task = fiber[w].task]
  <2>1. Memory!Goes(w, f) /\ UNCHANGED <<indexed, tokenSequence, replaced, refused>>
    BY <1>2 DEF Memory!ReplaceRevision
  <2>2. DOMAIN f = {"at", "task", "snapshot", "embeddings"} /\ f.at = "load" /\ f.task = {t}
    BY <1>1 DEF Memory!Idle
  <2> HIDE DEF f
  <2>3. FiberOK(f)
    BY <1>1, <2>2 DEF FiberOK, SnapshotHolds, EmbeddingsHold
  <2> QED BY <2>1, <2>3, FiberKeeps
<1>3. CASE Memory!ExpectedTokenMatches(w)
  <2>1. Memory!Plannable(w)
    BY <1>1, <1>3, DeltaIsWhole
  <2> DEFINE chunks == t.rev.chunks
             vectors == [c \in DOMAIN chunks |->
                           (CHOOSE v \in Memory!Vectors(w) : v.content = chunks[c]).vector]
             new == [token |-> tokenSequence + 1, birth |-> replaced + 1, rev |-> t.rev,
                     profile |-> t.profile, contents |-> chunks, vectors |-> vectors]
  <2>2. /\ Memory!Goes(w, Memory!Idle) /\ UNCHANGED refused
        /\ tokenSequence' = tokenSequence + 1 /\ replaced' = replaced + 1
        /\ indexed' = [indexed EXCEPT ![t.key] = {new}]
    BY <1>3, <2>1 DEF Memory!ReplaceRevision, Memory!Some, Memory!Token
  <2>3. ASSUME NEW c \in DOMAIN chunks
        PROVE  vectors[c] = Memory!VectorOf(t.profile, chunks[c])
    <3>1. chunks[c] \in Memory!Range(chunks)
      BY DEF Memory!Range
    <3>2. PICK v \in Memory!Vectors(w) : v.content = chunks[c]
      BY <1>1, <1>3, <3>1, DeltaIsWhole
    <3> DEFINE chosen == CHOOSE u \in Memory!Vectors(w) : u.content = chunks[c]
    <3>3. chosen \in Memory!Vectors(w) /\ chosen.content = chunks[c]
      BY <3>2
    <3>4. vectors[c] = chosen.vector
      OBVIOUS
    <3> HIDE DEF chosen, vectors
    <3> QED BY <1>1, <1>3, <3>3, <3>4, DeltaIsWhole
  <2>4. PICK row : row = new
    OBVIOUS
  <2>5. /\ row.token = tokenSequence + 1 /\ row.profile = t.profile
        /\ row.contents = chunks /\ row.vectors = vectors /\ DOMAIN vectors = DOMAIN chunks
    BY <2>4
  <2>6. indexed' = [indexed EXCEPT ![t.key] = {row}]
    BY <2>2, <2>4
  <2> HIDE DEF new, vectors, chunks
  <2>7. tokenSequence \in Nat /\ replaced \in Nat /\ DOMAIN indexed = Key /\ t.key \in Key
    BY <1>1 DEF MemoryInv, Tasks
  <2>8. RowOK(row)' /\ row.token > tokenSequence
    BY <2>2, <2>3, <2>5, <2>7 DEF RowOK
  <2>9. /\ DOMAIN indexed' = Key /\ indexed'[t.key] = {row}
        /\ \A k \in Key \ {t.key} : indexed'[k] = indexed[k]
    BY <2>6, <2>7
  <2>11. /\ fiber' = [v \in Fiber |-> fiber'[v]]
         /\ fiber'[w] = Memory!Idle /\ \A v \in Fiber \ {w} : fiber'[v] = fiber[v]
    BY <2>2, Going
  <2>12. \A v \in Fiber : FiberOK(fiber'[v])
    BY <2>11, IdleIs DEF MemoryInv
  <2>10. /\ \A k \in Key : RowsOK(indexed[k])'
         /\ \A v \in Fiber : FiberOK(fiber[v])'
    BY <2>2, <2>7, <2>8, <2>9, <2>12, StoreKeeps
  <2> QED BY <2>2, <2>7, <2>9, <2>10, <2>11 DEF MemoryInv
<1> QED BY <1>2, <1>3

LEMMA RemoveKeeps ==
  ASSUME MemoryInv, DOMAIN indexed' = Key,
         \A k \in Key : indexed'[k] = indexed[k] \/ indexed'[k] = {},
         UNCHANGED <<tokenSequence, fiber, replaced, refused>>
  PROVE  MemoryInv'
<1>1. /\ tokenSequence' \in Nat /\ tokenSequence <= tokenSequence'
      /\ \A v \in Fiber : FiberOK(fiber'[v])
  BY DEF MemoryInv
<1>2. /\ \A k \in Key : RowsOK(indexed[k])'
      /\ \A v \in Fiber : FiberOK(fiber[v])'
  BY <1>1, StoreKeeps
<1> QED BY <1>2 DEF MemoryInv

LEMMA MemorySteps ==
  ASSUME Memory!IndexAssumption, MemoryInv, [Memory!Next]_(Memory!vars) PROVE MemoryInv'
<1>1. ASSUME NEW w \in Fiber, Memory!BeginIndex(w) \/ Memory!Proceed(w) PROVE MemoryInv'
  BY <1>1, BeginIndexKeeps, LoadKeepsIt, EmbedKeeps, ReplaceRevisionKeepsIt DEF Memory!Proceed
<1>2. ASSUME NEW k \in Key, Memory!DeleteRevision(k) PROVE MemoryInv'
  BY <1>2, RemoveKeeps DEF Memory!DeleteRevision, Memory!None, MemoryInv
<1>3. ASSUME NEW m \in Manifests, Memory!PruneGraph(m) PROVE MemoryInv'
  <2>1. /\ indexed' = [k \in Key |-> IF k \in Memory!Unregistered(m) THEN {} ELSE indexed[k]]
        /\ UNCHANGED <<tokenSequence, fiber, replaced, refused>>
    BY <1>3 DEF Memory!PruneGraph, Memory!None
  <2>2. /\ DOMAIN indexed' = Key
        /\ \A k \in Key : indexed'[k] = indexed[k] \/ indexed'[k] = {}
    BY <2>1
  <2> QED BY <2>1, <2>2, RemoveKeeps
<1>4. CASE UNCHANGED Memory!vars
  <2>1. UNCHANGED <<indexed, tokenSequence, fiber, replaced, refused>>
    BY <1>4 DEF Memory!vars
  <2>2. DOMAIN indexed' = Key /\ \A k \in Key : indexed'[k] = indexed[k]
    BY <2>1 DEF MemoryInv
  <2> QED BY <2>1, <2>2, RemoveKeeps
<1> QED BY <1>1, <1>2, <1>3, <1>4 DEF Memory!Next

LEMMA MemoryAlways == Memory!IndexAssumption /\ Memory!Spec => []MemoryInv
<1> SUFFICES ASSUME Memory!IndexAssumption PROVE Memory!Spec => []MemoryInv
  OBVIOUS
<1>1. MemoryInv /\ [Memory!Next]_(Memory!vars) => MemoryInv'
  BY MemorySteps
<1> QED BY <1>1, MemoryStarts, PTL DEF Memory!Spec

\* Over the in-memory index, too, the delta that an indexer computes from a
\* snapshot is what the store can complete (indexProjectedRevision), for any
\* number of fibers, keys and profiles, and whatever the provider returns.
THEOREM MemoryDeltasSuffice ==
  Memory!IndexAssumption /\ Memory!Spec => []Memory!DeltaSuffices
<1>1. MemoryInv => Memory!DeltaSuffices
  BY DEF MemoryInv, RowsOK, RowOK, Memory!DeltaSuffices
<1> QED BY <1>1, MemoryAlways, PTL

\* Whatever revision a replacement takes the place of, its plan has seen it, also
\* when the one it had seen was deleted and the projection indexed anew meanwhile.
THEOREM MemoryUpdatesAreKept ==
  Memory!IndexAssumption /\ Memory!Spec => Memory!NoLostUpdate
<1>1. MemoryInv /\ [Memory!Next]_(Memory!vars) => [Memory!ReplacesWhatItSaw]_(Memory!vars)
  <2> SUFFICES ASSUME MemoryInv, NEW w \in Fiber, Memory!ReplaceRevision(w), replaced' > replaced
               PROVE  Memory!BirthOf(Memory!Stored(w)) \subseteq Memory!BirthOf(Memory!Snapshot(w))
    BY DEF Memory!ReplacesWhatItSaw
  <2>1. Memory!At(w) = "replace" /\ Memory!ExpectedTokenMatches(w)
    BY DEF Memory!ReplaceRevision, MemoryInv
  <2> QED BY <2>1, MatchIsSame
<1> QED BY <1>1, MemoryAlways, PTL DEF Memory!Spec, Memory!NoLostUpdate

-----------------------------------------------------------------------------
(* The population that within resolves: any documents, limits and batches.     *)
(*                                                                         *)
(* The argument: a read that returns fewer than the limit has left nothing     *)
(* out; what is related all along was related when its target was read; and    *)
(* that only ever shrinks.                                                    *)

CONSTANTS Precision, RankConstant, Parts, Relevance,
          Sources, Goals, Contents, Populations, Candidates, NeighboursPerSource,
          ScopeNeighbourLimit, MaximumDocuments, BatchSize, MaximumEvidence, Results,
          RouteWeights, MaxRelations
VARIABLES store, relations, related, caller, scope, hits, neighbours, outcome, always, ever

Retrieval == INSTANCE GraphRetrieval WITH MaxChanges <- MaxRelations,
               edges <- relations, changes <- related

\* While the population is resolved, what was related to a target that has been
\* read all along is among the sources that were found.
Found(s) == \A e \in always : e[2] \in s.goals \ s.unread => e[1] \in s.sources

PopulationInv ==
  /\ relations \subseteq Sources \X Goals /\ always \subseteq relations
  /\ \A s, t \in scope : s = t
  /\ \A s \in scope :
       /\ s = [goals |-> s.goals, unread |-> s.unread, sources |-> s.sources]
       /\ s.goals \subseteq Goals
       /\ Found(s)
  /\ caller = "idle" => scope = {}
  /\ caller = "within" => scope # {}
  /\ caller = "scoped" => scope # {} /\ \A s \in scope : s.unread = {}

LEMMA CountedAlike == ASSUME NEW S PROVE Retrieval!Cardinality(S) = Cardinality(S)
BY DEF Cardinality, Retrieval!Cardinality

\* A read of fewer than the limit has left nothing out.
LEMMA FirstIsAll ==
  ASSUME NEW S \in SUBSET Nat, IsFiniteSet(S), NEW n \in Nat,
         Cardinality(Retrieval!First(S, n)) < n
  PROVE  Retrieval!First(S, n) = S
<1> DEFINE before(x) == {y \in S : y < x}
           first == {x \in S : Cardinality(before(x)) < n}
           rest == S \ first
<1>1. Retrieval!First(S, n) = first
  BY CountedAlike DEF Retrieval!First
<1>2. ASSUME rest # {} PROVE FALSE
  <2>1. PICK g \in rest : \A h \in rest : ~ (<<h, g>> \in OpToRel(<, Nat))
    <3>1. rest \subseteq Nat
      OBVIOUS
    <3> HIDE DEF rest
    <3> QED BY <1>2, <3>1, NatLessThanWellFounded, WFMin
  <2>2. \A h \in rest : ~ (h < g)
    BY <2>1 DEF OpToRel
  <2>3. before(g) \subseteq first
    BY <2>2
  <2>4. ~ (Cardinality(before(g)) < n) /\ g \in S
    OBVIOUS
  <2>5. /\ IsFiniteSet(first) /\ Cardinality(before(g)) <= Cardinality(first)
        /\ Cardinality(before(g)) \in Nat /\ Cardinality(first) \in Nat
    <3>1. IsFiniteSet(first)
      <4>1. first \subseteq S
        OBVIOUS
      <4> HIDE DEF first
      <4> QED BY <4>1, FS_Subset
    <3> HIDE DEF first, before
    <3>2. IsFiniteSet(before(g)) /\ Cardinality(before(g)) <= Cardinality(first)
      BY <2>3, <3>1, FS_Subset
    <3> QED BY <3>1, <3>2, FS_CardinalityType
  <2> HIDE DEF first, before
  <2> QED BY <1>1, <2>4, <2>5
<1> QED BY <1>1, <1>2

LEMMA SourcesRead ==
  ASSUME Retrieval!RetrievalAssumption, PopulationInv, NEW goal,
         ~ Retrieval!MayBeCut(Retrieval!First(Retrieval!SourcesOf(goal), ScopeNeighbourLimit))
  PROVE  Retrieval!First(Retrieval!SourcesOf(goal), ScopeNeighbourLimit)
           = {s \in Sources : <<s, goal>> \in relations}
<1> DEFINE S == {s \in Sources : <<s, goal>> \in relations}
<1>1. Retrieval!SourcesOf(goal) = S
  BY DEF Retrieval!SourcesOf
<1>2. S \in SUBSET Nat /\ S \subseteq Sources /\ IsFiniteSet(Sources)
  BY DEF Retrieval!RetrievalAssumption, IsFiniteSet, Retrieval!IsFiniteSet
<1>3. IsFiniteSet(S) /\ ScopeNeighbourLimit \in Nat
  <2> HIDE DEF S
  <2> QED BY <1>2, FS_Subset DEF Retrieval!RetrievalAssumption
<1> HIDE DEF S
<1>4. IsFiniteSet(Retrieval!First(S, ScopeNeighbourLimit))
  BY <1>3, FS_Subset DEF Retrieval!First
<1>5. Cardinality(Retrieval!First(S, ScopeNeighbourLimit)) < ScopeNeighbourLimit
  BY <1>1, <1>3, <1>4, FS_CardinalityType, CountedAlike DEF Retrieval!MayBeCut
<1> QED BY <1>1, <1>2, <1>3, <1>5, FirstIsAll DEF S

LEMMA ResolveBatchKeeps ==
  ASSUME Retrieval!RetrievalAssumption, PopulationInv, Retrieval!ResolveBatch
  PROVE  PopulationInv'
<1>1. caller = "within" /\ UNCHANGED <<relations, caller, always>>
  BY DEF Retrieval!ResolveBatch
<1>2. PICK s \in scope : scope = {s} /\ Retrieval!The(scope) = s
  BY <1>1 DEF PopulationInv, Retrieval!The
<1>3. PICK batch \in Retrieval!Batches(s.goals) :
        LET reads == {Retrieval!First(Retrieval!SourcesOf(goal), ScopeNeighbourLimit) : goal \in batch}
        IN  /\ batch \subseteq s.unread
            /\ IF \E one \in reads : Retrieval!MayBeCut(one)
               THEN UNCHANGED scope
               ELSE scope' = {[goals |-> x.goals, unread |-> x.unread \ batch,
                               sources |-> x.sources \union (UNION reads)] : x \in scope}
  BY <1>2 DEF Retrieval!ResolveBatch
<1> DEFINE readOf(goal) == Retrieval!First(Retrieval!SourcesOf(goal), ScopeNeighbourLimit)
           reads == {readOf(goal) : goal \in batch}
<1>4. CASE \E one \in reads : Retrieval!MayBeCut(one)
  <2>1. UNCHANGED scope
    BY <1>3, <1>4
  <2> QED BY <1>1, <2>1 DEF PopulationInv, Found
<1>5. CASE \A one \in reads : ~ Retrieval!MayBeCut(one)
  <2>0. PICK new : new = [goals |-> s.goals, unread |-> s.unread \ batch,
                          sources |-> s.sources \union (UNION reads)]
    OBVIOUS
  <2>1. scope' = {new}
    BY <1>2, <1>3, <1>5, <2>0
  <2>2. ASSUME NEW e \in always, e[2] \in new.goals \ new.unread
        PROVE  e[1] \in new.sources
    <3>1. CASE e[2] \in batch
      <4>1. e \in relations /\ e = <<e[1], e[2]>> /\ e[1] \in Sources
        BY <2>2 DEF PopulationInv
      <4>2. readOf(e[2]) = {x \in Sources : <<x, e[2]>> \in relations}
        BY <1>5, <3>1, SourcesRead
      <4>3. readOf(e[2]) \in reads
        BY <3>1
      <4> HIDE DEF readOf, reads
      <4> QED BY <2>0, <4>1, <4>2, <4>3
    <3>2. CASE e[2] \notin batch
      <4>1. e[2] \in s.goals \ s.unread /\ s.sources \subseteq new.sources
        BY <2>0, <2>2, <3>2
      <4> QED BY <1>2, <2>2, <4>1 DEF PopulationInv, Found
    <3> QED BY <3>1, <3>2
  <2>3. Found(new)'
    BY <1>1, <2>2 DEF Found
  <2>4. new.goals \subseteq Goals
        /\ new = [goals |-> new.goals, unread |-> new.unread, sources |-> new.sources]
    BY <2>0 DEF PopulationInv
  <2> QED BY <1>1, <2>1, <2>3, <2>4 DEF PopulationInv
<1> QED BY <1>4, <1>5

LEMMA PopulationStep ==
  ASSUME Retrieval!RetrievalAssumption, PopulationInv, [Retrieval!Next]_(Retrieval!vars)
  PROVE  PopulationInv'
<1>1. ASSUME NEW s \in Sources, Retrieval!Relate(s) PROVE PopulationInv'
  BY <1>1 DEF Retrieval!Relate, PopulationInv, Found
<1>2. CASE Retrieval!Within
  <2>1. caller = "idle" /\ UNCHANGED <<relations, always>>
    BY <1>2 DEF Retrieval!Within
  <2>2. CASE UNCHANGED <<caller, scope>>
    BY <2>1, <2>2 DEF PopulationInv, Found
  <2>3. ASSUME NEW goals \in Populations, caller' = "within",
               scope' = {[goals |-> goals, unread |-> goals, sources |-> {}]}
        PROVE  PopulationInv'
    BY <2>1, <2>3 DEF PopulationInv, Found, Retrieval!RetrievalAssumption
  <2> QED BY <1>2, <2>2, <2>3 DEF Retrieval!Within, Retrieval!Some
<1>3. CASE Retrieval!ResolveBatch
  BY <1>3, ResolveBatchKeeps
<1>4. CASE Retrieval!Resolved
  BY <1>4 DEF Retrieval!Resolved, Retrieval!The, PopulationInv, Found
<1>5. CASE Retrieval!Search
  BY <1>5 DEF Retrieval!Search, PopulationInv, Found
<1>6. ASSUME NEW r \in Retrieval!Routes, Retrieval!SearchRoute(r) PROVE PopulationInv'
  BY <1>6 DEF Retrieval!SearchRoute, PopulationInv, Found
<1>7. CASE Retrieval!ExpandBatch
  BY <1>7 DEF Retrieval!ExpandBatch, PopulationInv, Found
<1>8. CASE Retrieval!Assemble
  BY <1>8 DEF Retrieval!Assemble, PopulationInv, Found
<1>9. CASE UNCHANGED Retrieval!vars
  BY <1>9 DEF Retrieval!vars, PopulationInv, Found
<1> QED BY <1>1, <1>2, <1>3, <1>4, <1>5, <1>6, <1>7, <1>8, <1>9 DEF Retrieval!Next

\* README, "A larger population fails ... instead of searching an arbitrary
\* subset": a population that within resolves in batches, while relations
\* change, misses no document that was related to one of its targets all along
\* (relatedSourceKeys), for any documents, limits and sizes of batches.
THEOREM PopulationStaysComplete ==
  Retrieval!RetrievalAssumption /\ Retrieval!Spec => []Retrieval!PopulationIsComplete
<1> SUFFICES ASSUME Retrieval!RetrievalAssumption
             PROVE  Retrieval!Spec => []Retrieval!PopulationIsComplete
  OBVIOUS
<1>1. Retrieval!Init => PopulationInv
  BY DEF Retrieval!Init, Retrieval!None, PopulationInv
<1>2. PopulationInv /\ [Retrieval!Next]_(Retrieval!vars) => PopulationInv'
  BY PopulationStep
<1>3. PopulationInv => Retrieval!PopulationIsComplete
  BY DEF PopulationInv, Found, Retrieval!PopulationIsComplete, Retrieval!The
<1> QED BY <1>1, <1>2, <1>3, PTL DEF Retrieval!Spec
=============================================================================

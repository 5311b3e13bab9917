-------------------------- MODULE CoalescedSearches --------------------------
(***************************************************************************)
(* coalescedExecutor (storage/turbopuffer/projection-search.ts): searches   *)
(* that arrive together are packed into multi-queries of a bounded number   *)
(* of subqueries, which are sent at once and answered in any order; each    *)
(* search is handed the rows of its own subqueries.                         *)
(***************************************************************************)
EXTENDS RequestCoalescer

CONSTANTS
  Subqueries,        \* the number of subqueries of each search
  MaximumSubqueries  \* of one multi-query: 16

SubqueriesAssumption ==
  \A r \in Request : Subqueries[r] \in 1..MaximumSubqueries

VARIABLE received  \* the outcome of each multi-query of a running batch

vars == <<coalescerVars, received>>

SearchesInit == CoalescerInit /\ received = {}

SubqueriesOf(searches) ==
  FoldLeft(LAMBDA sum, r : sum + Subqueries[r], 0, searches)

\* Mutant of Packed: searches are counted, not their subqueries.
PackedBySearches(batch) ==
  FoldLeft(LAMBDA requests, r :
      IF requests = <<>> \/ Len(Last(requests)) + 1 > MaximumSubqueries
        THEN Append(requests, <<r>>)
      ELSE Append(Front(requests), Append(Last(requests), r)),
    <<>>, batch)

\* The searches of each multi-query, filled one after the other.
Packed(batch) ==
  FoldLeft(LAMBDA requests, r :
      IF requests = <<>>
           \/ SubqueriesOf(Last(requests)) + Subqueries[r] > MaximumSubqueries
        THEN Append(requests, <<r>>)
      ELSE Append(Front(requests), Append(Last(requests), r)),
    <<>>, batch)

RowsOf(r) == [i \in 1..Subqueries[r] |-> <<r, i>>]

\* A multi-query is answered with the rows of its subqueries in order; it may
\* fail, or its response may be refused (decodeMultiQueryResults).
Receive(batch, request) ==
  /\ batch \in running
  /\ \A q \in received : q.request # request
  /\ \E ok \in BOOLEAN :
       received' = received \cup
         {[batch |-> batch, request |-> request, ok |-> ok,
           rows |-> IF ok THEN FlattenSeq([i \in 1..Len(request) |-> RowsOf(request[i])])
                    ELSE <<>>]}
  /\ UNCHANGED coalescerVars

\* Mutant of Outcome: every search takes its rows from the start of the answer.
OutcomeFromStart(r, q) ==
  IF ~q.ok THEN Failed ELSE Fulfilled(SubSeq(q.rows, 1, Subqueries[r]))

\* The slice of a multi-query's rows that belongs to one of its searches.
Outcome(r, q) ==
  LET before == SelectInSeq(q.request, LAMBDA s : s = r) - 1
      offset == SubqueriesOf(SubSeq(q.request, 1, before))
  IN  IF ~q.ok THEN Failed
      ELSE Fulfilled(SubSeq(q.rows, offset + 1, offset + Subqueries[r]))

OutcomesOf(batch) == {q \in received : q.batch = batch}

\* Mutant of Outcomes: the first failure fails the whole run.
OutcomesTogether(batch) ==
  [i \in 1..Len(batch) |->
     IF \E q \in OutcomesOf(batch) : ~q.ok THEN Failed
     ELSE Outcome(batch[i],
            CHOOSE q \in OutcomesOf(batch) : Contains(q.request, batch[i]))]

Outcomes(batch) ==
  [i \in 1..Len(batch) |->
     Outcome(batch[i], CHOOSE q \in OutcomesOf(batch) : Contains(q.request, batch[i]))]

\* run resolves once every multi-query has an outcome.
Answer(batch) ==
  /\ ToSet(Packed(batch)) = {q.request : q \in OutcomesOf(batch)}
  /\ Settle(batch, Outcomes(batch))
  /\ UNCHANGED received

Collect ==
  /\ \/ \E r \in Request : Submit(r)
     \/ \E t \in timers : Fire(t)
  /\ UNCHANGED received

SearchesNext ==
  \/ Collect
  \/ \E b \in running : Answer(b) \/ \E q \in ToSet(Packed(b)) : Receive(b, q)
  \/ Finished /\ UNCHANGED received

SearchesSpec == SearchesInit /\ [][SearchesNext]_vars
-----------------------------------------------------------------------------
\* A search that succeeds is answered with the rows of its own subqueries, in
\* their order, whatever it was packed with.
OwnRows ==
  \A r \in Request :
    answer[r].kind = "fulfilled" => answer[r].result = RowsOf(r)

\* A failed multi-query fails the searches packed into it and no others.
FailuresStayApart ==
  \A r \in Request : answer[r] # Unsettled =>
    (answer[r] = Failed
       <=> \E q \in received : Contains(q.request, r) /\ ~q.ok)

\* No multi-query has more subqueries than the provider takes.
RequestsFit ==
  \A b \in running : \A q \in ToSet(Packed(b)) : SubqueriesOf(q) <= MaximumSubqueries
=============================================================================

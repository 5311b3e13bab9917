--------------------------- MODULE CoalescedWrites ---------------------------
(***************************************************************************)
(* makePublicationRowWriter (storage/turbopuffer/projection-index.ts):      *)
(* publications that arrive together share one conditional write, and each  *)
(* learns from the ids the provider reports how many of its own rows were    *)
(* applied.  What it learns decides whether it finalises, reads its marker   *)
(* or gives up, so it has to be true.                                       *)
(*                                                                         *)
(* Assumption on the provider: it refuses a write that names one row twice. *)
(***************************************************************************)
EXTENDS RequestCoalescer, FiniteSets

CONSTANT Publication  \* the [doc, gen, pub, slots] of each request

\* What TurbopufferPublication's leases guarantee: a lease has no fewer slots than
\* an older one of its document, and is one publication however often it is sent.
WritesAssumption ==
  /\ CoalescerAssumption
  /\ \A r \in Request : Publication[r].gen \in Nat /\ Publication[r].slots \in Nat
  /\ \A q, r \in Request : Publication[q].doc = Publication[r].doc =>
       /\ Publication[q].gen < Publication[r].gen => Publication[q].slots <= Publication[r].slots
       /\ Publication[q].gen = Publication[r].gen =>
            Publication[q].pub = Publication[r].pub /\ Publication[q].slots = Publication[r].slots

VARIABLES
  rows,     \* the provider's rows: Option of [gen, pub] by <<doc, slot>>
  written,  \* the responses to running batches that the provider has answered
  applied   \* history: how many rows of each request the provider applied

vars == <<coalescerVars, rows, written, applied>>

RowIds(r) == {<<Publication[r].doc, s>> : s \in 0..Publication[r].slots}
AllRows == UNION {RowIds(r) : r \in Request}

WritesInit ==
  /\ CoalescerInit
  /\ rows = [id \in AllRows |-> {}]
  /\ written = {}
  /\ applied = [r \in Request |-> 0]

Size(r) == Cardinality(RowIds(r))

\* The rows of a merged write, by the place of their publication in the batch.
MergedRows(batch) == {row \in (1..Len(batch)) \X AllRows : row[2] \in RowIds(batch[row[1]])}

\* Mutant of Admits: the merged write carries no condition.
AdmitsAlways(r, id) == TRUE

\* generationFence: the row is older, or was written by the publication itself.
Admits(r, id) ==
  \A old \in rows[id] :
    \/ old.gen < Publication[r].gen
    \/ old.gen = Publication[r].gen /\ old.pub = Publication[r].pub

AffectedOf(r) == {id \in RowIds(r) : Admits(r, id)}

NamesTwice(batch) ==
  \E i, j \in 1..Len(batch) : i # j /\ RowIds(batch[i]) \cap RowIds(batch[j]) # {}

Responses(batch) ==
  LET ids == UNION {AffectedOf(batch[i]) : i \in 1..Len(batch)}
  IN  {[ok |-> TRUE, count |-> Cardinality(ids), ids |-> option] :
         option \in {{ids}, {}}}  \* upserted_ids is optional

Failure == [ok |-> FALSE, count |-> 0, ids |-> {}]

\* The provider applies the merged write and answers it, or the answer is lost.
Write(batch) ==
  /\ batch \in running
  /\ \A w \in written : w.batch # batch
  /\ ~NamesTwice(batch)
  /\ rows' = [id \in AllRows |->
       LET by == {i \in 1..Len(batch) : id \in AffectedOf(batch[i])}
       IN  IF by = {} THEN rows[id]
           ELSE {[gen |-> Publication[batch[i]].gen, pub |-> Publication[batch[i]].pub] :
                   i \in by}]
  /\ applied' = [r \in Request |->
       IF Contains(batch, r) THEN Cardinality(AffectedOf(r)) ELSE applied[r]]
  /\ \E response \in Responses(batch) \cup {Failure} :
       written' = written \cup {[batch |-> batch, response |-> response]}
  /\ UNCHANGED coalescerVars

\* The request is refused, or fails before the provider has seen it.
Refuse(batch) ==
  /\ batch \in running
  /\ \A w \in written : w.batch # batch
  /\ written' = written \cup {[batch |-> batch, response |-> Failure]}
  /\ UNCHANGED <<coalescerVars, rows, applied>>

\* Mutant of Counts: the count of the whole write is each publication's.
CountsOfWrite(batch, response) ==
  [i \in 1..Len(batch) |->
     IF ~response.ok THEN Failed
     ELSE IF response.count = 0 THEN Fulfilled(0)
     ELSE Fulfilled(Size(batch[i]))]

\* What run makes of the response: all, none, the reported ids, or a failure.
Counts(batch, response) ==
  [i \in 1..Len(batch) |->
     IF ~response.ok THEN Failed
     ELSE IF response.count = Cardinality(MergedRows(batch)) THEN Fulfilled(Size(batch[i]))
     ELSE IF response.count = 0 THEN Fulfilled(0)
     ELSE IF response.ids = {} THEN Failed
     ELSE Fulfilled(Cardinality(RowIds(batch[i]) \cap UNION response.ids))]

Answer(batch) ==
  \E w \in written :
    /\ w.batch = batch
    /\ Settle(batch, Counts(batch, w.response))
    /\ written' = written \ {w}
    /\ UNCHANGED <<rows, applied>>

Collect ==
  /\ \/ \E r \in Request : Submit(r)
     \/ \E t \in timers : Fire(t)
  /\ UNCHANGED <<rows, written, applied>>

WritesNext ==
  \/ Collect
  \/ \E b \in running : Write(b) \/ Refuse(b) \/ Answer(b)
  \/ Finished /\ UNCHANGED <<rows, written, applied>>

WritesSpec == WritesInit /\ [][WritesNext]_vars
-----------------------------------------------------------------------------
\* A publication that is told a number of rows had exactly so many applied by
\* the shared write: all of them, so that it may finalise, or none.
AnswersAreTrue ==
  \A r \in Request : answer[r] \notin {Unsettled, Failed} =>
    /\ answer[r].result = applied[r]
    /\ answer[r].result \in {0, Size(r)}

\* Merging weakens no fence: the rows of an applied publication are never
\* taken back by an older one, though either went into a merged write and its
\* answer may have been lost.
MergedWritesKeepFences ==
  \A r \in Request : applied[r] > 0 =>
    \A id \in RowIds(r) : \E row \in rows[id] :
      /\ rows[id] = {row}
      /\ row.gen >= Publication[r].gen
=============================================================================

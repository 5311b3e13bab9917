--------------------------- MODULE RequestCoalescer ---------------------------
(***************************************************************************)
(* makeRequestCoalescer (storage/postgres/coalesce.ts): requests that       *)
(* arrive together under one key are collected in a batch, which one call   *)
(* of run answers.  JavaScript runs one callback at a time, so a step is a   *)
(* submit, a timer callback, or the settlement of a run's promise.          *)
(*                                                                         *)
(* What run does with a batch is left to the modules that use this one:     *)
(* here it answers each request, answers too few, or fails.                 *)
(***************************************************************************)
EXTENDS Integers, Sequences, SequencesExt

CONSTANTS
  Request,       \* the requests ever submitted, each submitted once
  KeyOf,         \* the key each is submitted under
  MaximumBatch

CoalescerAssumption == MaximumBatch \in Nat \ {0}

VARIABLES
  pending,  \* the open batch of each key, <<>> if there is none
  timers,   \* the batches, by key and first request, whose timer is set
  running,  \* the batches handed to run and not yet settled
  answer    \* how each request's promise was settled

coalescerVars == <<pending, timers, running, answer>>

Keys == {KeyOf[r] : r \in Request}
Unsettled == [kind |-> "unsettled"]
Failed == [kind |-> "failed"]
Fulfilled(result) == [kind |-> "fulfilled", result |-> result]

CoalescerInit ==
  /\ pending = [k \in Keys |-> <<>>]
  /\ timers = {}
  /\ running = {}
  /\ answer = [r \in Request |-> Unsettled]

Submitted(r) ==
  \/ answer[r] # Unsettled
  \/ \E k \in Keys : Contains(pending[k], r)
  \/ \E b \in running : Contains(b, r)

TimerOf(k, batch) == <<k, Head(batch)>>

\* Mutant of Flushed: clearTimeout is missing.
FlushedLeavingTimer(k, batch) ==
  /\ running' = IF batch = <<>> THEN running ELSE running \cup {batch}
  /\ pending' = [pending EXCEPT ![k] = <<>>]
  /\ timers' = timers \cup {TimerOf(k, batch)}

\* Mutant of Flushed: the batch stays open while it runs.
FlushedStayingOpen(k, batch) ==
  /\ running' = IF batch = <<>> THEN running ELSE running \cup {batch}
  /\ pending' = [pending EXCEPT ![k] = batch]
  /\ timers' = timers \ {TimerOf(k, batch)}

\* flush: the batch is closed, its timer cleared and run called.
Flushed(k, batch) ==
  /\ running' = running \cup {batch}
  /\ pending' = [pending EXCEPT ![k] = <<>>]
  /\ timers' = timers \ {TimerOf(k, batch)}

\* A batch is flushed as soon as it is full.
Submit(r) ==
  LET k == KeyOf[r]
      batch == Append(pending[k], r)
  IN  /\ ~Submitted(r)
      /\ IF Len(batch) >= MaximumBatch THEN Flushed(k, batch)
         ELSE /\ pending' = [pending EXCEPT ![k] = batch]
              /\ timers' = timers \cup {TimerOf(k, batch)}
              /\ UNCHANGED running
      /\ UNCHANGED answer

\* A timer flushes whatever batch its key has open when it fires.
Fire(timer) ==
  /\ timer \in timers
  /\ IF pending[timer[1]] = <<>>
       THEN timers' = timers \ {timer} /\ UNCHANGED <<pending, running>>
       ELSE Flushed(timer[1], pending[timer[1]])
  /\ UNCHANGED answer

\* Mutant of Settled: the results are handed out in the order of completion.
SettledInReverse(batch, results) ==
  [r \in Request |->
     IF ~Contains(batch, r) \/ answer[r] # Unsettled THEN answer[r]
     ELSE IF Len(results) = Len(batch)
       THEN results[Len(batch) + 1 - (CHOOSE i \in 1..Len(batch) : batch[i] = r)]
     ELSE Failed]

\* Mutant of Settled: a short answer settles only the requests it reaches.
SettledPartly(batch, results) ==
  [r \in Request |->
     IF ~Contains(batch, r) \/ answer[r] # Unsettled THEN answer[r]
     ELSE LET i == CHOOSE j \in 1..Len(batch) : batch[j] = r
          IN  IF i <= Len(results) THEN results[i] ELSE Unsettled]

\* Results settle the requests in order; too few or too many fail them all.
Settled(batch, results) ==
  [r \in Request |->
     IF ~Contains(batch, r) \/ answer[r] # Unsettled THEN answer[r]
     ELSE IF Len(results) = Len(batch)
       THEN results[CHOOSE i \in 1..Len(batch) : batch[i] = r]
     ELSE Failed]

Settle(batch, results) ==
  /\ batch \in running
  /\ answer' = Settled(batch, results)
  /\ running' = running \ {batch}
  /\ UNCHANGED <<pending, timers>>
-----------------------------------------------------------------------------
(* The coalescer over a run that answers each request with itself.         *)

\* run's promise is fulfilled, perhaps with too few results, or rejected.
Complete(batch) ==
  \E n \in 0..Len(batch) : Settle(batch, [i \in 1..n |-> Fulfilled(batch[i])])

Init == CoalescerInit

\* Every request was answered: the scope the coalescer lives in ends.
Finished ==
  /\ \A r \in Request : answer[r] # Unsettled
  /\ UNCHANGED coalescerVars

Next ==
  \/ \E r \in Request : Submit(r)
  \/ \E t \in timers : Fire(t)
  \/ \E b \in running : Complete(b)
  \/ Finished

\* Timers fire in the end, and run's promises are settled in the end.
Spec == Init /\ [][Next]_coalescerVars
        /\ WF_coalescerVars(\E t \in timers : Fire(t))
        /\ WF_coalescerVars(\E b \in running : Complete(b))
-----------------------------------------------------------------------------
\* Each request is answered with its own result or fails, whatever joined its
\* batch before and after it.
AnsweredByOwn == \A r \in Request : answer[r] \in {Unsettled, Failed, Fulfilled(r)}

\* No request waits in two batches, and none that was answered is run again:
\* a search is not sent, and a publication not written, a second time.
RunOnce ==
  /\ \A b, c \in running :
       \A r \in Request : Contains(b, r) /\ Contains(c, r) => b = c
  /\ \A b \in running : \A r \in Request : Contains(b, r) =>
       answer[r] = Unsettled /\ \A k \in Keys : ~Contains(pending[k], r)

\* A batch that is open has its own timer, so that its requests wait no longer
\* than one window, and no timer is left to cut short the window of a
\* later batch of the key.
TimersFit ==
  timers = {TimerOf(k, pending[k]) : k \in {j \in Keys : pending[j] # <<>>}}

\* Every request that was submitted is answered in the end.
EveryRequestAnswered ==
  \A r \in Request : Submitted(r) ~> answer[r] # Unsettled
=============================================================================

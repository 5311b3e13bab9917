-------------------------- MODULE RetryingTransport --------------------------
(***************************************************************************)
(* One request of the official Turbopuffer client with its retries          *)
(* (storage/turbopuffer/client.ts).  An attempt whose answer is lost or      *)
(* ambiguous may be applied at any later time, also after the request has    *)
(* been tried again, refused and reported to the caller; only a report that  *)
(* the request was definitely not applied lets a publication give up without *)
(* reading its marker, so it has to be right.                                *)
(*                                                                         *)
(* Backoff and provider delays order nothing here and are left out.         *)
(***************************************************************************)
EXTENDS Integers, FiniteSets

CONSTANT MaxRetries  \* BOUND on config.retries, which the client may set

RetriesAssumption == MaxRetries \in Nat

VARIABLES
  state,      \* "sending", "waiting" for the next attempt, "ended"
  left,       \* the retries that are left
  ambiguous,  \* observedAmbiguousOutcome
  error,      \* {} or the failure of the last attempt
  wire,       \* attempts that were sent and that the provider has not handled
  applied     \* history: the attempts the provider has applied

requestVars == <<state, left, ambiguous, error, wire, applied>>

Attempts == 0..MaxRetries

RequestInit ==
  /\ state = "sending"
  /\ left \in 0..MaxRetries
  /\ ambiguous = FALSE
  /\ error = {}
  /\ wire = {left}
  /\ applied = {}
-----------------------------------------------------------------------------
(* The failures an attempt can end with.                                   *)

Statuses == {401, 403, 408, 409, 422, 429, 500, 504}
NoAnswer == {"connection", "timeout"}

Reason(status) ==
  CASE status = 401 -> "authentication_failed"
    [] status = 403 -> "permission_denied"
    [] status = 409 -> "conflict"
    [] status = 429 -> "rate_limited"
    [] status \in {408, 504} -> "timed_out"
    [] status \in 400..499 \ {401, 403, 408, 409, 429} -> "rejected"
    [] OTHER -> "unavailable"

DefinitelyNotApplied(status) == status \in 400..499 \ {408}

RequestOutcome(status) ==
  IF DefinitelyNotApplied(status) THEN "definitely_not_applied" ELSE "unknown"

Directives == {"none", "retry", "do_not_retry"}

Failure(status, directive) ==
  [reason |-> Reason(status), outcome |-> RequestOutcome(status), directive |-> directive]

Unanswered(kind) ==
  [reason |-> IF kind = "timeout" THEN "timed_out" ELSE "unavailable",
   outcome |-> "unknown", directive |-> "none"]

Retryable(e) ==
  \/ e.directive = "retry"
  \/ e.directive # "do_not_retry"
     /\ e.reason \in {"unavailable", "timed_out", "rate_limited", "conflict"}

WithUnknownOutcome(e) == [e EXCEPT !.outcome = "unknown"]

\* Mutant of Reported: the last failure is reported as it is.
ReportedAsSeen(e, seen) == e

\* What the caller gets: one ambiguous attempt makes the whole request so.
Reported(e, seen) == IF seen THEN WithUnknownOutcome(e) ELSE e
-----------------------------------------------------------------------------
(* The provider.                                                           *)

\* An attempt is applied, in its time or long after its sender gave it up.
Apply(a) ==
  /\ a \in wire
  /\ wire' = wire \ {a}
  /\ applied' = applied \cup {a}
  /\ UNCHANGED <<state, left, ambiguous, error>>

\* An attempt gets lost on its way.
Drop(a) ==
  /\ a \in wire
  /\ wire' = wire \ {a}
  /\ UNCHANGED <<state, left, ambiguous, error, applied>>
-----------------------------------------------------------------------------
(* The client.                                                             *)

Succeed ==
  /\ state = "sending"
  /\ left \in applied
  /\ state' = "ended"
  /\ error' = {}
  /\ UNCHANGED <<left, ambiguous, wire, applied>>

\* Mutant of Failed: a failing request does not use up its retries.
FailedForEver(e) ==
  LET seen == ambiguous \/ e.outcome # "definitely_not_applied"
      again == left > 0 /\ Retryable(e)
  IN  /\ ambiguous' = seen
      /\ state' = IF again THEN "waiting" ELSE "ended"
      /\ error' = IF again THEN {e} ELSE {Reported(e, seen)}
      /\ UNCHANGED left

\* retrying: note an ambiguous outcome, then try again or report.
Failed(e) ==
  LET seen == ambiguous \/ e.outcome # "definitely_not_applied"
      again == left > 0 /\ Retryable(e)
  IN  /\ ambiguous' = seen
      /\ state' = IF again THEN "waiting" ELSE "ended"
      /\ error' = IF again THEN {e} ELSE {Reported(e, seen)}
      /\ left' = IF again THEN left - 1 ELSE left

\* A refusal proves only that this attempt was not and will not be applied.
Refused(status, directive) ==
  /\ state = "sending"
  /\ status \in 400..499 \ {408}
  /\ left \notin applied
  /\ wire' = wire \ {left}
  /\ Failed(Failure(status, directive))
  /\ UNCHANGED applied

\* A server error, or a timeout that the server reports.
Ambiguous(status, directive) ==
  /\ state = "sending"
  /\ status \notin 400..499 \ {408}
  /\ Failed(Failure(status, directive))
  /\ UNCHANGED <<wire, applied>>

Lost(kind) ==
  /\ state = "sending"
  /\ Failed(Unanswered(kind))
  /\ UNCHANGED <<wire, applied>>

SendAgain ==
  /\ state = "waiting"
  /\ state' = "sending"
  /\ wire' = wire \cup {left}
  /\ UNCHANGED <<left, ambiguous, error, applied>>

Client ==
  \/ Succeed
  \/ \E s \in Statuses, d \in Directives : Refused(s, d) \/ Ambiguous(s, d)
  \/ \E k \in NoAnswer : Lost(k)
  \/ SendAgain

Ended == state = "ended" /\ wire = {} /\ UNCHANGED requestVars

RequestNext == Client \/ (\E a \in Attempts : Apply(a) \/ Drop(a)) \/ Ended

\* The request's own timeout ends every attempt.
RequestSpec == RequestInit /\ [][RequestNext]_requestVars /\ WF_requestVars(Client)
-----------------------------------------------------------------------------
\* A request reported as definitely not applied was not applied by any of its
\* attempts, and none that is still on its way will ever be.
DefiniteIsFinal ==
  \A e \in error :
    state = "ended" /\ e.outcome = "definitely_not_applied" => wire \cup applied = {}

\* Every request ends, however often the provider asks to try again.
RequestEnds == <>(state = "ended")
=============================================================================

----------------------- MODULE TurbopufferPublication -----------------------
(***************************************************************************)
(* replaceRevision and deleteRevision of the Turbopuffer projection index  *)
(* (storage/turbopuffer/projection-index.ts) for one document projection:   *)
(* the D1 coordinator grants a publication lease, one conditional write     *)
(* puts the whole slot closure into the provider namespace, and the         *)
(* coordinator finalises the lease once the rows are visible.               *)
(*                                                                         *)
(* The provider can lose an answer, and can apply a request late or again   *)
(* long after its sender gave up.  Workers crash between any two steps.     *)
(*                                                                         *)
(* A row of the provider is the publication it was written by: which slot   *)
(* is live and what it holds is a function of that publication              *)
(* (buildPublicationRows).                                                  *)
(***************************************************************************)
EXTENDS PublicationCoordinator

CONSTANTS
  Here,        \* the index generation of this store's partition
  Revision,    \* projected revisions of the document
  SlotCount,   \* the number of chunks of each revision
  Vector,      \* the embeddings a revision may get when it is embedded
  MaxSlots,    \* maximumSlotsPerRevision
  PlanRetries, \* how often a stale plan is made again (3 in the code)
  MaxPrepared  \* BOUND on the replacement requests ever made

ASSUME StoreAssumption ==
  /\ Here \in Partition
  /\ SlotCount \in [Revision -> Nat \ {0}]
  /\ MaxSlots \in Nat
  /\ PlanRetries \in Nat
  /\ MaxPrepared \in Nat

VARIABLES
  prepared,  \* the replacement requests made so far; any may be sent again
  work,      \* the store operation each worker is executing
  rows,      \* the namespace: at row id 0 the marker, at s the s-th slot
  sent       \* leases whose write requests may be on their way

storeVars == <<prepared, work, rows, sent>>
vars == <<heads, mutations, journal, issued, call, prepared, work, rows, sent>>

RowId == 0..MaxSlots

Resting ==
  [at |-> "idle", request |-> None, token |-> None, slots |-> None,
   tries |-> 0, lease |-> None]

Init ==
  /\ CoordinatorInit
  /\ prepared = {}
  /\ work = [w \in Client |-> Resting]
  /\ rows = [s \in RowId |-> None]
  /\ sent = {}
-----------------------------------------------------------------------------
(* Requests, the intents they become, and the rows of a publication.       *)

ReplaceRequest(r, v, expected) ==
  [op |-> "replace", rev |-> Some(r), required |-> SlotCount[r], vector |-> Some(v),
   expected |-> expected]

DeleteRequest ==
  [op |-> "delete", rev |-> None, required |-> 0, vector |-> None, expected |-> None]

\* The mutation id hashes the plan without its vectors, the digest adds them,
\* and the token of the revision names the mutation.
IntentOf(request, expected, slots) ==
  LET id == <<request.op, expected, request.rev, request.required, slots>>
  IN  [part |-> Here, op |-> request.op, mutation |-> id,
       digest |-> request.vector, expected |-> expected,
       token |-> IF request.op = "replace" THEN Some(id) ELSE None,
       rev |-> request.rev, required |-> request.required,
       slots |-> slots, max |-> MaxSlots]

\* Mutant of PlannedSlots: the inherited closure is added to the new one.
PlannedSlotsAppended(request, inherited) == inherited + request.required

\* The closure a plan covers: every slot that was ever used stays covered.
PlannedSlots(request, inherited) ==
  IF inherited > request.required THEN inherited ELSE request.required

RowsOf(l) == 0..l.slots

\* Mutant of FenceAdmits: an unconditional upsert.
FenceAdmitsAll(row, l) == TRUE

\* The upsert condition: a newer generation, or the same publication again.
FenceAdmits(row, l) ==
  \A old \in row : old.gen < l.gen \/ (old.gen = l.gen /\ old.pub = l.pub)

Affected(l) == {s \in RowsOf(l) : FenceAdmits(rows[s], l)}

Written(l) == [s \in RowId |-> IF s \in Affected(l) THEN Some(l) ELSE rows[s]]

\* What a revision shows to searches: its live slots and what they hold.
Content(r) == {<<s, r.rev, r.digest>> : s \in 1..r.required}

LiveRows ==
  UNION {{<<s, l.intent.rev, l.intent.digest>> :
            l \in {m \in rows[s] : s \in 1..m.intent.required}} : s \in RowId}
-----------------------------------------------------------------------------
(* Planning.                                                               *)

\* indexProjectedRevision: load the active revision, embed unless it already
\* proves the wanted one, and make the request that is captured for replay.
Prepare ==
  /\ Cardinality(prepared) < MaxPrepared
  /\ \E r \in Revision, v \in Vector :
       /\ ActiveRevision(heads[Here]) # Some(r)
       /\ prepared' = prepared \cup {ReplaceRequest(r, v, heads[Here].token)}
  /\ UNCHANGED <<coordinatorVars, work, rows, sent>>

Start(w, request, token) ==
  /\ work[w].at = "idle"
  /\ work' = [work EXCEPT ![w] =
                [Resting EXCEPT !.at = "plan", !.request = Some(request),
                                !.token = token, !.tries = PlanRetries]]
  /\ UNCHANGED <<coordinatorVars, prepared, rows, sent>>

\* The first attempt of a request and its replays are the same call.
Replace(w) == \E q \in prepared : Start(w, q, Some(q.expected))

Delete(w) == Start(w, DeleteRequest, None)

\* loadRevisions and loadHeads run concurrently, so in either order.
ReadToken(w) ==
  /\ work[w].at = "plan" /\ work[w].token = None
  /\ work' = [work EXCEPT ![w].token =
                Some(IF ActiveRevision(heads[Here]) = None THEN None
                     ELSE heads[Here].token)]
  /\ UNCHANGED <<coordinatorVars, prepared, rows, sent>>

ReadSlots(w) ==
  /\ work[w].at = "plan" /\ work[w].slots = None
  /\ work' = [work EXCEPT ![w].slots = {heads[Here].slots}]
  /\ UNCHANGED <<coordinatorVars, prepared, rows, sent>>

\* Both are in: check the closure against the bound and begin.
Submit(w) ==
  /\ work[w].at = "plan"
  /\ \E q \in work[w].request, expected \in work[w].token, high \in work[w].slots :
       IF PlannedSlots(q, high) > MaxSlots
         THEN /\ work' = [work EXCEPT ![w] = Resting]
              /\ UNCHANGED coordinatorVars
         ELSE /\ work' = [work EXCEPT ![w].at = "begin"]
              /\ BeginRead(w, IntentOf(q, expected, PlannedSlots(q, high)))
  /\ UNCHANGED <<prepared, rows, sent>>

Answered(w, results) == call[w].at \in results /\ call' = [call EXCEPT ![w] = Idle]

TakeLease(w) ==
  /\ work[w].at = "begin"
  /\ work' = [work EXCEPT ![w].at = "send", ![w].lease = call[w].lease]
  /\ Answered(w, {"Publish"})
  /\ UNCHANGED <<tables, prepared, rows, sent>>

RetriesOn(op) == IF op = "delete" THEN {"Stale", "Conflict"} ELSE {"Stale"}

Replan(w) ==
  /\ work[w].at = "begin"
  /\ work[w].tries > 0
  /\ \E q \in work[w].request :
       /\ Answered(w, RetriesOn(q.op))
       /\ work' = [work EXCEPT ![w].at = "plan", ![w].slots = None,
                               ![w].token = IF q.op = "delete" THEN None ELSE @,
                               ![w].tries = @ - 1]
  /\ UNCHANGED <<tables, prepared, rows, sent>>

\* Already committed, or a failure the caller gets to see.
EndBegin(w) ==
  /\ work[w].at = "begin"
  /\ \E q \in work[w].request :
       Answered(w, {"Committed", "Invalid", "Capacity", "Reused", "InProgress"} \cup
                   (IF work[w].tries > 0 THEN {"Stale", "Conflict"} \ RetriesOn(q.op)
                    ELSE {"Stale", "Conflict"}))
  /\ work' = [work EXCEPT ![w] = Resting]
  /\ UNCHANGED <<tables, prepared, rows, sent>>
-----------------------------------------------------------------------------
(* Publishing a lease.                                                     *)

Send(w) ==
  /\ work[w].at = "send"
  /\ work' = [work EXCEPT ![w].at = "await"]
  /\ sent' = sent \cup work[w].lease
  /\ UNCHANGED <<coordinatorVars, prepared, rows>>

\* The provider applies the request and the answer arrives: all rows, none
\* of them, or a partial write that the store reports as a broken invariant.
WriteAnswered(w) ==
  /\ work[w].at = "await"
  /\ \E l \in work[w].lease :
       /\ rows' = Written(l)
       /\ work' = IF Affected(l) = RowsOf(l) THEN [work EXCEPT ![w].at = "visible"]
                  ELSE IF Affected(l) = {} THEN [work EXCEPT ![w].at = "reconcile"]
                  ELSE [work EXCEPT ![w] = Resting]
  /\ UNCHANGED <<coordinatorVars, prepared, sent>>

\* No answer: the request may have been applied, or may still be.
AnswerLost(w) ==
  /\ work[w].at = "await"
  /\ work' = [work EXCEPT ![w].at = "reconcile"]
  /\ UNCHANGED <<coordinatorVars, prepared, rows, sent>>

\* A request whose answer nobody waits for, or a duplicate of one, lands.
WriteLate ==
  /\ \E l \in sent : rows' = Written(l)
  /\ UNCHANGED <<coordinatorVars, prepared, work, sent>>

\* Mutant of MarkerMatches: any marker is taken for proof.
MarkerExists(l) == rows[0] # None

MarkerMatches(l) ==
  \E m \in rows[0] : m.gen = l.gen /\ m.pub = l.pub /\ m.slots = l.slots

\* Mutant of MarkerFences: an older marker is taken for a fence.
MarkerDiffers(l) == \E m \in rows[0] : m.pub # l.pub

MarkerFences(l) ==
  \E m \in rows[0] : m.gen > l.gen \/ (m.gen = l.gen /\ m.pub # l.pub)

\* reconcilePublicationMarker's strongly consistent query; a marker that
\* proves nothing leaves the publication in doubt for a later replay.
Reconcile(w) ==
  /\ work[w].at = "reconcile"
  /\ \E l \in work[w].lease :
       work' = IF MarkerMatches(l) THEN [work EXCEPT ![w].at = "visible"]
               ELSE IF MarkerFences(l) THEN [work EXCEPT ![w].at = "fenced"]
               ELSE [work EXCEPT ![w] = Resting]
  /\ UNCHANGED <<coordinatorVars, prepared, rows, sent>>

FinalizeVisible(w) ==
  /\ work[w].at = "visible"
  /\ \E l \in work[w].lease : Finalize(w, l)
  /\ work' = [work EXCEPT ![w].at = "end"]
  /\ UNCHANGED <<prepared, rows, sent>>

RetireFenced(w) ==
  /\ work[w].at = "fenced"
  /\ \E l \in work[w].lease : Supersede(w, l)
  /\ work' = [work EXCEPT ![w].at = "end"]
  /\ UNCHANGED <<prepared, rows, sent>>

EndPublication(w) ==
  /\ work[w].at = "end"
  /\ Answered(w, {"Finalized", "Superseded", "Retired"})
  /\ work' = [work EXCEPT ![w] = Resting]
  /\ UNCHANGED <<tables, prepared, rows, sent>>

\* The coordinator carries out the next step of the worker's call.
Coordinate(w) == CoordinatorStep(w) /\ UNCHANGED storeVars

\* The process stops, the fiber is interrupted, or a call fails without an
\* effect (a definite rejection of the write included): nothing volatile
\* survives, and the lease is deliberately left alone.
Abandon(w) ==
  /\ work[w].at # "idle"
  /\ work' = [work EXCEPT ![w] = Resting]
  /\ call' = [call EXCEPT ![w] = Idle]
  /\ UNCHANGED <<tables, prepared, rows, sent>>

Step(w) ==
  \/ ReadToken(w) \/ ReadSlots(w) \/ Submit(w) \/ Coordinate(w)
  \/ TakeLease(w) \/ Replan(w) \/ EndBegin(w)
  \/ Send(w) \/ WriteAnswered(w) \/ Reconcile(w)
  \/ FinalizeVisible(w) \/ RetireFenced(w) \/ EndPublication(w)

Fault == \E w \in Client : AnswerLost(w) \/ Abandon(w)

Faultless ==
  \/ Prepare
  \/ WriteLate
  \/ \E w \in Client : Replace(w) \/ Delete(w) \/ Step(w)

Next == Faultless \/ Fault

Spec == Init /\ [][Next]_vars
-----------------------------------------------------------------------------
(* Safety.                                                                 *)

Requests ==
  {ReplaceRequest(r, v, l) : r \in Revision, v \in Vector, l \in {q.expected : q \in prepared}}

WorkPoints == {"idle", "plan", "begin", "send", "await", "reconcile",
               "visible", "fenced", "end"}

\* Every variable of the store has its type; a worker that publishes holds a
\* lease the coordinator issued, and rows were written by leases sent out.
TypeOK ==
  /\ prepared \subseteq Requests
  /\ \A w \in Client :
       /\ work[w].at \in WorkPoints
       /\ work[w].request \subseteq prepared \cup {DeleteRequest}
       /\ work[w].slots \subseteq 0..MaxSlots
       /\ work[w].tries \in 0..PlanRetries
       /\ work[w].lease \subseteq issued
       /\ (work[w].at = "idle") <=> (work[w].request = None)
       /\ call[w].at # "idle" => work[w].at \in {"begin", "end"}
  /\ sent \subseteq issued
  /\ rows \in [RowId -> SUBSET sent]

\* A conditional write hits all rows of its publication or none, whatever was
\* written before, late or twice: the partial write that the store treats as
\* a broken invariant never happens.
WritesAllOrNothing ==
  \A l \in sent : Affected(l) \in {{}, RowsOf(l)}

\* The content of the active revision, read from its stored inventory.
ActiveContent ==
  UNION {Content(m) : m \in {n \in mutations : heads[Here].active = Some(n.id)}}

PendingLeases ==
  {l \in issued : /\ l.intent.part = Here
                 /\ \E p \in heads[Here].pending : p.pub = l.pub}

PendingContent == UNION {Content(l.intent) : l \in PendingLeases}

\* Searches find the committed revision: with no publication pending the live
\* rows are the active revision's, complete and with its vectors; while one is
\* pending they are the active's or the pending one's, never a mixture and
\* never those of a publication that lost.
CommittedIsSearchable ==
  LiveRows \in {ActiveContent} \cup
                 (IF heads[Here].pending = None THEN {} ELSE {PendingContent})

\* Reconciliation may retire a lease only when the coordinator has moved past
\* it: a publication that is still pending is never the one superseded.
FencedIsPast ==
  \A w \in Client : work[w].at = "fenced" =>
    \A l \in work[w].lease, p \in heads[Here].pending : p.pub # l.pub

\* Late and duplicate requests never take the provider back: no row is ever
\* replaced by one of an older publication.
ProviderNeverRegresses ==
  [][\A s \in RowId : \A old \in rows[s] :
       \E new \in rows'[s] : new.gen > old.gen \/ new = old]_vars

\* What a request becomes when it is planned again now.
Replanned(q) ==
  IntentOf(q, IF q.op = "delete" THEN heads[Here].token ELSE q.expected,
           PlannedSlots(q, heads[Here].slots))

\* beginPublication's first answer to a request planned again now: it resumes
\* the pending lease, unless it takes the mutation for committed already.
Resumes(q) ==
  /\ SamePendingIntent(heads[Here], Replanned(q))
  /\ ~SameActive(Replanned(q))

\* ADR 0002: "retry the exact prepared mutation to finish publication".
\* Whatever is pending can be resumed by some request ever made or by a
\* deletion.  The code breaks this for one deletion: when two deletions of a
\* document that has no projection race, the late one publishes the active
\* mutation again, and every retry of it is answered as committed.
RetryFinishes ==
  heads[Here].pending # None => \E q \in prepared \cup {DeleteRequest} : Resumes(q)

\* The deletion that RetryFinishes is about: its mutation is active already.
DeletedAgain == \E p \in heads[Here].pending : heads[Here].active = Some(p.mutation)

\* Any other pending publication can be finished by an exact retry: planned
\* again now, some request ever made (or a deletion) is the very intent that
\* the head is waiting for, whatever happened to the closure or to the active
\* revision since; and only a deletion is ever pending under its own result.
PendingIsResumable ==
  IF DeletedAgain
    THEN heads[Here].status = "deleted" /\ \A p \in heads[Here].pending : p.op = "delete"
    ELSE RetryFinishes
-----------------------------------------------------------------------------
(* The store implements the compare-and-set register.                      *)

Register == INSTANCE ProjectionRegister WITH
  active <- IF heads[Here].status # "revision" THEN None
            ELSE Some([token |-> heads[Here].token, content |-> ActiveContent]),
  successor <- {[expected |-> l.intent.expected, token |-> l.intent.token,
                 content |-> Content(l.intent)] : l \in PendingLeases},
  visible <- LiveRows

\* The steps of a publication, interleaved with rivals, late and repeated
\* writes and crashes, amount to one compare-and-set of the register that is
\* accepted, shown whole and then committed.
ImplementsRegister == Register!Spec
-----------------------------------------------------------------------------
(* Progress.                                                               *)

\* The caller's queue sends the request of the pending publication again.
Retry(w) ==
  \E q \in prepared \cup {DeleteRequest} :
    /\ Resumes(q)
    /\ Start(w, q, IF q.op = "delete" THEN None ELSE Some(q.expected))

\* Workers run, prepared requests are retried while they are pending, and
\* crashes and lost answers come to an end.  (Not <>[][~Fault]_vars: a call that
\* ends returns its worker to rest exactly as a crash does.)
Fairness ==
  /\ \A w \in Client : WF_vars(Step(w)) /\ SF_vars(Retry(w))
  /\ <>[][Faultless]_vars

FairSpec == Spec /\ Fairness

\* No publication stays pending for ever, whatever crashed while it was under
\* way: some retry resumes its lease, proves it visible and finalises it.  A
\* deletion that repeats the active one is excepted (RetryFinishes).
PendingResolves ==
  \A u \in PublicationId :
    (~DeletedAgain /\ \E p \in heads[Here].pending : p.pub = u)
      ~> (\A p \in heads[Here].pending : p.pub # u)
=============================================================================

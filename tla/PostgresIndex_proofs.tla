------------------------ MODULE PostgresIndex_proofs ------------------------
(***************************************************************************)
(* PostgreSQL's projection index, and its mirror in another one.            *)
(*                                                                         *)
(* Whatever workers interleave, the stored revision of a projection is       *)
(* whole and only replaced as planned, for any number of them, any contents   *)
(* and any profiles: from the moment a replacement has checked its plan until  *)
(* it writes, nobody else changes the row or its chunks, because indexings     *)
(* and deletions wait for the member lock and prunings for the row.  While no   *)
(* row is removed tokens only grow, so that a match of tokens is a match of      *)
(* rows.                                                                         *)
(*                                                                         *)
(* Whatever changes between its statements, and whichever of them fail, one   *)
(* runner brings the mirror up to date: a projection without a record is        *)
(* matched by the target, unless no copy has taken it over yet.                  *)
(***************************************************************************)
EXTENDS PostgresRevisions, ProjectionMirror, FiniteSetTheorems, NaturalsInduction,
        WellFoundedInduction, TLAPS

\* The primary key: there is one row at most.
OneRow == \A r, s \in revision : r = s

\* One worker holds the member lock.
MembersExclude ==
  \A v, w \in Worker : v # w => at[v] \notin {"read", "replace"} \/ at[w] \notin {"read", "replace"}

\* A plan that was checked finds all its vectors until it is executed.
PlansStayComplete ==
  \A w \in Worker : at[w] = "replace" =>
    \A rev \in task[w].rev, p \in task[w].profile :
      rev.contents \subseteq Contents(Vectors(w, p))

\* Each worker has its place and its task, of one revision and one profile.
Located ==
  /\ DOMAIN at = Worker /\ DOMAIN task = Worker /\ DOMAIN supplied = Worker
  /\ \A w \in Worker : /\ \A r, s \in task[w].rev : r = s
                       /\ \A p, q \in task[w].profile : p = q

Kept ==
  Located /\ RevisionIsWhole /\ OneRow /\ MembersExclude /\ PlansStayComplete
-----------------------------------------------------------------------------
\* The chunk whose vector was computed from its own content.
Fitting(p, x) == [content |-> x, vector |-> [profile |-> p, content |-> x]]

\* Reused or supplied, the vectors of a replacement fit their contents.
LEMMA VectorsFit ==
  ASSUME RevisionIsWhole, NEW w, NEW p, NEW c \in Vectors(w, p)
  PROVE  c = Fitting(p, c.content)
<1>1. CASE c \in Reusable(revision, p)
  <2>1. PICK r \in revision : r.profile = p /\ c \in chunks
    BY <1>1 DEF Reusable
  <2>2. PICK x \in r.rev.contents : c = Fitting(r.profile, x)
    BY <2>1 DEF RevisionIsWhole, Fitting
  <2> QED BY <2>1, <2>2 DEF Fitting
<1>2. CASE c \notin Reusable(revision, p)
  <2>1. PICK x \in supplied[w] : c = Fitting(p, x)
    BY <1>2 DEF Vectors, Fitting
  <2> QED BY <2>1 DEF Fitting
<1> QED BY <1>1, <1>2

\* A replacement whose plan is complete stores one chunk of each content.
LEMMA ReplacementIsWhole ==
  ASSUME RevisionIsWhole, NEW w, NEW p, NEW rev,
         rev.contents \subseteq Contents(Vectors(w, p))
  PROVE  {c \in Vectors(w, p) : c.content \in rev.contents} = {Fitting(p, x) : x \in rev.contents}
<1>1. ASSUME NEW c \in Vectors(w, p), c.content \in rev.contents
      PROVE  c \in {Fitting(p, x) : x \in rev.contents}
  BY <1>1, VectorsFit
<1>2. ASSUME NEW x \in rev.contents
      PROVE  Fitting(p, x) \in Vectors(w, p) /\ Fitting(p, x).content = x
  <2>1. PICK c \in Vectors(w, p) : c.content = x
    BY <1>2 DEF Contents
  <2>2. c = Fitting(p, x)
    BY <2>1, VectorsFit
  <2> QED BY <2>1, <2>2 DEF Fitting
<1> QED BY <1>1, <1>2

LEMMA KeptStarts == Init => Kept
BY DEF Init, Kept, Located, RevisionIsWhole, OneRow, MembersExclude, PlansStayComplete, NoTask

\* What leaves the tables, the tasks and the plans under way alone.
LEMMA KeptBeside ==
  ASSUME Kept, NEW w \in Worker, UNCHANGED <<revision, chunks>>,
         NEW place, place \notin {"read", "replace"}, at' = [at EXCEPT ![w] = place],
         Located',
         \A v \in Worker \ {w} : task'[v] = task[v] /\ supplied'[v] = supplied[v]
  PROVE  Kept'
<1>1. RevisionIsWhole' /\ OneRow'
  BY DEF Kept, RevisionIsWhole, OneRow
<1>2. MembersExclude'
  BY DEF Kept, Located, MembersExclude
<1>3. PlansStayComplete'
  <2> SUFFICES ASSUME NEW v \in Worker, at'[v] = "replace",
                      NEW rev \in task'[v].rev, NEW p \in task'[v].profile
               PROVE  rev.contents \subseteq Contents(Vectors(v, p))'
    BY DEF PlansStayComplete
  <2>1. v # w /\ at[v] = "replace"
    BY DEF Kept, Located
  <2>2. rev.contents \subseteq Contents(Vectors(v, p))
    BY <2>1 DEF Kept, PlansStayComplete
  <2>3. Vectors(v, p)' = Vectors(v, p)
    BY <2>1 DEF Vectors, Reusable
  <2> QED BY <2>2, <2>3 DEF Contents
<1> QED BY <1>1, <1>2, <1>3 DEF Kept

\* The member lock, and the comparison of the plan behind it.
LEMMA KeptLocks ==
  ASSUME Kept, NEW w \in Worker, LockMember(w) \/ ReadCurrent(w)
  PROVE  Kept'
<1>1. UNCHANGED <<revision, chunks, task, supplied>>
  BY DEF LockMember, ReadCurrent, tables
<1>2. PICK place \in {"read", "replace", "load"} : at' = [at EXCEPT ![w] = place]
  BY DEF LockMember, ReadCurrent, Rejected
<1>3. Located' /\ RevisionIsWhole' /\ OneRow'
  BY <1>1, <1>2 DEF Kept, Located, RevisionIsWhole, OneRow
<1>4. MembersExclude'
  BY <1>2 DEF Kept, Located, LockMember, ReadCurrent, MemberLocked, MembersExclude
<1>5. PlansStayComplete'
  <2> SUFFICES ASSUME NEW v \in Worker, at'[v] = "replace",
                      NEW rev \in task[v].rev, NEW p \in task[v].profile
               PROVE  rev.contents \subseteq Contents(Vectors(v, p))
    BY <1>1 DEF PlansStayComplete, Vectors, Reusable, Contents
  <2>1. CASE v # w
    BY <1>2, <2>1 DEF Kept, Located, PlansStayComplete
  <2>2. CASE v = w
    <3>1. ReadCurrent(w)
      BY <2>2 DEF Kept, Located, LockMember
    <3>2. PICK r \in task[w].rev, q \in task[w].profile :
            rev = r /\ p = q /\ r.contents \subseteq Contents(Vectors(w, q))
      BY <2>2, <3>1 DEF Kept, Located, ReadCurrent, Rejected
    <3> QED BY <2>2, <3>2
  <2> QED BY <2>1, <2>2
<1> QED BY <1>3, <1>4, <1>5 DEF Kept

LEMMA KeptReplaces ==
  ASSUME Kept, NEW w \in Worker, Replace(w)
  PROVE  Kept'
<1>1. PICK rev \in task[w].rev, p \in task[w].profile :
        /\ revision' = {[token |-> NextToken(revision), rev |-> rev, profile |-> p,
                         birth |-> births + 1]}
        /\ chunks' = {c \in Vectors(w, p) : c.content \in rev.contents}
  BY DEF Replace
<1>2. rev.contents \subseteq Contents(Vectors(w, p))
  BY DEF Replace, Kept, PlansStayComplete
<1>3. chunks' = {Fitting(p, x) : x \in rev.contents}
  BY <1>1, <1>2, ReplacementIsWhole DEF Kept
<1>4. RevisionIsWhole' /\ OneRow'
  <2>1. \A r \in revision' : r.rev = rev /\ r.profile = p
    BY <1>1
  <2>2. \A r \in revision' : chunks' = {Fitting(r.profile, x) : x \in r.rev.contents}
    BY <1>3, <2>1
  <2>3. revision' # {} /\ OneRow'
    BY <1>1 DEF OneRow
  <2> QED BY <2>2, <2>3 DEF RevisionIsWhole, Fitting
<1>5. Located' /\ MembersExclude'
  BY DEF Replace, Kept, Located, MembersExclude
<1>6. PlansStayComplete'
  BY DEF Replace, Kept, Located, MembersExclude, PlansStayComplete
<1> QED BY <1>4, <1>5, <1>6 DEF Kept

\* The row is removed while no other replacement has it locked.
LEMMA KeptRemoves ==
  ASSUME Kept, NEW w \in Worker, DeleteRevision(w) \/ RemoveStale(w)
  PROVE  Kept'
<1>1. /\ at' = [at EXCEPT ![w] = "idle"] /\ UNCHANGED <<task, supplied>>
      /\ Remove \/ UNCHANGED <<revision, chunks>>
  BY DEF DeleteRevision, RemoveStale, tables
<1>2. Located'
  BY <1>1 DEF Kept, Located
<1>3. CASE UNCHANGED <<revision, chunks>>
  BY <1>1, <1>2, <1>3, KeptBeside
<1>4. CASE revision = {} /\ Remove
  <2>1. UNCHANGED <<revision, chunks>>
    BY <1>4 DEF Remove, Kept, RevisionIsWhole
  <2> QED BY <1>3, <2>1
<1>5. CASE revision # {} /\ Remove
  <2>1. RevisionIsWhole' /\ OneRow'
    BY <1>5 DEF Remove, RevisionIsWhole, OneRow
  <2>2. MembersExclude'
    BY <1>1 DEF Kept, Located, MembersExclude
  <2>3. \A v \in Worker : at'[v] # "replace"
    BY <1>1, <1>5 DEF DeleteRevision, RemoveStale, RowLocked, Kept, Located
  <2> QED BY <1>2, <2>1, <2>2, <2>3 DEF Kept, PlansStayComplete
<1> QED BY <1>1, <1>3, <1>4, <1>5

LEMMA KeptStep == Kept /\ [Next]_vars => Kept'
<1> SUFFICES ASSUME Kept, [Next]_vars PROVE Kept'
  OBVIOUS
<1>1. CASE UNCHANGED vars
  BY <1>1 DEF vars, tables, local, Kept, Located, RevisionIsWhole, OneRow, MembersExclude,
     PlansStayComplete, Contents, Vectors, Reusable
<1>2. ASSUME NEW w \in Worker, BeginIndex(w) \/ BeginDelete(w) \/ BeginPrune(w)
      PROVE  Kept'
  <2>1. PICK place \in {"load", "member", "prune"} : at' = [at EXCEPT ![w] = place]
    BY <1>2 DEF BeginIndex, BeginDelete, BeginPrune, Begin
  <2>2. /\ DOMAIN task' = Worker
        /\ \A v \in Worker \ {w} : task'[v] = task[v]
        /\ \A r, s \in task'[w].rev : r = s
        /\ \A p, q \in task'[w].profile : p = q
    BY <1>2 DEF BeginIndex, BeginDelete, BeginPrune, Begin, NoTask, Kept, Located
  <2>3. UNCHANGED <<revision, chunks, supplied>>
    BY <1>2 DEF BeginIndex, BeginDelete, BeginPrune, Begin, tables
  <2>4. Located'
    BY <2>1, <2>2, <2>3 DEF Kept, Located
  <2> QED BY <2>1, <2>2, <2>3, <2>4, KeptBeside DEF Kept, Located
<1>3. ASSUME NEW w \in Worker, Load(w) PROVE Kept'
  <2>1. PICK place \in {"idle", "member"} : at' = [at EXCEPT ![w] = place]
    BY <1>3 DEF Load
  <2>2. PICK xs : supplied' = [supplied EXCEPT ![w] = xs]
    BY <1>3 DEF Load
  <2>3. UNCHANGED <<revision, chunks, task>>
    BY <1>3 DEF Load, tables
  <2>4. Located'
    BY <2>1, <2>2, <2>3 DEF Kept, Located
  <2> QED BY <2>1, <2>2, <2>3, <2>4, KeptBeside DEF Kept, Located
<1>4. ASSUME NEW w \in Worker, FindStale(w) \/ Stop(w) PROVE Kept'
  <2>1. PICK place \in {"idle", "remove"} : at' = [at EXCEPT ![w] = place]
    BY <1>4 DEF FindStale, Stop
  <2>2. UNCHANGED <<revision, chunks, task, supplied>>
    BY <1>4 DEF FindStale, Stop, tables
  <2>3. Located'
    BY <2>1, <2>2 DEF Kept, Located
  <2> QED BY <2>1, <2>2, <2>3, KeptBeside
<1> QED
  BY <1>1, <1>2, <1>3, <1>4, KeptLocks, KeptReplaces, KeptRemoves DEF Next, Proceed

\* At any moment the stored revision is complete and its vectors fit,
\* although indexings reuse what others stored (storage/postgres/runtime.ts,
\* replaceInTransaction, deleteRevisionInTransaction, pruneGraphInTransaction).
THEOREM RevisionStaysWhole == Spec => []RevisionIsWhole
<1>1. Kept => RevisionIsWhole
  BY DEF Kept
<1> QED BY <1>1, KeptStarts, KeptStep, PTL DEF Spec
-----------------------------------------------------------------------------
(* Plans.  As long as no row is removed, tokens grow: the row is what was     *)
(* loaded, or has a newer token than that.                                   *)

Aged(w) ==
  /\ snapshot[w].removals \in Nat /\ snapshot[w].removals <= removals
  /\ \A s \in snapshot[w].row : s.token \in Nat
  /\ snapshot[w].removals = removals =>
       \/ revision = snapshot[w].row
       \/ \E r \in revision : \A s \in snapshot[w].row : s.token < r.token

\* Who is about to replace has compared the tokens, and has kept the lock since.
Planned(w) ==
  \/ Births(snapshot[w].row) = Births(revision)
  \/ snapshot[w].removals < removals

PlansHold ==
  /\ Kept
  /\ DOMAIN snapshot = Worker
  /\ removals \in Nat /\ \A r \in revision : r.token \in Nat
  /\ \A w \in Worker : Aged(w)
  /\ \A w \in Worker : at[w] = "replace" => Planned(w)

\* A match of tokens shows that the row is what the plan was made against.
LEMMA MatchingPlan ==
  ASSUME PlansHold, NEW w \in Worker, ExpectedMatches(w)
  PROVE  Planned(w)
<1> SUFFICES ASSUME snapshot[w].removals = removals
             PROVE  Births(snapshot[w].row) = Births(revision)
  BY DEF PlansHold, Aged, Planned
<1>1. CASE revision = snapshot[w].row
  BY <1>1
<1>2. ASSUME NEW r \in revision, \A s \in snapshot[w].row : s.token < r.token
      PROVE  FALSE
  <2>1. r.token \in Token(snapshot[w].row)
    BY DEF ExpectedMatches, Token
  <2>2. PICK s \in snapshot[w].row : s.token = r.token
    BY <2>1 DEF Token
  <2>3. s.token < r.token /\ r.token \in Nat
    BY <1>2, <2>2 DEF PlansHold
  <2> QED BY <2>2, <2>3
<1> QED BY <1>1, <1>2 DEF PlansHold, Aged

LEMMA PlansStart == Init => PlansHold
BY KeptStarts DEF Init, PlansHold, Aged

\* What leaves the row alone, and loads nothing.
LEMMA PlansBeside ==
  ASSUME PlansHold, Kept', UNCHANGED <<revision, removals, snapshot>>,
         \A w \in Worker : at'[w] = "replace" => at[w] = "replace" \/ ExpectedMatches(w)
  PROVE  PlansHold'
<1>1. \A w \in Worker : Aged(w)' /\ (Planned(w) => Planned(w)')
  BY DEF PlansHold, Aged, Planned
<1>2. \A w \in Worker : at'[w] = "replace" => Planned(w)
  BY MatchingPlan DEF PlansHold
<1> QED BY <1>1, <1>2 DEF PlansHold

LEMMA PlansLoad ==
  ASSUME PlansHold, Kept', NEW w \in Worker, Load(w)
  PROVE  PlansHold'
<1>1. /\ UNCHANGED <<revision, removals>> /\ at'[w] # "replace"
      /\ \A v \in Worker \ {w} : at'[v] = at[v] /\ snapshot'[v] = snapshot[v]
      /\ DOMAIN snapshot' = Worker /\ snapshot'[w] = [row |-> revision, removals |-> removals]
  BY DEF Load, tables, PlansHold, Kept, Located
<1>2. Aged(w)'
  BY <1>1 DEF PlansHold, Aged
<1>3. \A v \in Worker \ {w} : Aged(v)' /\ (at'[v] = "replace" => Planned(v)')
  BY <1>1 DEF PlansHold, Aged, Planned
<1> QED BY <1>1, <1>2, <1>3 DEF PlansHold

LEMMA PlansReplace ==
  ASSUME PlansHold, Kept', NEW w \in Worker, Replace(w)
  PROVE  PlansHold'
<1>1. UNCHANGED <<removals, snapshot>> /\ \A v \in Worker : at'[v] # "replace"
  <2>1. at' = [at EXCEPT ![w] = "idle"] /\ at[w] = "replace" /\ DOMAIN at = Worker
    BY DEF Replace, PlansHold, Kept, Located
  <2>2. \A v \in Worker \ {w} : at[v] # "replace"
    BY <2>1 DEF PlansHold, Kept, MembersExclude
  <2> QED BY <2>1, <2>2 DEF Replace
<1>2. PICK r : revision' = {r} /\ r.token = NextToken(revision)
  <2>1. PICK rev, p : revision' = {[token |-> NextToken(revision), rev |-> rev, profile |-> p,
                                    birth |-> births + 1]}
    BY DEF Replace
  <2>2. PICK r : r = [token |-> NextToken(revision), rev |-> rev, profile |-> p,
                      birth |-> births + 1]
    OBVIOUS
  <2> QED BY <2>1, <2>2
<1>3. r.token \in Nat /\ \A s \in revision : s.token < r.token
  <2>1. CASE revision = {}
    BY <1>2, <2>1 DEF NextToken
  <2>2. ASSUME NEW s \in revision PROVE r.token = 1 + s.token /\ s.token \in Nat
    <3>1. Token(revision) = {s.token}
      BY DEF Token, PlansHold, Kept, OneRow
    <3>2. (CHOOSE n \in Token(revision) : TRUE) = s.token
      BY <3>1
    <3> QED BY <1>2, <3>2 DEF NextToken, PlansHold
  <2> QED BY <2>1, <2>2 DEF PlansHold, Kept, OneRow
<1>4. ASSUME NEW v \in Worker PROVE Aged(v)'
  <2> SUFFICES ASSUME snapshot[v].removals = removals, NEW s \in snapshot[v].row
               PROVE  s.token < r.token
    BY <1>1, <1>2 DEF PlansHold, Aged
  <2>1. s.token \in Nat
    BY DEF PlansHold, Aged
  <2>2. CASE s \in revision
    BY <1>3, <2>2
  <2>3. CASE s \notin revision
    <3>1. PICK q \in revision : s.token < q.token
      BY <2>3 DEF PlansHold, Aged
    <3> QED BY <1>3, <2>1, <3>1 DEF PlansHold
  <2> QED BY <2>2, <2>3
<1> QED BY <1>1, <1>2, <1>3, <1>4 DEF PlansHold

LEMMA PlansRemove ==
  ASSUME PlansHold, Kept', NEW w \in Worker, DeleteRevision(w) \/ RemoveStale(w)
  PROVE  PlansHold'
<1>1. /\ UNCHANGED snapshot
      /\ Remove \/ UNCHANGED <<revision, removals>>
      /\ at' = [at EXCEPT ![w] = "idle"]
  BY DEF DeleteRevision, RemoveStale, tables
<1>2. \A v \in Worker : at'[v] = "replace" => at[v] = "replace"
  BY <1>1 DEF PlansHold, Kept, Located
<1>3. CASE UNCHANGED <<revision, removals>>
  BY <1>1, <1>2, <1>3, PlansBeside
<1>4. CASE Remove /\ revision = {}
  BY <1>1, <1>2, <1>4, PlansBeside DEF Remove
<1>5. CASE Remove /\ revision # {}
  <2>1. revision' = {} /\ removals' = removals + 1 /\ removals \in Nat
    BY <1>5 DEF Remove, PlansHold
  <2>2. \A v \in Worker : Aged(v)' /\ snapshot[v].removals < removals'
    BY <1>1, <2>1 DEF PlansHold, Aged
  <2> QED BY <1>1, <2>1, <2>2 DEF PlansHold, Planned
<1> QED BY <1>1, <1>3, <1>4, <1>5

LEMMA PlansStep == PlansHold /\ [Next]_vars => PlansHold'
<1> SUFFICES ASSUME PlansHold, [Next]_vars PROVE PlansHold'
  OBVIOUS
<1>1. Kept'
  BY KeptStep DEF PlansHold
<1>2. CASE UNCHANGED vars
  BY <1>1, <1>2, PlansBeside DEF vars, tables, local
<1>3. ASSUME NEW w \in Worker,
             \/ BeginIndex(w) \/ BeginDelete(w) \/ BeginPrune(w)
             \/ LockMember(w) \/ FindStale(w) \/ Stop(w)
      PROVE  PlansHold'
  <2>1. UNCHANGED <<revision, removals, snapshot>>
    BY <1>3 DEF BeginIndex, BeginDelete, BeginPrune, Begin, LockMember, FindStale, Stop, tables
  <2>2. PICK place : place # "replace" /\ at' = [at EXCEPT ![w] = place]
    BY <1>3 DEF BeginIndex, BeginDelete, BeginPrune, Begin, LockMember, FindStale, Stop
  <2> QED BY <1>1, <2>1, <2>2, PlansBeside DEF PlansHold, Kept, Located
<1>4. ASSUME NEW w \in Worker, ReadCurrent(w) PROVE PlansHold'
  <2>1. UNCHANGED <<revision, removals, snapshot>>
    BY <1>4 DEF ReadCurrent, tables
  <2>2. PICK place : /\ place = "replace" => ExpectedMatches(w)
                     /\ at' = [at EXCEPT ![w] = place]
    BY <1>4 DEF ReadCurrent, Rejected
  <2> QED BY <1>1, <2>1, <2>2, PlansBeside DEF PlansHold, Kept, Located
<1> QED
  BY <1>1, <1>2, <1>3, <1>4, PlansLoad, PlansReplace, PlansRemove DEF Next, Proceed

\* A replacement takes the place of the very row that its plan was made against,
\* unless the row was removed since, and a pruning removes no registered row,
\* not even one that was committed while it waited (storage/postgres/runtime.ts,
\* replaceInTransaction, pruneGraphInTransaction).
THEOREM WritesStayPlanned == Spec => WritesArePlanned
<1>1. PlansHold /\ [Next]_vars => [\A w \in Worker : Replace(w) => Planned(w)]_vars
  BY DEF PlansHold, Replace
<1>2. PlansHold /\ [Next]_vars =>
        [\A w \in Worker : RemoveStale(w) =>
           \A r \in revision : r.rev.version \in task[w].registered => revision' = revision]_vars
  BY DEF PlansHold, Kept, OneRow, RemoveStale, StillStale, Stale, tables
<1>3. ReplacesPlanned <=> [][\A w \in Worker : Replace(w) => Planned(w)]_vars
  BY DEF ReplacesPlanned, Planned
<1> QED
  BY <1>1, <1>2, <1>3, PlansStart, PlansStep, PTL
  DEF Spec, WritesArePlanned, PruningSparesRegistered
-----------------------------------------------------------------------------
(* A mirror, of any projections and contents, drained and copied by one runner, *)
(* with batches of any size.                                                    *)

ZeroOrOne(option) == \A x, y \in option : x = y

\* The target has the revision that PostgreSQL has, if it is to have it.
Matching(k) == source[k] \subseteq Registered => {t.hash : t \in target[k]} = source[k]

IsRun(q) ==
  q = [at |-> q.at, copies |-> q.copies, after |-> q.after, batch |-> q.batch, rows |-> q.rows,
       chunks |-> q.chunks, held |-> q.held, left |-> q.left, failed |-> q.failed]

HasRows(q) == q.at \in {"chunks", "tokens", "write"}
HasChunks(q) == q.at = "write" \/ (q.at = "tokens" /\ ~q.copies)
HasHeld(q) == q.at = "write" \/ (q.at = "chunks" /\ q.copies)

\* No change was recorded since the projection was taken up.
StillAs(q, d) == changes[d.key] = IF q.copies THEN 0 ELSE d.place

BatchHolds(q) ==
  \A d \in q.batch :
    /\ d.key \in Key
    /\ ~q.copies => d.place \in Nat /\ 0 < d.place /\ d.place <= changes[d.key]

RowsHold(q) ==
  HasRows(q) =>
    \A d \in q.batch :
      /\ ZeroOrOne(q.rows[d.key]) /\ q.rows[d.key] \subseteq had[d.key]
      /\ StillAs(q, d) => q.rows[d.key] = source[d.key]

ChunksHold(q) ==
  HasChunks(q) =>
    \A d \in q.batch :
      /\ ZeroOrOne(q.chunks[d.key])
      /\ StillAs(q, d) => q.chunks[d.key] = source[d.key]
      /\ q.rows[d.key] # None /\ q.rows[d.key] = source[d.key] /\ d.key \notin restored =>
           q.chunks[d.key] = source[d.key]

HeldHolds(q) ==
  HasHeld(q) =>
    \A d \in q.batch : (q.at = "write" => d.key \in q.left) => q.held[d.key] = target[d.key]

DoneHolds(q) ==
  q.at = "write" =>
    /\ \A k \in q.left : \E d \in q.batch : d.key = k
    /\ \A d \in q.batch :
         d.key \notin q.left /\ d.key \notin q.failed /\ StillAs(q, d) => Matching(d.key)

\* A copy has taken over all that it has passed.
PassedHolds(q) ==
  q.copies /\ q.at # "idle" =>
    /\ q.failed = {}
    /\ \A k \in Key : changes[k] = 0 /\ k <= q.after /\ (\A d \in q.batch : d.key # k) => Matching(k)

RunHolds(q) ==
  /\ IsRun(q) /\ q.after \in Nat
  /\ q.at \in {"idle", "batch"} => q.batch = {}
  /\ q.at = "rows" => ~q.copies
  /\ q.at = "tokens" /\ ~q.copies => q.left = {d.key : d \in q.batch}
  /\ BatchHolds(q) /\ RowsHold(q) /\ ChunksHold(q) /\ HeldHolds(q) /\ DoneHolds(q) /\ PassedHolds(q)

SourceHolds ==
  /\ DOMAIN source = Key /\ \A k \in Key : ZeroOrOne(source[k]) /\ source[k] \subseteq had[k]
  /\ DOMAIN had = Key
  /\ changes \in [Key -> Nat] /\ sequence \in Nat /\ \A k \in Key : changes[k] <= sequence

TargetHolds ==
  /\ DOMAIN target = Key
  /\ \A k \in Key :
       /\ ZeroOrOne(target[k])
       /\ \A t \in target[k] :
            /\ t.hash \in had[k]
            /\ k \notin restored /\ {t.hash} = source[k] => {t.chunks} = source[k]

RecordsHold ==
  /\ copied \in BOOLEAN
  /\ \A k \in Key : changes[k] = 0 => Matching(k) \/ (target[k] = None /\ ~copied)

MirrorInv ==
  /\ SourceHolds /\ TargetHolds /\ RecordsHold
  /\ DOMAIN run = Runner /\ \A r \in Runner : RunHolds(run[r])

\* Drains and copies run one at a time.
OneRunner == \A r, s \in Runner : r = s
-----------------------------------------------------------------------------
(* Batches.                                                                *)

LEMMA FiniteHasGreatest ==
  ASSUME NEW S \in SUBSET Nat, IsFiniteSet(S), S # {}
  PROVE  \E m \in S : \A x \in S : x <= m
<1> DEFINE T == {X \in FiniteSubsetsOf(Nat) : X # {} /\ \A m \in X : \E x \in X : m < x}
<1>1. ASSUME T # {} PROVE FALSE
  <2>1. PICK X \in T : \A Y \in T : ~ (<<Y, X>> \in StrictSubsetOrdering(Nat))
    <3>1. T \subseteq FiniteSubsetsOf(Nat)
      OBVIOUS
    <3> HIDE DEF T
    <3> QED
      BY <1>1, <3>1, FS_StrictSubsetOrderingWellFounded, WFMin
  <2>2. X \in SUBSET Nat /\ IsFiniteSet(X)
    BY DEF FiniteSubsetsOf
  <2>3. PICK x \in X : TRUE
    OBVIOUS
  <2>4. PICK y \in X : x < y
    OBVIOUS
  <2> DEFINE Y == X \ {x}
  <2>5. Y \in FiniteSubsetsOf(Nat) /\ y \in Y
    BY <2>2, <2>4, FS_RemoveElement DEF FiniteSubsetsOf
  <2>6. <<Y, X>> \in StrictSubsetOrdering(Nat)
    BY <2>2 DEF StrictSubsetOrdering
  <2>7. Y \notin T
    BY <2>1, <2>6
  <2>8. PICK m \in Y : \A z \in Y : ~ (m < z)
    BY <2>5, <2>7
  <2>9. PICK z \in X : m < z
    OBVIOUS
  <2>10. z = x /\ m < y
    BY <2>2, <2>4, <2>8, <2>9
  <2> QED
    BY <2>4, <2>5, <2>8, <2>10
<1>2. S \in FiniteSubsetsOf(Nat)
  BY DEF FiniteSubsetsOf
<1> QED
  BY <1>1, <1>2

LEMMA MaxOfNats ==
  ASSUME NEW S \in SUBSET Nat, IsFiniteSet(S), S # {}
  PROVE  Max(S) \in S /\ \A x \in S : x <= Max(S)
<1>1. PICK m \in S : \A x \in S : x <= m
  BY FiniteHasGreatest
<1>2. \A x \in S : m >= x
  BY <1>1
<1> QED BY <1>2 DEF Max

LEMMA FirstOf ==
  ASSUME NEW seen, IsFiniteSet(seen), \A c \in seen : c.place \in Nat
  PROVE  /\ First(seen) \subseteq seen
         /\ First(seen) = {} => seen = {}
         /\ \A c \in seen, d \in First(seen) : c.place <= d.place => c \in First(seen)
<1> DEFINE before(c) == {d \in seen : d.place < c.place}
<1>1. First(seen) = {c \in seen : Cardinality(before(c)) < BatchSize}
  BY DEF First
<1>2. \A c \in seen : IsFiniteSet(before(c)) /\ Cardinality(before(c)) \in Nat
  BY FS_Subset, FS_CardinalityType
<1>3. ASSUME seen # {} PROVE First(seen) # {}
  <2> DEFINE places == {c.place : c \in seen}
  <2>1. PICK g \in places : \A h \in places : ~ (<<h, g>> \in OpToRel(<, Nat))
    <3>1. places # {} /\ places \subseteq Nat
      BY <1>3
    <3> HIDE DEF places
    <3> QED BY <3>1, NatLessThanWellFounded, WFMin
  <2>2. \A h \in places : ~ (h < g)
    BY <2>1 DEF OpToRel
  <2>3. PICK c \in seen : c.place = g
    OBVIOUS
  <2>4. before(c) = {}
    BY <2>2, <2>3
  <2>5. Cardinality(before(c)) < BatchSize
    BY <2>4, FS_EmptySet, MirrorAssumption
  <2> QED BY <1>1, <2>3, <2>5
<1>4. ASSUME NEW c \in seen, NEW d \in First(seen), c.place <= d.place
      PROVE  c \in First(seen)
  <2>1. before(c) \subseteq before(d)
    BY <1>1, <1>4
  <2>2. Cardinality(before(c)) <= Cardinality(before(d))
    BY <1>1, <1>2, <2>1, FS_Subset
  <2> HIDE DEF before
  <2> QED BY <1>1, <1>2, <2>2, MirrorAssumption
<1> QED BY <1>1, <1>3, <1>4

LEMMA PlacesOf ==
  ASSUME NEW batch, IsFiniteSet(batch), batch # {}, \A c \in batch : c.place \in Nat
  PROVE  LET last == Max({c.place : c \in batch})
         IN  last \in Nat /\ (\A c \in batch : c.place <= last) /\ \E c \in batch : c.place = last
<1> DEFINE places == {c.place : c \in batch}
           place == [c \in batch |-> c.place]
<1>1. place \in Surjection(batch, places)
  BY DEF Surjection
<1>2. IsFiniteSet(places)
  <2> HIDE DEF place, places
  <2> QED BY <1>1, FS_Surjection
<1>3. places \subseteq Nat /\ places # {}
  OBVIOUS
<1>4. Max(places) \in places /\ \A x \in places : x <= Max(places)
  <2> HIDE DEF places
  <2> QED BY <1>2, <1>3, MaxOfNats
<1> QED BY <1>3, <1>4

LEMMA FoundIsFinite ==
  ASSUME NEW keys \in SUBSET Key, NEW place
  PROVE  IsFiniteSet({[key |-> k, place |-> place[k]] : k \in keys})
<1> DEFINE records == {[key |-> k, place |-> place[k]] : k \in keys}
           record == [k \in keys |-> [key |-> k, place |-> place[k]]]
<1>1. record \in Surjection(keys, records)
  BY DEF Surjection
<1>2. IsFiniteSet(keys)
  BY MirrorAssumption, FS_Subset
<1> HIDE DEF record, records
<1> QED BY <1>1, <1>2, FS_Surjection DEF records

-----------------------------------------------------------------------------
(* Steps of the runner.                                                    *)

LEMMA OneGoes ==
  ASSUME OneRunner, DOMAIN run = Runner, NEW r \in Runner, NEW q, Goes(r, q)
  PROVE  DOMAIN run' = Runner /\ \A s \in Runner : run'[s] = q
BY DEF OneRunner, Goes

LEMMA StoppedFields ==
  /\ IsRun(Stopped) /\ Stopped.at = "idle" /\ Stopped.copies = FALSE /\ Stopped.after = 0
  /\ Stopped.batch = {} /\ Stopped.left = {} /\ Stopped.failed = {}
BY DEF Stopped, IsRun

LEMMA StoppedHolds ==
  ASSUME NEW q, q = Stopped
  PROVE  RunHolds(q)
BY StoppedFields
DEF RunHolds, BatchHolds, RowsHold, ChunksHold, HeldHolds, DoneHolds, PassedHolds, HasRows,
    HasChunks, HasHeld

LEMMA Unseen ==
  ASSUME UNCHANGED <<sourceVars, target>>, NEW q, RunHolds(q)
  PROVE  RunHolds(q)'
<1>1. UNCHANGED source /\ UNCHANGED changes /\ UNCHANGED had /\ UNCHANGED restored /\ UNCHANGED target
  BY DEF sourceVars
<1>2. \A k : Matching(k)' <=> Matching(k)
  BY <1>1 DEF Matching
<1>3. \A d : StillAs(q, d)' <=> StillAs(q, d)
  BY <1>1 DEF StillAs
<1>4. BatchHolds(q)' /\ RowsHold(q)'
  BY <1>1, <1>3 DEF RunHolds, BatchHolds, RowsHold
<1>5. ChunksHold(q)' /\ HeldHolds(q)'
  BY <1>1, <1>3 DEF RunHolds, ChunksHold, HeldHolds
<1>6. DoneHolds(q)' /\ PassedHolds(q)'
  BY <1>1, <1>2, <1>3 DEF RunHolds, DoneHolds, PassedHolds
<1> QED BY <1>4, <1>5, <1>6 DEF RunHolds

LEMMA StoppedKeeps == RunHolds(Stopped)'
BY StoppedFields, StoppedHolds
DEF RunHolds, BatchHolds, RowsHold, ChunksHold, HeldHolds, DoneHolds, PassedHolds, HasRows,
    HasChunks, HasHeld

LEMMA GoneHolds ==
  ASSUME MirrorInv, OneRunner, NEW r \in Runner, SourceHolds', TargetHolds', RecordsHold',
         \E q : Goes(r, q) /\ RunHolds(q)'
  PROVE  MirrorInv'
<1>1. PICK q : Goes(r, q) /\ RunHolds(q)'
  OBVIOUS
<1>2. DOMAIN run' = Runner /\ \A s \in Runner : run'[s] = q
  BY <1>1, OneGoes DEF MirrorInv
<1> QED BY <1>1, <1>2 DEF MirrorInv

\* Steps that only the runner sees.
LEMMA GoesKeeps ==
  ASSUME MirrorInv, OneRunner, NEW r \in Runner, NEW q, Goes(r, q), RunHolds(q),
         UNCHANGED <<sourceVars, target, copied>>
  PROVE  MirrorInv'
<1>1. DOMAIN run' = Runner /\ \A s \in Runner : run'[s] = q
  BY OneGoes DEF MirrorInv
<1>2. RunHolds(q)'
  BY Unseen
<1>3. SourceHolds' /\ TargetHolds' /\ RecordsHold'
  BY DEF MirrorInv, sourceVars, SourceHolds, TargetHolds, RecordsHold, Matching
<1> QED BY <1>1, <1>2, <1>3 DEF MirrorInv

LEMMA StartKeeps ==
  ASSUME MirrorInv, OneRunner, NEW r \in Runner, Start(r)
  PROVE  MirrorInv'
<1>1. PICK copies \in BOOLEAN : Goes(r, [Stopped EXCEPT !.at = "batch", !.copies = copies])
  BY DEF Start
<1> PICK q : q = [Stopped EXCEPT !.at = "batch", !.copies = copies]
  OBVIOUS
<1>2. IsRun(q) /\ q.at = "batch" /\ q.after = 0 /\ q.batch = {} /\ q.failed = {}
  BY StoppedFields DEF IsRun
<1>3. RunHolds(q)
  BY <1>2, MirrorAssumption
  DEF RunHolds, BatchHolds, RowsHold, ChunksHold, HeldHolds, DoneHolds, PassedHolds, HasRows,
      HasChunks, HasHeld
<1> QED BY <1>1, <1>3, GoesKeeps DEF Start

LEMMA ReadBatchKeeps ==
  ASSUME MirrorInv, OneRunner, NEW r \in Runner, ReadBatch(r)
  PROVE  MirrorInv'
<1> PICK p : p = run[r]
  OBVIOUS
<1> PICK batch : batch = Changes(p.after)
  OBVIOUS
<1> PICK last : last = Max({c.place : c \in batch})
  OBVIOUS
<1> PICK q : q = [p EXCEPT !.at = "rows", !.batch = batch, !.failed = {}, !.after = last]
  OBVIOUS
<1>1. p.at = "batch" /\ ~p.copies /\ RunHolds(p) /\ UNCHANGED <<sourceVars, target, copied>>
  BY DEF ReadBatch, Run, MirrorInv
<1>2. Goes(r, IF batch = {} THEN Stopped ELSE q)
  BY DEF ReadBatch, Run
<1>3. CASE batch = {}
  BY <1>1, <1>2, <1>3, StoppedHolds, GoesKeeps
<1>4. CASE batch # {}
  <2> DEFINE seen == {[key |-> k, place |-> changes[k]] : k \in {k \in Key : changes[k] > p.after}}
  <2>1. changes \in [Key -> Nat] /\ p.after \in Nat
    BY <1>1 DEF RunHolds, MirrorInv, SourceHolds
  <2>2. IsFiniteSet(seen)
    BY FoundIsFinite
  <2>3. \A c \in seen : c.key \in Key /\ c.place \in Nat /\ 0 < c.place /\ c.place = changes[c.key]
    BY <2>1
  <2>4. batch = First(seen)
    BY DEF Changes
  <2> HIDE DEF seen
  <2>5. batch \subseteq seen
    BY <2>2, <2>3, <2>4, FirstOf
  <2>6. last \in Nat
    <3>1. IsFiniteSet(batch)
      BY <2>2, <2>5, FS_Subset
    <3> QED BY <1>4, <2>3, <2>5, <3>1, PlacesOf
  <2>7. /\ IsRun(q) /\ q.at = "rows" /\ q.copies = p.copies /\ q.batch = batch /\ q.failed = {}
        /\ q.after = last
    BY <1>1 DEF RunHolds, IsRun
  <2>8. BatchHolds(q)
    BY <2>3, <2>5, <2>7 DEF BatchHolds
  <2>9. RunHolds(q)
    BY <1>1, <2>6, <2>7, <2>8
    DEF RunHolds, RowsHold, ChunksHold, HeldHolds, DoneHolds, PassedHolds, HasRows, HasChunks, HasHeld
  <2> QED BY <1>1, <1>2, <1>4, <2>9, GoesKeeps
<1> QED BY <1>3, <1>4

LEMMA ReadRowsKeeps ==
  ASSUME MirrorInv, OneRunner, NEW r \in Runner, ReadRows(r)
  PROVE  MirrorInv'
<1> PICK p : p = run[r]
  OBVIOUS
<1> PICK q : q = [p EXCEPT !.at = "chunks", !.rows = SourceRows(r)]
  OBVIOUS
<1>1. /\ p.at = "rows" /\ RunHolds(p) /\ Goes(r, q) /\ UNCHANGED <<sourceVars, target, copied>>
      /\ SourceRows(r) = [k \in KeysOf(r) |-> source[k]]
  BY DEF ReadRows, Run, MirrorInv, SourceRows
<1>2. /\ IsRun(q) /\ q.at = "chunks" /\ q.copies = p.copies /\ q.batch = p.batch
      /\ q.failed = p.failed /\ q.after = p.after /\ q.rows = SourceRows(r)
  BY <1>1 DEF RunHolds, IsRun
<1>3. \A d \in q.batch : q.rows[d.key] = source[d.key]
  BY <1>1, <1>2 DEF KeysOf, Run
<1>4. ~p.copies /\ BatchHolds(p) /\ p.after \in Nat
  BY <1>1 DEF RunHolds
<1>5. BatchHolds(q)
  BY <1>2, <1>4 DEF BatchHolds
<1>6. RowsHold(q)
  BY <1>3, <1>5 DEF RowsHold, BatchHolds, MirrorInv, SourceHolds
<1>7. RunHolds(q)
  BY <1>2, <1>4, <1>5, <1>6
  DEF RunHolds, ChunksHold, HeldHolds, DoneHolds, PassedHolds, HasChunks, HasHeld
<1> QED BY <1>1, <1>7, GoesKeeps

LEMMA ReadChunksKeeps ==
  ASSUME MirrorInv, OneRunner, NEW r \in Runner, ReadChunks(r)
  PROVE  MirrorInv'
<1> PICK p : p = run[r]
  OBVIOUS
<1> PICK step : step = IF p.copies THEN "write" ELSE "tokens"
  OBVIOUS
<1> PICK texts : texts = [k \in KeysOf(r) |-> source[k]]
  OBVIOUS
<1> PICK q : q = [p EXCEPT !.at = step, !.chunks = texts, !.left = KeysOf(r)]
  OBVIOUS
<1>1. /\ p.at = "chunks" /\ RunHolds(p) /\ Goes(r, q) /\ UNCHANGED <<sourceVars, target, copied>>
      /\ KeysOf(r) = {d.key : d \in p.batch}
  BY DEF ReadChunks, Run, MirrorInv, KeysOf
<1>2. /\ IsRun(q) /\ q.at = step /\ q.copies = p.copies /\ q.batch = p.batch
      /\ q.failed = p.failed /\ q.after = p.after /\ q.rows = p.rows /\ q.held = p.held
      /\ q.chunks = texts /\ q.left = {d.key : d \in p.batch}
  BY <1>1 DEF RunHolds, IsRun
<1>3. \A d \in q.batch : q.chunks[d.key] = source[d.key]
  BY <1>1, <1>2
<1>4. BatchHolds(p) /\ RowsHold(p) /\ HeldHolds(p) /\ PassedHolds(p) /\ p.after \in Nat
  BY <1>1 DEF RunHolds
<1>5. BatchHolds(q)
  BY <1>2, <1>4 DEF BatchHolds
<1>6. RowsHold(q)
  BY <1>1, <1>2, <1>4 DEF RowsHold, HasRows, StillAs
<1>7. ChunksHold(q)
  BY <1>3, <1>5 DEF ChunksHold, BatchHolds, MirrorInv, SourceHolds
<1>8. HeldHolds(q)
  BY <1>1, <1>2, <1>4 DEF HeldHolds, HasHeld
<1>9. DoneHolds(q) /\ PassedHolds(q)
  BY <1>1, <1>2, <1>4 DEF DoneHolds, PassedHolds
<1>10. RunHolds(q)
  BY <1>2, <1>4, <1>5, <1>6, <1>7, <1>8, <1>9 DEF RunHolds
<1> QED BY <1>1, <1>10, GoesKeeps

LEMMA LoadTargetsKeeps ==
  ASSUME MirrorInv, OneRunner, NEW r \in Runner, LoadTargets(r)
  PROVE  MirrorInv'
<1> PICK p : p = run[r]
  OBVIOUS
<1> PICK step : step = IF p.copies THEN "chunks" ELSE "write"
  OBVIOUS
<1> PICK held : held = [k \in KeysOf(r) |-> target[k]]
  OBVIOUS
<1> PICK q : q = [p EXCEPT !.at = step, !.held = held]
  OBVIOUS
<1>1. /\ p.at = "tokens" /\ RunHolds(p) /\ Goes(r, q) /\ UNCHANGED <<sourceVars, target, copied>>
      /\ KeysOf(r) = {d.key : d \in p.batch}
  BY DEF LoadTargets, Run, MirrorInv, KeysOf
<1>2. /\ IsRun(q) /\ q.at = step /\ q.copies = p.copies /\ q.batch = p.batch
      /\ q.failed = p.failed /\ q.after = p.after /\ q.rows = p.rows /\ q.held = held
      /\ q.chunks = p.chunks /\ q.left = p.left
  BY <1>1 DEF RunHolds, IsRun
<1>3. \A d \in q.batch : q.held[d.key] = target[d.key]
  BY <1>1, <1>2
<1>4. /\ BatchHolds(p) /\ RowsHold(p) /\ ChunksHold(p) /\ PassedHolds(p) /\ p.after \in Nat
      /\ ~p.copies => p.left = {d.key : d \in p.batch}
  BY <1>1 DEF RunHolds
<1>5. BatchHolds(q)
  BY <1>2, <1>4 DEF BatchHolds
<1>6. RowsHold(q)
  BY <1>1, <1>2, <1>4 DEF RowsHold, HasRows, StillAs
<1>7. ChunksHold(q)
  BY <1>1, <1>2, <1>4 DEF ChunksHold, HasChunks, StillAs
<1>8. HeldHolds(q)
  BY <1>3 DEF HeldHolds
<1>9. PassedHolds(q)
  BY <1>1, <1>2, <1>4 DEF PassedHolds
<1>10. DoneHolds(q)
  <2>1. ~p.copies => \A k : k \in q.left <=> \E d \in q.batch : d.key = k
    BY <1>2, <1>4
  <2>2. q.at = "write" => ~p.copies
    BY <1>2
  <2> QED BY <2>1, <2>2 DEF DoneHolds
<1>11. RunHolds(q)
  BY <1>2, <1>4, <1>5, <1>6, <1>7, <1>8, <1>9, <1>10 DEF RunHolds
<1> QED BY <1>1, <1>11, GoesKeeps

\* A page holds what the copy has not passed, up to its last key.
LEMMA ReadPageKeeps ==
  ASSUME MirrorInv, OneRunner, NEW r \in Runner, ReadPage(r)
  PROVE  MirrorInv'
<1> PICK p : p = run[r]
  OBVIOUS
<1> PICK page : page = Page(p.after)
  OBVIOUS
<1> PICK last : last = Max({c.place : c \in page})
  OBVIOUS
<1> PICK rows : rows = [k \in {c.key : c \in page} |-> source[k]]
  OBVIOUS
<1> PICK q : q = [p EXCEPT !.at = "tokens", !.batch = page, !.after = last, !.rows = rows]
  OBVIOUS
<1> DEFINE keys == {k \in Key : k > p.after /\ source[k] # None}
           seen == {[key |-> k, place |-> k] : k \in keys}
<1>1. /\ p.at = "batch" /\ p.copies /\ RunHolds(p) /\ UNCHANGED <<sourceVars, target>>
      /\ copied' = (copied \/ page = {})
  BY DEF ReadPage, Run, MirrorInv
<1>2. Goes(r, IF page = {} THEN Stopped ELSE q)
  BY DEF ReadPage, Run
<1>3. /\ p.after \in Nat /\ p.batch = {} /\ p.failed = {}
      /\ \A k \in Key : changes[k] = 0 /\ k <= p.after => Matching(k)
  BY <1>1 DEF RunHolds, PassedHolds
<1>4. IsFiniteSet(seen) /\ \A c \in seen : c.key = c.place /\ c.key \in keys /\ c.place \in Nat
  <2>1. seen = {[key |-> k, place |-> [j \in keys |-> j][k]] : k \in keys}
    OBVIOUS
  <2>2. IsFiniteSet(seen)
    <3> DEFINE id == [j \in keys |-> j]
    <3> HIDE DEF seen, keys, id
    <3> QED BY <2>1, FoundIsFinite DEF id, keys
  <2> QED BY <2>2, MirrorAssumption
<1>5. \A k \in keys : [key |-> k, place |-> k] \in seen
  OBVIOUS
<1>6. page = First(seen)
  BY DEF Page
<1> HIDE DEF seen
<1>7. /\ page \subseteq seen /\ (page = {} => seen = {})
      /\ \A c \in seen, d \in page : c.place <= d.place => c \in page
  BY <1>4, <1>6, FirstOf
<1>8. \A k \in Key : changes[k] = 0 /\ k > p.after /\ k \notin keys => Matching(k)
  BY DEF MirrorInv, RecordsHold, Matching, None
<1>9. CASE page = {}
  <2>1. \A k \in Key : changes[k] = 0 => Matching(k)
    <3>1. \A k : k \notin keys
      BY <1>5, <1>7, <1>9
    <3>2. \A k \in Key : k <= p.after \/ k > p.after
      BY <1>3, MirrorAssumption
    <3> QED BY <1>3, <1>8, <3>1, <3>2
  <2>2. RecordsHold'
    <3>1. copied' \in BOOLEAN
      BY <1>1
    <3>2. \A k \in Key : changes'[k] = 0 => Matching(k)'
      BY <1>1, <2>1 DEF Matching, sourceVars
    <3> QED BY <3>1, <3>2 DEF RecordsHold
  <2>3. SourceHolds' /\ TargetHolds'
    BY <1>1 DEF MirrorInv, sourceVars, SourceHolds, TargetHolds
  <2>4. RunHolds(Stopped)'
    BY <1>1, StoppedHolds, Unseen
  <2>5. DOMAIN run' = Runner /\ \A s \in Runner : run'[s] = Stopped
    BY <1>2, <1>9, OneGoes DEF MirrorInv
  <2> QED BY <2>2, <2>3, <2>4, <2>5 DEF MirrorInv
<1>10. CASE page # {}
  <2>1. IsFiniteSet(page) /\ \A c \in page : c.place \in Nat
    BY <1>4, <1>7, FS_Subset
  <2>2. /\ last \in Nat /\ \A c \in page : c.place <= last
        /\ \E c \in page : c.place = last
    BY <1>10, <2>1, PlacesOf
  <2>3. /\ IsRun(q) /\ q.at = "tokens" /\ q.copies = p.copies /\ q.batch = page
        /\ q.failed = {} /\ q.after = last /\ q.rows = rows
    BY <1>1, <1>3 DEF RunHolds, IsRun
  <2>4. \A d \in page : d.key \in Key /\ rows[d.key] = source[d.key]
    BY <1>4, <1>7
  <2>5. BatchHolds(q)
    BY <1>1, <2>3, <2>4 DEF BatchHolds
  <2>6. RowsHold(q)
    BY <2>3, <2>4 DEF RowsHold, MirrorInv, SourceHolds
  <2>7. PassedHolds(q)
    <3> SUFFICES ASSUME NEW k \in Key, changes[k] = 0, k <= last, \A d \in page : d.key # k
                 PROVE  Matching(k)
      BY <2>3 DEF PassedHolds
    <3>1. CASE k <= p.after
      BY <1>3, <3>1
    <3>2. CASE k \in keys
      <4>1. PICK d \in page : d.place = last
        BY <2>2
      <4>2. [key |-> k, place |-> k] \in page
        BY <1>5, <1>7, <3>2, <4>1
      <4> QED BY <4>2
    <3>3. k <= p.after \/ k > p.after
      BY <1>3, MirrorAssumption
    <3> QED BY <1>8, <3>1, <3>2, <3>3
  <2>8. RunHolds(q)
    <3>1. q.copies /\ ChunksHold(q) /\ HeldHolds(q) /\ DoneHolds(q)
      BY <1>1, <2>3 DEF ChunksHold, HeldHolds, DoneHolds, HasChunks, HasHeld
    <3> QED BY <2>2, <2>3, <2>5, <2>6, <2>7, <3>1 DEF RunHolds
  <2>9. copied' = copied
    BY <1>1, <1>10 DEF MirrorInv, RecordsHold
  <2> QED BY <1>1, <1>2, <1>10, <2>8, <2>9, GoesKeeps
<1> QED BY <1>9, <1>10

-----------------------------------------------------------------------------
(* Changes of the source, and what is written to the target.               *)

\* A changed projection has a record that no one has read.
LEMMA ChangeKeeps ==
  ASSUME MirrorInv, NEW k \in Key, NEW content, ZeroOrOne(content), ChangeSource(k, content)
  PROVE  MirrorInv'
<1>1. /\ source' = [source EXCEPT ![k] = content] /\ sequence' = sequence + 1
      /\ changes' = [changes EXCEPT ![k] = sequence + 1]
      /\ had' = [had EXCEPT ![k] = had[k] \union content]
      /\ restored' = IF content \intersect had[k] = {} THEN restored ELSE restored \union {k}
      /\ UNCHANGED <<target, run, copied>>
  BY DEF ChangeSource
<1>2. /\ DOMAIN source = Key /\ DOMAIN had = Key /\ changes \in [Key -> Nat] /\ sequence \in Nat
      /\ \A j \in Key : changes[j] <= sequence
  BY DEF MirrorInv, SourceHolds
<1>3. /\ source'[k] = content /\ changes'[k] = sequence + 1 /\ had'[k] = had[k] \union content
      /\ \A j \in Key : j # k => source'[j] = source[j] /\ changes'[j] = changes[j] /\ had'[j] = had[j]
      /\ \A j \in Key : had[j] \subseteq had'[j]
  BY <1>1, <1>2
<1>4. \A j : j \notin restored' => j \notin restored /\ (j = k => content \intersect had[k] = {})
  BY <1>1
<1>5. SourceHolds'
  <2>1. changes' \in [Key -> Nat] /\ sequence' \in Nat /\ DOMAIN source' = Key /\ DOMAIN had' = Key
    BY <1>1, <1>2
  <2>2. \A j \in Key : ZeroOrOne(source'[j]) /\ source'[j] \subseteq had'[j]
    BY <1>3 DEF MirrorInv, SourceHolds
  <2>3. \A j \in Key : changes'[j] <= sequence'
    BY <1>1, <1>2, <1>3
  <2> QED BY <2>1, <2>2, <2>3 DEF SourceHolds
<1>6. TargetHolds'
  <2>1. ASSUME NEW j \in Key, NEW t \in target[j]
        PROVE  /\ t.hash \in had'[j]
               /\ j \notin restored' /\ {t.hash} = source'[j] => {t.chunks} = source'[j]
    <3>1. t.hash \in had[j] /\ (j \notin restored /\ {t.hash} = source[j] => {t.chunks} = source[j])
      BY DEF MirrorInv, TargetHolds
    <3> QED BY <1>3, <1>4, <3>1
  <2> QED BY <1>1, <2>1 DEF MirrorInv, TargetHolds
<1>7. \A j \in Key : changes'[j] = 0 => changes[j] = 0 /\ j # k
  BY <1>2, <1>3
<1>8. \A j \in Key : j # k /\ Matching(j) => Matching(j)'
  BY <1>1, <1>3 DEF Matching
<1>9. RecordsHold'
  BY <1>1, <1>7, <1>8 DEF MirrorInv, RecordsHold
<1>10. ASSUME NEW r \in Runner PROVE RunHolds(run[r])'
  <2> PICK q : q = run[r]
    OBVIOUS
  <2>1. RunHolds(q) /\ run' = run
    BY <1>1 DEF MirrorInv
  <2>2. BatchHolds(q)
    BY <2>1 DEF RunHolds
  <2>3. ASSUME NEW d \in q.batch, StillAs(q, d)'
        PROVE  StillAs(q, d) /\ d.key \in Key /\ d.key # k
    <3>1. d.key \in Key /\ changes'[d.key] = IF q.copies THEN 0 ELSE d.place
      BY <2>2, <2>3 DEF StillAs, BatchHolds
    <3>2. d.key # k
      <4>1. CASE q.copies
        BY <1>2, <1>3, <3>1, <4>1
      <4>2. CASE ~q.copies
        <5>1. d.place \in Nat /\ d.place <= changes[d.key]
          BY <2>2, <4>2 DEF BatchHolds
        <5> QED BY <1>2, <1>3, <3>1, <4>2, <5>1
      <4> QED BY <4>1, <4>2
    <3> QED BY <1>3, <3>1, <3>2 DEF StillAs
  <2>4. BatchHolds(q)'
    <3> SUFFICES ASSUME NEW d \in q.batch, ~q.copies PROVE d.place <= changes'[d.key]
      BY <2>2 DEF BatchHolds
    <3>1. d.key \in Key /\ d.place \in Nat /\ d.place <= changes[d.key]
      BY <2>2 DEF BatchHolds
    <3> QED BY <1>2, <1>3, <3>1
  <2>5. RowsHold(q)'
    <3> SUFFICES ASSUME HasRows(q), NEW d \in q.batch
                 PROVE  /\ ZeroOrOne(q.rows[d.key]) /\ q.rows[d.key] \subseteq had'[d.key]
                        /\ StillAs(q, d)' => q.rows[d.key] = source'[d.key]
      BY DEF RowsHold, HasRows
    <3>1. d.key \in Key /\ ZeroOrOne(q.rows[d.key]) /\ q.rows[d.key] \subseteq had[d.key]
      BY <2>1, <2>2 DEF RunHolds, RowsHold, BatchHolds
    <3>2. StillAs(q, d) => q.rows[d.key] = source[d.key]
      BY <2>1 DEF RunHolds, RowsHold
    <3> QED BY <1>3, <2>3, <3>1, <3>2
  <2>6. ChunksHold(q)'
    <3> SUFFICES ASSUME HasChunks(q), NEW d \in q.batch
                 PROVE  /\ ZeroOrOne(q.chunks[d.key])
                        /\ StillAs(q, d)' => q.chunks[d.key] = source'[d.key]
                        /\ q.rows[d.key] # None /\ q.rows[d.key] = source'[d.key]
                              /\ d.key \notin restored' => q.chunks[d.key] = source'[d.key]
      BY DEF ChunksHold, HasChunks
    <3>1. /\ ZeroOrOne(q.chunks[d.key])
          /\ StillAs(q, d) => q.chunks[d.key] = source[d.key]
          /\ q.rows[d.key] # None /\ q.rows[d.key] = source[d.key] /\ d.key \notin restored =>
               q.chunks[d.key] = source[d.key]
      BY <2>1 DEF RunHolds, ChunksHold
    <3>2. d.key \in Key /\ q.rows[d.key] \subseteq had[d.key]
      BY <2>1, <2>2 DEF RunHolds, RowsHold, BatchHolds, HasRows, HasChunks
    <3>3. ASSUME q.rows[d.key] # None, q.rows[d.key] = source'[d.key], d.key \notin restored'
          PROVE  q.chunks[d.key] = source'[d.key]
      <4>1. d.key # k
        BY <1>3, <1>4, <3>2, <3>3 DEF None
      <4> QED BY <1>3, <1>4, <3>1, <3>2, <3>3, <4>1
    <3> QED BY <1>3, <2>3, <3>1, <3>2, <3>3
  <2>7. HeldHolds(q)'
    BY <1>1, <2>1 DEF RunHolds, HeldHolds, HasHeld
  <2>8. DoneHolds(q)'
    BY <1>8, <2>1, <2>3 DEF RunHolds, DoneHolds
  <2>9. PassedHolds(q)'
    <3> SUFFICES ASSUME q.copies, q.at # "idle", NEW j \in Key, changes'[j] = 0, j <= q.after,
                        \A d \in q.batch : d.key # j
                 PROVE  q.failed = {} /\ Matching(j)'
      BY <2>1 DEF RunHolds, PassedHolds
    <3>1. changes[j] = 0 /\ j # k
      BY <1>7
    <3>2. q.failed = {} /\ Matching(j)
      BY <2>1, <3>1 DEF RunHolds, PassedHolds
    <3> QED BY <1>8, <3>1, <3>2
  <2>10. RunHolds(q)'
    BY <2>1, <2>4, <2>5, <2>6, <2>7, <2>8, <2>9 DEF RunHolds
  <2>11. run'[r] = q
    BY <2>1
  <2> QED BY <2>10, <2>11
<1>11. DOMAIN run' = Runner
  BY <1>1 DEF MirrorInv
<1> QED BY <1>5, <1>6, <1>9, <1>10, <1>11 DEF MirrorInv

LEMMA TheOne ==
  ASSUME NEW option, ZeroOrOne(option), option # None
  PROVE  option = {The(option)}
BY DEF ZeroOrOne, None, The

\* What the runner knows of a projection that it has not written yet.
LEMMA LeftKnown ==
  ASSUME NEW p, RunHolds(p), p.at = "write", NEW k \in p.left
  PROVE  /\ k \in Key /\ ZeroOrOne(p.rows[k]) /\ p.rows[k] \subseteq had[k] /\ ZeroOrOne(p.chunks[k])
         /\ p.rows[k] # None /\ p.rows[k] = source[k] /\ k \notin restored => p.chunks[k] = source[k]
         /\ p.held[k] = target[k]
         /\ \A d \in p.batch : d.key = k /\ StillAs(p, d) =>
              p.rows[k] = source[k] /\ p.chunks[k] = source[k]
         /\ \E d \in p.batch : d.key = k /\ (changes[k] = 0 => StillAs(p, d))
<1>1. PICK d \in p.batch : d.key = k
  BY DEF RunHolds, DoneHolds
<1>2. k \in Key /\ (~p.copies => d.place \in Nat /\ 0 < d.place /\ d.place <= changes[k])
  BY <1>1 DEF RunHolds, BatchHolds
<1>3. changes[k] = 0 => StillAs(p, d)
  <2>1. changes[k] = 0 => p.copies
    BY <1>2
  <2> QED BY <1>1, <2>1 DEF StillAs
<1>4. \A e \in p.batch : e.key = k =>
        /\ ZeroOrOne(p.rows[k]) /\ p.rows[k] \subseteq had[k]
        /\ StillAs(p, e) => p.rows[k] = source[k]
  BY DEF RunHolds, RowsHold, HasRows
<1>5. \A e \in p.batch : e.key = k =>
        /\ ZeroOrOne(p.chunks[k])
        /\ StillAs(p, e) => p.chunks[k] = source[k]
        /\ p.rows[k] # None /\ p.rows[k] = source[k] /\ k \notin restored => p.chunks[k] = source[k]
  BY DEF RunHolds, ChunksHold, HasChunks
<1>6. p.held[k] = target[k]
  BY <1>1 DEF RunHolds, HeldHolds, HasHeld
<1> QED BY <1>1, <1>2, <1>3, <1>4, <1>5, <1>6

\* The target has the projection already, or is not to have it.
LEMMA NothingToWrite ==
  ASSUME NEW r \in Runner, NEW p, p = run[r], RunHolds(p), p.at = "write", NEW k \in p.left,
         Unregistered(r, k) \/ Reflected(r, k), NEW d \in p.batch, d.key = k, StillAs(p, d)
  PROVE  Matching(k)
<1>1. p.rows[k] = source[k] /\ p.chunks[k] = source[k] /\ p.held[k] = target[k]
  BY LeftKnown
<1>2. CASE Unregistered(r, k)
  BY <1>1, <1>2 DEF Unregistered, Run, Matching
<1>3. CASE Reflected(r, k) /\ p.rows[k] = None
  BY <1>1, <1>3 DEF Reflected, Run, Matching, None
<1>4. CASE Reflected(r, k) /\ p.rows[k] # None
  BY <1>1, <1>4 DEF Reflected, Run, Matching
<1> QED BY <1>2, <1>3, <1>4

LEMMA AppliedHolds ==
  ASSUME MirrorInv, NEW r \in Runner, NEW p, p = run[r], p.at = "write", NEW k \in p.left,
         ~Unregistered(r, k), Applied(r, k), UNCHANGED <<sourceVars, copied>>
  PROVE  /\ TargetHolds' /\ RecordsHold'
         /\ \A j \in Key : j # k => target'[j] = target[j]
         /\ \A d \in p.batch : d.key = k /\ StillAs(p, d) => Matching(k)'
<1>1. RunHolds(p) /\ UNCHANGED source /\ UNCHANGED changes /\ UNCHANGED had /\ UNCHANGED restored
  BY DEF MirrorInv, sourceVars
<1>2. /\ k \in Key /\ ZeroOrOne(p.rows[k]) /\ p.rows[k] \subseteq had[k] /\ ZeroOrOne(p.chunks[k])
      /\ p.rows[k] # None /\ p.rows[k] = source[k] /\ k \notin restored => p.chunks[k] = source[k]
      /\ \A d \in p.batch : d.key = k /\ StillAs(p, d) =>
           p.rows[k] = source[k] /\ p.chunks[k] = source[k]
      /\ \E d \in p.batch : d.key = k /\ (changes[k] = 0 => StillAs(p, d))
  BY <1>1, LeftKnown
<1>3. PICK new : /\ target' = [target EXCEPT ![k] = new] /\ ZeroOrOne(new)
                 /\ {t.hash : t \in new} = p.rows[k]
                 /\ p.rows[k] # None => {t.chunks : t \in new} = p.chunks[k]
  <2>1. CASE p.rows[k] = None
    BY <2>1 DEF Applied, Run, None, ZeroOrOne
  <2>2. CASE p.rows[k] # None
    <3> PICK t : t = [hash |-> The(p.rows[k]), chunks |-> The(p.chunks[k]), token |-> tokens']
      OBVIOUS
    <3>1. target' = [target EXCEPT ![k] = {t}]
      BY <2>2 DEF Applied, Run, Some
    <3>2. p.chunks[k] # None
      BY <2>2 DEF Unregistered, Run
    <3>3. {t.hash} = p.rows[k] /\ {t.chunks} = p.chunks[k]
      BY <1>2, <2>2, <3>2, TheOne
    <3>4. {u.hash : u \in {t}} = {t.hash} /\ {u.chunks : u \in {t}} = {t.chunks} /\ ZeroOrOne({t})
      BY DEF ZeroOrOne
    <3> QED BY <3>1, <3>3, <3>4
  <2> QED BY <2>1, <2>2
<1>4. target'[k] = new /\ DOMAIN target' = Key /\ \A j \in Key : j # k => target'[j] = target[j]
  BY <1>2, <1>3 DEF MirrorInv, TargetHolds
<1>5. \A d \in p.batch : d.key = k /\ StillAs(p, d) => Matching(k)'
  BY <1>1, <1>2, <1>3, <1>4 DEF Matching
<1>6. ASSUME NEW t \in new
      PROVE  t.hash \in had[k] /\ (k \notin restored /\ {t.hash} = source[k] => {t.chunks} = source[k])
  <2>1. t.hash \in p.rows[k]
    BY <1>3
  <2>2. p.rows[k] # None /\ p.rows[k] = {t.hash}
    BY <1>2, <2>1 DEF None, ZeroOrOne
  <2>3. {t.chunks} = p.chunks[k]
    BY <1>3, <2>2 DEF ZeroOrOne
  <2> QED BY <1>2, <2>1, <2>2, <2>3
<1>7. TargetHolds'
  BY <1>1, <1>3, <1>4, <1>6 DEF MirrorInv, TargetHolds
<1>8. RecordsHold'
  <2>1. changes[k] = 0 => Matching(k)'
    BY <1>2, <1>5
  <2>2. \A j \in Key : j # k => (Matching(j)' <=> Matching(j))
    BY <1>1, <1>4 DEF Matching
  <2> QED BY <1>1, <1>4, <2>1, <2>2 DEF MirrorInv, RecordsHold
<1> QED BY <1>4, <1>5, <1>7, <1>8

\* The runner goes on to what is left.
LEMMA LeftHolds ==
  ASSUME NEW p, RunHolds(p), p.at = "write", NEW k \in p.left, UNCHANGED sourceVars,
         \A j \in Key : j # k => target'[j] = target[j],
         NEW q, IsRun(q), q.at = "write", q.copies = p.copies, q.after = p.after, q.batch = p.batch,
         q.rows = p.rows, q.chunks = p.chunks, q.held = p.held, q.left = p.left \ {k},
         p.failed \subseteq q.failed, q.copies => q.failed = p.failed,
         \A j \in q.failed : j = k \/ j \in p.failed,
         k \notin q.failed => \A d \in p.batch : d.key = k /\ StillAs(p, d) => Matching(k)'
  PROVE  RunHolds(q)'
<1>1. UNCHANGED source /\ UNCHANGED changes /\ UNCHANGED had /\ UNCHANGED restored
  BY DEF sourceVars
<1>2. \A j \in Key : j # k => (Matching(j)' <=> Matching(j))
  BY <1>1 DEF Matching
<1>3. \A d : StillAs(q, d)' <=> StillAs(p, d)
  BY <1>1 DEF StillAs
<1>4. BatchHolds(p) /\ RowsHold(p) /\ ChunksHold(p) /\ HeldHolds(p) /\ DoneHolds(p) /\ PassedHolds(p)
  BY DEF RunHolds
<1>5. BatchHolds(q)'
  BY <1>1, <1>4 DEF BatchHolds
<1>6. RowsHold(q)'
  BY <1>1, <1>3, <1>4 DEF RowsHold, HasRows
<1>7. ChunksHold(q)'
  BY <1>1, <1>3, <1>4 DEF ChunksHold, HasChunks
<1>8. HeldHolds(q)'
  <2>1. \A d \in p.batch : d.key \in Key
    BY <1>4 DEF BatchHolds
  <2>2. \A d \in p.batch : d.key \in p.left => p.held[d.key] = target[d.key]
    BY <1>4 DEF HeldHolds, HasHeld
  <2> QED BY <2>1, <2>2 DEF HeldHolds
<1>9. DoneHolds(q)'
  <2>1. \A j \in q.left : \E d \in q.batch : d.key = j
    BY <1>4 DEF DoneHolds
  <2>2. ASSUME NEW d \in p.batch, d.key \notin q.left, d.key \notin q.failed, StillAs(p, d)
        PROVE  Matching(d.key)'
    <3>1. CASE d.key = k
      BY <2>2, <3>1
    <3>2. CASE d.key # k
      BY <1>2, <1>4, <2>2, <3>2 DEF DoneHolds, BatchHolds
    <3> QED BY <3>1, <3>2
  <2> QED BY <1>3, <2>1, <2>2 DEF DoneHolds
<1>10. PassedHolds(q)'
  <2>1. PICK d \in p.batch : d.key = k
    BY <1>4 DEF DoneHolds
  <2> QED BY <1>1, <1>2, <1>4, <2>1 DEF PassedHolds
<1> QED BY <1>5, <1>6, <1>7, <1>8, <1>9, <1>10 DEF RunHolds

LEMMA WriteKeeps ==
  ASSUME MirrorInv, OneRunner, NEW r \in Runner, NEW k \in Key, Write(r, k)
  PROVE  MirrorInv'
<1>0. PICK p : p = run[r]
  OBVIOUS
<1>1. p.at = "write" /\ k \in p.left /\ RunHolds(p) /\ UNCHANGED <<sourceVars, copied>>
  BY <1>0 DEF Write, Run, MirrorInv
<1>2. /\ TargetHolds' /\ RecordsHold' /\ \A j \in Key : j # k => target'[j] = target[j]
      /\ \/ Wrote(r, k) /\ \A d \in p.batch : d.key = k /\ StillAs(p, d) => Matching(k)'
         \/ Failed(r, k)
  <2>1. CASE UNCHANGED <<target, tokens>>
    <3>1. UNCHANGED source /\ UNCHANGED changes /\ UNCHANGED had /\ UNCHANGED restored
      BY <1>1 DEF sourceVars
    <3>2. TargetHolds' /\ RecordsHold' /\ (Matching(k) => Matching(k)')
      BY <1>1, <2>1, <3>1 DEF MirrorInv, TargetHolds, RecordsHold, Matching
    <3>3. Failed(r, k) \/ (Wrote(r, k) /\ (Unregistered(r, k) \/ Reflected(r, k)))
             \/ (Wrote(r, k) /\ ~Unregistered(r, k) /\ Applied(r, k))
      BY DEF Write
    <3>4. CASE Wrote(r, k) /\ (Unregistered(r, k) \/ Reflected(r, k))
      <4>1. \A d \in p.batch : d.key = k /\ StillAs(p, d) => Matching(k)
        BY <1>0, <1>1, <3>4, NothingToWrite
      <4> QED BY <2>1, <3>2, <3>4, <4>1
    <3>5. CASE Wrote(r, k) /\ ~Unregistered(r, k) /\ Applied(r, k)
      BY <1>1, <3>5, <1>0, AppliedHolds
    <3> QED BY <2>1, <3>2, <3>3, <3>4, <3>5
  <2>2. CASE ~Unregistered(r, k) /\ Applied(r, k)
    BY <1>1, <2>2, <1>0, AppliedHolds DEF Write
  <2> QED BY <2>1, <2>2 DEF Write
<1>3. SourceHolds'
  BY <1>1 DEF MirrorInv, SourceHolds, sourceVars
<1>4. \E q : Goes(r, q) /\ RunHolds(q)'
  <2>1. CASE Wrote(r, k) /\ \A d \in p.batch : d.key = k /\ StillAs(p, d) => Matching(k)'
    <3>0. PICK q : q = [p EXCEPT !.left = p.left \ {k}]
      OBVIOUS
    <3>1. /\ IsRun(q) /\ q.at = "write" /\ q.copies = p.copies /\ q.after = p.after
          /\ q.batch = p.batch /\ q.rows = p.rows /\ q.chunks = p.chunks /\ q.held = p.held
          /\ q.left = p.left \ {k} /\ q.failed = p.failed
      BY <1>1, <3>0 DEF RunHolds, IsRun
    <3>2. p.failed \subseteq q.failed /\ (\A j \in q.failed : j = k \/ j \in p.failed)
      BY <3>1
    <3>4. q.copies => q.failed = p.failed
      BY <2>1, <3>1
    <3>5. k \notin q.failed => \A d \in p.batch : d.key = k /\ StillAs(p, d) => Matching(k)'
      BY <2>1, <3>1
    <3>6. RunHolds(q)'
      <4>1. RunHolds(p) /\ p.at = "write" /\ k \in p.left /\ UNCHANGED sourceVars
        BY <1>1
      <4>2. \A j \in Key : j # k => target'[j] = target[j]
        BY <1>2
      <4> QED BY <3>1, <3>2, <3>4, <3>5, <4>1, <4>2, LeftHolds
    <3>3. Goes(r, q)
      BY <1>0, <2>1, <3>0 DEF Wrote, Run
    <3> QED BY <3>3, <3>6
  <2>2. CASE Failed(r, k) /\ p.copies
    <3>1. Goes(r, Stopped)
      BY <1>0, <2>2 DEF Failed, Run
    <3>2. RunHolds(Stopped)'
      BY StoppedKeeps
    <3> QED BY <3>1, <3>2
  <2>3. CASE Failed(r, k) /\ ~p.copies
    <3>0. PICK q : q = [p EXCEPT !.left = p.left \ {k}, !.failed = p.failed \union {k}]
      OBVIOUS
    <3>1. /\ IsRun(q) /\ q.at = "write" /\ q.copies = p.copies /\ q.after = p.after
          /\ q.batch = p.batch /\ q.rows = p.rows /\ q.chunks = p.chunks /\ q.held = p.held
          /\ q.left = p.left \ {k} /\ q.failed = p.failed \union {k}
      BY <1>1, <3>0 DEF RunHolds, IsRun
    <3>2. p.failed \subseteq q.failed /\ (\A j \in q.failed : j = k \/ j \in p.failed)
      BY <3>1
    <3>4. q.copies => q.failed = p.failed
      BY <2>3, <3>1
    <3>5. k \notin q.failed => \A d \in p.batch : d.key = k /\ StillAs(p, d) => Matching(k)'
      BY <2>3, <3>1
    <3>6. RunHolds(q)'
      <4>1. RunHolds(p) /\ p.at = "write" /\ k \in p.left /\ UNCHANGED sourceVars
        BY <1>1
      <4>2. \A j \in Key : j # k => target'[j] = target[j]
        BY <1>2
      <4> QED BY <3>1, <3>2, <3>4, <3>5, <4>1, <4>2, LeftHolds
    <3>3. Goes(r, q)
      BY <1>0, <2>3, <3>0 DEF Failed, Run
    <3> QED BY <3>3, <3>6
  <2> QED BY <1>2, <2>1, <2>2, <2>3
<1> QED BY <1>2, <1>3, <1>4, GoneHolds

LEMMA CrashKeeps ==
  ASSUME MirrorInv, OneRunner, NEW r \in Runner, Crash(r)
  PROVE  MirrorInv'
<1> PICK p : p = run[r]
  OBVIOUS
<1>1. Goes(r, Stopped) /\ UNCHANGED <<sourceVars, copied>> /\ RunHolds(Stopped)'
  BY StoppedKeeps DEF Crash
<1>2. CASE UNCHANGED <<target, tokens>>
  BY <1>1, <1>2, StoppedHolds, GoesKeeps
<1>3. ASSUME p.at = "write", NEW k \in p.left, ~Unregistered(r, k), Applied(r, k)
      PROVE  MirrorInv'
  <2>1. TargetHolds' /\ RecordsHold'
    BY <1>1, <1>3, AppliedHolds
  <2>2. SourceHolds'
    BY <1>1 DEF MirrorInv, SourceHolds, sourceVars
  <2> QED BY <1>1, <2>1, <2>2, GoneHolds
<1> QED BY <1>2, <1>3 DEF Crash, Run

\* What is cleared is what the target has.
LEMMA ClearBatchKeeps ==
  ASSUME MirrorInv, OneRunner, NEW r \in Runner, ClearBatch(r)
  PROVE  MirrorInv'
<1>0. PICK p : p = run[r]
  OBVIOUS
<1>1. /\ p.at = "write" /\ p.left = {} /\ ~p.copies /\ RunHolds(p)
      /\ changes' = [k \in Key |-> IF k \in Cleared(r) THEN 0 ELSE changes[k]]
      /\ UNCHANGED <<source, sequence, had, restored, target, tokens, copied>>
  BY <1>0 DEF ClearBatch, Run, MirrorInv
<1>2. ASSUME NEW k \in Cleared(r) PROVE Matching(k)
  <2>1. PICK d \in p.batch : d.key = k /\ d.key \notin p.failed /\ changes[d.key] = d.place
    BY <1>0 DEF Cleared, Run
  <2>2. StillAs(p, d)
    BY <1>1, <2>1 DEF StillAs
  <2> QED BY <1>1, <2>1, <2>2 DEF RunHolds, DoneHolds
<1>3. SourceHolds'
  <2>1. \A k \in Key : changes[k] \in Nat /\ changes[k] <= sequence /\ sequence \in Nat
    BY DEF MirrorInv, SourceHolds
  <2>2. changes' \in [Key -> Nat] /\ \A k \in Key : changes'[k] <= sequence
    BY <1>1, <2>1
  <2> QED BY <1>1, <2>2 DEF MirrorInv, SourceHolds
<1>4. TargetHolds'
  BY <1>1 DEF MirrorInv, TargetHolds
<1>5. RecordsHold'
  <2>1. \A k \in Key : changes'[k] = 0 => changes[k] = 0 \/ k \in Cleared(r)
    BY <1>1
  <2>2. \A k : Matching(k)' <=> Matching(k)
    BY <1>1 DEF Matching
  <2> QED BY <1>1, <1>2, <2>1, <2>2 DEF MirrorInv, RecordsHold
<1>6. \E q : Goes(r, q) /\ RunHolds(q)'
  <2>1. CASE Goes(r, Stopped)
    BY <2>1, StoppedKeeps
  <2>2. CASE Goes(r, [Stopped EXCEPT !.at = "batch", !.after = p.after])
    <3>0. PICK q : q = [Stopped EXCEPT !.at = "batch", !.after = p.after]
      OBVIOUS
    <3>1. IsRun(q) /\ q.at = "batch" /\ q.after = p.after /\ q.batch = {} /\ ~q.copies
      BY <3>0, StoppedFields DEF IsRun
    <3>2. RunHolds(q)'
      BY <1>1, <3>1
      DEF RunHolds, BatchHolds, RowsHold, ChunksHold, HeldHolds, DoneHolds, PassedHolds, HasRows,
          HasChunks, HasHeld
    <3> QED BY <2>2, <3>0, <3>2
  <2> QED BY <1>0, <2>1, <2>2 DEF ClearBatch, Run
<1> QED BY <1>3, <1>4, <1>5, <1>6, GoneHolds

LEMMA TurnPageKeeps ==
  ASSUME MirrorInv, OneRunner, NEW r \in Runner, TurnPage(r)
  PROVE  MirrorInv'
<1>0. PICK p : p = run[r]
  OBVIOUS
<1>1. /\ p.at = "write" /\ p.left = {} /\ p.copies /\ RunHolds(p)
      /\ UNCHANGED <<sourceVars, target, copied>>
  BY <1>0 DEF TurnPage, Run, MirrorInv
<1>2. CASE Goes(r, Stopped)
  BY <1>1, <1>2, StoppedHolds, GoesKeeps
<1>3. CASE Goes(r, [Stopped EXCEPT !.at = "batch", !.copies = TRUE, !.after = p.after])
  <2>0. PICK q : q = [Stopped EXCEPT !.at = "batch", !.copies = TRUE, !.after = p.after]
    OBVIOUS
  <2>1. /\ IsRun(q) /\ q.at = "batch" /\ q.after = p.after /\ q.batch = {} /\ q.failed = {}
        /\ q.copies
    BY <2>0, StoppedFields DEF IsRun
  <2>2. ASSUME NEW k \in Key, changes[k] = 0, k <= p.after PROVE Matching(k)
    <3>1. CASE \A d \in p.batch : d.key # k
      BY <1>1, <2>2, <3>1 DEF RunHolds, PassedHolds
    <3>2. ASSUME NEW d \in p.batch, d.key = k PROVE Matching(k)
      <4>1. StillAs(p, d) /\ p.failed = {}
        BY <1>1, <2>2, <3>2 DEF StillAs, RunHolds, PassedHolds
      <4> QED BY <1>1, <3>2, <4>1 DEF RunHolds, DoneHolds
    <3> QED BY <3>1, <3>2
  <2>3. PassedHolds(q)
    BY <2>1, <2>2 DEF PassedHolds
  <2>4. RunHolds(q)
    BY <1>1, <2>1, <2>3
    DEF RunHolds, BatchHolds, RowsHold, ChunksHold, HeldHolds, DoneHolds, HasRows, HasChunks,
        HasHeld
  <2>5. Goes(r, q)
    BY <1>3, <2>0
  <2> QED BY <1>1, <2>4, <2>5, GoesKeeps
<1> QED BY <1>0, <1>2, <1>3 DEF TurnPage, Run

-----------------------------------------------------------------------------
(* Every step of the mirror.                                               *)

LEMMA MirrorBegins == MirrorInit => MirrorInv
<1> SUFFICES ASSUME MirrorInit PROVE MirrorInv
  OBVIOUS
<1>1. /\ source \in [Key -> {None} \union {Some(c) : c \in Earlier}] /\ had = source
      /\ changes = [k \in Key |-> 0] /\ sequence = 0 /\ target = [k \in Key |-> None]
      /\ run = [r \in Runner |-> Stopped] /\ copied = FALSE
  BY DEF MirrorInit
<1>2. \A k \in Key : ZeroOrOne(source[k])
  BY <1>1 DEF ZeroOrOne, None, Some
<1>3. SourceHolds
  BY <1>1, <1>2 DEF SourceHolds
<1>4. TargetHolds /\ RecordsHold
  BY <1>1 DEF TargetHolds, RecordsHold, ZeroOrOne, None
<1>5. DOMAIN run = Runner /\ \A r \in Runner : RunHolds(run[r])
  BY <1>1, StoppedHolds
<1> QED BY <1>3, <1>4, <1>5 DEF MirrorInv

LEMMA MirrorStep ==
  ASSUME MirrorInv, OneRunner, [MirrorNext]_mirrorVars
  PROVE  MirrorInv'
<1>1. CASE UNCHANGED mirrorVars
  <2>1. UNCHANGED <<sourceVars, target, copied>> /\ UNCHANGED run
    BY <1>1 DEF mirrorVars, sourceVars
  <2>2. \A r \in Runner : RunHolds(run[r])'
    <3> SUFFICES ASSUME NEW r \in Runner PROVE RunHolds(run[r])'
      OBVIOUS
    <3>1. PICK q : q = run[r]
      OBVIOUS
    <3>2. RunHolds(q)
      BY <3>1 DEF MirrorInv
    <3>3. RunHolds(q)'
      BY <2>1, <3>2, Unseen
    <3>4. run'[r] = q
      BY <2>1, <3>1
    <3> QED BY <3>3, <3>4
  <2> QED
    BY <2>1, <2>2
    DEF MirrorInv, sourceVars, SourceHolds, TargetHolds, RecordsHold, Matching
<1>2. ASSUME NEW k \in Key, NEW content \in {None} \union {Some(c) : c \in SourceContent},
             ChangeSource(k, content)
      PROVE  MirrorInv'
  <2>1. ZeroOrOne(content)
    BY DEF ZeroOrOne, None, Some
  <2> QED BY <1>2, <2>1, ChangeKeeps
<1>3. ASSUME NEW r \in Runner,
             \/ Start(r) \/ ReadBatch(r) \/ ReadRows(r) \/ ReadPage(r) \/ ReadChunks(r)
             \/ LoadTargets(r) \/ ClearBatch(r) \/ TurnPage(r) \/ Crash(r)
             \/ \E k \in Key : Write(r, k)
      PROVE  MirrorInv'
  BY <1>3, StartKeeps, ReadBatchKeeps, ReadRowsKeeps, ReadPageKeeps, ReadChunksKeeps,
     LoadTargetsKeeps, ClearBatchKeeps, TurnPageKeeps, CrashKeeps, WriteKeeps
<1> QED BY <1>1, <1>2, <1>3 DEF MirrorNext

LEMMA CurrentWhenQuiet == MirrorInv => MirrorIsCurrent
<1> SUFFICES ASSUME MirrorInv, Quiet, NEW k \in Key, source[k] \subseteq Registered
             PROVE  /\ {held.hash : held \in target[k]} = source[k]
                    /\ k \notin restored => {held.chunks : held \in target[k]} = source[k]
  BY DEF MirrorIsCurrent
<1>1. {held.hash : held \in target[k]} = source[k]
  BY DEF Quiet, MirrorInv, RecordsHold, Matching
<1>2. CASE target[k] = None
  BY <1>1, <1>2 DEF None
<1>3. ASSUME NEW t \in target[k], k \notin restored
      PROVE  {held.chunks : held \in target[k]} = source[k]
  <2>1. target[k] = {t}
    BY DEF MirrorInv, TargetHolds, ZeroOrOne
  <2>2. {held.hash : held \in target[k]} = {t.hash} /\ {held.chunks : held \in target[k]} = {t.chunks}
    BY <2>1
  <2> QED BY <1>1, <1>3, <2>2 DEF MirrorInv, TargetHolds
<1> QED BY <1>1, <1>2, <1>3 DEF None

\* "A projection rewritten while a drain runs keeps its record, so the drain cannot clear
\* a change it did not copy" (mirrorPostgresProjectionChanges and copyPostgresProjectionIndex,
\* storage/postgres/projection-index-copy.ts, and the trigger of migration 0007): however the
\* writers of PostgreSQL interleave with the statements of a drain or a copy, whichever of
\* its writes fail, conflict or lose their answer, and wherever it crashes, the target holds
\* what PostgreSQL holds once a copy has ended, nothing runs and no change is recorded.  For
\* any number of projections and contents, batches of any size, and one runner: two of them
\* may undo each other's writes.
THEOREM MirrorStaysCurrent == OneRunner /\ MirrorSpec => []MirrorIsCurrent
<1>1. ASSUME OneRunner PROVE MirrorSpec => []MirrorInv
  <2>1. MirrorInv /\ [MirrorNext]_mirrorVars => MirrorInv'
    BY <1>1, MirrorStep
  <2> QED BY <2>1, MirrorBegins, PTL DEF MirrorSpec
<1>2. []MirrorInv => []MirrorIsCurrent
  BY CurrentWhenQuiet, PTL
<1> QED BY <1>1, <1>2
=============================================================================

-------------------------- MODULE ProjectionRegister --------------------------
(***************************************************************************)
(* What a projection index promises of one document projection             *)
(* (ProjectionIndexStore.replaceRevision and deleteRevision): the active   *)
(* revision is a register written by compare-and-set, and what searches    *)
(* can see is switched over whole, before the register is.                 *)
(*                                                                         *)
(* A revision is [token, content].  A successor that was accepted is        *)
(* [expected, token, content]; its token is None when it is a deletion.     *)
(* Options are sets of at most one element.                                 *)
(***************************************************************************)

VARIABLES
  active,     \* Option of the revision that loadRevisions returns
  successor,  \* Option of the one change under way
  visible     \* the content that searches see

vars == <<active, successor, visible>>

Init ==
  /\ active = {}
  /\ successor = {}
  /\ visible = {}

ActiveToken == UNION {a.token : a \in active}

\* Only a change planned against the active revision is accepted, and only
\* when no other is under way.
Accept ==
  /\ successor = {}
  /\ \E s \in successor' : successor' = {s} /\ s.expected = ActiveToken
  /\ UNCHANGED <<active, visible>>

Show ==
  /\ \E s \in successor : visible' = s.content
  /\ UNCHANGED <<active, successor>>

\* The change becomes the active revision only when searches see it.
Commit ==
  /\ \E s \in successor :
       /\ visible = s.content
       /\ active' = IF s.token = {} THEN {} ELSE {[token |-> s.token, content |-> s.content]}
  /\ successor' = {}
  /\ UNCHANGED visible

Next == Accept \/ Show \/ Commit

Spec == Init /\ [][Next]_vars
=============================================================================

------------------------------ MODULE FusionOrder ------------------------------
(***************************************************************************)
(* How the fused order depends on what is fused: the same streams are given *)
(* in another order, or one stream ranks an item higher.                     *)
(***************************************************************************)
EXTENDS RankFusion

CONSTANTS
  Keys,      \* the keys that streams rank
  Weights    \* one sequence of weights for every number of streams

VARIABLES
  streams,   \* the streams, in the order they are given
  fused      \* what fusing them returns

vars == <<streams, fused>>

\* The rankings of some of the keys.  Values and scores tell the streams apart.
Rankings == UNION {{r \in [1..n -> Keys] : IsInjective(r)} : n \in 1..Cardinality(Keys)}
StreamOf(id, weight, ranking) ==
  [id |-> id, weight |-> weight,
   items |-> [i \in DOMAIN ranking |->
                [key |-> ranking[i], value |-> <<id, ranking[i]>>, score |-> 10 - i]]]

Init ==
  /\ \E weights \in Weights : \E rankings \in [DOMAIN weights -> Rankings] :
       streams = [s \in DOMAIN weights |-> StreamOf(s, weights[s], rankings[s])]
  /\ fused = Fused(streams)

Exchanged(sequence, i, k) ==
  [sequence EXCEPT ![i] = sequence[k], ![k] = sequence[i]]

\* The streams are given in another order.
Reorder ==
  /\ \E s \in DOMAIN streams : \E t \in DOMAIN streams :
       s < t /\ streams' = Exchanged(streams, s, t)
  /\ fused' = Fused(streams')

\* A stream ranks its (i + 1)th item above its ith; scores stay where they were.
Promoted(s, i) ==
  LET items == streams[s].items
  IN  [streams EXCEPT ![s].items =
         [Exchanged(items, i, i + 1) EXCEPT ![i].score = items[i].score,
                                           ![i + 1].score = items[i + 1].score]]
Promote ==
  /\ \E s \in DOMAIN streams : \E i \in 1..(Len(streams[s].items) - 1) :
       streams' = Promoted(s, i)
  /\ fused' = Fused(streams')

Next == Reorder \/ Promote
Spec == Init /\ [][Next]_vars
-----------------------------------------------------------------------------
\* Results are unique and best first, and explained by every stream that ranks
\* them: each signal is where its stream ranks the key.
Explained ==
  /\ \A n \in DOMAIN fused : \A m \in DOMAIN fused :
       n < m => fused[n].key # fused[m].key /\ fused[n].score >= fused[m].score
  /\ \A s \in DOMAIN streams : \A i \in DOMAIN streams[s].items :
       \E n \in DOMAIN fused : \E k \in DOMAIN fused[n].signals :
         /\ fused[n].key = streams[s].items[i].key
         /\ fused[n].signals[k].stream = streams[s].id
         /\ fused[n].signals[k].rank = i

Answer(results) ==
  [n \in DOMAIN results |->
     [key |-> results[n].key, value |-> results[n].value, signals |-> results[n].signals]]

\* "Stream order cannot affect output order, selected values, or signal
\* ordering" (weightedReciprocalRankFusion).
SameAnswer == Reorder => Answer(fused') = Answer(fused)
OrderIrrelevant == [][SameAnswer]_vars

PlaceOf(results, key) == RankOf(results, key)

\* An item that a stream ranks higher, all else equal, never falls in the fused
\* order, whatever rounding does to the contributions.
NoneHurt ==
  \A s \in DOMAIN streams : \A i \in 1..(Len(streams[s].items) - 1) :
    streams' = Promoted(s, i) =>
      LET key == streams[s].items[i + 1].key
      IN  PlaceOf(fused', key) <= PlaceOf(fused, key)
PromotionNeverHurts == [][NoneHurt]_vars
===============================================================================

------------------------------ MODULE RankFusion ------------------------------
(***************************************************************************)
(* Weighted reciprocal-rank fusion (retrieval/rank-fusion.ts).             *)
(*                                                                         *)
(* A stream is a record of its id, its weight and its ranked items; an item *)
(* carries a key, a value and the raw score of its channel.  Keys and ids    *)
(* are numbers, ordered as their strings are.  A floating-point number is     *)
(* kept in units of 2^-18 and every quotient and sum is rounded to Precision   *)
(* significant bits, ties to even, as IEEE 754 does with its 53.              *)
(***************************************************************************)
EXTENDS Integers, Sequences, FiniteSets, SequencesExt

CONSTANTS
  Precision,     \* significant bits of a number
  RankConstant   \* the reciprocal-rank constant

FusionAssumption ==
  /\ Precision \in 2..10
  /\ RankConstant \in 1..20

One == 2 ^ 18

\* A raw score that is no finite number.
NotFinite == -1

\* numerator / denominator to Precision significant bits, ties to even.
Rounded(numerator, denominator) ==
  LET whole == numerator \div denominator
      shift == CHOOSE s \in 0..20 :
                 /\ whole < 2 ^ (s + Precision)
                 /\ s = 0 \/ whole >= 2 ^ (s + Precision - 1)
      unit == denominator * 2 ^ shift
      floor == numerator \div unit
      rest == 2 * (numerator % unit)
      up == rest > unit \/ (rest = unit /\ floor % 2 = 1)
  IN  (IF up THEN floor + 1 ELSE floor) * 2 ^ shift

\* Mutant of Contribution: the weight is divided by the constant alone.
UnrankedContribution(stream, rank) == Rounded(stream.weight * One, RankConstant) + rank * One

Contribution(stream, rank) == Rounded(stream.weight * One, RankConstant + rank)

Sum(left, right) == Rounded(left + right, 1)

\* The members of a set, each after those that come before it.
InOrder(set, Before(_, _)) ==
  [n \in 1..Cardinality(set) |->
     CHOOSE x \in set : Cardinality({y \in set : Before(y, x)}) = n - 1]

KeysOf(items) == {items[i].key : i \in DOMAIN items}
RankOf(items, key) == CHOOSE i \in DOMAIN items : items[i].key = key

\* The streams that rank key, in the order they were given.
Ranking(streams, key) == SelectSeq(streams, LAMBDA s : key \in KeysOf(s.items))

\* What refuses an item: it was seen before in its stream, or its score.
Unfit(items, i) ==
  \/ \E k \in 1..(i - 1) : items[k].key = items[i].key
  \/ items[i].score = NotFinite
Fusable(streams) ==
  \A s \in DOMAIN streams : \A i \in DOMAIN streams[s].items : ~Unfit(streams[s].items, i)

\* Mutant of Score: the last stream's contribution replaces the others'.
LastScore(streams, key) ==
  LET last == Last(Ranking(streams, key)) IN Contribution(last, RankOf(last.items, key))

Score(streams, key) ==
  FoldLeft(LAMBDA score, s : Sum(score, Contribution(s, RankOf(s.items, key))),
           0, Ranking(streams, key))

\* Mutant of Selected: the value of the stream given first.
FirstSelected(streams, key) ==
  LET first == Ranking(streams, key)[1] IN first.items[RankOf(first.items, key)].value

\* The value of the stream of the least id.
Selected(streams, key) ==
  LET of == ToSet(Ranking(streams, key))
      first == CHOOSE s \in of : \A t \in of : s.id <= t.id
  IN  first.items[RankOf(first.items, key)].value

\* Mutant of Signals: the signals of all but the selected stream are lost.
FirstSignals(streams, key) ==
  LET s == Ranking(streams, key)[1]
  IN  <<[stream |-> s.id, rank |-> RankOf(s.items, key),
         score |-> s.items[RankOf(s.items, key)].score]>>

Signals(streams, key) ==
  LET signals == {[stream |-> s.id, rank |-> RankOf(s.items, key),
                   score |-> s.items[RankOf(s.items, key)].score] :
                  s \in ToSet(Ranking(streams, key))}
  IN  InOrder(signals, LAMBDA l, r : l.stream < r.stream)

\* What weightedReciprocalRankFusion returns for streams it accepts.
Fused(streams) ==
  LET keys == UNION {KeysOf(streams[s].items) : s \in DOMAIN streams}
      score == [k \in keys |-> Score(streams, k)]
      order == InOrder(keys, LAMBDA l, r :
                 score[l] > score[r] \/ (score[l] = score[r] /\ l < r))
  IN  [n \in DOMAIN order |->
         [key |-> order[n], value |-> Selected(streams, order[n]),
          score |-> score[order[n]], signals |-> Signals(streams, order[n])]]
===============================================================================

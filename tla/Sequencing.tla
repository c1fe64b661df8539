------------------------------ MODULE Sequencing ------------------------------
(***************************************************************************)
(* Filters, sorts and sums of the code, as the sequences they are: each is *)
(* told by the places of a sequence, so that a proof can speak of the      *)
(* places that stay, of the place that comes next and of the sum so far.   *)
(***************************************************************************)
EXTENDS Integers, Sequences, FiniteSets

(* What a filter keeps of a sequence: what is at these places, in order.   *)
Picked(sequence, places) ==
  [k \in 1..Cardinality(places) |->
     sequence[CHOOSE i \in places : Cardinality({j \in places : j < i}) = k - 1]]

(* A sort: the members of a set in the order of `before`, a set of pairs.  *)
Arranged(S, before) ==
  [k \in 1..Cardinality(S) |->
     CHOOSE x \in S : Cardinality({y \in S : <<y, x>> \in before}) = k - 1]

(* The sum of what is at the places after `from` and up to `to`.           *)
SumOver(of, from, to) ==
  LET sum[k \in from..to] == IF k = from THEN 0 ELSE sum[k - 1] + of[k]
  IN sum[to]
=============================================================================

------------------------------ MODULE MCScanner ------------------------------
(* Instances of Scanner for TLC: two rules whose types are equally strong, or not. *)
EXTENDS Scanner

Descending(S) == CHOOSE f \in [1..Cardinality(S) -> S] : \A i, j \in DOMAIN f : i < j => f[i] > f[j]

Matchings == SUBSET {pq \in Boundaries \X Boundaries : pq[1] < pq[2]}
(* Up to two matches; or one for every character, which three rejections can use up a budget on; *)
(* or an overlapping pair that both a resume and the resume of a shorter reading lead to.        *)
Chain == {<<0, 1>>, <<1, 2>>, <<2, 3>>}
Nested == {<<0, 3>>, <<0, 2>>, <<1, 3>>}
Greedy(m) ==
  [ends |-> [p \in Offsets |-> Descending({q \in Boundaries : <<p, q>> \in m})], 
   anchored |-> FALSE, marks |-> {}]
GreedyPatterns ==
  [Rules -> {Greedy(m) : m \in {n \in Matchings : Cardinality(n) <= 2 \/ n \in {Chain, Nested}}}]

(* As strong as each other, and the first rule stronger. *)
EqualOrNot == {[r \in Rules |-> 45], [r \in Rules |-> IF r = 1 THEN 95 ELSE 45]}
=============================================================================

----------------------------- MODULE MCScanLoop -----------------------------
(* Instances of ScanLoop for TLC: every pattern over a small fragment, after a rule that resumes. *)
EXTENDS ScanLoop

Ascending(S) == CHOOSE f \in [1..Cardinality(S) -> S] : \A i, j \in DOMAIN f : i < j => f[i] < f[j]
Descending(S) == CHOOSE f \in [1..Cardinality(S) -> S] : \A i, j \in DOMAIN f : i < j => f[i] > f[j]

(* Which starts have a match up to which ends: any relation between boundaries. *)
Matchings == SUBSET {pq \in Boundaries \X Boundaries : pq[1] < pq[2]}
EndsOf(m, p) == {q \in Boundaries : <<p, q>> \in m}

(* Greedy patterns prefer the longest alternative, lazy ones the shortest; some depend on the haystack's end, *)
(* and some only look as if they did: a `^` that negates a class. *)
Styles == {"greedy", "lazy", "anchored", "negated"}
MarksOf(style) == CASE style = "anchored" -> {"$"} [] style = "negated" -> {"^"} [] OTHER -> {}
Pattern(m, style) ==
  [ends |-> [p \in Offsets |-> IF style = "lazy" THEN Ascending(EndsOf(m, p)) ELSE Descending(EndsOf(m, p))],
   anchored |-> style = "anchored", marks |-> MarksOf(style)]
StartupPatterns == {Pattern(m, style) : m \in Matchings, style \in Styles}

(* Without a match, or with one that both a resume and the resume of a shorter reading lead to. *)
Silent == Pattern({}, "greedy")
Nested == Pattern({<<0, 5>>, <<0, 4>>, <<1, 5>>}, "greedy")

BesideAResumingRule == {<<p, q>> : p \in StartupPatterns, q \in {Silent, Nested}}
=============================================================================

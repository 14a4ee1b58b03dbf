-------------------------- MODULE CheckDigits_proofs --------------------------
(***************************************************************************)
(* What a misread character and two exchanged neighbours do to the sums    *)
(* and folds of checksum.rs, whatever number they are in.                  *)
(*                                                                         *)
(* A validator folds its digits with FoldLeft, MapThenFoldSet or a         *)
(* recursive function.  Each of these is shown once to be a walk, a        *)
(* sequence of values each of which is one step from the one before it:    *)
(* walks over two numbers that differ part where the numbers do and never  *)
(* meet again.  A weighted sum is shown to grow by the weight times the    *)
(* difference.  Differs(w, r, i) and Exchanged(w, r, i) say how the number *)
(* read came from the one written.                                         *)
(***************************************************************************)
EXTENDS CheckDigits, TLAPS, SequenceTheorems, FiniteSetTheorems, NaturalsInduction, WellFoundedInduction

(* Least counterexamples: the induction all of this rests on. *)

LEMMA LessIsWellFounded ==
  IsWellFoundedOn({p \in Nat \X Nat : p[1] < p[2]}, Nat)
BY NatLessThanWellFounded DEF OpToRel

LEMMA LeastNumber ==
  ASSUME NEW S \in SUBSET Nat, S # {}
  PROVE  \E x \in S : \A y \in S : x <= y
<1> DEFINE Less == {p \in Nat \X Nat : p[1] < p[2]}
<1>1. PICK x \in S : \A y \in S : <<y, x>> \notin Less
  BY WFMin, LessIsWellFounded
<1>2. ASSUME NEW y \in S PROVE x <= y
  <2>1. x \in Nat /\ y \in Nat /\ (y < x => <<y, x>> \in Less)
    OBVIOUS
  <2> QED BY <1>1, <2>1
<1> QED BY <1>2

(* A property of the numbers up to n, given as a set, holds of all when it holds of zero and is passed on. *)
LEMMA PassedOn ==
  ASSUME NEW n \in Nat, NEW S, 0 \in S, \A k \in 0..n : k + 1 \in 0..n /\ k \in S => k + 1 \in S
  PROVE  \A k \in 0..n : k \in S
<1> DEFINE Bad == {k \in 0..n : k \notin S}
<1> SUFFICES ASSUME Bad # {} PROVE FALSE
  OBVIOUS
<1>1. PICK b \in Bad : \A y \in Bad : b <= y
  <2>1. Bad \in SUBSET Nat
    OBVIOUS
  <2> HIDE DEF Bad
  <2> QED BY <2>1, LeastNumber
<1>2. b \in 0..n /\ b \notin S /\ b # 0
  BY <1>1
<1>3. b - 1 \in 0..n /\ (b - 1) + 1 = b
  BY <1>2
<1>4. b - 1 \in S
  <2>1. b - 1 \notin Bad
    BY <1>1, <1>2, <1>3
  <2> QED BY <1>3, <2>1
<1> QED BY <1>2, <1>3, <1>4

-----------------------------------------------------------------------------
(* Recursion over the subsets of a finite set, as the folds do it. *)

IsPick(pick, S) == \A s \in SUBSET S : s # {} => pick[s] \in s
IsStep(step, S, V) == \A x \in S : \A v \in V : step[<<x, v>>] \in V
Recurses(h, S, V, base, pick, step) ==
  /\ h \in [SUBSET S -> V]
  /\ \A s \in SUBSET S : h[s] = IF s = {} THEN base ELSE step[<<pick[s], h[s \ {pick[s]}]>>]

LEMMA SubsetRecursion ==
  ASSUME NEW Places, IsFiniteSet(Places), NEW V, NEW base \in V, NEW pick, NEW step,
         IsPick(pick, Places), IsStep(step, Places, V)
  PROVE  \E h : Recurses(h, Places, V, base, pick, step)
<1> USE DEF IsPick, IsStep
<1> DEFINE Upto(k) == {s \in SUBSET Places : Cardinality(s) <= k}
           Solves(h, k) == /\ h \in [Upto(k) -> V]
                           /\ \A s \in Upto(k) :
                                h[s] = IF s = {} THEN base ELSE step[<<pick[s], h[s \ {pick[s]}]>>]
           N == Cardinality(Places)
           Solved == {k \in 0..N : \E h : Solves(h, k)}
<1>1. /\ N \in Nat
      /\ \A s \in SUBSET Places : IsFiniteSet(s) /\ Cardinality(s) \in Nat /\ Cardinality(s) <= N
  BY FS_Subset, FS_CardinalityType
<1>2. 0 \in Solved
  <2> DEFINE h == [s \in Upto(0) |-> base]
  <2>1. \A s \in Upto(0) : s = {}
    BY <1>1, FS_EmptySet
  <2>2. Solves(h, 0)
    BY <2>1
  <2>3. 0 \in 0..N
    BY <1>1
  <2> QED BY <2>2, <2>3
<1>3. ASSUME NEW k \in 0..N, k + 1 \in 0..N, k \in Solved
      PROVE  k + 1 \in Solved
  <2>1. PICK g : Solves(g, k)
    BY <1>3
  <2> DEFINE Value(s) == IF s = {} THEN base ELSE step[<<pick[s], g[s \ {pick[s]}]>>]
             h == [s \in Upto(k + 1) |-> Value(s)]
  <2>2. ASSUME NEW s \in Upto(k + 1), s # {}
        PROVE  pick[s] \in Places /\ s \ {pick[s]} \in Upto(k)
    <3>1. s \in SUBSET Places /\ pick[s] \in s /\ Cardinality(s) <= k + 1 /\ IsFiniteSet(s) /\ Cardinality(s) \in Nat
      BY <1>1, <2>2
    <3>2. Cardinality(s \ {pick[s]}) = Cardinality(s) - 1
      BY <3>1, FS_RemoveElement
    <3>3. Cardinality(s \ {pick[s]}) <= k
      BY <3>1, <3>2
    <3> QED BY <3>1, <3>3
  <2>3. \A s \in Upto(k) : g[s] = Value(s) /\ g[s] \in V
    BY <2>1
  <2>4. \A s \in Upto(k + 1) : Value(s) \in V
    BY <2>2, <2>3
  <2>5. \A s \in Upto(k) : s \in Upto(k + 1) /\ h[s] = g[s]
    <3>1. \A s \in Upto(k) : s \in Upto(k + 1)
      <4> TAKE s \in Upto(k)
      <4>1. Cardinality(s) \in Nat /\ Cardinality(s) <= k /\ k \in Nat
        BY <1>1
      <4>2. Cardinality(s) <= k + 1
        BY <4>1
      <4> QED BY <4>2
    <3> HIDE DEF Value
    <3> QED BY <3>1, <2>3
  <2>6. \A s \in Upto(k + 1) : h[s] = IF s = {} THEN base ELSE step[<<pick[s], h[s \ {pick[s]}]>>]
    <3> TAKE s \in Upto(k + 1)
    <3>1. h[s] = Value(s)
      BY DEF h
    <3>2. s # {} => h[s \ {pick[s]}] = g[s \ {pick[s]}]
      BY <2>2, <2>5
    <3> HIDE DEF h
    <3> QED BY <3>1, <3>2
  <2>7. h \in [Upto(k + 1) -> V]
    BY <2>4
  <2> HIDE DEF h
  <2>8. Solves(h, k + 1)
    BY <2>6, <2>7
  <2> HIDE DEF Solves
  <2> QED BY <1>3, <2>8
<1>4. N \in Solved
  <2> HIDE DEF Solved, N
  <2>1. \A k \in 0..N : k + 1 \in 0..N /\ k \in Solved => k + 1 \in Solved
    BY <1>3
  <2>2. \A k \in 0..N : k \in Solved
    BY <1>1, <1>2, <2>1, PassedOn
  <2>3. N \in 0..N
    BY <1>1
  <2> QED BY <2>2, <2>3
<1>5. PICK h : Solves(h, N)
  BY <1>4
<1>6. Upto(N) = SUBSET Places
  BY <1>1
<1> QED BY <1>5, <1>6 DEF Recurses

-----------------------------------------------------------------------------
(* Sums. *)

Pick(s) == CHOOSE x \in s : TRUE
SumSolves(h, f, n) ==
  h = [s \in SUBSET (1..n) |-> IF s = {} THEN 0 ELSE f[Pick(s)] + h[s \ {Pick(s)}]]

LEMMA PickIsIn == \A s : s # {} => Pick(s) \in s
BY DEF Pick

LEMMA SumSteps ==
  ASSUME NEW n, NEW f, NEW h, SumSolves(h, f, n)
  PROVE  /\ h[{}] = 0
         /\ \A s \in SUBSET (1..n) : s # {} => h[s] = f[Pick(s)] + h[s \ {Pick(s)}]
BY DEF SumSolves

LEMMA SumIsSolved ==
  ASSUME NEW n \in Nat, NEW f \in [1..n -> Int]
  PROVE  \E h : h \in [SUBSET (1..n) -> Int] /\ SumSolves(h, f, n)
<1> DEFINE Places == 1..n
           pick == [s \in SUBSET Places |-> Pick(s)]
           step == [p \in Places \X Int |-> f[p[1]] + p[2]]
<1>1. IsFiniteSet(Places)
  BY FS_Interval
<1>2. \A s \in SUBSET Places : pick[s] = Pick(s)
  OBVIOUS
<1>3. \A s \in SUBSET Places : s # {} => pick[s] \in s
  BY PickIsIn
<1>4. \A x \in Places : \A v \in Int : step[<<x, v>>] = f[x] + v /\ step[<<x, v>>] \in Int
  OBVIOUS
<1> HIDE DEF pick, step, Places
<1>5. PICK h : Recurses(h, Places, Int, 0, pick, step)
  <2>1. IsPick(pick, Places) /\ IsStep(step, Places, Int)
    BY <1>3, <1>4 DEF IsPick, IsStep
  <2>2. 0 \in Int
    OBVIOUS
  <2> QED BY <1>1, <2>1, <2>2, SubsetRecursion, Zenon
<1> USE DEF Recurses
<1>6. \A s \in SUBSET Places : h[s] = IF s = {} THEN 0 ELSE f[Pick(s)] + h[s \ {Pick(s)}]
  <2> TAKE s \in SUBSET Places
  <2>1. CASE s # {}
    <3>1. pick[s] \in Places /\ s \ {pick[s]} \in SUBSET Places
      BY <1>3, <2>1
    <3>2. h[s] = f[pick[s]] + h[s \ {pick[s]}]
      BY <1>4, <1>5, <2>1, <3>1
    <3> QED BY <1>2, <2>1, <3>2
  <2> QED BY <1>5, <2>1
<1>7. h = [s \in SUBSET Places |-> IF s = {} THEN 0 ELSE f[Pick(s)] + h[s \ {Pick(s)}]]
  BY <1>5, <1>6
<1> QED BY <1>5, <1>7 DEF SumSolves, Places

LEMMA SumFunctionIs ==
  ASSUME NEW n \in Nat, NEW f \in [1..n -> Int]
  PROVE  \E h : SumSolves(h, f, n) /\ SumFunction(f) = h[1..n]
<1> DEFINE iter == CHOOSE h : SumSolves(h, f, n)
<1>1. SumSolves(iter, f, n)
  BY SumIsSolved
<1>2. SumFunction(f) = iter[1..n]
  BY DEF SumFunction, SumFunctionOnSet, FoldFunctionOnSet, MapThenFoldSet, SumSolves, Pick
<1> QED BY <1>1, <1>2

(* Two functions that differ in one place have sums that differ by as much. *)
LEMMA SumMovesOne ==
  ASSUME NEW n \in Nat, NEW f \in [1..n -> Int], NEW g \in [1..n -> Int], NEW i \in 1..n,
         \A x \in 1..n : x # i => g[x] = f[x]
  PROVE  /\ SumFunction(f) \in Int /\ SumFunction(g) \in Int
         /\ SumFunction(g) = SumFunction(f) + (g[i] - f[i])
<1>1. PICK F : SumSolves(F, f, n) /\ SumFunction(f) = F[1..n]
  BY SumFunctionIs
<1>2. PICK G : SumSolves(G, g, n) /\ SumFunction(g) = G[1..n]
  BY SumFunctionIs
<1> DEFINE Moved(s) == IF i \in s THEN g[i] - f[i] ELSE 0
           Agree(s) == F[s] \in Int /\ G[s] = F[s] + Moved(s)
           Done(k) == \A s \in SUBSET (1..n) : Cardinality(s) <= k => Agree(s)
           K == {k \in 0..n : Done(k)}
<1>3. /\ IsFiniteSet(1..n) /\ Cardinality(1..n) = n
      /\ \A s \in SUBSET (1..n) : IsFiniteSet(s) /\ Cardinality(s) \in Nat /\ Cardinality(s) <= n
  <2>1. IsFiniteSet(1..n) /\ Cardinality(1..n) = n
    BY FS_Interval
  <2> QED BY <2>1, FS_Subset, FS_CardinalityType, Zenon
<1>4. Agree({})
  BY <1>1, <1>2, SumSteps
<1>5. Done(0)
  <2> SUFFICES ASSUME NEW s \in SUBSET (1..n), Cardinality(s) <= 0 PROVE Agree(s)
    OBVIOUS
  <2>1. IsFiniteSet(s) /\ Cardinality(s) = 0
    BY <1>3
  <2>2. s = {}
    BY <2>1, FS_EmptySet
  <2> HIDE DEF Agree
  <2> QED BY <1>4, <2>2
<1>6. ASSUME NEW s \in SUBSET (1..n), s # {}, NEW x, x = Pick(s), Agree(s \ {x})
      PROVE  Agree(s)
  <2>1. x \in s /\ x \in 1..n
    BY <1>6, PickIsIn
  <2>2. /\ F[s] = f[x] + F[s \ {x}]
        /\ G[s] = g[x] + G[s \ {x}]
    <3> HIDE DEF Agree
    <3>1. F[s] = f[x] + F[s \ {x}]
      BY <1>1, <1>6, SumSteps
    <3>2. G[s] = g[x] + G[s \ {x}]
      BY <1>2, <1>6, SumSteps
    <3> QED BY <3>1, <3>2
  <2>3. f[x] \in Int /\ g[x] \in Int /\ f[i] \in Int /\ g[i] \in Int
    BY <2>1
  <2>4. CASE x = i
    <3>1. Moved(s) = g[i] - f[i] /\ Moved(s \ {x}) = 0
      BY <2>1, <2>4
    <3> HIDE DEF Moved
    <3>2. F[s \ {x}] \in Int /\ G[s \ {x}] = F[s \ {x}]
      BY <1>6, <3>1
    <3> QED BY <2>2, <2>3, <2>4, <3>1, <3>2
  <2>5. CASE x # i
    <3>1. g[x] = f[x] /\ Moved(s) = Moved(s \ {x}) /\ Moved(s) \in Int
      BY <2>1, <2>3, <2>5
    <3> HIDE DEF Moved
    <3> QED BY <1>6, <2>2, <2>3, <3>1
  <2> QED BY <2>4, <2>5
<1>7. ASSUME NEW k \in 0..n, k + 1 \in 0..n, Done(k)
      PROVE  Done(k + 1)
  <2> SUFFICES ASSUME NEW s \in SUBSET (1..n), Cardinality(s) <= k + 1
               PROVE  Agree(s)
    OBVIOUS
  <2>1. CASE s = {}
    BY <1>4, <2>1
  <2>2. CASE s # {}
    <3> DEFINE x == Pick(s)
    <3>1. x \in s /\ s \ {x} \in SUBSET (1..n)
      BY <2>2, PickIsIn
    <3> HIDE DEF x
    <3>2. Cardinality(s \ {x}) = Cardinality(s) - 1 /\ Cardinality(s) \in Nat
      BY <1>3, <3>1, FS_RemoveElement
    <3>3. Cardinality(s \ {x}) <= k
      BY <3>2
    <3>4. Agree(s \ {x})
      BY <1>7, <3>1, <3>3
    <3> HIDE DEF Agree
    <3> QED BY <1>6, <2>2, <3>4 DEF x
  <2> QED BY <2>1, <2>2
<1>8. Done(n)
  <2> HIDE DEF Done
  <2>1. 0 \in K
    BY <1>5
  <2>2. \A k \in 0..n : k + 1 \in 0..n /\ k \in K => k + 1 \in K
    BY <1>7
  <2> HIDE DEF K
  <2>3. \A k \in 0..n : k \in K
    BY <2>1, <2>2, PassedOn
  <2>4. n \in K
    BY <2>3
  <2> QED BY <2>4 DEF K
<1>9. Agree(1..n)
  <2> HIDE DEF Agree
  <2>1. 1..n \in SUBSET (1..n) /\ Cardinality(1..n) <= n
    BY <1>3
  <2> QED BY <1>8, <2>1
<1>10. g[i] - f[i] \in Int
  OBVIOUS
<1> QED BY <1>1, <1>2, <1>9, <1>10

(* The same for two places. *)
LEMMA SumMovesTwo ==
  ASSUME NEW n \in Nat, NEW f \in [1..n -> Int], NEW g \in [1..n -> Int],
         NEW i \in 1..n, NEW j \in 1..n, i # j,
         \A x \in 1..n : x # i /\ x # j => g[x] = f[x]
  PROVE  /\ SumFunction(f) \in Int /\ SumFunction(g) \in Int
         /\ SumFunction(g) = SumFunction(f) + (g[i] - f[i]) + (g[j] - f[j])
<1> DEFINE h == [f EXCEPT ![i] = g[i]]
<1>1. /\ h \in [1..n -> Int] /\ h[i] = g[i] /\ h[j] = f[j]
      /\ \A x \in 1..n : x # i => h[x] = f[x]
      /\ \A x \in 1..n : x # j => g[x] = h[x]
  OBVIOUS
<1> HIDE DEF h
<1>2. /\ SumFunction(f) \in Int /\ SumFunction(h) \in Int
      /\ SumFunction(h) = SumFunction(f) + (h[i] - f[i])
  BY <1>1, SumMovesOne
<1>3. /\ SumFunction(g) \in Int
      /\ SumFunction(g) = SumFunction(h) + (g[j] - h[j])
  BY <1>1, SumMovesOne
<1>4. f[i] \in Int /\ g[i] \in Int /\ f[j] \in Int /\ g[j] \in Int
  OBVIOUS
<1> QED BY <1>1, <1>2, <1>3, <1>4

-----------------------------------------------------------------------------
(* Folds over a sequence: the states a fold walks through. *)

LEMMA MaxIsGreatest ==
  ASSUME NEW n \in Nat, NEW S \in SUBSET (1..n), S # {}
  PROVE  Max(S) \in S /\ \A y \in S : Max(S) >= y
<1> DEFINE T == {n - x : x \in S}
<1>1. T \in SUBSET Nat /\ T # {}
  <2>1. \A x \in S : n - x \in Nat
    OBVIOUS
  <2>2. PICK x \in S : TRUE
    OBVIOUS
  <2>3. n - x \in T
    OBVIOUS
  <2> QED BY <2>1, <2>3
<1> HIDE DEF T
<1>2. PICK t \in T : \A u \in T : t <= u
  BY <1>1, LeastNumber
<1> USE DEF T
<1>3. PICK x \in S : t = n - x
  BY <1>2
<1>4. \A y \in S : x >= y
  <2> TAKE y \in S
  <2>1. n - y \in T /\ x \in 1..n /\ y \in 1..n
    OBVIOUS
  <2> QED BY <1>2, <1>3, <2>1
<1> QED BY <1>3, <1>4 DEF Max

LEMMA LastIsTaken ==
  ASSUME NEW n \in Nat, NEW k \in 1..n
  PROVE  /\ 1..k \in SUBSET (1..n) /\ 1..k # {} /\ Max(1..k) = k
         /\ (1..k) \ {k} = 1..(k - 1)
<1>1. 1..k \in SUBSET (1..n) /\ 1..k # {} /\ k \in 1..k
  OBVIOUS
<1>2. Max(1..k) \in 1..k /\ Max(1..k) >= k
  BY <1>1, MaxIsGreatest
<1> QED BY <1>1, <1>2

FoldSolves(h, n, V, base, step) ==
  /\ h \in [SUBSET (1..n) -> V]
  /\ h[{}] = base
  /\ \A s \in SUBSET (1..n) : s # {} =>
       /\ Max(s) \in 1..n /\ h[s \ {Max(s)}] \in V
       /\ h[s] = step[<<Max(s), h[s \ {Max(s)}]>>]

LEMMA FoldIsSolved ==
  ASSUME NEW n \in Nat, NEW V, NEW base \in V, NEW step, IsStep(step, 1..n, V)
  PROVE  \E h : FoldSolves(h, n, V, base, step)
<1> DEFINE pick == [s \in SUBSET (1..n) |-> Max(s)]
<1>1. IsFiniteSet(1..n)
  BY FS_Interval
<1>2. \A s \in SUBSET (1..n) : pick[s] = Max(s)
  OBVIOUS
<1>3. IsPick(pick, 1..n)
  BY MaxIsGreatest DEF IsPick
<1> HIDE DEF pick
<1>4. PICK h : Recurses(h, 1..n, V, base, pick, step)
  BY <1>1, <1>3, SubsetRecursion, Zenon
<1>5. ASSUME NEW s \in SUBSET (1..n), s # {}
      PROVE  /\ Max(s) \in 1..n /\ h[s \ {Max(s)}] \in V
             /\ h[s] = step[<<Max(s), h[s \ {Max(s)}]>>]
  <2>1. Max(s) \in s
    BY <1>5, MaxIsGreatest
  <2> QED BY <1>2, <1>4, <1>5, <2>1 DEF Recurses
<1>6. h \in [SUBSET (1..n) -> V] /\ h[{}] = base
  BY <1>4 DEF Recurses
<1> QED BY <1>5, <1>6 DEF FoldSolves

(* What satisfies the equation of a fold walks: one step for each element. *)
Solving(iter, n, V, base, step) ==
  /\ iter[{}] = base
  /\ \A s \in SUBSET (1..n) : s # {} /\ Max(s) \in 1..n /\ iter[s \ {Max(s)}] \in V =>
       iter[s] = step[<<Max(s), iter[s \ {Max(s)}]>>]

Walks(c, n, V, base, step, end) ==
  /\ c \in [0..n -> V] /\ c[0] = base /\ c[n] = end
  /\ \A k \in 1..n : c[k] = step[<<k, c[k - 1]>>]

LEMMA FoldWalks ==
  ASSUME NEW n \in Nat, NEW V, NEW base \in V, NEW step, IsStep(step, 1..n, V), NEW iter,
         Solving(iter, n, V, base, step)
  PROVE  \E c : Walks(c, n, V, base, step, iter[1..n])
<1> USE DEF Solving
<1> DEFINE c == [k \in 0..n |-> iter[1..k]]
           Typed == {k \in 0..n : c[k] \in V}
<1>1. c[0] = base /\ c[n] = iter[1..n]
  <2>1. 1..0 = {}
    OBVIOUS
  <2> QED BY <2>1
<1>2. ASSUME NEW k \in 1..n, c[k - 1] \in V
      PROVE  c[k] = step[<<k, c[k - 1]>>] /\ c[k] \in V
  <2>1. 1..k \in SUBSET (1..n) /\ 1..k # {} /\ Max(1..k) = k /\ (1..k) \ {k} = 1..(k - 1)
    BY LastIsTaken
  <2>2. k - 1 \in 0..n /\ k \in 0..n
    OBVIOUS
  <2>3. c[k - 1] = iter[1..(k - 1)] /\ c[k] = iter[1..k]
    BY <2>2
  <2>4. iter[1..k] = step[<<k, iter[1..(k - 1)]>>]
    BY <1>2, <2>1, <2>3
  <2>5. step[<<k, iter[1..(k - 1)]>>] \in V
    BY <1>2, <2>3 DEF IsStep
  <2> QED BY <2>3, <2>4, <2>5
<1> HIDE DEF c
<1>3. \A k \in 0..n : c[k] \in V
  <2>1. 0 \in Typed
    BY <1>1
  <2>2. ASSUME NEW k \in 0..n, k + 1 \in 0..n, k \in Typed PROVE k + 1 \in Typed
    <3>1. k + 1 \in 1..n /\ (k + 1) - 1 = k
      BY <2>2
    <3>2. c[(k + 1) - 1] \in V
      BY <2>2, <3>1
    <3>3. c[k + 1] \in V
      BY <1>2, <3>1, <3>2
    <3> QED BY <2>2, <3>3
  <2> HIDE DEF Typed
  <2>3. \A k \in 0..n : k \in Typed
    BY <2>1, <2>2, PassedOn
  <2> QED BY <2>3 DEF Typed
<1>4. \A k \in 1..n : c[k] = step[<<k, c[k - 1]>>]
  <2> TAKE k \in 1..n
  <2>1. k - 1 \in 0..n
    OBVIOUS
  <2> QED BY <1>2, <1>3, <2>1
<1>5. c \in [0..n -> V]
  BY <1>3 DEF c
<1> QED BY <1>1, <1>4, <1>5 DEF Walks

-----------------------------------------------------------------------------
(* Folds over the characters of a number.  The step is a function of a state and a character. *)

(* c walks over d: step is a function of a state and a character. *)
Over(c, d, V, base, step) ==
  /\ c \in [0..Len(d) -> V] /\ c[0] = base
  /\ \A k \in 1..Len(d) : c[k] = step[<<c[k - 1], d[k]>>]

TypedStep(step, V, A) == \A x \in V : \A a \in A : step[<<x, a>>] \in V

FoldOver(h, d, V, base, step) ==
  /\ h \in [SUBSET (1..Len(d)) -> V]
  /\ h[{}] = base
  /\ \A s \in SUBSET (1..Len(d)) : s # {} =>
       /\ Max(s) \in 1..Len(d) /\ h[s \ {Max(s)}] \in V
       /\ h[s] = step[<<h[s \ {Max(s)}], d[Max(s)]>>]

SolvesOver(iter, d, V, base, step) ==
  /\ iter[{}] = base
  /\ \A s \in SUBSET (1..Len(d)) : s # {} /\ Max(s) \in 1..Len(d) /\ iter[s \ {Max(s)}] \in V =>
       iter[s] = step[<<iter[s \ {Max(s)}], d[Max(s)]>>]

LEMMA FoldOverExists ==
  ASSUME NEW A, NEW d \in Seq(A), NEW V, NEW base \in V, NEW step, TypedStep(step, V, A)
  PROVE  \E h : FoldOver(h, d, V, base, step)
<1> DEFINE n == Len(d)
           at == [p \in (1..n) \X V |-> step[<<p[2], d[p[1]]>>]]
<1>1. n \in Nat /\ \A i \in 1..n : d[i] \in A
  OBVIOUS
<1>2. \A x \in 1..n : \A v \in V : at[<<x, v>>] = step[<<v, d[x]>>]
  OBVIOUS
<1>3. IsStep(at, 1..n, V)
  BY <1>1, <1>2, Zenon DEF IsStep, TypedStep
<1> HIDE DEF at, n
<1>4. PICK h : FoldSolves(h, n, V, base, at)
  BY <1>1, <1>3, FoldIsSolved, Zenon
<1>5. FoldOver(h, d, V, base, step)
  BY <1>2, <1>4 DEF FoldSolves, FoldOver, n
<1> QED BY <1>5

WalkTo(c, d, V, base, step, end) == Over(c, d, V, base, step) /\ c[Len(d)] = end

LEMMA FoldIsAWalk ==
  ASSUME NEW A, NEW d \in Seq(A), NEW V, NEW base \in V, NEW step, TypedStep(step, V, A),
         NEW iter, SolvesOver(iter, d, V, base, step)
  PROVE  \E c : WalkTo(c, d, V, base, step, iter[1..Len(d)])
<1> DEFINE n == Len(d)
           at == [p \in (1..n) \X V |-> step[<<p[2], d[p[1]]>>]]
<1>1. n \in Nat /\ \A i \in 1..n : d[i] \in A
  OBVIOUS
<1>2. \A x \in 1..n : \A v \in V : at[<<x, v>>] = step[<<v, d[x]>>]
  OBVIOUS
<1>3. IsStep(at, 1..n, V)
  BY <1>1, <1>2, Zenon DEF IsStep, TypedStep
<1> HIDE DEF at
<1>4. Solving(iter, n, V, base, at)
  BY <1>2 DEF Solving, SolvesOver
<1> HIDE DEF n
<1>5. PICK c : Walks(c, n, V, base, at, iter[1..n])
  BY <1>1, <1>3, <1>4, FoldWalks, Zenon
<1>6. \A k \in 1..n : c[k] = step[<<c[k - 1], d[k]>>]
  <2> TAKE k \in 1..n
  <2>1. k - 1 \in 0..n
    BY <1>1
  <2>2. c[k - 1] \in V /\ c[k] = at[<<k, c[k - 1]>>]
    BY <1>5, <2>1 DEF Walks
  <2> QED BY <1>2, <2>2
<1>7. Over(c, d, V, base, step) /\ c[n] = iter[1..n]
  BY <1>5, <1>6 DEF Over, Walks, n
<1> QED BY <1>7 DEF n, WalkTo

-----------------------------------------------------------------------------
(* The folds of checksum.rs and company.rs, each as its walk. *)

LEMMA DigitsAreASequence ==
  ASSUME NEW d \in Seq(Characters), AllDigits(d)
  PROVE  d \in Seq(0..9) /\ Len(d) \in Nat /\ DOMAIN d = 1..Len(d) /\ \A i \in 1..Len(d) : d[i] \in 0..9
BY DEF AllDigits, IsDigit

DammStep(x, a) == DammTable[x + 1][a + 1]
DammFn == [p \in (0..9) \X (0..9) |-> DammStep(p[1], p[2])]

LEMMA DammFnIs ==
  ASSUME NEW x \in 0..9, NEW a \in 0..9
  PROVE  DammFn[<<x, a>>] = DammStep(x, a) /\ DammFn[<<x, a>>] \in 0..9
<1>1. DammStep(x, a) \in 0..9
  BY DEF DammStep, DammTable
<1>2. DammFn[<<x, a>>] = DammStep(x, a)
  BY DEF DammFn
<1> QED BY <1>1, <1>2

LEMMA DammWalks ==
  ASSUME NEW d \in Seq(0..9)
  PROVE  \E c : Over(c, d, 0..9, 0, DammFn) /\ (Damm(d) <=> d # <<>> /\ c[Len(d)] = 0)
<1> DEFINE Solves(h) ==
             h = [s \in SUBSET (DOMAIN d) |-> IF s = {} THEN 0 ELSE DammStep(h[s \ {Max(s)}], d[Max(s)])]
           iter == CHOOSE h : Solves(h)
<1>1. DOMAIN d = 1..Len(d) /\ (\A i \in 1..Len(d) : d[i] \in 0..9) /\ 0 \in 0..9
  OBVIOUS
<1>2. TypedStep(DammFn, 0..9, 0..9)
  BY DammFnIs DEF TypedStep
<1>3. PICK h : FoldOver(h, d, 0..9, 0, DammFn)
  <2> HIDE DEF Solves
  <2> QED BY <1>1, <1>2, FoldOverExists, Zenon
<1>4. Solves(iter)
  <2>1. \A s \in SUBSET (1..Len(d)) : h[s] = IF s = {} THEN 0 ELSE DammStep(h[s \ {Max(s)}], d[Max(s)])
    <3> SUFFICES ASSUME NEW s \in SUBSET (1..Len(d)), s # {}
                 PROVE  h[s] = DammStep(h[s \ {Max(s)}], d[Max(s)])
      BY <1>3 DEF FoldOver
    <3>1. /\ Max(s) \in 1..Len(d) /\ h[s \ {Max(s)}] \in 0..9
          /\ h[s] = DammFn[<<h[s \ {Max(s)}], d[Max(s)]>>]
      BY <1>3 DEF FoldOver
    <3> QED BY <1>1, <3>1, DammFnIs
  <2>2. Solves(h)
    BY <1>1, <1>3, <2>1 DEF FoldOver
  <2> HIDE DEF Solves
  <2> QED BY <2>2
<1> HIDE DEF iter
<1>5. SolvesOver(iter, d, 0..9, 0, DammFn)
  <2>1. /\ iter[{}] = 0
        /\ \A s \in SUBSET (1..Len(d)) : s # {} => iter[s] = DammStep(iter[s \ {Max(s)}], d[Max(s)])
    BY <1>1, <1>4
  <2> HIDE DEF Solves
  <2>2. ASSUME NEW s \in SUBSET (1..Len(d)), s # {}, Max(s) \in 1..Len(d), iter[s \ {Max(s)}] \in 0..9
        PROVE  iter[s] = DammFn[<<iter[s \ {Max(s)}], d[Max(s)]>>]
    BY <1>1, <2>1, <2>2, DammFnIs, Zenon
  <2> QED BY <2>1, <2>2 DEF SolvesOver
<1>6. PICK c : Over(c, d, 0..9, 0, DammFn) /\ c[Len(d)] = iter[1..Len(d)]
  <2> HIDE DEF Solves
  <2>1. PICK c : WalkTo(c, d, 0..9, 0, DammFn, iter[1..Len(d)])
    BY <1>1, <1>2, <1>5, FoldIsAWalk, Zenon
  <2> QED BY <2>1 DEF WalkTo
<1>7. Damm(d) <=> d # <<>> /\ c[Len(d)] = 0
  <2>1. Damm(d) <=> d # <<>> /\ AllDigits(d) /\ iter[DOMAIN d] = 0
    BY DEF Damm, FoldLeft, MapThenFoldSet, iter, DammStep
  <2>2. AllDigits(d)
    BY <1>1 DEF AllDigits, IsDigit
  <2> QED BY <1>1, <1>6, <2>1, <2>2
<1> QED BY <1>6, <1>7

Mod97Step(x, a) == ((IF IsDigit(a) THEN 10 ELSE 100) * x + a) % 97
Mod97Fn == [p \in (0..96) \X (Characters) |-> Mod97Step(p[1], p[2])]

LEMMA Mod97FnIs ==
  ASSUME NEW x \in 0..96, NEW a \in Characters
  PROVE  Mod97Fn[<<x, a>>] = Mod97Step(x, a) /\ Mod97Fn[<<x, a>>] \in 0..96
<1>1. Mod97Step(x, a) \in 0..96
  BY DEF Mod97Step, Characters, IsDigit
<1>2. Mod97Fn[<<x, a>>] = Mod97Step(x, a)
  BY DEF Mod97Fn
<1> QED BY <1>1, <1>2

LEMMA Mod97Walks ==
  ASSUME NEW d \in Seq(Characters)
  PROVE  \E c : Over(c, d, 0..96, 0, Mod97Fn) /\ (Mod97_10(d) <=> d # <<>> /\ c[Len(d)] = 1)
<1> DEFINE Solves(h) ==
             h = [s \in SUBSET (DOMAIN d) |-> IF s = {} THEN 0 ELSE Mod97Step(h[s \ {Max(s)}], d[Max(s)])]
           iter == CHOOSE h : Solves(h)
<1>1. DOMAIN d = 1..Len(d) /\ (\A i \in 1..Len(d) : d[i] \in Characters) /\ 0 \in 0..96
  OBVIOUS
<1>2. TypedStep(Mod97Fn, 0..96, Characters)
  BY Mod97FnIs, Zenon DEF TypedStep
<1>3. PICK h : FoldOver(h, d, 0..96, 0, Mod97Fn)
  <2> HIDE DEF Solves
  <2> QED BY <1>1, <1>2, FoldOverExists, Zenon
<1>4. Solves(iter)
  <2>1. \A s \in SUBSET (1..Len(d)) : h[s] = IF s = {} THEN 0 ELSE Mod97Step(h[s \ {Max(s)}], d[Max(s)])
    <3> SUFFICES ASSUME NEW s \in SUBSET (1..Len(d)), s # {}
                 PROVE  h[s] = Mod97Step(h[s \ {Max(s)}], d[Max(s)])
      BY <1>3 DEF FoldOver
    <3>1. /\ Max(s) \in 1..Len(d) /\ h[s \ {Max(s)}] \in 0..96
          /\ h[s] = Mod97Fn[<<h[s \ {Max(s)}], d[Max(s)]>>]
      BY <1>3 DEF FoldOver
    <3> QED BY <1>1, <3>1, Mod97FnIs, Zenon
  <2>2. Solves(h)
    BY <1>1, <1>3, <2>1 DEF FoldOver
  <2> HIDE DEF Solves
  <2> QED BY <2>2
<1> HIDE DEF iter
<1>5. SolvesOver(iter, d, 0..96, 0, Mod97Fn)
  <2>1. /\ iter[{}] = 0
        /\ \A s \in SUBSET (1..Len(d)) : s # {} => iter[s] = Mod97Step(iter[s \ {Max(s)}], d[Max(s)])
    BY <1>1, <1>4, Zenon
  <2> HIDE DEF Solves
  <2>2. ASSUME NEW s \in SUBSET (1..Len(d)), s # {}, Max(s) \in 1..Len(d), iter[s \ {Max(s)}] \in 0..96
        PROVE  iter[s] = Mod97Fn[<<iter[s \ {Max(s)}], d[Max(s)]>>]
    BY <1>1, <2>1, <2>2, Mod97FnIs, Zenon
  <2> QED BY <2>1, <2>2 DEF SolvesOver
<1>6. PICK c : Over(c, d, 0..96, 0, Mod97Fn) /\ c[Len(d)] = iter[1..Len(d)]
  <2> HIDE DEF Solves
  <2>1. PICK c : WalkTo(c, d, 0..96, 0, Mod97Fn, iter[1..Len(d)])
    BY <1>1, <1>2, <1>5, FoldIsAWalk, Zenon
  <2> QED BY <2>1 DEF WalkTo
<1>7. Mod97_10(d) <=> d # <<>> /\ c[Len(d)] = 1
  <2>1. Mod97_10(d) <=> d # <<>> /\ iter[DOMAIN d] = 1
    BY DEF Mod97_10, FoldLeft, MapThenFoldSet, iter, Mod97Step
  <2> QED BY <1>1, <1>6, <2>1
<1> QED BY <1>6, <1>7

Mod11_10Step(x, a) == ((((IF x = 0 THEN 10 ELSE x) * 2) % 11) + a) % 10
Mod11_10Fn == [p \in (0..9) \X (0..9) |-> Mod11_10Step(p[1], p[2])]

LEMMA Mod11_10FnIs ==
  ASSUME NEW x \in 0..9, NEW a \in 0..9
  PROVE  Mod11_10Fn[<<x, a>>] = Mod11_10Step(x, a) /\ Mod11_10Fn[<<x, a>>] \in 0..9
<1>1. Mod11_10Step(x, a) \in 0..9
  BY DEF Mod11_10Step
<1>2. Mod11_10Fn[<<x, a>>] = Mod11_10Step(x, a)
  BY DEF Mod11_10Fn
<1> QED BY <1>1, <1>2

LEMMA Mod11_10Walks ==
  ASSUME NEW d \in Seq(0..9)
  PROVE  \E c : Over(c, d, 0..9, 5, Mod11_10Fn) /\ (Mod11_10(d) <=> d # <<>> /\ c[Len(d)] = 1)
<1> DEFINE Solves(h) ==
             h = [s \in SUBSET (DOMAIN d) |-> IF s = {} THEN 5 ELSE Mod11_10Step(h[s \ {Max(s)}], d[Max(s)])]
           iter == CHOOSE h : Solves(h)
<1>1. DOMAIN d = 1..Len(d) /\ (\A i \in 1..Len(d) : d[i] \in 0..9) /\ 5 \in 0..9
  OBVIOUS
<1>2. TypedStep(Mod11_10Fn, 0..9, 0..9)
  BY Mod11_10FnIs DEF TypedStep
<1>3. PICK h : FoldOver(h, d, 0..9, 5, Mod11_10Fn)
  <2> HIDE DEF Solves
  <2> QED BY <1>1, <1>2, FoldOverExists, Zenon
<1>4. Solves(iter)
  <2>1. \A s \in SUBSET (1..Len(d)) : h[s] = IF s = {} THEN 5 ELSE Mod11_10Step(h[s \ {Max(s)}], d[Max(s)])
    <3> SUFFICES ASSUME NEW s \in SUBSET (1..Len(d)), s # {}
                 PROVE  h[s] = Mod11_10Step(h[s \ {Max(s)}], d[Max(s)])
      BY <1>3 DEF FoldOver
    <3>1. /\ Max(s) \in 1..Len(d) /\ h[s \ {Max(s)}] \in 0..9
          /\ h[s] = Mod11_10Fn[<<h[s \ {Max(s)}], d[Max(s)]>>]
      BY <1>3 DEF FoldOver
    <3> QED BY <1>1, <3>1, Mod11_10FnIs
  <2>2. Solves(h)
    BY <1>1, <1>3, <2>1 DEF FoldOver
  <2> HIDE DEF Solves
  <2> QED BY <2>2
<1> HIDE DEF iter
<1>5. SolvesOver(iter, d, 0..9, 5, Mod11_10Fn)
  <2>1. /\ iter[{}] = 5
        /\ \A s \in SUBSET (1..Len(d)) : s # {} => iter[s] = Mod11_10Step(iter[s \ {Max(s)}], d[Max(s)])
    BY <1>1, <1>4
  <2> HIDE DEF Solves
  <2>2. ASSUME NEW s \in SUBSET (1..Len(d)), s # {}, Max(s) \in 1..Len(d), iter[s \ {Max(s)}] \in 0..9
        PROVE  iter[s] = Mod11_10Fn[<<iter[s \ {Max(s)}], d[Max(s)]>>]
    BY <1>1, <2>1, <2>2, Mod11_10FnIs
  <2> QED BY <2>1, <2>2 DEF SolvesOver
<1>6. PICK c : Over(c, d, 0..9, 5, Mod11_10Fn) /\ c[Len(d)] = iter[1..Len(d)]
  <2> HIDE DEF Solves
  <2>1. PICK c : WalkTo(c, d, 0..9, 5, Mod11_10Fn, iter[1..Len(d)])
    BY <1>1, <1>2, <1>5, FoldIsAWalk, Zenon
  <2> QED BY <2>1 DEF WalkTo
<1>7. Mod11_10(d) <=> d # <<>> /\ c[Len(d)] = 1
  <2>1. Mod11_10(d) <=> d # <<>> /\ AllDigits(d) /\ iter[DOMAIN d] = 1
    BY DEF Mod11_10, FoldLeft, MapThenFoldSet, iter, Mod11_10Step
  <2>2. AllDigits(d)
    BY <1>1 DEF AllDigits, IsDigit
  <2> QED BY <1>1, <1>6, <2>1, <2>2
<1> QED BY <1>6, <1>7

AsIntegerStep(x, a) == 10 * x + a
AsIntegerFn == [p \in (Nat) \X (0..9) |-> AsIntegerStep(p[1], p[2])]

LEMMA AsIntegerFnIs ==
  ASSUME NEW x \in Nat, NEW a \in 0..9
  PROVE  AsIntegerFn[<<x, a>>] = AsIntegerStep(x, a) /\ AsIntegerFn[<<x, a>>] \in Nat
<1>1. AsIntegerStep(x, a) \in Nat
  BY DEF AsIntegerStep
<1>2. AsIntegerFn[<<x, a>>] = AsIntegerStep(x, a)
  BY DEF AsIntegerFn
<1> QED BY <1>1, <1>2

LEMMA AsIntegerWalks ==
  ASSUME NEW d \in Seq(0..9)
  PROVE  \E c : Over(c, d, Nat, 0, AsIntegerFn) /\ (AsInteger(d) = c[Len(d)])
<1> DEFINE Solves(h) ==
             h = [s \in SUBSET (DOMAIN d) |-> IF s = {} THEN 0 ELSE AsIntegerStep(h[s \ {Max(s)}], d[Max(s)])]
           iter == CHOOSE h : Solves(h)
<1>1. DOMAIN d = 1..Len(d) /\ (\A i \in 1..Len(d) : d[i] \in 0..9) /\ 0 \in Nat
  OBVIOUS
<1>2. TypedStep(AsIntegerFn, Nat, 0..9)
  BY AsIntegerFnIs DEF TypedStep
<1>3. PICK h : FoldOver(h, d, Nat, 0, AsIntegerFn)
  <2> HIDE DEF Solves
  <2> QED BY <1>1, <1>2, FoldOverExists, Zenon
<1>4. Solves(iter)
  <2>1. \A s \in SUBSET (1..Len(d)) : h[s] = IF s = {} THEN 0 ELSE AsIntegerStep(h[s \ {Max(s)}], d[Max(s)])
    <3> SUFFICES ASSUME NEW s \in SUBSET (1..Len(d)), s # {}
                 PROVE  h[s] = AsIntegerStep(h[s \ {Max(s)}], d[Max(s)])
      BY <1>3 DEF FoldOver
    <3>1. /\ Max(s) \in 1..Len(d) /\ h[s \ {Max(s)}] \in Nat
          /\ h[s] = AsIntegerFn[<<h[s \ {Max(s)}], d[Max(s)]>>]
      BY <1>3 DEF FoldOver
    <3> QED BY <1>1, <3>1, AsIntegerFnIs
  <2>2. Solves(h)
    BY <1>1, <1>3, <2>1 DEF FoldOver
  <2> HIDE DEF Solves
  <2> QED BY <2>2
<1> HIDE DEF iter
<1>5. SolvesOver(iter, d, Nat, 0, AsIntegerFn)
  <2>1. /\ iter[{}] = 0
        /\ \A s \in SUBSET (1..Len(d)) : s # {} => iter[s] = AsIntegerStep(iter[s \ {Max(s)}], d[Max(s)])
    BY <1>1, <1>4
  <2> HIDE DEF Solves
  <2>2. ASSUME NEW s \in SUBSET (1..Len(d)), s # {}, Max(s) \in 1..Len(d), iter[s \ {Max(s)}] \in Nat
        PROVE  iter[s] = AsIntegerFn[<<iter[s \ {Max(s)}], d[Max(s)]>>]
    BY <1>1, <2>1, <2>2, AsIntegerFnIs
  <2> QED BY <2>1, <2>2 DEF SolvesOver
<1>6. PICK c : Over(c, d, Nat, 0, AsIntegerFn) /\ c[Len(d)] = iter[1..Len(d)]
  <2> HIDE DEF Solves
  <2>1. PICK c : WalkTo(c, d, Nat, 0, AsIntegerFn, iter[1..Len(d)])
    BY <1>1, <1>2, <1>5, FoldIsAWalk, Zenon
  <2> QED BY <2>1 DEF WalkTo
<1>7. AsInteger(d) = c[Len(d)]
  <2>1. AsInteger(d) = iter[DOMAIN d]
    BY DEF AsInteger, FoldLeft, MapThenFoldSet, iter, AsIntegerStep
  <2> QED BY <1>1, <1>6, <2>1
<1> QED BY <1>6, <1>7

Residues(modulus) == 0..(modulus - 1)
IntegerModStep(x, a, modulus) == (10 * x + a) % modulus
IntegerModFn(modulus) == [p \in Residues(modulus) \X (0..9) |-> IntegerModStep(p[1], p[2], modulus)]

LEMMA IntegerModFnIs ==
  ASSUME NEW modulus \in Nat \ {0}, NEW x \in Residues(modulus), NEW a \in 0..9
  PROVE  IntegerModFn(modulus)[<<x, a>>] = IntegerModStep(x, a, modulus) /\ IntegerModFn(modulus)[<<x, a>>] \in Residues(modulus)
<1>1. IntegerModStep(x, a, modulus) \in Residues(modulus)
  BY DEF IntegerModStep, Residues
<1>2. IntegerModFn(modulus)[<<x, a>>] = IntegerModStep(x, a, modulus)
  BY DEF IntegerModFn
<1> QED BY <1>1, <1>2

LEMMA IntegerModWalks ==
  ASSUME NEW d \in Seq(0..9), NEW modulus \in Nat \ {0}
  PROVE  \E c : Over(c, d, Residues(modulus), 0, IntegerModFn(modulus)) /\ (IntegerMod(d, modulus) = c[Len(d)])
<1> DEFINE Solves(h) ==
             h = [s \in SUBSET (DOMAIN d) |-> IF s = {} THEN 0 ELSE IntegerModStep(h[s \ {Max(s)}], d[Max(s)], modulus)]
           iter == CHOOSE h : Solves(h)
<1>1. DOMAIN d = 1..Len(d) /\ (\A i \in 1..Len(d) : d[i] \in 0..9) /\ 0 \in Residues(modulus)
  BY DEF Residues
<1>2. TypedStep(IntegerModFn(modulus), Residues(modulus), 0..9)
  BY IntegerModFnIs DEF TypedStep
<1>3. PICK h : FoldOver(h, d, Residues(modulus), 0, IntegerModFn(modulus))
  <2> HIDE DEF Solves
  <2> QED BY <1>1, <1>2, FoldOverExists, Zenon
<1>4. Solves(iter)
  <2>1. \A s \in SUBSET (1..Len(d)) : h[s] = IF s = {} THEN 0 ELSE IntegerModStep(h[s \ {Max(s)}], d[Max(s)], modulus)
    <3> SUFFICES ASSUME NEW s \in SUBSET (1..Len(d)), s # {}
                 PROVE  h[s] = IntegerModStep(h[s \ {Max(s)}], d[Max(s)], modulus)
      BY <1>3 DEF FoldOver
    <3>1. /\ Max(s) \in 1..Len(d) /\ h[s \ {Max(s)}] \in Residues(modulus)
          /\ h[s] = IntegerModFn(modulus)[<<h[s \ {Max(s)}], d[Max(s)]>>]
      BY <1>3 DEF FoldOver
    <3> QED BY <1>1, <3>1, IntegerModFnIs
  <2>2. Solves(h)
    BY <1>1, <1>3, <2>1 DEF FoldOver
  <2> HIDE DEF Solves
  <2> QED BY <2>2
<1> HIDE DEF iter
<1>5. SolvesOver(iter, d, Residues(modulus), 0, IntegerModFn(modulus))
  <2>1. /\ iter[{}] = 0
        /\ \A s \in SUBSET (1..Len(d)) : s # {} => iter[s] = IntegerModStep(iter[s \ {Max(s)}], d[Max(s)], modulus)
    BY <1>1, <1>4
  <2> HIDE DEF Solves
  <2>2. ASSUME NEW s \in SUBSET (1..Len(d)), s # {}, Max(s) \in 1..Len(d), iter[s \ {Max(s)}] \in Residues(modulus)
        PROVE  iter[s] = IntegerModFn(modulus)[<<iter[s \ {Max(s)}], d[Max(s)]>>]
    BY <1>1, <2>1, <2>2, IntegerModFnIs
  <2> QED BY <2>1, <2>2 DEF SolvesOver
<1>6. PICK c : Over(c, d, Residues(modulus), 0, IntegerModFn(modulus)) /\ c[Len(d)] = iter[1..Len(d)]
  <2> HIDE DEF Solves
  <2>1. PICK c : WalkTo(c, d, Residues(modulus), 0, IntegerModFn(modulus), iter[1..Len(d)])
    BY <1>1, <1>2, <1>5, FoldIsAWalk, Zenon
  <2> QED BY <2>1 DEF WalkTo
<1>7. IntegerMod(d, modulus) = c[Len(d)]
  <2>1. IntegerMod(d, modulus) = iter[DOMAIN d]
    BY DEF IntegerMod, FoldLeft, MapThenFoldSet, iter, IntegerModStep
  <2> QED BY <1>1, <1>6, <2>1
<1> QED BY <1>6, <1>7

Mod11_2Step(x, a) == (2 * x + a) % 11
Mod11_2Fn == [p \in (0..10) \X (0..10) |-> Mod11_2Step(p[1], p[2])]

LEMMA Mod11_2FnIs ==
  ASSUME NEW x \in 0..10, NEW a \in 0..10
  PROVE  Mod11_2Fn[<<x, a>>] = Mod11_2Step(x, a) /\ Mod11_2Fn[<<x, a>>] \in 0..10
<1>1. Mod11_2Step(x, a) \in 0..10
  BY DEF Mod11_2Step
<1>2. Mod11_2Fn[<<x, a>>] = Mod11_2Step(x, a)
  BY DEF Mod11_2Fn
<1> QED BY <1>1, <1>2

OrcidValues(d) == [i \in DOMAIN d |-> IF d[i] = Letter("X") THEN 10 ELSE d[i]]
Spelled(d) == \A i \in DOMAIN d : OrcidValues(d)[i] \in 0..10 /\ d[i] # 10

LEMMA Mod11_2Walks ==
  ASSUME NEW d \in Seq(Characters), Spelled(d)
  PROVE  \E c : Over(c, OrcidValues(d), 0..10, 0, Mod11_2Fn) /\ (Mod11_2(d) <=> d # <<>> /\ c[Len(d)] = 1)
<1> DEFINE v == OrcidValues(d)
<1>0. v \in Seq(0..10) /\ Len(v) = Len(d) /\ DOMAIN v = DOMAIN d
  <2>1. v = [i \in 1..Len(d) |-> v[i]] /\ \A i \in 1..Len(d) : v[i] \in 0..10
    BY DEF Spelled, OrcidValues
  <2>2. Len(d) \in Nat
    OBVIOUS
  <2> QED BY <2>1, <2>2
<1> HIDE DEF v
<1> DEFINE Solves(h) ==
             h = [s \in SUBSET (DOMAIN v) |-> IF s = {} THEN 0 ELSE Mod11_2Step(h[s \ {Max(s)}], v[Max(s)])]
           iter == CHOOSE h : Solves(h)
<1>1. DOMAIN v = 1..Len(v) /\ (\A i \in 1..Len(v) : v[i] \in 0..10) /\ 0 \in 0..10
  BY <1>0
<1>2. TypedStep(Mod11_2Fn, 0..10, 0..10)
  BY Mod11_2FnIs DEF TypedStep
<1>3. PICK h : FoldOver(h, v, 0..10, 0, Mod11_2Fn)
  <2> HIDE DEF Solves
  <2> QED BY <1>0, <1>1, <1>2, FoldOverExists, Zenon
<1>4. Solves(iter)
  <2>1. \A s \in SUBSET (1..Len(v)) : h[s] = IF s = {} THEN 0 ELSE Mod11_2Step(h[s \ {Max(s)}], v[Max(s)])
    <3> SUFFICES ASSUME NEW s \in SUBSET (1..Len(v)), s # {}
                 PROVE  h[s] = Mod11_2Step(h[s \ {Max(s)}], v[Max(s)])
      BY <1>3 DEF FoldOver
    <3>1. /\ Max(s) \in 1..Len(v) /\ h[s \ {Max(s)}] \in 0..10
          /\ h[s] = Mod11_2Fn[<<h[s \ {Max(s)}], v[Max(s)]>>]
      BY <1>3 DEF FoldOver
    <3> QED BY <1>1, <3>1, Mod11_2FnIs
  <2>2. Solves(h)
    BY <1>1, <1>3, <2>1 DEF FoldOver
  <2> HIDE DEF Solves
  <2> QED BY <2>2
<1> HIDE DEF iter
<1>5. SolvesOver(iter, v, 0..10, 0, Mod11_2Fn)
  <2>1. /\ iter[{}] = 0
        /\ \A s \in SUBSET (1..Len(v)) : s # {} => iter[s] = Mod11_2Step(iter[s \ {Max(s)}], v[Max(s)])
    BY <1>1, <1>4
  <2> HIDE DEF Solves
  <2>2. ASSUME NEW s \in SUBSET (1..Len(v)), s # {}, Max(s) \in 1..Len(v), iter[s \ {Max(s)}] \in 0..10
        PROVE  iter[s] = Mod11_2Fn[<<iter[s \ {Max(s)}], v[Max(s)]>>]
    BY <1>1, <2>1, <2>2, Mod11_2FnIs, Zenon
  <2> QED BY <2>1, <2>2 DEF SolvesOver
<1>6. PICK c : Over(c, v, 0..10, 0, Mod11_2Fn) /\ c[Len(v)] = iter[1..Len(v)]
  <2> HIDE DEF Solves
  <2>1. PICK c : WalkTo(c, v, 0..10, 0, Mod11_2Fn, iter[1..Len(v)])
    BY <1>0, <1>1, <1>2, <1>5, FoldIsAWalk, Zenon
  <2> QED BY <2>1 DEF WalkTo
<1>7. Mod11_2(d) <=> d # <<>> /\ c[Len(d)] = 1
  <2>1. Mod11_2(d) <=> d # <<>> /\ Spelled(d) /\ iter[DOMAIN v] = 1
    BY DEF Mod11_2, FoldLeft, MapThenFoldSet, iter, Mod11_2Step, v, OrcidValues, Spelled
  <2> QED BY <1>0, <1>1, <1>6, <2>1
<1> QED BY <1>0, <1>6, <1>7 DEF v

IsIntegerModFn(step, modulus) ==
  \A x \in Residues(modulus) : \A a \in 0..9 :
    /\ step[<<x, a>>] = IntegerModStep(x, a, modulus)
    /\ IntegerModStep(x, a, modulus) \in Residues(modulus)

LEMMA IntegerModFnSteps ==
  ASSUME NEW modulus \in Nat \ {0}
  PROVE  IsIntegerModFn(IntegerModFn(modulus), modulus)
BY SMT DEF IsIntegerModFn, IntegerModFn, IntegerModStep, Residues

-----------------------------------------------------------------------------
(* The two errors, on any part of a number. *)

Differs(w, r, i) ==
  /\ w \in Seq(Characters) /\ r \in Seq(Characters) /\ Len(r) = Len(w)
  /\ i \in 1..Len(w) /\ r[i] # w[i]
  /\ \A x \in 1..Len(w) : x # i => r[x] = w[x]

Exchanged(w, r, i) ==
  /\ w \in Seq(Characters) /\ r \in Seq(Characters) /\ Len(r) = Len(w)
  /\ i \in 1..(Len(w) - 1) /\ w[i] # w[i + 1]
  /\ r[i] = w[i + 1] /\ r[i + 1] = w[i]
  /\ \A x \in 1..Len(w) : x # i /\ x # i + 1 => r[x] = w[x]

LEMMA SliceIs ==
  ASSUME NEW d \in Seq(Characters), NEW from \in Nat, NEW to \in Nat, from <= to, to <= Len(d)
  PROVE  /\ Slice(d, from, to) \in Seq(Characters)
         /\ Len(Slice(d, from, to)) = to - from
         /\ \A x \in 1..(to - from) : Slice(d, from, to)[x] = d[from + x]
<1>1. Slice(d, from, to) = SubSeq(d, from + 1, to)
  BY DEF Slice
<1>2. \A x \in (from + 1)..to : d[x] \in Characters
  OBVIOUS
<1>3. Slice(d, from, to) = [x \in 1..(to - from) |-> d[from + x]]
  BY <1>1, SubSeqProperties
<1> QED BY <1>3

LEMMA SliceOfDiffers ==
  ASSUME NEW w, NEW r, NEW i, Differs(w, r, i),
         NEW from \in Nat, NEW to \in Nat, from <= to, to <= Len(w)
  PROVE  /\ from < i /\ i <= to => Differs(Slice(w, from, to), Slice(r, from, to), i - from)
         /\ i <= from \/ to < i => Slice(r, from, to) = Slice(w, from, to)
<1>1. /\ w \in Seq(Characters) /\ r \in Seq(Characters) /\ Len(r) = Len(w)
      /\ i \in 1..Len(w) /\ r[i] # w[i]
      /\ \A x \in 1..Len(w) : x # i => r[x] = w[x]
  BY DEF Differs
<1> DEFINE a == Slice(w, from, to)
           b == Slice(r, from, to)
<1>2. /\ a \in Seq(Characters) /\ Len(a) = to - from
      /\ \A x \in 1..(to - from) : a[x] = w[from + x]
  BY <1>1, SliceIs
<1>3. /\ b \in Seq(Characters) /\ Len(b) = to - from
      /\ \A x \in 1..(to - from) : b[x] = r[from + x]
  BY <1>1, SliceIs
<1> HIDE DEF a, b
<1>4. ASSUME NEW x \in 1..(to - from), from + x # i PROVE b[x] = a[x]
  <2>1. from + x \in 1..Len(w)
    BY <1>1
  <2> QED BY <1>1, <1>2, <1>3, <1>4, <2>1
<1>5. ASSUME from < i, i <= to PROVE Differs(a, b, i - from)
  <2>1. i - from \in 1..(to - from) /\ from + (i - from) = i
    BY <1>1, <1>5
  <2>2. b[i - from] # a[i - from]
    BY <1>1, <1>2, <1>3, <2>1
  <2>3. \A x \in 1..Len(a) : x # i - from => b[x] = a[x]
    <3> SUFFICES ASSUME NEW x \in 1..(to - from), x # i - from PROVE b[x] = a[x]
      BY <1>2
    <3>1. from + x # i
      BY <1>1
    <3> QED BY <1>4, <3>1
  <2> QED BY <1>2, <1>3, <2>1, <2>2, <2>3 DEF Differs
<1>6. ASSUME i <= from \/ to < i PROVE b = a
  <2>1. \A x \in 1..(to - from) : from + x # i
    BY <1>1, <1>6
  <2>2. \A x \in 1..(to - from) : b[x] = a[x]
    BY <1>4, <2>1
  <2> QED BY <1>2, <1>3, <2>2
<1> QED BY <1>5, <1>6 DEF a, b

LEMMA SliceOfExchanged ==
  ASSUME NEW w, NEW r, NEW i, Exchanged(w, r, i),
         NEW from \in Nat, NEW to \in Nat, from <= to, to <= Len(w)
  PROVE  /\ from < i /\ i < to => Exchanged(Slice(w, from, to), Slice(r, from, to), i - from)
         /\ from = i /\ i < to => Differs(Slice(w, from, to), Slice(r, from, to), 1)
         /\ from < i /\ i = to => Differs(Slice(w, from, to), Slice(r, from, to), i - from)
         /\ i < from \/ to < i => Slice(r, from, to) = Slice(w, from, to)
<1>1. /\ w \in Seq(Characters) /\ r \in Seq(Characters) /\ Len(r) = Len(w)
      /\ i \in 1..(Len(w) - 1) /\ w[i] # w[i + 1]
      /\ r[i] = w[i + 1] /\ r[i + 1] = w[i]
      /\ \A x \in 1..Len(w) : x # i /\ x # i + 1 => r[x] = w[x]
  BY DEF Exchanged
<1> DEFINE a == Slice(w, from, to)
           b == Slice(r, from, to)
<1>2. /\ a \in Seq(Characters) /\ Len(a) = to - from
      /\ \A x \in 1..(to - from) : a[x] = w[from + x]
  BY <1>1, SliceIs
<1>3. /\ b \in Seq(Characters) /\ Len(b) = to - from
      /\ \A x \in 1..(to - from) : b[x] = r[from + x]
  BY <1>1, SliceIs
<1> HIDE DEF a, b
<1>4. ASSUME NEW x \in 1..(to - from), from + x # i, from + x # i + 1 PROVE b[x] = a[x]
  <2>1. from + x \in 1..Len(w)
    BY <1>1
  <2> QED BY <1>1, <1>2, <1>3, <1>4, <2>1
<1>5. ASSUME from < i, i < to PROVE Exchanged(a, b, i - from)
  <2>1. /\ i - from \in 1..(to - from - 1) /\ from + (i - from) = i
        /\ (i - from) + 1 \in 1..(to - from) /\ from + ((i - from) + 1) = i + 1
        /\ i - from \in 1..(to - from)
    BY <1>1, <1>5, SMT
  <2>2. /\ a[i - from] = w[i] /\ b[i - from] = r[i]
        /\ a[(i - from) + 1] = w[i + 1] /\ b[(i - from) + 1] = r[i + 1]
    <3>1. a[i - from] = w[from + (i - from)] /\ b[i - from] = r[from + (i - from)]
      BY <1>2, <1>3, <2>1, Zenon
    <3>2. /\ a[(i - from) + 1] = w[from + ((i - from) + 1)]
          /\ b[(i - from) + 1] = r[from + ((i - from) + 1)]
      BY <1>2, <1>3, <2>1, Zenon
    <3> QED BY <2>1, <3>1, <3>2, Zenon
  <2>3. \A x \in 1..Len(a) : x # i - from /\ x # (i - from) + 1 => b[x] = a[x]
    <3> SUFFICES ASSUME NEW x \in 1..(to - from), x # i - from, x # (i - from) + 1 PROVE b[x] = a[x]
      BY <1>2
    <3>1. from + x # i /\ from + x # i + 1
      BY <1>1
    <3> QED BY <1>4, <3>1
  <2> QED BY <1>1, <1>2, <1>3, <2>1, <2>2, <2>3 DEF Exchanged
<1>6. ASSUME from = i, i < to PROVE Differs(a, b, 1)
  <2>1. 1 \in 1..(to - from) /\ from + 1 = i + 1
    BY <1>1, <1>6
  <2>2. b[1] # a[1]
    BY <1>1, <1>2, <1>3, <2>1
  <2>3. \A x \in 1..Len(a) : x # 1 => b[x] = a[x]
    <3> SUFFICES ASSUME NEW x \in 1..(to - from), x # 1 PROVE b[x] = a[x]
      BY <1>2
    <3>1. from + x # i /\ from + x # i + 1
      BY <1>1, <1>6
    <3> QED BY <1>4, <3>1
  <2> QED BY <1>2, <1>3, <2>1, <2>2, <2>3 DEF Differs
<1>7. ASSUME from < i, i = to PROVE Differs(a, b, i - from)
  <2>1. i - from \in 1..(to - from) /\ from + (i - from) = i
    BY <1>1, <1>7
  <2>2. b[i - from] # a[i - from]
    BY <1>1, <1>2, <1>3, <2>1
  <2>3. \A x \in 1..Len(a) : x # i - from => b[x] = a[x]
    <3> SUFFICES ASSUME NEW x \in 1..(to - from), x # i - from PROVE b[x] = a[x]
      BY <1>2
    <3>1. from + x # i /\ from + x # i + 1
      BY <1>1, <1>7
    <3> QED BY <1>4, <3>1
  <2> QED BY <1>2, <1>3, <2>1, <2>2, <2>3 DEF Differs
<1>8. ASSUME i < from \/ to < i PROVE b = a
  <2>1. \A x \in 1..(to - from) : from + x # i /\ from + x # i + 1
    BY <1>1, <1>8
  <2>2. \A x \in 1..(to - from) : b[x] = a[x]
    BY <1>4, <2>1
  <2> QED BY <1>2, <1>3, <2>2
<1> QED BY <1>5, <1>6, <1>7, <1>8 DEF a, b

-----------------------------------------------------------------------------
(* Walks over sequences that differ: they part where the sequences do, and do not meet again. *)

(* A step keeps states apart; it tells two characters apart. *)
Faithful(step, V, A) ==
  \A x \in V : \A y \in V : \A a \in A : step[<<x, a>>] = step[<<y, a>>] => x = y
Tells(step, V, a, b) == \A x \in V : step[<<x, a>>] # step[<<x, b>>]

Moves(c, d, n, step) == \A k \in 1..n : c[k] = step[<<c[k - 1], d[k]>>]
Meet(c, e, k) == c[k] = e[k]
Alike(w, r, from, to) == \A k \in from..to : r[k] = w[k]

LEMMA TogetherAtFirst ==
  ASSUME NEW n \in Nat, NEW c, NEW e, NEW w, NEW r, NEW step, NEW j \in 0..n,
         Meet(c, e, 0), Moves(c, w, n, step), Moves(e, r, n, step), Alike(w, r, 1, j)
  PROVE  Meet(c, e, j)
<1> USE DEF Moves, Alike, Meet
<1> DEFINE Same == {k \in 0..j : c[k] = e[k]}
<1>1. 0 \in Same
  OBVIOUS
<1>2. ASSUME NEW k \in 0..j, k + 1 \in 0..j, k \in Same PROVE k + 1 \in Same
  <2>1. k + 1 \in 1..n /\ k + 1 \in 1..j /\ (k + 1) - 1 = k
    BY <1>2
  <2>2. c[k + 1] = step[<<c[(k + 1) - 1], w[k + 1]>>] /\ e[k + 1] = step[<<e[(k + 1) - 1], r[k + 1]>>] /\ r[k + 1] = w[k + 1]
    BY <2>1
  <2> QED BY <1>2, <2>1, <2>2
<1>3. j \in Nat /\ j \in 0..j
  OBVIOUS
<1> HIDE DEF Same
<1>4. \A k \in 0..j : k \in Same
  BY <1>1, <1>2, <1>3, PassedOn
<1> QED BY <1>3, <1>4 DEF Same

LEMMA ApartForGood ==
  ASSUME NEW n \in Nat, NEW V, NEW A, NEW c \in [0..n -> V], NEW e \in [0..n -> V], NEW w, NEW r, NEW step, NEW j \in 0..n,
         ~ Meet(c, e, j), Moves(c, w, n, step), Moves(e, r, n, step), Alike(w, r, j + 1, n),
         \A k \in 1..n : w[k] \in A, Faithful(step, V, A)
  PROVE  ~ Meet(c, e, n)
<1> USE DEF Moves, Alike, Meet
<1> DEFINE Parted == {k \in Nat : j + k \in 0..n => c[j + k] # e[j + k]}
<1>1. 0 \in Parted
  OBVIOUS
<1>2. ASSUME NEW k \in 0..(n - j), k + 1 \in 0..(n - j), k \in Parted PROVE k + 1 \in Parted
  <2> DEFINE q == j + (k + 1)
  <2>1. q \in 1..n /\ q > j /\ q - 1 = j + k /\ q - 1 \in 0..n
    BY <1>2
  <2>2. c[q - 1] # e[q - 1]
    BY <1>2, <2>1
  <2> HIDE DEF q
  <2>3. c[q] = step[<<c[q - 1], w[q]>>] /\ e[q] = step[<<e[q - 1], w[q]>>] /\ w[q] \in A
    BY <2>1, SMT
  <2>4. c[q - 1] \in V /\ e[q - 1] \in V
    BY <2>1
  <2>5. c[q] # e[q]
    BY <2>2, <2>3, <2>4 DEF Faithful
  <2> QED BY <1>2, <2>5 DEF q
<1>3. n - j \in Nat /\ n - j \in 0..(n - j) /\ j + (n - j) = n /\ n \in 0..n
  OBVIOUS
<1> HIDE DEF Parted
<1>4. \A k \in 0..(n - j) : k \in Parted
  BY <1>1, <1>2, <1>3, PassedOn
<1>5. n - j \in Parted
  BY <1>3, <1>4
<1>6. j + (n - j) \in 0..n => c[j + (n - j)] # e[j + (n - j)]
  BY <1>5 DEF Parted
<1> QED BY <1>3, <1>6

(* One character apart, the walks end apart. *)
LEMMA DiffersParts ==
  ASSUME NEW w, NEW r, NEW i, Differs(w, r, i), NEW V, NEW A, NEW base, NEW step,
         w \in Seq(A), r \in Seq(A), Faithful(step, V, A),
         NEW c, Over(c, w, V, base, step), NEW e, Over(e, r, V, base, step),
         Tells(step, V, w[i], r[i])
  PROVE  c[Len(w)] # e[Len(r)]
<1> DEFINE n == Len(w)
<1>1. /\ n \in Nat /\ Len(r) = n /\ i \in 1..n /\ r[i] # w[i] /\ i \in 0..n /\ i - 1 \in 0..n
      /\ \A x \in 1..n : x # i => r[x] = w[x]
      /\ \A x \in 1..n : w[x] \in A /\ r[x] \in A
  BY DEF Differs
<1>2. /\ c \in [0..n -> V] /\ e \in [0..n -> V] /\ c[0] = base /\ e[0] = base
      /\ Moves(c, w, n, step) /\ Moves(e, r, n, step)
  BY <1>1 DEF Over, Moves
<1> HIDE DEF n
<1>3. c[i - 1] = e[i - 1]
  <2>1. Alike(w, r, 1, i - 1)
    BY <1>1 DEF Alike
  <2>2. Meet(c, e, 0)
    BY <1>2 DEF Meet
  <2>3. Meet(c, e, i - 1)
    BY <1>1, <1>2, <2>1, <2>2, TogetherAtFirst, Zenon
  <2> QED BY <2>3 DEF Meet
<1>4. c[i] # e[i]
  <2>1. c[i] = step[<<c[i - 1], w[i]>>] /\ e[i] = step[<<c[i - 1], r[i]>>] /\ c[i - 1] \in V
    BY <1>1, <1>2, <1>3 DEF Moves
  <2> QED BY <1>1, <2>1 DEF Tells
<1>5. Alike(w, r, i + 1, n)
  BY <1>1 DEF Alike
<1>6. \A k \in 1..n : w[k] \in A
  BY <1>1
<1>7. ~ Meet(c, e, n)
  <2>1. ~ Meet(c, e, i)
    BY <1>4 DEF Meet
  <2> QED BY <1>1, <1>2, <1>5, <1>6, <2>1, ApartForGood, Zenon
<1> QED BY <1>1, <1>7 DEF n, Meet

(* Two characters taken in the other order: apart if the step says so there. *)
Ordered(step, V, a, b) == \A x \in V : step[<<step[<<x, a>>], b>>] # step[<<step[<<x, b>>], a>>]

LEMMA ExchangedParts ==
  ASSUME NEW w, NEW r, NEW i, Exchanged(w, r, i), NEW V, NEW A, NEW base, NEW step,
         w \in Seq(A), r \in Seq(A), Faithful(step, V, A),
         NEW c, Over(c, w, V, base, step), NEW e, Over(e, r, V, base, step),
         Ordered(step, V, w[i], w[i + 1])
  PROVE  c[Len(w)] # e[Len(r)]
<1> DEFINE n == Len(w)
<1>1. /\ n \in Nat /\ Len(r) = n /\ i \in 1..n /\ i + 1 \in 1..n /\ i + 1 \in 0..n /\ i - 1 \in 0..n
      /\ (i + 1) - 1 = i
      /\ r[i] = w[i + 1] /\ r[i + 1] = w[i]
      /\ \A x \in 1..n : x # i /\ x # i + 1 => r[x] = w[x]
      /\ \A x \in 1..n : w[x] \in A /\ r[x] \in A
  BY DEF Exchanged
<1>2. /\ c \in [0..n -> V] /\ e \in [0..n -> V] /\ c[0] = base /\ e[0] = base
      /\ Moves(c, w, n, step) /\ Moves(e, r, n, step)
  BY <1>1 DEF Over, Moves
<1> HIDE DEF n
<1>3. c[i - 1] = e[i - 1]
  <2>1. Alike(w, r, 1, i - 1)
    BY <1>1 DEF Alike
  <2>2. Meet(c, e, 0)
    BY <1>2 DEF Meet
  <2>3. Meet(c, e, i - 1)
    BY <1>1, <1>2, <2>1, <2>2, TogetherAtFirst, Zenon
  <2> QED BY <2>3 DEF Meet
<1>4. c[i + 1] # e[i + 1]
  <2>1. c[i] = step[<<c[i - 1], w[i]>>] /\ e[i] = step[<<c[i - 1], w[i + 1]>>] /\ c[i - 1] \in V
    BY <1>1, <1>2, <1>3 DEF Moves
  <2>2. c[i + 1] = step[<<c[i], w[i + 1]>>] /\ e[i + 1] = step[<<e[i], w[i]>>]
    BY <1>1, <1>2 DEF Moves
  <2> QED BY <2>1, <2>2 DEF Ordered
<1>5. Alike(w, r, (i + 1) + 1, n)
  BY <1>1 DEF Alike
<1>6. \A k \in 1..n : w[k] \in A
  BY <1>1
<1>7. ~ Meet(c, e, n)
  <2>1. ~ Meet(c, e, i + 1)
    BY <1>4 DEF Meet
  <2> QED BY <1>1, <1>2, <1>5, <1>6, <2>1, ApartForGood, Zenon
<1> QED BY <1>1, <1>7 DEF n, Meet

Moduli == {11, 23, 89, 97}

-----------------------------------------------------------------------------
(* What each fold does with a misread character and with two that changed places. *)

LEMMA DammIsFaithful ==
  Faithful(DammFn, 0..9, 0..9)
<1>0. SUFFICES ASSUME NEW x \in 0..9, NEW y \in 0..9, NEW a \in 0..9, DammFn[<<x, a>>] = DammFn[<<y, a>>]
             PROVE  x = y
  BY DEF Faithful
<1>1. DammStep(x, a) = DammStep(y, a)
  <2>1. DammFn[<<x, a>>] = DammStep(x, a) /\ DammFn[<<y, a>>] = DammStep(y, a)
    BY DammFnIs
  <2> QED BY <1>0, <2>1
<1>2. x = y
  <2>1. a = 0 \/ a = 1 \/ a = 2 \/ a = 3 \/ a = 4 \/ a = 5 \/ a = 6 \/ a = 7 \/ a = 8 \/ a = 9
    OBVIOUS
  <2> QED BY <1>1, <2>1 DEF DammStep, DammTable
<1> QED BY <1>2

LEMMA DammTells ==
  ASSUME NEW a \in 0..9, NEW b \in 0..9, a # b
  PROVE  Tells(DammFn, 0..9, a, b)
<1> SUFFICES ASSUME NEW x \in 0..9 PROVE DammFn[<<x, a>>] # DammFn[<<x, b>>]
  BY DEF Tells
<1>1. DammStep(x, a) # DammStep(x, b)
  <2>1. x = 0 \/ x = 1 \/ x = 2 \/ x = 3 \/ x = 4 \/ x = 5 \/ x = 6 \/ x = 7 \/ x = 8 \/ x = 9
    OBVIOUS
  <2> QED BY <2>1 DEF DammStep, DammTable
<1>2. DammFn[<<x, a>>] = DammStep(x, a) /\ DammFn[<<x, b>>] = DammStep(x, b)
  BY DammFnIs, Zenon
<1> QED BY <1>1, <1>2

LEMMA Mod97IsFaithful ==
  Faithful(Mod97Fn, 0..96, Characters)
<1>0. SUFFICES ASSUME NEW x \in 0..96, NEW y \in 0..96, NEW a \in Characters, Mod97Fn[<<x, a>>] = Mod97Fn[<<y, a>>]
             PROVE  x = y
  BY Zenon DEF Faithful
<1>1. Mod97Step(x, a) = Mod97Step(y, a)
  <2>1. Mod97Fn[<<x, a>>] = Mod97Step(x, a) /\ Mod97Fn[<<y, a>>] = Mod97Step(y, a)
    BY Mod97FnIs, Zenon
  <2> QED BY <1>0, <2>1
<1>2. x = y
  <2>1. CASE IsDigit(a)
    BY <1>1, <2>1 DEF Mod97Step, Characters, IsDigit
  <2>2. CASE ~ IsDigit(a)
    <3>1. \A z \in 0..96 : (100 * z + a) % 97 = (3 * z + a) % 97
      BY DEF Characters
    <3>2. (100 * x + a) % 97 = (100 * y + a) % 97
      BY <1>1, <2>2 DEF Mod97Step
    <3>3. (3 * x + a) % 97 = (3 * y + a) % 97
      BY <3>1, <3>2
    <3> QED BY <3>3 DEF Characters
  <2> QED BY <2>1, <2>2
<1> QED BY <1>2

LEMMA Mod97Tells ==
  ASSUME NEW a \in Characters, NEW b \in Characters, a # b, IsDigit(a) <=> IsDigit(b)
  PROVE  Tells(Mod97Fn, 0..96, a, b)
<1> SUFFICES ASSUME NEW x \in 0..96 PROVE Mod97Fn[<<x, a>>] # Mod97Fn[<<x, b>>]
  BY DEF Tells
<1>1. Mod97Step(x, a) # Mod97Step(x, b)
  <2>1. CASE IsDigit(a)
    BY <2>1 DEF Mod97Step, Characters, IsDigit
  <2>2. CASE ~ IsDigit(a)
    BY <2>2 DEF Mod97Step, Characters, IsDigit
  <2> QED BY <2>1, <2>2
<1>2. Mod97Fn[<<x, a>>] = Mod97Step(x, a) /\ Mod97Fn[<<x, b>>] = Mod97Step(x, b)
  BY Mod97FnIs, Zenon
<1> QED BY <1>1, <1>2

LEMMA Mod11_10IsFaithful ==
  Faithful(Mod11_10Fn, 0..9, 0..9)
<1>0. SUFFICES ASSUME NEW x \in 0..9, NEW y \in 0..9, NEW a \in 0..9, Mod11_10Fn[<<x, a>>] = Mod11_10Fn[<<y, a>>]
             PROVE  x = y
  BY DEF Faithful
<1>1. Mod11_10Step(x, a) = Mod11_10Step(y, a)
  <2>1. Mod11_10Fn[<<x, a>>] = Mod11_10Step(x, a) /\ Mod11_10Fn[<<y, a>>] = Mod11_10Step(y, a)
    BY Mod11_10FnIs
  <2> QED BY <1>0, <2>1
<1>2. x = y
  BY <1>1 DEF Mod11_10Step
<1> QED BY <1>2

LEMMA Mod11_10Tells ==
  ASSUME NEW a \in 0..9, NEW b \in 0..9, a # b
  PROVE  Tells(Mod11_10Fn, 0..9, a, b)
<1> SUFFICES ASSUME NEW x \in 0..9 PROVE Mod11_10Fn[<<x, a>>] # Mod11_10Fn[<<x, b>>]
  BY DEF Tells
<1>1. Mod11_10Step(x, a) # Mod11_10Step(x, b)
  BY DEF Mod11_10Step
<1>2. Mod11_10Fn[<<x, a>>] = Mod11_10Step(x, a) /\ Mod11_10Fn[<<x, b>>] = Mod11_10Step(x, b)
  BY Mod11_10FnIs, Zenon
<1> QED BY <1>1, <1>2

LEMMA Mod11_2IsFaithful ==
  Faithful(Mod11_2Fn, 0..10, 0..10)
<1>0. SUFFICES ASSUME NEW x \in 0..10, NEW y \in 0..10, NEW a \in 0..10, Mod11_2Fn[<<x, a>>] = Mod11_2Fn[<<y, a>>]
             PROVE  x = y
  BY DEF Faithful
<1>1. Mod11_2Step(x, a) = Mod11_2Step(y, a)
  <2>1. Mod11_2Fn[<<x, a>>] = Mod11_2Step(x, a) /\ Mod11_2Fn[<<y, a>>] = Mod11_2Step(y, a)
    BY Mod11_2FnIs
  <2> QED BY <1>0, <2>1
<1>2. x = y
  BY <1>1 DEF Mod11_2Step
<1> QED BY <1>2

LEMMA Mod11_2Tells ==
  ASSUME NEW a \in 0..10, NEW b \in 0..10, a # b
  PROVE  Tells(Mod11_2Fn, 0..10, a, b)
<1> SUFFICES ASSUME NEW x \in 0..10 PROVE Mod11_2Fn[<<x, a>>] # Mod11_2Fn[<<x, b>>]
  BY DEF Tells
<1>1. Mod11_2Step(x, a) # Mod11_2Step(x, b)
  BY DEF Mod11_2Step
<1>2. Mod11_2Fn[<<x, a>>] = Mod11_2Step(x, a) /\ Mod11_2Fn[<<x, b>>] = Mod11_2Step(x, b)
  BY Mod11_2FnIs
<1> QED BY <1>1, <1>2

LEMMA IntegerModIsFaithful ==
  ASSUME NEW modulus \in Moduli
  PROVE  Faithful(IntegerModFn(modulus), Residues(modulus), 0..9)
<1>0. SUFFICES ASSUME NEW x \in Residues(modulus), NEW y \in Residues(modulus), NEW a \in 0..9, IntegerModFn(modulus)[<<x, a>>] = IntegerModFn(modulus)[<<y, a>>]
             PROVE  x = y
  BY DEF Faithful
<1>5. modulus \in Nat \ {0}
  BY DEF Moduli
<1>6. IsIntegerModFn(IntegerModFn(modulus), modulus)
  BY <1>5, IntegerModFnSteps, Zenon
<1>1. IntegerModStep(x, a, modulus) = IntegerModStep(y, a, modulus)
  <2>1. IntegerModFn(modulus)[<<x, a>>] = IntegerModStep(x, a, modulus) /\ IntegerModFn(modulus)[<<y, a>>] = IntegerModStep(y, a, modulus)
    BY <1>6 DEF IsIntegerModFn
  <2> QED BY <1>0, <2>1
<1>2. x = y
  <2>1. CASE modulus = 11
    BY <1>1, <2>1 DEF IntegerModStep, Residues
  <2>2. CASE modulus = 23
    BY <1>1, <2>2 DEF IntegerModStep, Residues
  <2>3. CASE modulus = 89
    BY <1>1, <2>3 DEF IntegerModStep, Residues
  <2>4. CASE modulus = 97
    BY <1>1, <2>4 DEF IntegerModStep, Residues
  <2> QED BY <2>1, <2>2, <2>3, <2>4 DEF Moduli
<1> QED BY <1>2

LEMMA IntegerModTells ==
  ASSUME NEW modulus \in Moduli, NEW a \in 0..9, NEW b \in 0..9, a # b
  PROVE  Tells(IntegerModFn(modulus), Residues(modulus), a, b)
<1> SUFFICES ASSUME NEW x \in Residues(modulus) PROVE IntegerModFn(modulus)[<<x, a>>] # IntegerModFn(modulus)[<<x, b>>]
  BY Zenon DEF Tells
<1>5. modulus \in Nat \ {0}
  BY DEF Moduli
<1>6. IsIntegerModFn(IntegerModFn(modulus), modulus)
  BY <1>5, IntegerModFnSteps, Zenon
<1>1. IntegerModStep(x, a, modulus) # IntegerModStep(x, b, modulus)
  <2>1. CASE modulus = 11
    BY <2>1 DEF IntegerModStep, Residues
  <2>2. CASE modulus = 23
    BY <2>2 DEF IntegerModStep, Residues
  <2>3. CASE modulus = 89
    BY <2>3 DEF IntegerModStep, Residues
  <2>4. CASE modulus = 97
    BY <2>4 DEF IntegerModStep, Residues
  <2> QED BY <2>1, <2>2, <2>3, <2>4 DEF Moduli
<1>2. IntegerModFn(modulus)[<<x, a>>] = IntegerModStep(x, a, modulus) /\ IntegerModFn(modulus)[<<x, b>>] = IntegerModStep(x, b, modulus)
  BY <1>6 DEF IsIntegerModFn
<1> QED BY <1>1, <1>2

LEMMA DammIsOrdered ==
  ASSUME NEW a \in 0..9, NEW b \in 0..9, a # b
  PROVE  Ordered(DammFn, 0..9, a, b)
<1> SUFFICES ASSUME NEW x \in 0..9
             PROVE  DammFn[<<DammFn[<<x, a>>], b>>] # DammFn[<<DammFn[<<x, b>>], a>>]
  BY DEF Ordered
<1>1. DammStep(DammStep(x, a), b) # DammStep(DammStep(x, b), a)
  <2>1. a = 0 \/ a = 1 \/ a = 2 \/ a = 3 \/ a = 4 \/ a = 5 \/ a = 6 \/ a = 7 \/ a = 8 \/ a = 9
    OBVIOUS
  <2> QED BY <2>1 DEF DammStep, DammTable
<1>2. /\ DammFn[<<x, a>>] = DammStep(x, a) /\ DammStep(x, a) \in 0..9
      /\ DammFn[<<x, b>>] = DammStep(x, b) /\ DammStep(x, b) \in 0..9
  <2>1. /\ DammFn[<<x, a>>] = DammStep(x, a) /\ DammFn[<<x, a>>] \in 0..9
        /\ DammFn[<<x, b>>] = DammStep(x, b) /\ DammFn[<<x, b>>] \in 0..9
    BY DammFnIs
  <2> QED BY <2>1
<1>3. /\ DammFn[<<DammStep(x, a), b>>] = DammStep(DammStep(x, a), b)
      /\ DammFn[<<DammStep(x, b), a>>] = DammStep(DammStep(x, b), a)
  BY <1>2, DammFnIs, Zenon
<1> QED BY <1>1, <1>2, <1>3

LEMMA Mod97IsOrdered ==
  ASSUME NEW a \in Characters, NEW b \in Characters, a # b, a # 11 * b, b # 11 * a
  PROVE  Ordered(Mod97Fn, 0..96, a, b)
<1> SUFFICES ASSUME NEW x \in 0..96
             PROVE  Mod97Fn[<<Mod97Fn[<<x, a>>], b>>] # Mod97Fn[<<Mod97Fn[<<x, b>>], a>>]
  BY DEF Ordered
<1>1. Mod97Step(Mod97Step(x, a), b) # Mod97Step(Mod97Step(x, b), a)
  <2>1. CASE IsDigit(a) /\ IsDigit(b)
    BY <2>1 DEF Mod97Step, Characters, IsDigit
  <2>2. CASE IsDigit(a) /\ ~ IsDigit(b)
    BY <2>2 DEF Mod97Step, Characters, IsDigit
  <2>3. CASE ~ IsDigit(a) /\ IsDigit(b)
    BY <2>3 DEF Mod97Step, Characters, IsDigit
  <2>4. CASE ~ IsDigit(a) /\ ~ IsDigit(b)
    BY <2>4 DEF Mod97Step, Characters, IsDigit
  <2> QED BY <2>1, <2>2, <2>3, <2>4
<1>2. /\ Mod97Fn[<<x, a>>] = Mod97Step(x, a) /\ Mod97Step(x, a) \in 0..96
      /\ Mod97Fn[<<x, b>>] = Mod97Step(x, b) /\ Mod97Step(x, b) \in 0..96
  <2>1. /\ Mod97Fn[<<x, a>>] = Mod97Step(x, a) /\ Mod97Fn[<<x, a>>] \in 0..96
        /\ Mod97Fn[<<x, b>>] = Mod97Step(x, b) /\ Mod97Fn[<<x, b>>] \in 0..96
    BY Mod97FnIs
  <2> QED BY <2>1
<1>3. /\ Mod97Fn[<<Mod97Step(x, a), b>>] = Mod97Step(Mod97Step(x, a), b)
      /\ Mod97Fn[<<Mod97Step(x, b), a>>] = Mod97Step(Mod97Step(x, b), a)
  BY <1>2, Mod97FnIs
<1> QED BY <1>1, <1>2, <1>3

LEMMA Mod11_10IsOrdered ==
  ASSUME NEW a \in 0..9, NEW b \in 0..9, a # b, a - b \notin {1, -1, 9, -9}
  PROVE  Ordered(Mod11_10Fn, 0..9, a, b)
<1> SUFFICES ASSUME NEW x \in 0..9
             PROVE  Mod11_10Fn[<<Mod11_10Fn[<<x, a>>], b>>] # Mod11_10Fn[<<Mod11_10Fn[<<x, b>>], a>>]
  BY DEF Ordered
<1>1. Mod11_10Step(Mod11_10Step(x, a), b) # Mod11_10Step(Mod11_10Step(x, b), a)
  BY DEF Mod11_10Step
<1>2. /\ Mod11_10Fn[<<x, a>>] = Mod11_10Step(x, a) /\ Mod11_10Step(x, a) \in 0..9
      /\ Mod11_10Fn[<<x, b>>] = Mod11_10Step(x, b) /\ Mod11_10Step(x, b) \in 0..9
  <2>1. /\ Mod11_10Fn[<<x, a>>] = Mod11_10Step(x, a) /\ Mod11_10Fn[<<x, a>>] \in 0..9
        /\ Mod11_10Fn[<<x, b>>] = Mod11_10Step(x, b) /\ Mod11_10Fn[<<x, b>>] \in 0..9
    BY Mod11_10FnIs
  <2> QED BY <2>1
<1>3. /\ Mod11_10Fn[<<Mod11_10Step(x, a), b>>] = Mod11_10Step(Mod11_10Step(x, a), b)
      /\ Mod11_10Fn[<<Mod11_10Step(x, b), a>>] = Mod11_10Step(Mod11_10Step(x, b), a)
  BY <1>2, Mod11_10FnIs
<1> QED BY <1>1, <1>2, <1>3

LEMMA Mod11_2IsOrdered ==
  ASSUME NEW a \in 0..10, NEW b \in 0..10, a # b
  PROVE  Ordered(Mod11_2Fn, 0..10, a, b)
<1> SUFFICES ASSUME NEW x \in 0..10
             PROVE  Mod11_2Fn[<<Mod11_2Fn[<<x, a>>], b>>] # Mod11_2Fn[<<Mod11_2Fn[<<x, b>>], a>>]
  BY DEF Ordered
<1>1. Mod11_2Step(Mod11_2Step(x, a), b) # Mod11_2Step(Mod11_2Step(x, b), a)
  BY DEF Mod11_2Step
<1>2. /\ Mod11_2Fn[<<x, a>>] = Mod11_2Step(x, a) /\ Mod11_2Step(x, a) \in 0..10
      /\ Mod11_2Fn[<<x, b>>] = Mod11_2Step(x, b) /\ Mod11_2Step(x, b) \in 0..10
  <2>1. /\ Mod11_2Fn[<<x, a>>] = Mod11_2Step(x, a) /\ Mod11_2Fn[<<x, a>>] \in 0..10
        /\ Mod11_2Fn[<<x, b>>] = Mod11_2Step(x, b) /\ Mod11_2Fn[<<x, b>>] \in 0..10
    BY Mod11_2FnIs
  <2> QED BY <2>1
<1>3. /\ Mod11_2Fn[<<Mod11_2Step(x, a), b>>] = Mod11_2Step(Mod11_2Step(x, a), b)
      /\ Mod11_2Fn[<<Mod11_2Step(x, b), a>>] = Mod11_2Step(Mod11_2Step(x, b), a)
  BY <1>2, Mod11_2FnIs
<1> QED BY <1>1, <1>2, <1>3

LEMMA IntegerModIsOrdered ==
  ASSUME NEW modulus \in Moduli, NEW a \in 0..9, NEW b \in 0..9, a # b
  PROVE  Ordered(IntegerModFn(modulus), Residues(modulus), a, b)
<1> SUFFICES ASSUME NEW x \in Residues(modulus)
             PROVE  IntegerModFn(modulus)[<<IntegerModFn(modulus)[<<x, a>>], b>>] # IntegerModFn(modulus)[<<IntegerModFn(modulus)[<<x, b>>], a>>]
  BY DEF Ordered
<1>5. modulus \in Nat \ {0}
  BY DEF Moduli
<1>6. IsIntegerModFn(IntegerModFn(modulus), modulus)
  BY <1>5, IntegerModFnSteps, Zenon
<1>1. IntegerModStep(IntegerModStep(x, a, modulus), b, modulus) # IntegerModStep(IntegerModStep(x, b, modulus), a, modulus)
  <2>1. CASE modulus = 11
    BY <2>1 DEF IntegerModStep, Residues
  <2>2. CASE modulus = 23
    BY <2>2 DEF IntegerModStep, Residues
  <2>3. CASE modulus = 89
    BY <2>3 DEF IntegerModStep, Residues
  <2>4. CASE modulus = 97
    BY <2>4 DEF IntegerModStep, Residues
  <2> QED BY <2>1, <2>2, <2>3, <2>4 DEF Moduli
<1>2. /\ IntegerModFn(modulus)[<<x, a>>] = IntegerModStep(x, a, modulus) /\ IntegerModStep(x, a, modulus) \in Residues(modulus)
      /\ IntegerModFn(modulus)[<<x, b>>] = IntegerModStep(x, b, modulus) /\ IntegerModStep(x, b, modulus) \in Residues(modulus)
  BY <1>6 DEF IsIntegerModFn
<1>3. /\ IntegerModFn(modulus)[<<IntegerModStep(x, a, modulus), b>>] = IntegerModStep(IntegerModStep(x, a, modulus), b, modulus)
      /\ IntegerModFn(modulus)[<<IntegerModStep(x, b, modulus), a>>] = IntegerModStep(IntegerModStep(x, b, modulus), a, modulus)
  BY <1>2, <1>6 DEF IsIntegerModFn
<1> QED BY <1>1, <1>2, <1>3

LEMMA FoldsAreOfDigits == \A d : (Damm(d) => AllDigits(d)) /\ (Mod11_10(d) => AllDigits(d))
BY DEF Damm, Mod11_10, FoldLeft, MapThenFoldSet

LEMMA DammDiffers ==
  ASSUME NEW w, NEW r, NEW i, Differs(w, r, i), Damm(w)
  PROVE  ~ Damm(r)
<1>0. SUFFICES ASSUME Damm(r) PROVE FALSE
  OBVIOUS
<1>1. w \in Seq(0..9) /\ r \in Seq(0..9)
  BY <1>0, FoldsAreOfDigits, SMT DEF Differs, AllDigits, IsDigit
<1>2. w[i] \in 0..9 /\ r[i] \in 0..9 /\ r[i] # w[i]
  BY <1>1 DEF Differs
<1>3. Tells(DammFn, 0..9, w[i], r[i])
  BY <1>2, DammTells
<1>4. PICK c : Over(c, w, 0..9, 0, DammFn) /\ (Damm(w) <=> w # <<>> /\ c[Len(w)] = 0)
  BY <1>1, DammWalks
<1>5. PICK e : Over(e, r, 0..9, 0, DammFn) /\ (Damm(r) <=> r # <<>> /\ e[Len(r)] = 0)
  BY <1>1, DammWalks
<1>6. Faithful(DammFn, 0..9, 0..9)
  BY DammIsFaithful
<1>7. c[Len(w)] # e[Len(r)]
  BY <1>1, <1>3, <1>4, <1>5, <1>6, DiffersParts, Zenon
<1> QED BY <1>0, <1>4, <1>5, <1>7

LEMMA DammExchanged ==
  ASSUME NEW w, NEW r, NEW i, Exchanged(w, r, i), Damm(w)
  PROVE  ~ Damm(r)
<1>0. SUFFICES ASSUME Damm(r) PROVE FALSE
  OBVIOUS
<1>1. w \in Seq(0..9) /\ r \in Seq(0..9)
  BY <1>0, FoldsAreOfDigits DEF Exchanged, AllDigits, IsDigit
<1>2. w[i] \in 0..9 /\ w[i + 1] \in 0..9 /\ w[i] # w[i + 1]
  BY <1>1 DEF Exchanged
<1>3. Ordered(DammFn, 0..9, w[i], w[i + 1])
  BY <1>2, DammIsOrdered
<1>4. PICK c : Over(c, w, 0..9, 0, DammFn) /\ (Damm(w) <=> w # <<>> /\ c[Len(w)] = 0)
  BY <1>1, DammWalks
<1>5. PICK e : Over(e, r, 0..9, 0, DammFn) /\ (Damm(r) <=> r # <<>> /\ e[Len(r)] = 0)
  BY <1>1, DammWalks
<1>6. Faithful(DammFn, 0..9, 0..9)
  BY DammIsFaithful
<1>7. c[Len(w)] # e[Len(r)]
  BY <1>1, <1>3, <1>4, <1>5, <1>6, ExchangedParts, Zenon
<1> QED BY <1>0, <1>4, <1>5, <1>7

LEMMA Mod11_10Differs ==
  ASSUME NEW w, NEW r, NEW i, Differs(w, r, i), Mod11_10(w)
  PROVE  ~ Mod11_10(r)
<1>0. SUFFICES ASSUME Mod11_10(r) PROVE FALSE
  OBVIOUS
<1>1. w \in Seq(0..9) /\ r \in Seq(0..9)
  BY <1>0, FoldsAreOfDigits, SMT DEF Differs, AllDigits, IsDigit
<1>2. w[i] \in 0..9 /\ r[i] \in 0..9 /\ r[i] # w[i]
  BY <1>1 DEF Differs
<1>3. Tells(Mod11_10Fn, 0..9, w[i], r[i])
  BY <1>2, Mod11_10Tells
<1>4. PICK c : Over(c, w, 0..9, 5, Mod11_10Fn) /\ (Mod11_10(w) <=> w # <<>> /\ c[Len(w)] = 1)
  BY <1>1, Mod11_10Walks
<1>5. PICK e : Over(e, r, 0..9, 5, Mod11_10Fn) /\ (Mod11_10(r) <=> r # <<>> /\ e[Len(r)] = 1)
  BY <1>1, Mod11_10Walks
<1>6. Faithful(Mod11_10Fn, 0..9, 0..9)
  BY Mod11_10IsFaithful
<1>7. c[Len(w)] # e[Len(r)]
  BY <1>1, <1>3, <1>4, <1>5, <1>6, DiffersParts, Zenon
<1> QED BY <1>0, <1>4, <1>5, <1>7

LEMMA Mod11_10Exchanged ==
  ASSUME NEW w, NEW r, NEW i, Exchanged(w, r, i), Mod11_10(w), w[i] - w[i + 1] \notin {1, -1, 9, -9}
  PROVE  ~ Mod11_10(r)
<1>0. SUFFICES ASSUME Mod11_10(r) PROVE FALSE
  OBVIOUS
<1>1. w \in Seq(0..9) /\ r \in Seq(0..9)
  BY <1>0, FoldsAreOfDigits DEF Exchanged, AllDigits, IsDigit
<1>2. w[i] \in 0..9 /\ w[i + 1] \in 0..9 /\ w[i] # w[i + 1]
  BY <1>1 DEF Exchanged
<1>3. Ordered(Mod11_10Fn, 0..9, w[i], w[i + 1])
  BY <1>2, Mod11_10IsOrdered
<1>4. PICK c : Over(c, w, 0..9, 5, Mod11_10Fn) /\ (Mod11_10(w) <=> w # <<>> /\ c[Len(w)] = 1)
  BY <1>1, Mod11_10Walks
<1>5. PICK e : Over(e, r, 0..9, 5, Mod11_10Fn) /\ (Mod11_10(r) <=> r # <<>> /\ e[Len(r)] = 1)
  BY <1>1, Mod11_10Walks
<1>6. Faithful(Mod11_10Fn, 0..9, 0..9)
  BY Mod11_10IsFaithful
<1>7. c[Len(w)] # e[Len(r)]
  BY <1>1, <1>3, <1>4, <1>5, <1>6, ExchangedParts, Zenon
<1> QED BY <1>0, <1>4, <1>5, <1>7

LEMMA Mod97Differs ==
  ASSUME NEW w, NEW r, NEW i, Differs(w, r, i), Mod97_10(w), IsDigit(w[i]) <=> IsDigit(r[i])
  PROVE  ~ Mod97_10(r)
<1>0. SUFFICES ASSUME Mod97_10(r) PROVE FALSE
  OBVIOUS
<1>1. w \in Seq(Characters) /\ r \in Seq(Characters)
  BY <1>0 DEF Differs
<1>2. w[i] \in Characters /\ r[i] \in Characters /\ r[i] # w[i]
  BY <1>1 DEF Differs
<1>3. Tells(Mod97Fn, 0..96, w[i], r[i])
  BY <1>2, Mod97Tells
<1>4. PICK c : Over(c, w, 0..96, 0, Mod97Fn) /\ (Mod97_10(w) <=> w # <<>> /\ c[Len(w)] = 1)
  BY <1>1, Mod97Walks
<1>5. PICK e : Over(e, r, 0..96, 0, Mod97Fn) /\ (Mod97_10(r) <=> r # <<>> /\ e[Len(r)] = 1)
  BY <1>1, Mod97Walks
<1>6. Faithful(Mod97Fn, 0..96, Characters)
  BY Mod97IsFaithful
<1>7. c[Len(w)] # e[Len(r)]
  BY <1>1, <1>3, <1>4, <1>5, <1>6, DiffersParts, Zenon
<1> QED BY <1>0, <1>4, <1>5, <1>7

LEMMA Mod97Exchanged ==
  ASSUME NEW w, NEW r, NEW i, Exchanged(w, r, i), Mod97_10(w), w[i] # 11 * w[i + 1], w[i + 1] # 11 * w[i]
  PROVE  ~ Mod97_10(r)
<1>0. SUFFICES ASSUME Mod97_10(r) PROVE FALSE
  OBVIOUS
<1>1. w \in Seq(Characters) /\ r \in Seq(Characters)
  BY <1>0 DEF Exchanged
<1>2. w[i] \in Characters /\ w[i + 1] \in Characters /\ w[i] # w[i + 1]
  BY <1>1 DEF Exchanged
<1>3. Ordered(Mod97Fn, 0..96, w[i], w[i + 1])
  BY <1>2, Mod97IsOrdered
<1>4. PICK c : Over(c, w, 0..96, 0, Mod97Fn) /\ (Mod97_10(w) <=> w # <<>> /\ c[Len(w)] = 1)
  BY <1>1, Mod97Walks
<1>5. PICK e : Over(e, r, 0..96, 0, Mod97Fn) /\ (Mod97_10(r) <=> r # <<>> /\ e[Len(r)] = 1)
  BY <1>1, Mod97Walks
<1>6. Faithful(Mod97Fn, 0..96, Characters)
  BY Mod97IsFaithful
<1>7. c[Len(w)] # e[Len(r)]
  BY <1>1, <1>3, <1>4, <1>5, <1>6, ExchangedParts, Zenon
<1> QED BY <1>0, <1>4, <1>5, <1>7

LEMMA IntegerModDiffers ==
  ASSUME NEW w, NEW r, NEW i, Differs(w, r, i), AllDigits(w), AllDigits(r), NEW modulus \in Moduli
  PROVE  /\ IntegerMod(w, modulus) # IntegerMod(r, modulus)
         /\ IntegerMod(w, modulus) \in Residues(modulus) /\ IntegerMod(r, modulus) \in Residues(modulus)
<1>0. modulus \in Nat \ {0}
  BY DEF Moduli
<1>1. w \in Seq(0..9) /\ r \in Seq(0..9)
  BY SMT DEF Differs, AllDigits, IsDigit
<1>2. w[i] \in 0..9 /\ r[i] \in 0..9 /\ r[i] # w[i]
  BY <1>1 DEF Differs
<1>3. Tells(IntegerModFn(modulus), Residues(modulus), w[i], r[i])
  BY <1>2, IntegerModTells, Zenon
<1>4. PICK c : Over(c, w, Residues(modulus), 0, IntegerModFn(modulus)) /\ IntegerMod(w, modulus) = c[Len(w)]
  BY <1>0, <1>1, IntegerModWalks, Zenon
<1>5. PICK e : Over(e, r, Residues(modulus), 0, IntegerModFn(modulus)) /\ IntegerMod(r, modulus) = e[Len(r)]
  BY <1>0, <1>1, IntegerModWalks, Zenon
<1>6. Faithful(IntegerModFn(modulus), Residues(modulus), 0..9)
  BY IntegerModIsFaithful, Zenon
<1>7. c[Len(w)] # e[Len(r)]
  BY <1>1, <1>3, <1>4, <1>5, <1>6, DiffersParts, Zenon
<1>8. c[Len(w)] \in Residues(modulus) /\ e[Len(r)] \in Residues(modulus)
  BY <1>1, <1>4, <1>5 DEF Over
<1> QED BY <1>4, <1>5, <1>7, <1>8

LEMMA IntegerModExchanged ==
  ASSUME NEW w, NEW r, NEW i, Exchanged(w, r, i), AllDigits(w), AllDigits(r), NEW modulus \in Moduli
  PROVE  /\ IntegerMod(w, modulus) # IntegerMod(r, modulus)
         /\ IntegerMod(w, modulus) \in Residues(modulus) /\ IntegerMod(r, modulus) \in Residues(modulus)
<1>0. modulus \in Nat \ {0}
  BY DEF Moduli
<1>1. w \in Seq(0..9) /\ r \in Seq(0..9)
  BY SMT DEF Exchanged, AllDigits, IsDigit
<1>2. w[i] \in 0..9 /\ w[i + 1] \in 0..9 /\ w[i] # w[i + 1]
  BY <1>1 DEF Exchanged
<1>3. Ordered(IntegerModFn(modulus), Residues(modulus), w[i], w[i + 1])
  BY <1>2, IntegerModIsOrdered, Zenon
<1>4. PICK c : Over(c, w, Residues(modulus), 0, IntegerModFn(modulus)) /\ IntegerMod(w, modulus) = c[Len(w)]
  BY <1>0, <1>1, IntegerModWalks, Zenon
<1>5. PICK e : Over(e, r, Residues(modulus), 0, IntegerModFn(modulus)) /\ IntegerMod(r, modulus) = e[Len(r)]
  BY <1>0, <1>1, IntegerModWalks, Zenon
<1>6. Faithful(IntegerModFn(modulus), Residues(modulus), 0..9)
  BY IntegerModIsFaithful, Zenon
<1>7. c[Len(w)] # e[Len(r)]
  BY <1>1, <1>3, <1>4, <1>5, <1>6, ExchangedParts, Zenon
<1>8. c[Len(w)] \in Residues(modulus) /\ e[Len(r)] \in Residues(modulus)
  BY <1>1, <1>4, <1>5 DEF Over
<1> QED BY <1>4, <1>5, <1>7, <1>8

LEMMA XIsNoDigit == Letter("X") \notin 0..10 /\ Letter("X") \in Nat
<1>1. Letters[24] = "X" /\ 24 \in DOMAIN Letters
  BY DEF Letters
<1>2. PICK i \in DOMAIN Letters : Letters[i] = "X" /\ Letter("X") = 9 + i
  BY <1>1 DEF Letter
<1>3. i \in 1..26 /\ i # 1
  BY <1>2 DEF Letters
<1> QED BY <1>2, <1>3

LEMMA OrcidValuesAre ==
  ASSUME NEW d, d \in Seq(Characters), Spelled(d)
  PROVE  /\ OrcidValues(d) \in Seq(0..10) /\ Len(OrcidValues(d)) = Len(d)
         /\ \A x \in 1..Len(d) : OrcidValues(d)[x] = IF d[x] = Letter("X") THEN 10 ELSE d[x]
<1>1. OrcidValues(d) = [x \in 1..Len(d) |-> OrcidValues(d)[x]] /\ \A x \in 1..Len(d) : OrcidValues(d)[x] \in 0..10
  BY DEF Spelled, OrcidValues
<1>2. \A x \in 1..Len(d) : OrcidValues(d)[x] = IF d[x] = Letter("X") THEN 10 ELSE d[x]
  BY DEF OrcidValues
<1>3. Len(d) \in Nat
  OBVIOUS
<1> QED BY <1>1, <1>2, <1>3

LEMMA ValuesTell ==
  ASSUME NEW a \in Characters, NEW b \in Characters, a # b, a # 10, b # 10
  PROVE  (IF a = Letter("X") THEN 10 ELSE a) # (IF b = Letter("X") THEN 10 ELSE b)
BY XIsNoDigit

LEMMA Mod11_2IsSpelled == \A d : Mod11_2(d) => Spelled(d)
BY DEF Mod11_2, Spelled, OrcidValues, FoldLeft, MapThenFoldSet

LEMMA Mod11_2Differs ==
  ASSUME NEW w, NEW r, NEW i, Differs(w, r, i), Mod11_2(w)
  PROVE  ~ Mod11_2(r)
<1>0. SUFFICES ASSUME Mod11_2(r) PROVE FALSE
  OBVIOUS
<1> DEFINE v == OrcidValues(w)
           u == OrcidValues(r)
<1>1. /\ w \in Seq(Characters) /\ r \in Seq(Characters) /\ Spelled(w) /\ Spelled(r)
      /\ Len(r) = Len(w) /\ i \in 1..Len(w) /\ r[i] # w[i]
      /\ \A x \in 1..Len(w) : x # i => r[x] = w[x]
  BY <1>0, Mod11_2IsSpelled DEF Differs
<1>2. /\ v \in Seq(0..10) /\ Len(v) = Len(w) /\ \A x \in 1..Len(w) : v[x] = IF w[x] = Letter("X") THEN 10 ELSE w[x]
      /\ u \in Seq(0..10) /\ Len(u) = Len(w) /\ \A x \in 1..Len(w) : u[x] = IF r[x] = Letter("X") THEN 10 ELSE r[x]
  BY <1>1, OrcidValuesAre
<1> HIDE DEF v, u
<1>3. v[i] # u[i]
  <2>1. w[i] \in Characters /\ r[i] \in Characters /\ w[i] # 10 /\ r[i] # 10
    BY <1>1 DEF Spelled
  <2>2. (IF w[i] = Letter("X") THEN 10 ELSE w[i]) # (IF r[i] = Letter("X") THEN 10 ELSE r[i])
    BY <1>1, <2>1, ValuesTell
  <2> QED BY <1>1, <1>2, <2>2
<1>4. Differs(v, u, i)
  <2>1. \A x \in 1..Len(v) : x # i => u[x] = v[x]
    BY <1>1, <1>2
  <2>2. v \in Seq(Characters) /\ u \in Seq(Characters)
    BY <1>2 DEF Characters
  <2> QED BY <1>1, <1>2, <1>3, <2>1, <2>2 DEF Differs
<1>5. Tells(Mod11_2Fn, 0..10, v[i], u[i])
  <2>1. v[i] \in 0..10 /\ u[i] \in 0..10
    BY <1>1, <1>2
  <2> QED BY <1>3, <2>1, Mod11_2Tells
<1>6. PICK c : Over(c, v, 0..10, 0, Mod11_2Fn) /\ (Mod11_2(w) <=> w # <<>> /\ c[Len(w)] = 1)
  BY <1>1, Mod11_2Walks DEF v
<1>7. PICK e : Over(e, u, 0..10, 0, Mod11_2Fn) /\ (Mod11_2(r) <=> r # <<>> /\ e[Len(r)] = 1)
  BY <1>1, Mod11_2Walks DEF u
<1>8. Faithful(Mod11_2Fn, 0..10, 0..10)
  BY Mod11_2IsFaithful
<1>9. c[Len(v)] # e[Len(u)]
  <2>1. Over(c, v, 0..10, 0, Mod11_2Fn) /\ Over(e, u, 0..10, 0, Mod11_2Fn) /\ v \in Seq(0..10) /\ u \in Seq(0..10)
    BY <1>2, <1>6, <1>7
  <2> QED BY <1>4, <1>5, <1>8, <2>1, DiffersParts, Zenon
<1> QED BY <1>0, <1>1, <1>2, <1>6, <1>7, <1>9

LEMMA Mod11_2Exchanged ==
  ASSUME NEW w, NEW r, NEW i, Exchanged(w, r, i), Mod11_2(w)
  PROVE  ~ Mod11_2(r)
<1>0. SUFFICES ASSUME Mod11_2(r) PROVE FALSE
  OBVIOUS
<1> DEFINE v == OrcidValues(w)
           u == OrcidValues(r)
<1>1. /\ w \in Seq(Characters) /\ r \in Seq(Characters) /\ Spelled(w) /\ Spelled(r)
      /\ Len(r) = Len(w) /\ i \in 1..(Len(w) - 1) /\ w[i] # w[i + 1]
      /\ r[i] = w[i + 1] /\ r[i + 1] = w[i]
      /\ \A x \in 1..Len(w) : x # i /\ x # i + 1 => r[x] = w[x]
  BY <1>0, Mod11_2IsSpelled DEF Exchanged
<1>2. /\ v \in Seq(0..10) /\ Len(v) = Len(w) /\ \A x \in 1..Len(w) : v[x] = IF w[x] = Letter("X") THEN 10 ELSE w[x]
      /\ u \in Seq(0..10) /\ Len(u) = Len(w) /\ \A x \in 1..Len(w) : u[x] = IF r[x] = Letter("X") THEN 10 ELSE r[x]
  BY <1>1, OrcidValuesAre
<1> HIDE DEF v, u
<1>3. v[i] # v[i + 1] /\ u[i] = v[i + 1] /\ u[i + 1] = v[i] /\ v[i] \in 0..10 /\ v[i + 1] \in 0..10
  <2>0. i \in 1..Len(w) /\ i + 1 \in 1..Len(w)
    BY <1>1
  <2>1. w[i] \in Characters /\ w[i + 1] \in Characters /\ w[i] # 10 /\ w[i + 1] # 10
    BY <1>1, <2>0 DEF Spelled
  <2>2. (IF w[i] = Letter("X") THEN 10 ELSE w[i]) # (IF w[i + 1] = Letter("X") THEN 10 ELSE w[i + 1])
    BY <1>1, <2>1, ValuesTell
  <2> QED BY <1>1, <1>2, <2>0, <2>2
<1>4. Exchanged(v, u, i)
  <2>1. \A x \in 1..Len(v) : x # i /\ x # i + 1 => u[x] = v[x]
    BY <1>1, <1>2
  <2>2. v \in Seq(Characters) /\ u \in Seq(Characters)
    BY <1>2 DEF Characters
  <2> QED BY <1>1, <1>2, <1>3, <2>1, <2>2 DEF Exchanged
<1>5. Ordered(Mod11_2Fn, 0..10, v[i], v[i + 1])
  BY <1>3, Mod11_2IsOrdered
<1>6. PICK c : Over(c, v, 0..10, 0, Mod11_2Fn) /\ (Mod11_2(w) <=> w # <<>> /\ c[Len(w)] = 1)
  BY <1>1, Mod11_2Walks DEF v
<1>7. PICK e : Over(e, u, 0..10, 0, Mod11_2Fn) /\ (Mod11_2(r) <=> r # <<>> /\ e[Len(r)] = 1)
  BY <1>1, Mod11_2Walks DEF u
<1>8. Faithful(Mod11_2Fn, 0..10, 0..10)
  BY Mod11_2IsFaithful
<1>9. c[Len(v)] # e[Len(u)]
  <2>1. Over(c, v, 0..10, 0, Mod11_2Fn) /\ Over(e, u, 0..10, 0, Mod11_2Fn) /\ v \in Seq(0..10) /\ u \in Seq(0..10)
    BY <1>2, <1>6, <1>7
  <2> QED BY <1>4, <1>5, <1>8, <2>1, ExchangedParts, Zenon
<1> QED BY <1>0, <1>1, <1>2, <1>6, <1>7, <1>9

-----------------------------------------------------------------------------
(* Whole numbers. *)

LEMMA OneMoreDigit ==
  ASSUME NEW x \in Nat, NEW a \in 0..9, NEW modulus \in Moduli
  PROVE  (10 * x + a) % modulus = (10 * (x % modulus) + a) % modulus
<1>1. (10 * x + a) % 11 = (10 * (x % 11) + a) % 11
  OBVIOUS
<1>2. (10 * x + a) % 23 = (10 * (x % 23) + a) % 23
  OBVIOUS
<1>3. (10 * x + a) % 89 = (10 * (x % 89) + a) % 89
  OBVIOUS
<1>4. (10 * x + a) % 97 = (10 * (x % 97) + a) % 97
  OBVIOUS
<1> QED BY <1>1, <1>2, <1>3, <1>4 DEF Moduli

LEMMA AsIntegerMod ==
  ASSUME NEW d \in Seq(0..9), NEW modulus \in Moduli
  PROVE  AsInteger(d) \in Nat /\ AsInteger(d) % modulus = IntegerMod(d, modulus)
<1> DEFINE n == Len(d)
<1>0. modulus \in Nat \ {0} /\ n \in Nat /\ \A k \in 1..n : d[k] \in 0..9
  BY DEF Moduli
<1>1. PICK c : Over(c, d, Nat, 0, AsIntegerFn) /\ AsInteger(d) = c[Len(d)]
  BY AsIntegerWalks
<1>2. PICK e : Over(e, d, Residues(modulus), 0, IntegerModFn(modulus)) /\ IntegerMod(d, modulus) = e[Len(d)]
  BY <1>0, IntegerModWalks, Zenon
<1>3. IsIntegerModFn(IntegerModFn(modulus), modulus)
  BY <1>0, IntegerModFnSteps, Zenon
<1>4. /\ c \in [0..n -> Nat] /\ c[0] = 0
      /\ \A k \in 1..n : c[k] = AsIntegerFn[<<c[k - 1], d[k]>>]
  BY <1>1 DEF Over
<1>5. /\ e \in [0..n -> Residues(modulus)] /\ e[0] = 0
      /\ \A k \in 1..n : e[k] = IntegerModFn(modulus)[<<e[k - 1], d[k]>>]
  BY <1>2 DEF Over
<1> HIDE DEF n
<1>6. ASSUME NEW k \in 1..n
      PROVE  c[k] = 10 * c[k - 1] + d[k] /\ e[k] = (10 * e[k - 1] + d[k]) % modulus
  <2>1. k - 1 \in 0..n
    BY <1>0
  <2>2. c[k - 1] \in Nat /\ e[k - 1] \in Residues(modulus) /\ d[k] \in 0..9
    BY <1>0, <1>4, <1>5, <2>1
  <2>3. AsIntegerFn[<<c[k - 1], d[k]>>] = AsIntegerStep(c[k - 1], d[k])
    BY <2>2, AsIntegerFnIs
  <2>4. IntegerModFn(modulus)[<<e[k - 1], d[k]>>] = IntegerModStep(e[k - 1], d[k], modulus)
    BY <1>3, <2>2 DEF IsIntegerModFn, Residues
  <2> QED BY <1>4, <1>5, <2>3, <2>4 DEF AsIntegerStep, IntegerModStep
<1> DEFINE Follows == {k \in 0..n : c[k] % modulus = e[k]}
<1>7. 0 \in Follows
  BY <1>0, <1>4, <1>5
<1>8. ASSUME NEW k \in 0..n, k + 1 \in 0..n, k \in Follows PROVE k + 1 \in Follows
  <2>1. k + 1 \in 1..n /\ (k + 1) - 1 = k
    BY <1>0, <1>8
  <2>2. c[k + 1] = 10 * c[k] + d[k + 1] /\ e[k + 1] = (10 * e[k] + d[k + 1]) % modulus
    BY <1>6, <2>1
  <2>3. c[k] \in Nat /\ d[k + 1] \in 0..9 /\ e[k] = c[k] % modulus
    BY <1>0, <1>4, <1>8, <2>1
  <2> HIDE DEF Follows
  <2>4. (10 * c[k] + d[k + 1]) % modulus = (10 * (c[k] % modulus) + d[k + 1]) % modulus
    BY <2>3, OneMoreDigit
  <2>5. c[k + 1] % modulus = e[k + 1]
    BY <2>2, <2>3, <2>4
  <2> QED BY <1>8, <2>5 DEF Follows
<1> HIDE DEF Follows
<1>9. \A k \in 0..n : k \in Follows
  BY <1>0, <1>7, <1>8, PassedOn
<1>10. n \in Follows
  BY <1>0, <1>9
<1> QED BY <1>0, <1>1, <1>2, <1>4, <1>10 DEF Follows, n

(* The numbers of one, two and three digits. *)
LEMMA AsIntegerSteps ==
  ASSUME NEW d \in Seq(0..9)
  PROVE  /\ AsInteger(d) \in Nat
         /\ Len(d) = 2 => AsInteger(d) = 10 * d[1] + d[2]
         /\ Len(d) = 3 => AsInteger(d) = 100 * d[1] + 10 * d[2] + d[3]
<1> DEFINE n == Len(d)
<1>0. n \in Nat /\ \A k \in 1..n : d[k] \in 0..9
  OBVIOUS
<1>1. PICK c : Over(c, d, Nat, 0, AsIntegerFn) /\ AsInteger(d) = c[Len(d)]
  BY AsIntegerWalks
<1>2. /\ c \in [0..n -> Nat] /\ c[0] = 0
      /\ \A k \in 1..n : c[k] = AsIntegerFn[<<c[k - 1], d[k]>>]
  BY <1>1 DEF Over
<1> HIDE DEF n
<1>3. ASSUME NEW k \in 1..n
      PROVE  c[k] = 10 * c[k - 1] + d[k]
  <2>1. k - 1 \in 0..n
    BY <1>0
  <2>2. c[k - 1] \in Nat /\ d[k] \in 0..9
    BY <1>0, <1>2, <2>1
  <2>3. AsIntegerFn[<<c[k - 1], d[k]>>] = AsIntegerStep(c[k - 1], d[k])
    BY <2>2, AsIntegerFnIs
  <2> QED BY <1>2, <2>3 DEF AsIntegerStep
<1>4. AsInteger(d) = c[n] /\ c[n] \in Nat
  BY <1>0, <1>1, <1>2 DEF n
<1>5. ASSUME n \in {2, 3} PROVE c[1] = d[1] /\ c[2] = 10 * d[1] + d[2] /\ d[1] \in 0..9 /\ d[2] \in 0..9
  <2>1. 1 \in 1..n /\ 2 \in 1..n /\ 1 - 1 = 0 /\ 2 - 1 = 1
    BY <1>5
  <2>2. c[1] = 10 * c[0] + d[1] /\ c[2] = 10 * c[1] + d[2]
    BY <1>3, <2>1
  <2>3. d[1] \in 0..9 /\ d[2] \in 0..9
    BY <1>0, <2>1
  <2> QED BY <1>2, <2>2, <2>3
<1>6. ASSUME n = 3 PROVE c[3] = 100 * d[1] + 10 * d[2] + d[3]
  <2>1. 3 \in 1..n /\ 3 - 1 = 2
    BY <1>6
  <2>2. c[3] = 10 * c[2] + d[3] /\ d[3] \in 0..9
    BY <1>0, <1>3, <2>1
  <2>3. c[2] = 10 * d[1] + d[2] /\ d[1] \in 0..9 /\ d[2] \in 0..9
    BY <1>5, <1>6
  <2>4. c[3] = 10 * (10 * d[1] + d[2]) + d[3]
    BY <2>2, <2>3
  <2>5. \A x \in Int : \A y \in Int : \A z \in Int : 10 * (10 * x + y) + z = 100 * x + 10 * y + z
    OBVIOUS
  <2>6. d[1] \in Int /\ d[2] \in Int /\ d[3] \in Int
    BY <2>2, <2>3, SMT
  <2> QED BY <2>4, <2>5, <2>6
<1> QED BY <1>4, <1>5, <1>6 DEF n

-----------------------------------------------------------------------------
(* Sums of one term for each place: what an error adds to them. *)

SumOver(term, d, n) == SumFunction([x \in 1..n |-> term[<<x, d[x]>>]])
IsTerm(term, n, A) == n \in Nat /\ \A x \in 1..n : \A a \in A : term[<<x, a>>] \in Int

(* b is delta more than a. *)
Grows(a, b, delta) == a \in Int /\ delta \in Int /\ b = a + delta

Misread1(term, w, r, i, n) == IF i <= n THEN term[<<i, r[i]>>] - term[<<i, w[i]>>] ELSE 0
Swapped1(term, w, i, n) ==
  (IF i <= n THEN term[<<i, w[i + 1]>>] - term[<<i, w[i]>>] ELSE 0)
  + (IF i + 1 <= n THEN term[<<i + 1, w[i]>>] - term[<<i + 1, w[i + 1]>>] ELSE 0)

LEMMA SumIsAnInteger ==
  ASSUME NEW n \in Nat, NEW f \in [1..n -> Int]
  PROVE  SumFunction(f) \in Int
<1>1. CASE n = 0
  <2>1. PICK h : SumSolves(h, f, n) /\ SumFunction(f) = h[1..n]
    BY SumFunctionIs
  <2>2. 1..n = {}
    BY <1>1
  <2>3. h[{}] = 0
    BY <2>1, SumSteps
  <2> QED BY <2>1, <2>2, <2>3
<1>2. CASE n # 0
  <2>1. 1 \in 1..n /\ \A x \in 1..n : x # 1 => f[x] = f[x]
    BY <1>2
  <2> QED BY <2>1, SumMovesOne
<1> QED BY <1>1, <1>2

LEMMA SumOverIs ==
  ASSUME NEW A, NEW d \in Seq(A), NEW n, NEW term, IsTerm(term, n, A), n <= Len(d)
  PROVE  [x \in 1..n |-> term[<<x, d[x]>>]] \in [1..n -> Int]
BY DEF IsTerm

LEMMA SumOverDiffers ==
  ASSUME NEW w, NEW r, NEW i, Differs(w, r, i), NEW A, w \in Seq(A), r \in Seq(A),
         NEW n, NEW term, IsTerm(term, n, A), n <= Len(w)
  PROVE  Grows(SumOver(term, w, n), SumOver(term, r, n), Misread1(term, w, r, i, n))
<1> USE DEF Grows
<1> DEFINE f == [x \in 1..n |-> term[<<x, w[x]>>]]
           g == [x \in 1..n |-> term[<<x, r[x]>>]]
<1>1. /\ n \in Nat /\ f \in [1..n -> Int] /\ g \in [1..n -> Int] /\ i \in 1..Len(w) /\ i \in Nat
      /\ \A x \in 1..n : x # i => r[x] = w[x]
  BY DEF IsTerm, Differs
<1>2. \A x \in 1..n : x # i => g[x] = f[x]
  BY <1>1
<1>3. i <= n => i \in 1..n /\ f[i] = term[<<i, w[i]>>] /\ g[i] = term[<<i, r[i]>>]
  BY <1>1
<1>4. SumOver(term, w, n) = SumFunction(f) /\ SumOver(term, r, n) = SumFunction(g)
  BY DEF SumOver
<1> HIDE DEF f, g
<1>5. CASE i <= n
  <2>1. /\ SumFunction(f) \in Int /\ SumFunction(g) \in Int
        /\ SumFunction(g) = SumFunction(f) + (g[i] - f[i])
    BY <1>1, <1>2, <1>3, <1>5, SumMovesOne
  <2>2. f[i] \in Int /\ g[i] \in Int
    BY <1>1, <1>3, <1>5
  <2> QED BY <1>3, <1>4, <1>5, <2>1, <2>2 DEF Misread1
<1>6. CASE ~ (i <= n)
  <2>1. f = g
    BY <1>1, <1>2, <1>6
  <2>2. SumFunction(f) \in Int
    BY <1>1, SumIsAnInteger
  <2> QED BY <1>4, <1>6, <2>1, <2>2 DEF Misread1
<1> QED BY <1>5, <1>6

LEMMA SumOverExchanged ==
  ASSUME NEW w, NEW r, NEW i, Exchanged(w, r, i), NEW A, w \in Seq(A), r \in Seq(A),
         NEW n, NEW term, IsTerm(term, n, A), n <= Len(w)
  PROVE  Grows(SumOver(term, w, n), SumOver(term, r, n), Swapped1(term, w, i, n))
<1> USE DEF Grows
<1> DEFINE f == [x \in 1..n |-> term[<<x, w[x]>>]]
           g == [x \in 1..n |-> term[<<x, r[x]>>]]
<1>1. /\ n \in Nat /\ f \in [1..n -> Int] /\ g \in [1..n -> Int] /\ i \in 1..(Len(w) - 1) /\ i \in Nat
      /\ r[i] = w[i + 1] /\ r[i + 1] = w[i]
      /\ \A x \in 1..n : x # i /\ x # i + 1 => r[x] = w[x]
  BY SMT DEF IsTerm, Exchanged
<1>2. \A x \in 1..n : x # i /\ x # i + 1 => g[x] = f[x]
  BY <1>1
<1>3. /\ i <= n => i \in 1..n /\ f[i] = term[<<i, w[i]>>] /\ g[i] = term[<<i, w[i + 1]>>]
      /\ i + 1 <= n => i + 1 \in 1..n /\ f[i + 1] = term[<<i + 1, w[i + 1]>>] /\ g[i + 1] = term[<<i + 1, w[i]>>]
  BY <1>1
<1>4. SumOver(term, w, n) = SumFunction(f) /\ SumOver(term, r, n) = SumFunction(g)
  BY DEF SumOver
<1> HIDE DEF f, g
<1>5. CASE i + 1 <= n
  <2>0. i <= n /\ i # i + 1
    BY <1>1, <1>5
  <2>1. /\ SumFunction(f) \in Int /\ SumFunction(g) \in Int
        /\ SumFunction(g) = SumFunction(f) + (g[i] - f[i]) + (g[i + 1] - f[i + 1])
    BY <1>1, <1>2, <1>3, <1>5, <2>0, SumMovesTwo
  <2>2. f[i] \in Int /\ g[i] \in Int /\ f[i + 1] \in Int /\ g[i + 1] \in Int
    BY <1>1, <1>3, <1>5, <2>0
  <2>3. Swapped1(term, w, i, n) = (g[i] - f[i]) + (g[i + 1] - f[i + 1])
    BY <1>3, <1>5, <2>0 DEF Swapped1
  <2> QED BY <1>4, <2>1, <2>2, <2>3, SMT
<1>6. CASE i <= n /\ ~ (i + 1 <= n)
  <2>0. \A x \in 1..n : x # i => x # i + 1
    BY <1>1, <1>6
  <2>1. /\ SumFunction(f) \in Int /\ SumFunction(g) \in Int
        /\ SumFunction(g) = SumFunction(f) + (g[i] - f[i])
    BY <1>1, <1>2, <1>3, <1>6, <2>0, SumMovesOne, Zenon
  <2>2. f[i] \in Int /\ g[i] \in Int
    BY <1>1, <1>3, <1>6
  <2>3. Swapped1(term, w, i, n) = g[i] - f[i]
    BY <1>3, <1>6, <2>2 DEF Swapped1
  <2> QED BY <1>4, <2>1, <2>2, <2>3
<1>7. CASE ~ (i <= n)
  <2>1. ~ (i + 1 <= n) /\ f = g
    BY <1>1, <1>2, <1>7
  <2>2. SumFunction(f) \in Int
    BY <1>1, SumIsAnInteger
  <2>3. Swapped1(term, w, i, n) = 0
    BY <1>7, <2>1 DEF Swapped1
  <2> QED BY <1>4, <2>1, <2>2, <2>3
<1> QED BY <1>5, <1>6, <1>7

IsWeights(ws) == ws \in Seq(Int) /\ Len(ws) \in Nat \ {0}
WeightAt(ws, x) == ws[((x - 1) % Len(ws)) + 1]

(* Two remainders of sums that are delta apart. *)
Shifts(a, b, delta, m) == \E S \in Int : a = S % m /\ b = (S + delta) % m

LEMMA CharactersAreNumbers == \A a \in Characters : a \in Int
BY DEF Characters

LEMMA ShiftIsSeen ==
  ASSUME NEW a, NEW b, NEW delta \in Int, NEW m \in {10, 11, 37}, Shifts(a, b, delta, m)
  PROVE  a = b => delta % m = 0
<1> PICK S \in Int : a = S % m /\ b = (S + delta) % m
  BY DEF Shifts
<1>1. CASE m = 10
  BY <1>1
<1>2. CASE m = 11
  BY <1>2
<1>3. CASE m = 37
  BY <1>3
<1> QED BY <1>1, <1>2, <1>3

LEMMA WeightAtIs ==
  ASSUME NEW ws, IsWeights(ws), NEW x \in Nat \ {0}
  PROVE  WeightAt(ws, x) \in Int
<1>1. ((x - 1) % Len(ws)) + 1 \in 1..Len(ws)
  BY DEF IsWeights
<1> QED BY <1>1 DEF IsWeights, WeightAt

WeightTerm(ws, n) == [p \in (1..n) \X Characters |-> p[2] * WeightAt(ws, p[1])]

LEMMA WeightTermIs ==
  ASSUME NEW ws, IsWeights(ws), NEW n \in Nat, NEW term, term = WeightTerm(ws, n)
  PROVE  /\ IsTerm(term, n, Characters)
         /\ \A x \in 1..n : WeightAt(ws, x) \in Int
         /\ \A x \in 1..n : \A a \in Characters : term[<<x, a>>] = a * WeightAt(ws, x)
<1>1. \A x \in 1..n : WeightAt(ws, x) \in Int
  BY WeightAtIs
<1>2. \A x \in 1..n : \A a \in Characters : term[<<x, a>>] = a * WeightAt(ws, x)
  BY DEF WeightTerm
<1>3. \A x \in 1..n : \A a \in Characters : term[<<x, a>>] \in Int
  <2> TAKE x \in 1..n
  <2> TAKE a \in Characters
  <2>1. a \in Int /\ WeightAt(ws, x) \in Int
    BY <1>1, CharactersAreNumbers
  <2>2. a * WeightAt(ws, x) \in Int
    BY <2>1
  <2> QED BY <1>2, <2>2
<1> QED BY <1>1, <1>2, <1>3 DEF IsTerm

LEMMA WeightedModIs ==
  ASSUME NEW ws, NEW m, NEW n \in Nat, NEW d \in Seq(Characters), Len(d) = n, NEW term, term = WeightTerm(ws, n)
  PROVE  WeightedMod(d, ws, m) = SumOver(term, d, n) % m
<1>1. [x \in DOMAIN d |-> d[x] * ws[((x - 1) % Len(ws)) + 1]] = [x \in 1..n |-> term[<<x, d[x]>>]]
  BY DEF WeightTerm, WeightAt
<1> QED BY <1>1 DEF WeightedMod, SumOver

LEMMA WeightedModDiffers ==
  ASSUME NEW w, NEW r, NEW i, Differs(w, r, i), NEW ws, IsWeights(ws), NEW m
  PROVE  Shifts(WeightedMod(w, ws, m), WeightedMod(r, ws, m), WeightAt(ws, i) * (r[i] - w[i]), m)
<1> DEFINE n == Len(w)
           term == WeightTerm(ws, n)
<1>1. /\ n \in Nat /\ Len(r) = n /\ n <= Len(w) /\ i \in 1..n /\ w \in Seq(Characters) /\ r \in Seq(Characters)
      /\ w[i] \in Characters /\ r[i] \in Characters
  BY DEF Differs
<1>2. WeightedMod(w, ws, m) = SumOver(term, w, n) % m /\ WeightedMod(r, ws, m) = SumOver(term, r, n) % m
  BY <1>1, WeightedModIs
<1>3. /\ IsTerm(term, n, Characters) /\ WeightAt(ws, i) \in Int
      /\ term[<<i, w[i]>>] = w[i] * WeightAt(ws, i) /\ term[<<i, r[i]>>] = r[i] * WeightAt(ws, i)
  BY <1>1, WeightTermIs
<1> HIDE DEF term, n
<1>4. Grows(SumOver(term, w, n), SumOver(term, r, n), Misread1(term, w, r, i, n))
  BY <1>1, <1>3, SumOverDiffers, Zenon
<1>5. Misread1(term, w, r, i, n) = WeightAt(ws, i) * (r[i] - w[i])
  <2>1. w[i] \in Int /\ r[i] \in Int
    BY <1>1, CharactersAreNumbers
  <2> QED BY <1>1, <1>3, <2>1 DEF Misread1
<1> QED BY <1>2, <1>4, <1>5 DEF Shifts, Grows

LEMMA WeightedModExchanged ==
  ASSUME NEW w, NEW r, NEW i, Exchanged(w, r, i), NEW ws, IsWeights(ws), NEW m
  PROVE  Shifts(WeightedMod(w, ws, m), WeightedMod(r, ws, m), (WeightAt(ws, i) - WeightAt(ws, i + 1)) * (w[i + 1] - w[i]), m)
<1> DEFINE n == Len(w)
           term == WeightTerm(ws, n)
<1>1. /\ n \in Nat /\ Len(r) = n /\ n <= Len(w) /\ i \in 1..n /\ i + 1 \in 1..n /\ w \in Seq(Characters) /\ r \in Seq(Characters)
      /\ w[i] \in Characters /\ w[i + 1] \in Characters
  BY DEF Exchanged
<1>2. WeightedMod(w, ws, m) = SumOver(term, w, n) % m /\ WeightedMod(r, ws, m) = SumOver(term, r, n) % m
  BY <1>1, WeightedModIs
<1>3. /\ IsTerm(term, n, Characters) /\ WeightAt(ws, i) \in Int /\ WeightAt(ws, i + 1) \in Int
      /\ term[<<i, w[i]>>] = w[i] * WeightAt(ws, i) /\ term[<<i, w[i + 1]>>] = w[i + 1] * WeightAt(ws, i)
      /\ term[<<i + 1, w[i]>>] = w[i] * WeightAt(ws, i + 1) /\ term[<<i + 1, w[i + 1]>>] = w[i + 1] * WeightAt(ws, i + 1)
  BY <1>1, WeightTermIs
<1> HIDE DEF term, n
<1>4. Grows(SumOver(term, w, n), SumOver(term, r, n), Swapped1(term, w, i, n))
  BY <1>1, <1>3, SumOverExchanged, Zenon
<1>5. Swapped1(term, w, i, n) = (WeightAt(ws, i) - WeightAt(ws, i + 1)) * (w[i + 1] - w[i])
  <2>1. w[i] \in Int /\ w[i + 1] \in Int
    BY <1>1, CharactersAreNumbers
  <2>2. \A a, b, x, y \in Int : (b * x - a * x) + (a * y - b * y) = (x - y) * (b - a)
    OBVIOUS
  <2>3. Swapped1(term, w, i, n) = (w[i + 1] * WeightAt(ws, i) - w[i] * WeightAt(ws, i)) + (w[i] * WeightAt(ws, i + 1) - w[i + 1] * WeightAt(ws, i + 1))
    BY <1>1, <1>3 DEF Swapped1
  <2> QED BY <1>3, <2>1, <2>2, <2>3
<1> QED BY <1>2, <1>4, <1>5 DEF Shifts, Grows

-----------------------------------------------------------------------------
(* The sum that stops at the shorter of the two. *)

LEMMA ShorterIs ==
  ASSUME NEW a \in Nat, NEW b \in Nat
  PROVE  Min({a, b}) = IF a <= b THEN a ELSE b
<1> DEFINE m == IF a <= b THEN a ELSE b
<1>1. m \in {a, b} /\ \A y \in {a, b} : m <= y
  OBVIOUS
<1>2. \A x \in {a, b} : (\A y \in {a, b} : x <= y) => x = m
  OBVIOUS
<1> HIDE DEF m
<1>3. Min({a, b}) \in {a, b} /\ \A y \in {a, b} : Min({a, b}) <= y
  BY <1>1 DEF Min
<1> QED BY <1>2, <1>3 DEF m

SumTerm(ws, n) == [p \in (1..n) \X Characters |-> p[2] * ws[p[1]]]

LEMMA SumTermIs ==
  ASSUME NEW ws, IsWeights(ws), NEW n \in Nat, n <= Len(ws), NEW term, term = SumTerm(ws, n)
  PROVE  /\ IsTerm(term, n, Characters)
         /\ \A x \in 1..n : ws[x] \in Int
         /\ \A x \in 1..n : \A a \in Characters : term[<<x, a>>] = a * ws[x]
<1>1. \A x \in 1..n : ws[x] \in Int
  BY DEF IsWeights
<1>2. \A x \in 1..n : \A a \in Characters : term[<<x, a>>] = a * ws[x]
  BY DEF SumTerm
<1>3. \A x \in 1..n : \A a \in Characters : term[<<x, a>>] \in Int
  <2> TAKE x \in 1..n
  <2> TAKE a \in Characters
  <2>1. a \in Int /\ ws[x] \in Int
    BY <1>1, CharactersAreNumbers
  <2>2. a * ws[x] \in Int
    BY <2>1
  <2> QED BY <1>2, <2>2
<1> QED BY <1>1, <1>2, <1>3 DEF IsTerm

LEMMA WeightedSumIs ==
  ASSUME NEW ws, IsWeights(ws), NEW d \in Seq(Characters), NEW n, n = Min({Len(d), Len(ws)}), NEW term, term = SumTerm(ws, n)
  PROVE  WeightedSum(d, ws) = SumOver(term, d, n) /\ n \in Nat /\ n <= Len(d) /\ n <= Len(ws)
<1>1. n \in Nat /\ n <= Len(d) /\ n <= Len(ws)
  <2>1. Len(d) \in Nat /\ Len(ws) \in Nat
    BY DEF IsWeights
  <2> QED BY <2>1, ShorterIs
<1>2. [x \in 1..n |-> d[x] * ws[x]] = [x \in 1..n |-> term[<<x, d[x]>>]]
  BY <1>1 DEF SumTerm
<1> QED BY <1>1, <1>2 DEF WeightedSum, SumOver

LEMMA WeightedSumDiffers ==
  ASSUME NEW w, NEW r, NEW i, Differs(w, r, i), NEW ws, IsWeights(ws)
  PROVE  Grows(WeightedSum(w, ws), WeightedSum(r, ws), IF i <= Len(ws) THEN ws[i] * (r[i] - w[i]) ELSE 0)
<1> DEFINE n == Min({Len(w), Len(ws)})
           term == SumTerm(ws, n)
<1>1. /\ Len(r) = Len(w) /\ i \in 1..Len(w) /\ w \in Seq(Characters) /\ r \in Seq(Characters)
      /\ w[i] \in Characters /\ r[i] \in Characters /\ Len(w) \in Nat
  BY DEF Differs
<1>2. WeightedSum(w, ws) = SumOver(term, w, n) /\ WeightedSum(r, ws) = SumOver(term, r, n) /\ n \in Nat /\ n <= Len(w) /\ n <= Len(ws)
  BY <1>1, WeightedSumIs
<1>3. /\ IsTerm(term, n, Characters)
      /\ i <= n => ws[i] \in Int /\ term[<<i, w[i]>>] = w[i] * ws[i] /\ term[<<i, r[i]>>] = r[i] * ws[i]
  BY <1>1, <1>2, SumTermIs
<1>4. i <= n <=> i <= Len(ws)
  <2>1. Len(ws) \in Nat
    BY DEF IsWeights
  <2> QED BY <1>1, <2>1, ShorterIs
<1> HIDE DEF term, n
<1>5. Grows(SumOver(term, w, n), SumOver(term, r, n), Misread1(term, w, r, i, n))
  BY <1>1, <1>2, <1>3, SumOverDiffers, Zenon
<1>6. Misread1(term, w, r, i, n) = IF i <= Len(ws) THEN ws[i] * (r[i] - w[i]) ELSE 0
  <2>1. w[i] \in Int /\ r[i] \in Int
    BY <1>1, CharactersAreNumbers
  <2> QED BY <1>1, <1>3, <1>4, <2>1 DEF Misread1
<1> QED BY <1>2, <1>5, <1>6 DEF Grows

LEMMA WeightedSumExchanged ==
  ASSUME NEW w, NEW r, NEW i, Exchanged(w, r, i), NEW ws, IsWeights(ws)
  PROVE  Grows(WeightedSum(w, ws), WeightedSum(r, ws),
               (IF i <= Len(ws) THEN ws[i] * (w[i + 1] - w[i]) ELSE 0) + (IF i + 1 <= Len(ws) THEN ws[i + 1] * (w[i] - w[i + 1]) ELSE 0))
<1> DEFINE n == Min({Len(w), Len(ws)})
           term == SumTerm(ws, n)
<1>1. /\ Len(r) = Len(w) /\ i \in 1..Len(w) /\ i + 1 \in 1..Len(w) /\ w \in Seq(Characters) /\ r \in Seq(Characters)
      /\ w[i] \in Characters /\ w[i + 1] \in Characters /\ Len(w) \in Nat
  BY DEF Exchanged
<1>2. WeightedSum(w, ws) = SumOver(term, w, n) /\ WeightedSum(r, ws) = SumOver(term, r, n) /\ n \in Nat /\ n <= Len(w) /\ n <= Len(ws)
  BY <1>1, WeightedSumIs
<1>3. /\ IsTerm(term, n, Characters)
      /\ i <= n => ws[i] \in Int /\ term[<<i, w[i]>>] = w[i] * ws[i] /\ term[<<i, w[i + 1]>>] = w[i + 1] * ws[i]
      /\ i + 1 <= n => /\ ws[i + 1] \in Int /\ term[<<i + 1, w[i]>>] = w[i] * ws[i + 1]
                       /\ term[<<i + 1, w[i + 1]>>] = w[i + 1] * ws[i + 1]
  BY <1>1, <1>2, SumTermIs
<1>4. (i <= n <=> i <= Len(ws)) /\ (i + 1 <= n <=> i + 1 <= Len(ws))
  <2>1. Len(ws) \in Nat
    BY DEF IsWeights
  <2> QED BY <1>1, <2>1, ShorterIs
<1> HIDE DEF term, n
<1>5. Grows(SumOver(term, w, n), SumOver(term, r, n), Swapped1(term, w, i, n))
  BY <1>1, <1>2, <1>3, SumOverExchanged, Zenon
<1>6. Swapped1(term, w, i, n) = (IF i <= Len(ws) THEN ws[i] * (w[i + 1] - w[i]) ELSE 0) + (IF i + 1 <= Len(ws) THEN ws[i + 1] * (w[i] - w[i + 1]) ELSE 0)
  <2>1. w[i] \in Int /\ w[i + 1] \in Int
    BY <1>1, CharactersAreNumbers
  <2>2. i <= n => term[<<i, w[i + 1]>>] - term[<<i, w[i]>>] = ws[i] * (w[i + 1] - w[i])
    BY <1>3, <2>1
  <2>3. i + 1 <= n => term[<<i + 1, w[i]>>] - term[<<i + 1, w[i + 1]>>] = ws[i + 1] * (w[i] - w[i + 1])
    BY <1>3, <2>1
  <2> QED BY <1>4, <2>2, <2>3 DEF Swapped1
<1> QED BY <1>2, <1>5, <1>6 DEF Grows

-----------------------------------------------------------------------------
(* Luhn. *)

LuhnDigit(k, v) == IF k % 2 = 1 THEN DigitSum(2 * v) ELSE v
LuhnTerm(n) == [p \in (1..n) \X (0..9) |-> LuhnDigit(n - p[1], p[2])]

LEMMA LuhnTermIs ==
  ASSUME NEW n \in Nat, NEW term, term = LuhnTerm(n)
  PROVE  /\ IsTerm(term, n, 0..9)
         /\ \A x \in 1..n : \A a \in 0..9 : term[<<x, a>>] = LuhnDigit(n - x, a)
<1>1. \A x \in 1..n : \A a \in 0..9 : term[<<x, a>>] = LuhnDigit(n - x, a)
  BY DEF LuhnTerm
<1>2. \A x \in 1..n : \A a \in 0..9 : LuhnDigit(n - x, a) \in Int
  BY DEF LuhnDigit, DigitSum
<1> QED BY <1>1, <1>2 DEF IsTerm

LEMMA LuhnSumIs ==
  ASSUME NEW n \in Nat, NEW d \in Seq(0..9), Len(d) = n, NEW term, term = LuhnTerm(n)
  PROVE  LuhnSum(d) = SumOver(term, d, n) % 10
<1>1. [x \in DOMAIN d |-> IF (Len(d) - x) % 2 = 1 THEN DigitSum(2 * d[x]) ELSE d[x]] = [x \in 1..n |-> term[<<x, d[x]>>]]
  BY DEF LuhnTerm, LuhnDigit
<1> QED BY <1>1 DEF LuhnSum, SumOver

LEMMA LuhnDigitsDiffer ==
  ASSUME NEW k \in Int, NEW a \in 0..9, NEW b \in 0..9, a # b
  PROVE  (LuhnDigit(k, b) - LuhnDigit(k, a)) % 10 # 0 /\ LuhnDigit(k, b) \in Int /\ LuhnDigit(k, a) \in Int
<1>1. CASE k % 2 = 1
  <2>1. a = 0 \/ a = 1 \/ a = 2 \/ a = 3 \/ a = 4 \/ a = 5 \/ a = 6 \/ a = 7 \/ a = 8 \/ a = 9
    OBVIOUS
  <2> QED BY <1>1, <2>1 DEF LuhnDigit, DigitSum
<1>2. CASE k % 2 # 1
  BY <1>2 DEF LuhnDigit
<1> QED BY <1>1, <1>2

LEMMA LuhnDigitsInOrder ==
  ASSUME NEW k \in Int, NEW a \in 0..9, NEW b \in 0..9, a # b, a - b \notin {9, -9}
  PROVE  /\ ((LuhnDigit(k, b) - LuhnDigit(k, a)) + (LuhnDigit(k - 1, a) - LuhnDigit(k - 1, b))) % 10 # 0
         /\ LuhnDigit(k, b) \in Int /\ LuhnDigit(k, a) \in Int /\ LuhnDigit(k - 1, b) \in Int /\ LuhnDigit(k - 1, a) \in Int
<1>0. a = 0 \/ a = 1 \/ a = 2 \/ a = 3 \/ a = 4 \/ a = 5 \/ a = 6 \/ a = 7 \/ a = 8 \/ a = 9
  OBVIOUS
<1>1. CASE k % 2 = 1
  <2>1. (k - 1) % 2 # 1
    BY <1>1
  <2> QED BY <1>0, <1>1, <2>1 DEF LuhnDigit, DigitSum
<1>2. CASE k % 2 # 1
  <2>1. (k - 1) % 2 = 1
    BY <1>2
  <2> QED BY <1>0, <1>2, <2>1 DEF LuhnDigit, DigitSum
<1> QED BY <1>1, <1>2

LEMMA TenIsSeen ==
  ASSUME NEW S \in Int, NEW delta \in Int, delta % 10 # 0
  PROVE  S % 10 # (S + delta) % 10
OBVIOUS

LEMMA LuhnSumDiffers ==
  ASSUME NEW w, NEW r, NEW i, Differs(w, r, i), AllDigits(w), AllDigits(r)
  PROVE  LuhnSum(w) # LuhnSum(r) /\ LuhnSum(w) \in 0..9 /\ LuhnSum(r) \in 0..9
<1> DEFINE n == Len(w)
           term == LuhnTerm(n)
<1>1. /\ n \in Nat /\ Len(r) = n /\ n <= Len(w) /\ i \in 1..n /\ w \in Seq(0..9) /\ r \in Seq(0..9)
      /\ w[i] \in 0..9 /\ r[i] \in 0..9 /\ w[i] # r[i]
  <2>1. /\ w \in Seq(Characters) /\ r \in Seq(Characters) /\ Len(w) \in Nat /\ Len(r) = Len(w)
        /\ i \in 1..Len(w) /\ w[i] # r[i]
    BY DEF Differs
  <2> QED BY <2>1, DigitsAreASequence
<1>2. LuhnSum(w) = SumOver(term, w, n) % 10 /\ LuhnSum(r) = SumOver(term, r, n) % 10
  BY <1>1, LuhnSumIs
<1>3. /\ IsTerm(term, n, 0..9)
      /\ term[<<i, w[i]>>] = LuhnDigit(n - i, w[i]) /\ term[<<i, r[i]>>] = LuhnDigit(n - i, r[i])
  BY <1>1, LuhnTermIs, Zenon
<1> HIDE DEF term, n
<1>4. Grows(SumOver(term, w, n), SumOver(term, r, n), Misread1(term, w, r, i, n))
  BY <1>1, <1>3, SumOverDiffers, Zenon
<1>5. Misread1(term, w, r, i, n) % 10 # 0
  <2>1. n - i \in Int
    BY <1>1
  <2>2. (LuhnDigit(n - i, r[i]) - LuhnDigit(n - i, w[i])) % 10 # 0
    BY <1>1, <2>1, LuhnDigitsDiffer
  <2>3. Misread1(term, w, r, i, n) = LuhnDigit(n - i, r[i]) - LuhnDigit(n - i, w[i])
    BY <1>1, <1>3 DEF Misread1
  <2> QED BY <2>2, <2>3
<1>6. SumOver(term, w, n) % 10 # SumOver(term, r, n) % 10
  BY <1>4, <1>5, TenIsSeen DEF Grows
<1>7. SumOver(term, w, n) \in Int /\ SumOver(term, r, n) \in Int
  BY <1>4 DEF Grows
<1> QED BY <1>2, <1>6, <1>7

LEMMA LuhnSumExchanged ==
  ASSUME NEW w, NEW r, NEW i, Exchanged(w, r, i), AllDigits(w), AllDigits(r), w[i] - w[i + 1] \notin {9, -9}
  PROVE  LuhnSum(w) # LuhnSum(r) /\ LuhnSum(w) \in 0..9 /\ LuhnSum(r) \in 0..9
<1> DEFINE n == Len(w)
           term == LuhnTerm(n)
<1>1. /\ n \in Nat /\ Len(r) = n /\ n <= Len(w) /\ i \in 1..n /\ i + 1 \in 1..n /\ w \in Seq(0..9) /\ r \in Seq(0..9)
      /\ w[i] \in 0..9 /\ w[i + 1] \in 0..9 /\ w[i] # w[i + 1]
  <2>1. /\ w \in Seq(Characters) /\ r \in Seq(Characters) /\ Len(w) \in Nat /\ Len(r) = Len(w)
        /\ i \in 1..Len(w) /\ i + 1 \in 1..Len(w) /\ w[i] # w[i + 1]
    BY DEF Exchanged
  <2> QED BY <2>1, DigitsAreASequence
<1>2. LuhnSum(w) = SumOver(term, w, n) % 10 /\ LuhnSum(r) = SumOver(term, r, n) % 10
  BY <1>1, LuhnSumIs
<1>3. /\ IsTerm(term, n, 0..9)
      /\ term[<<i, w[i]>>] = LuhnDigit(n - i, w[i]) /\ term[<<i, w[i + 1]>>] = LuhnDigit(n - i, w[i + 1])
      /\ term[<<i + 1, w[i]>>] = LuhnDigit(n - (i + 1), w[i]) /\ term[<<i + 1, w[i + 1]>>] = LuhnDigit(n - (i + 1), w[i + 1])
  <2>1. IsTerm(term, n, 0..9) /\ \A x \in 1..n : \A a \in 0..9 : term[<<x, a>>] = LuhnDigit(n - x, a)
    BY <1>1, LuhnTermIs
  <2> HIDE DEF term, n
  <2> QED BY <1>1, <2>1
<1> HIDE DEF term, n
<1>4. Grows(SumOver(term, w, n), SumOver(term, r, n), Swapped1(term, w, i, n))
  BY <1>1, <1>3, SumOverExchanged, Zenon
<1>5. Swapped1(term, w, i, n) % 10 # 0
  <2> DEFINE k == n - i
  <2>1. k \in Int /\ n - (i + 1) = k - 1
    BY <1>1
  <2>2. Swapped1(term, w, i, n) = (LuhnDigit(k, w[i + 1]) - LuhnDigit(k, w[i])) + (LuhnDigit(k - 1, w[i]) - LuhnDigit(k - 1, w[i + 1]))
    BY <1>1, <1>3, <2>1 DEF Swapped1
  <2> HIDE DEF k
  <2>3. ((LuhnDigit(k, w[i + 1]) - LuhnDigit(k, w[i])) + (LuhnDigit(k - 1, w[i]) - LuhnDigit(k - 1, w[i + 1]))) % 10 # 0
    BY <1>1, <2>1, LuhnDigitsInOrder
  <2> QED BY <2>2, <2>3
<1>6. SumOver(term, w, n) % 10 # SumOver(term, r, n) % 10
  BY <1>4, <1>5, TenIsSeen DEF Grows
<1>7. SumOver(term, w, n) \in Int /\ SumOver(term, r, n) \in Int
  BY <1>4 DEF Grows
<1> QED BY <1>2, <1>6, <1>7

(* Luhn's sum sees every misread digit, and every swap but that of a nine and a zero. *)
LEMMA LuhnDiffers ==
  ASSUME NEW w, NEW r, NEW i, Differs(w, r, i), Luhn(w)
  PROVE  ~ Luhn(r)
BY LuhnSumDiffers DEF Luhn

LEMMA LuhnExchanged ==
  ASSUME NEW w, NEW r, NEW i, Exchanged(w, r, i), Luhn(w), w[i] - w[i + 1] \notin {9, -9}
  PROVE  ~ Luhn(r)
BY LuhnSumExchanged DEF Luhn

LEMMA AppendDiffers ==
  ASSUME NEW w, NEW r, NEW i, Differs(w, r, i), AllDigits(w), AllDigits(r)
  PROVE  Differs(Append(w, 0), Append(r, 0), i) /\ AllDigits(Append(w, 0)) /\ AllDigits(Append(r, 0))
<1>1. /\ w \in Seq(Characters) /\ r \in Seq(Characters) /\ Len(w) \in Nat /\ Len(r) = Len(w) /\ i \in 1..Len(w) /\ r[i] # w[i]
      /\ \A x \in 1..Len(w) : x # i => r[x] = w[x]
      /\ \A x \in 1..Len(w) : w[x] \in 0..9 /\ r[x] \in 0..9
  BY SMT DEF Differs, AllDigits, IsDigit
<1>2. /\ Append(w, 0) \in Seq(Characters) /\ Append(r, 0) \in Seq(Characters)
      /\ Len(Append(w, 0)) = Len(w) + 1 /\ Len(Append(r, 0)) = Len(w) + 1
      /\ \A x \in 1..Len(w) : Append(w, 0)[x] = w[x] /\ Append(r, 0)[x] = r[x]
      /\ Append(w, 0)[Len(w) + 1] = 0 /\ Append(r, 0)[Len(w) + 1] = 0
  BY <1>1 DEF Characters
<1> DEFINE a == Append(w, 0)
           b == Append(r, 0)
<1> HIDE DEF a, b
<1>3. DOMAIN a = 1..(Len(w) + 1) /\ DOMAIN b = 1..(Len(w) + 1)
  BY <1>1, <1>2 DEF a, b
<1>4. \A x \in 1..(Len(w) + 1) : x \in 1..Len(w) \/ x = Len(w) + 1
  BY <1>1, SMT
<1>5. AllDigits(a) /\ AllDigits(b)
  BY <1>1, <1>2, <1>3, <1>4 DEF AllDigits, IsDigit, a, b
<1>6. Differs(a, b, i)
  BY <1>1, <1>2, <1>4 DEF Differs, a, b
<1> QED BY <1>5, <1>6 DEF a, b

LEMMA AppendExchanged ==
  ASSUME NEW w, NEW r, NEW i, Exchanged(w, r, i), AllDigits(w), AllDigits(r)
  PROVE  Exchanged(Append(w, 0), Append(r, 0), i) /\ AllDigits(Append(w, 0)) /\ AllDigits(Append(r, 0))
         /\ Append(w, 0)[i] = w[i] /\ Append(w, 0)[i + 1] = w[i + 1]
<1>1. /\ w \in Seq(Characters) /\ r \in Seq(Characters) /\ Len(w) \in Nat /\ Len(r) = Len(w)
      /\ i \in 1..Len(w) /\ i + 1 \in 1..Len(w) /\ w[i] # w[i + 1] /\ r[i] = w[i + 1] /\ r[i + 1] = w[i]
      /\ \A x \in 1..Len(w) : x # i /\ x # i + 1 => r[x] = w[x]
      /\ \A x \in 1..Len(w) : w[x] \in 0..9 /\ r[x] \in 0..9
  BY DEF Exchanged, AllDigits, IsDigit
<1>2. /\ Append(w, 0) \in Seq(Characters) /\ Append(r, 0) \in Seq(Characters)
      /\ Len(Append(w, 0)) = Len(w) + 1 /\ Len(Append(r, 0)) = Len(w) + 1
      /\ \A x \in 1..Len(w) : Append(w, 0)[x] = w[x] /\ Append(r, 0)[x] = r[x]
      /\ Append(w, 0)[Len(w) + 1] = 0 /\ Append(r, 0)[Len(w) + 1] = 0
  BY <1>1, SMT DEF Characters
<1> DEFINE a == Append(w, 0)
           b == Append(r, 0)
<1> HIDE DEF a, b
<1>3. DOMAIN a = 1..(Len(w) + 1) /\ DOMAIN b = 1..(Len(w) + 1)
  BY <1>1, <1>2 DEF a, b
<1>4. \A x \in 1..(Len(w) + 1) : x \in 1..Len(w) \/ x = Len(w) + 1
  BY <1>1
<1>5. AllDigits(a) /\ AllDigits(b)
  BY <1>1, <1>2, <1>3, <1>4, SMT DEF AllDigits, IsDigit, a, b
<1>6. Exchanged(a, b, i)
  <2>1. i \in 1..(Len(a) - 1)
    BY <1>1, <1>2 DEF a
  <2> QED BY <1>1, <1>2, <1>4, <2>1 DEF Exchanged, a, b
<1> QED BY <1>1, <1>2, <1>5, <1>6 DEF a, b

-----------------------------------------------------------------------------
(* The difference of two neighbours that changed places. *)
Near9(a, b) == a - b \in {9, -9}
Near1(a, b) == a - b \in {1, -1, 9, -9}
Eleven(a, b) == a = 11 * b \/ b = 11 * a

LEMMA LuhnOfSliceDiffers ==
  ASSUME NEW w, NEW r, NEW i, Differs(w, r, i),
         NEW from \in Nat, NEW to \in Nat, from < i, i <= to, to <= Len(w),
         Luhn(Slice(w, from, to)), Luhn(Slice(r, from, to))
  PROVE  FALSE
<1>1. i \in Int
  BY DEF Differs
<1>2. from <= to
  BY <1>1
<1>3. Differs(Slice(w, from, to), Slice(r, from, to), i - from)
  BY <1>2, SliceOfDiffers
<1> QED BY <1>3, LuhnDiffers

LEMMA LuhnOfSliceExchanged ==
  ASSUME NEW w, NEW r, NEW i, Exchanged(w, r, i),
         NEW from \in Nat, NEW to \in Nat, from < i, i < to, to <= Len(w),
         Luhn(Slice(w, from, to)), Luhn(Slice(r, from, to))
  PROVE  Near9(w[i], w[i + 1])
<1>0. SUFFICES ASSUME ~ Near9(w[i], w[i + 1]) PROVE FALSE
  OBVIOUS
<1>1. i \in Int /\ w \in Seq(Characters)
  BY DEF Exchanged
<1>2. from <= to
  BY <1>1
<1>3. Exchanged(Slice(w, from, to), Slice(r, from, to), i - from)
  BY <1>2, SliceOfExchanged
<1>4. \A x \in 1..(to - from) : Slice(w, from, to)[x] = w[from + x]
  BY <1>1, <1>2, SliceIs
<1>5. /\ i - from \in 1..(to - from) /\ from + (i - from) = i
      /\ (i - from) + 1 \in 1..(to - from) /\ from + ((i - from) + 1) = i + 1
  BY <1>1
<1>6. Slice(w, from, to)[i - from] = w[i] /\ Slice(w, from, to)[(i - from) + 1] = w[i + 1]
  BY <1>4, <1>5
<1>7. Slice(w, from, to)[i - from] - Slice(w, from, to)[(i - from) + 1] \notin {9, -9}
  BY <1>0, <1>6 DEF Near9
<1> QED BY <1>3, <1>7, LuhnExchanged

Mild == (-10..10) \ {0}
Even == {-8, -6, -4, -2, 2, 4, 6, 8}
Odd == {-9, -7, -3, -1, 1, 3, 7, 9}

LEMMA MildIsPrime ==
  ASSUME NEW k \in Mild, NEW x \in Mild
  PROVE  (k * x) % 11 # 0 /\ (k * x) % 23 # 0 /\ (k * x) % 37 # 0
<1>1. \/ k = 1 \/ k = 2 \/ k = 3 \/ k = 4 \/ k = 5 \/ k = 6 \/ k = 7 \/ k = 8 \/ k = 9 \/ k = 10
      \/ k = -1 \/ k = -2 \/ k = -3 \/ k = -4 \/ k = -5 \/ k = -6 \/ k = -7 \/ k = -8 \/ k = -9 \/ k = -10
  BY DEF Mild
<1>2. x \in -10..10 /\ x # 0
  BY DEF Mild
<1> QED BY <1>1, <1>2

LEMMA TenSeesOdd ==
  ASSUME NEW k \in Odd, NEW x \in Int, x % 10 # 0
  PROVE  (k * x) % 10 # 0
<1>1. k = 1 \/ k = 3 \/ k = 7 \/ k = 9 \/ k = -1 \/ k = -3 \/ k = -7 \/ k = -9
  BY DEF Odd
<1> QED BY <1>1

LEMMA TenSeesEven ==
  ASSUME NEW k \in Even, NEW x \in Int, x % 5 # 0
  PROVE  (k * x) % 10 # 0
<1>1. k = 2 \/ k = 4 \/ k = 6 \/ k = 8 \/ k = -2 \/ k = -4 \/ k = -6 \/ k = -8
  BY DEF Even
<1> QED BY <1>1

LEMMA DigitsApart == \A a, b \in 0..9 : a # b => b - a \in Mild /\ (b - a) % 10 # 0
BY DEF Mild

Fives(a, b) == (a - b) % 5 = 0

(* Modulo a prime. *)
Primes == {11, 37}

LEMMA PrimeDiffers ==
  ASSUME NEW w, NEW r, NEW i, Differs(w, r, i), NEW ws, IsWeights(ws), NEW m \in Primes,
         WeightAt(ws, i) \in Mild, w[i] \in 0..9, r[i] \in 0..9
  PROVE  WeightedMod(w, ws, m) # WeightedMod(r, ws, m)
<1> DEFINE delta == WeightAt(ws, i) * (r[i] - w[i])
<1>1. Shifts(WeightedMod(w, ws, m), WeightedMod(r, ws, m), delta, m)
  BY WeightedModDiffers
<1>2. r[i] - w[i] \in Mild
  BY DigitsApart DEF Differs
<1>3. delta % 11 # 0 /\ delta % 37 # 0
  BY <1>2, MildIsPrime
<1>4. delta \in Int /\ m \in {10, 11, 37} /\ (m = 11 \/ m = 37)
  <2>1. WeightAt(ws, i) \in Int /\ r[i] - w[i] \in Int
    BY <1>2 DEF Mild
  <2> QED BY <2>1 DEF Primes
<1> HIDE DEF delta
<1>5. delta % m # 0
  BY <1>3, <1>4
<1> QED BY <1>1, <1>4, <1>5, ShiftIsSeen

LEMMA PrimeExchanged ==
  ASSUME NEW w, NEW r, NEW i, Exchanged(w, r, i), NEW ws, IsWeights(ws), NEW m \in Primes,
         WeightAt(ws, i) - WeightAt(ws, i + 1) \in Mild, w[i] \in 0..9, w[i + 1] \in 0..9
  PROVE  WeightedMod(w, ws, m) # WeightedMod(r, ws, m)
<1> DEFINE k == WeightAt(ws, i) - WeightAt(ws, i + 1)
           delta == k * (w[i + 1] - w[i])
<1>1. Shifts(WeightedMod(w, ws, m), WeightedMod(r, ws, m), delta, m)
  BY WeightedModExchanged
<1>2. w[i + 1] - w[i] \in Mild
  BY DigitsApart DEF Exchanged
<1> HIDE DEF k
<1>3. k \in Mild
  BY DEF k
<1>4. delta % 11 # 0 /\ delta % 37 # 0
  BY <1>2, <1>3, MildIsPrime
<1>5. delta \in Int /\ m \in {10, 11, 37} /\ (m = 11 \/ m = 37)
  <2>1. k \in Int /\ w[i + 1] - w[i] \in Int
    BY <1>2, <1>3 DEF Mild
  <2> QED BY <2>1 DEF Primes
<1> HIDE DEF delta
<1>6. delta % m # 0
  BY <1>4, <1>5
<1> QED BY <1>1, <1>5, <1>6, ShiftIsSeen

(* Modulo ten. *)
LEMMA TenDiffers ==
  ASSUME NEW w, NEW r, NEW i, Differs(w, r, i), NEW ws, IsWeights(ws),
         WeightAt(ws, i) \in Odd, w[i] \in 0..9, r[i] \in 0..9
  PROVE  WeightedMod(w, ws, 10) # WeightedMod(r, ws, 10)
<1> DEFINE delta == WeightAt(ws, i) * (r[i] - w[i])
<1>1. Shifts(WeightedMod(w, ws, 10), WeightedMod(r, ws, 10), delta, 10)
  BY WeightedModDiffers
<1>2. r[i] - w[i] \in Int /\ (r[i] - w[i]) % 10 # 0
  <2>1. r[i] # w[i]
    BY DEF Differs
  <2> QED BY <2>1
<1>3. delta % 10 # 0
  BY <1>2, TenSeesOdd
<1>4. delta \in Int /\ 10 \in {10, 11, 37}
  <2>1. WeightAt(ws, i) \in Int
    BY DEF Odd
  <2> QED BY <1>2, <2>1
<1> HIDE DEF delta
<1> QED BY <1>1, <1>3, <1>4, ShiftIsSeen

LEMMA TenExchanged ==
  ASSUME NEW w, NEW r, NEW i, Exchanged(w, r, i), NEW ws, IsWeights(ws),
         WeightAt(ws, i) - WeightAt(ws, i + 1) \in Even, ~ Fives(w[i], w[i + 1])
  PROVE  WeightedMod(w, ws, 10) # WeightedMod(r, ws, 10)
<1> DEFINE k == WeightAt(ws, i) - WeightAt(ws, i + 1)
           delta == k * (w[i + 1] - w[i])
<1>1. Shifts(WeightedMod(w, ws, 10), WeightedMod(r, ws, 10), delta, 10)
  BY WeightedModExchanged
<1>2. w[i + 1] - w[i] \in Int /\ (w[i + 1] - w[i]) % 5 # 0
  <2>1. w[i] \in Int /\ w[i + 1] \in Int
    BY CharactersAreNumbers DEF Exchanged
  <2> QED BY <2>1 DEF Fives
<1> HIDE DEF k
<1>3. k \in Even
  BY DEF k
<1>4. delta % 10 # 0
  BY <1>2, <1>3, TenSeesEven
<1>5. delta \in Int /\ 10 \in {10, 11, 37}
  <2>1. k \in Int
    BY <1>3 DEF Even
  <2> QED BY <1>2, <2>1
<1> HIDE DEF delta
<1> QED BY <1>1, <1>4, <1>5, ShiftIsSeen

(* The weights of each scheme. *)

LEMMA Complements ==
  ASSUME NEW a \in 0..9, NEW b \in 0..9, (10 - a) % 10 = (10 - b) % 10
  PROVE  a = b
OBVIOUS

LEMMA WeightedModIsARemainder ==
  ASSUME NEW w, NEW r, NEW i, Differs(w, r, i) \/ Exchanged(w, r, i), NEW ws, IsWeights(ws)
  PROVE  WeightedMod(w, ws, 10) \in 0..9 /\ WeightedMod(r, ws, 10) \in 0..9
<1>1. ASSUME NEW delta, Shifts(WeightedMod(w, ws, 10), WeightedMod(r, ws, 10), delta, 10), delta \in Int
      PROVE  WeightedMod(w, ws, 10) \in 0..9 /\ WeightedMod(r, ws, 10) \in 0..9
  <2> PICK S \in Int : WeightedMod(w, ws, 10) = S % 10 /\ WeightedMod(r, ws, 10) = (S + delta) % 10
    BY <1>1 DEF Shifts
  <2>1. S + delta \in Int
    BY <1>1
  <2> QED BY <2>1
<1>2. CASE Differs(w, r, i)
  <2>1. WeightAt(ws, i) \in Int /\ r[i] \in Int /\ w[i] \in Int
    BY <1>2, WeightAtIs, CharactersAreNumbers, SMT DEF Differs
  <2>2. WeightAt(ws, i) * (r[i] - w[i]) \in Int
    BY <2>1
  <2> QED BY <1>1, <1>2, <2>2, WeightedModDiffers
<1>3. CASE Exchanged(w, r, i)
  <2>1. WeightAt(ws, i) \in Int /\ WeightAt(ws, i + 1) \in Int /\ w[i] \in Int /\ w[i + 1] \in Int
    BY <1>3, WeightAtIs, CharactersAreNumbers DEF Exchanged
  <2>2. (WeightAt(ws, i) - WeightAt(ws, i + 1)) * (w[i + 1] - w[i]) \in Int
    BY <2>1
  <2> QED BY <1>1, <1>3, <2>2, WeightedModExchanged
<1> QED BY <1>2, <1>3

(* n digits summed with weights prime to ten, and the check digit that completes them. *)
Completed(d, n, ws) == Len(d) = n + 1 /\ d[n + 1] \in 0..9 /\ d[n + 1] = (10 - WeightedMod(Slice(d, 0, n), ws, 10)) % 10

LEMMA CompletedDiffers ==
  ASSUME NEW w, NEW r, NEW i, Differs(w, r, i), NEW ws, IsWeights(ws), NEW n \in Nat,
         Completed(w, n, ws), Completed(r, n, ws),
         i <= n => WeightAt(ws, i) \in Odd /\ w[i] \in 0..9 /\ r[i] \in 0..9
  PROVE  FALSE
<1>1. /\ w \in Seq(Characters) /\ r \in Seq(Characters) /\ i \in 1..(n + 1) /\ w[i] # r[i] /\ Len(w) = n + 1
      /\ \A x \in 1..(n + 1) : x # i => r[x] = w[x]
  BY DEF Differs, Completed
<1>2. 0 \in Nat /\ 0 <= n /\ n <= Len(w) /\ 0 < i
  BY <1>1
<1>3. /\ w[n + 1] = (10 - WeightedMod(Slice(w, 0, n), ws, 10)) % 10
      /\ r[n + 1] = (10 - WeightedMod(Slice(r, 0, n), ws, 10)) % 10
  BY DEF Completed
<1>4. CASE i = n + 1
  <2>1. Slice(r, 0, n) = Slice(w, 0, n)
    BY <1>2, <1>4, SliceOfDiffers
  <2> QED BY <1>1, <1>3, <1>4, <2>1
<1>5. CASE i # n + 1
  <2>1. i <= n /\ r[n + 1] = w[n + 1] /\ i \in 1..n
    BY <1>1, <1>2, <1>5
  <2>2. Differs(Slice(w, 0, n), Slice(r, 0, n), i - 0) /\ i - 0 = i
    BY <1>2, <2>1, SliceOfDiffers
  <2>3. Slice(w, 0, n)[i] = w[i] /\ Slice(r, 0, n)[i] = r[i]
    <3>1. n <= Len(r)
      BY DEF Completed
    <3>2. \A x \in 1..(n - 0) : Slice(w, 0, n)[x] = w[0 + x]
      BY <1>1, <1>2, SliceIs
    <3>3. \A x \in 1..(n - 0) : Slice(r, 0, n)[x] = r[0 + x]
      BY <1>1, <1>2, <3>1, SliceIs
    <3> QED BY <2>1, <3>2, <3>3
  <2> DEFINE a == WeightedMod(Slice(w, 0, n), ws, 10)
             b == WeightedMod(Slice(r, 0, n), ws, 10)
  <2>4. a # b
    <3>1. Differs(Slice(w, 0, n), Slice(r, 0, n), i) /\ WeightAt(ws, i) \in Odd
      BY <2>1, <2>2
    <3>2. Slice(w, 0, n)[i] \in 0..9 /\ Slice(r, 0, n)[i] \in 0..9
      BY <2>1, <2>3
    <3> QED BY <3>1, <3>2, TenDiffers
  <2>5. a \in 0..9 /\ b \in 0..9
    BY <2>2, WeightedModIsARemainder
  <2>6. (10 - a) % 10 = (10 - b) % 10
    BY <1>3, <2>1
  <2> HIDE DEF a, b
  <2> QED BY <2>4, <2>5, <2>6, Complements
<1> QED BY <1>4, <1>5

LEMMA CompletedExchanged ==
  ASSUME NEW w, NEW r, NEW i, Exchanged(w, r, i), NEW ws, IsWeights(ws), NEW n \in Nat,
         Completed(w, n, ws), Completed(r, n, ws),
         i < n => WeightAt(ws, i) - WeightAt(ws, i + 1) \in Even,
         i = n => WeightAt(ws, i) - 1 \in Even
  PROVE  Fives(w[i], w[i + 1])
<1>0. SUFFICES ASSUME ~ Fives(w[i], w[i + 1]) PROVE FALSE
  OBVIOUS
<1>1. /\ w \in Seq(Characters) /\ r \in Seq(Characters) /\ i \in 1..n /\ w[i] # w[i + 1] /\ Len(w) = n + 1 /\ Len(r) = n + 1
      /\ r[i] = w[i + 1] /\ r[i + 1] = w[i] /\ \A x \in 1..(n + 1) : x # i /\ x # i + 1 => r[x] = w[x]
  BY DEF Exchanged, Completed
<1>2. 0 \in Nat /\ 0 <= n /\ n <= Len(w) /\ n <= Len(r) /\ 0 < i
  BY <1>1
<1> DEFINE a == WeightedMod(Slice(w, 0, n), ws, 10)
           b == WeightedMod(Slice(r, 0, n), ws, 10)
<1>3. w[n + 1] = (10 - a) % 10 /\ r[n + 1] = (10 - b) % 10
  BY DEF Completed
<1>4. /\ \A x \in 1..(n - 0) : Slice(w, 0, n)[x] = w[0 + x]
      /\ \A x \in 1..(n - 0) : Slice(r, 0, n)[x] = r[0 + x]
  BY <1>1, <1>2, SliceIs
<1>5. CASE i # n
  <2>1. i < n /\ r[n + 1] = w[n + 1] /\ i \in 1..n /\ i + 1 \in 1..n
    BY <1>1, <1>2, <1>5
  <2>2. Exchanged(Slice(w, 0, n), Slice(r, 0, n), i - 0) /\ i - 0 = i
    BY <1>2, <2>1, SliceOfExchanged
  <2>3. Slice(w, 0, n)[i] = w[i] /\ Slice(w, 0, n)[i + 1] = w[i + 1]
    BY <1>4, <2>1
  <2>4. a # b
    BY <1>0, <2>1, <2>2, <2>3, TenExchanged
  <2>5. a \in 0..9 /\ b \in 0..9
    BY <2>2, WeightedModIsARemainder
  <2>6. (10 - a) % 10 = (10 - b) % 10
    BY <1>3, <2>1
  <2> HIDE DEF a, b
  <2> QED BY <2>4, <2>5, <2>6, Complements
<1>6. CASE i = n
  <2>1. Differs(Slice(w, 0, n), Slice(r, 0, n), i - 0) /\ i - 0 = i
    BY <1>2, <1>6, SliceOfExchanged
  <2>2. Slice(w, 0, n)[i] = w[i] /\ Slice(r, 0, n)[i] = w[i + 1]
    BY <1>1, <1>4, <1>6
  <2> DEFINE k == WeightAt(ws, i)
             delta == k * (w[i + 1] - w[i])
  <2>3. Shifts(a, b, delta, 10)
    BY <2>1, <2>2, WeightedModDiffers
  <2>4. k \in Int
    BY <1>1, WeightAtIs
  <2>5. w[i] \in 0..9 /\ w[i + 1] \in 0..9
    BY <1>1, <1>6 DEF Completed
  <2> HIDE DEF k
  <2>6. delta \in Int
    BY <2>4, <2>5
  <2> HIDE DEF delta, a, b
  <2>7. PICK S \in Int : a = S % 10 /\ b = (S + delta) % 10
    BY <2>3 DEF Shifts
  <2>8. w[i + 1] = (10 - a) % 10 /\ w[i] = (10 - b) % 10
    BY <1>1, <1>3, <1>6
  <2>9. (delta - (w[i + 1] - w[i])) % 10 = 0
    BY <2>5, <2>6, <2>7, <2>8
  <2>10. (w[i + 1] - w[i]) \in Int /\ (w[i + 1] - w[i]) % 5 # 0 /\ k - 1 \in Even
    <3>1. k - 1 \in Even
      BY <1>6 DEF k
    <3>2. (w[i + 1] - w[i]) % 5 # 0
      BY <1>0, <2>5 DEF Fives
    <3> QED BY <2>5, <3>1, <3>2
  <2>11. ((k - 1) * (w[i + 1] - w[i])) % 10 # 0
    BY <2>10, TenSeesEven
  <2>12. delta - (w[i + 1] - w[i]) = (k - 1) * (w[i + 1] - w[i])
    <3>1. \A p \in Int : \A q \in Int : p * q - q = (p - 1) * q
      OBVIOUS
    <3> QED BY <2>4, <2>10, <3>1 DEF delta
  <2> QED BY <2>9, <2>11, <2>12
<1> QED BY <1>5, <1>6

LEMMA SumGrows ==
  ASSUME NEW w, NEW r, NEW i, Differs(w, r, i), NEW ws, IsWeights(ws), NEW k, i <= Len(ws), ws[i] = k
  PROVE  Grows(WeightedSum(w, ws), WeightedSum(r, ws), k * (r[i] - w[i]))
BY WeightedSumDiffers

LEMMA SumStays ==
  ASSUME NEW w, NEW r, NEW i, Differs(w, r, i), NEW ws, IsWeights(ws), ~ (i <= Len(ws))
  PROVE  WeightedSum(w, ws) = WeightedSum(r, ws) /\ WeightedSum(w, ws) \in Int
BY WeightedSumDiffers DEF Grows

LEMMA SumTurns ==
  ASSUME NEW w, NEW r, NEW i, Exchanged(w, r, i), NEW ws, IsWeights(ws), NEW k \in Int, NEW l \in Int,
         k = (IF i <= Len(ws) THEN ws[i] ELSE 0), l = (IF i + 1 <= Len(ws) THEN ws[i + 1] ELSE 0)
  PROVE  Grows(WeightedSum(w, ws), WeightedSum(r, ws), (k - l) * (w[i + 1] - w[i]))
<1>1. Grows(WeightedSum(w, ws), WeightedSum(r, ws),
            (IF i <= Len(ws) THEN ws[i] * (w[i + 1] - w[i]) ELSE 0) + (IF i + 1 <= Len(ws) THEN ws[i + 1] * (w[i] - w[i + 1]) ELSE 0))
  BY WeightedSumExchanged
<1>2. w[i] \in Int /\ w[i + 1] \in Int
  BY CharactersAreNumbers DEF Exchanged
<1>3. (IF i <= Len(ws) THEN ws[i] * (w[i + 1] - w[i]) ELSE 0) = k * (w[i + 1] - w[i])
  BY <1>2
<1>4. (IF i + 1 <= Len(ws) THEN ws[i + 1] * (w[i] - w[i + 1]) ELSE 0) = l * (w[i] - w[i + 1])
  BY <1>2
<1>5. k * (w[i + 1] - w[i]) + l * (w[i] - w[i + 1]) = (k - l) * (w[i + 1] - w[i])
  <2>1. ASSUME NEW x \in Int, NEW y \in Int PROVE k * (y - x) + l * (x - y) = (k - l) * (y - x)
    OBVIOUS
  <2> QED BY <1>2, <2>1, Zenon
<1> QED BY <1>1, <1>3, <1>4, <1>5

LEMMA GrowthIsSeen ==
  ASSUME NEW a, NEW b, NEW delta, Grows(a, b, delta)
  PROVE  /\ a \in Int /\ b \in Int /\ delta \in Int
         /\ a % 11 = b % 11 => delta % 11 = 0
         /\ a % 23 = b % 23 => delta % 23 = 0
BY DEF Grows

(* What an error adds to a weighted sum, and that eleven and twenty-three see it. *)
LEMMA MildGrowth ==
  ASSUME NEW a, NEW b, NEW k \in Mild, NEW x \in Mild, Grows(a, b, k * x)
  PROVE  a \in Int /\ b \in Int /\ a % 11 # b % 11 /\ a % 23 # b % 23
BY MildIsPrime, GrowthIsSeen

TenDigits(x) == x = 0 \/ x = 1 \/ x = 2 \/ x = 3 \/ x = 4 \/ x = 5 \/ x = 6 \/ x = 7 \/ x = 8 \/ x = 9

LEMMA DigitIsOneOfTen == \A x \in 0..9 : TenDigits(x)
BY DEF TenDigits

LEMMA IntegerModIsARemainder ==
  ASSUME NEW d \in Seq(0..9), NEW modulus \in Moduli
  PROVE  IntegerMod(d, modulus) \in Residues(modulus)
<1>0. modulus \in Nat \ {0}
  BY DEF Moduli
<1>1. PICK c : Over(c, d, Residues(modulus), 0, IntegerModFn(modulus)) /\ IntegerMod(d, modulus) = c[Len(d)]
  BY <1>0, IntegerModWalks, Zenon
<1>2. c \in [0..Len(d) -> Residues(modulus)] /\ Len(d) \in 0..Len(d)
  BY <1>1 DEF Over
<1> QED BY <1>1, <1>2

(* The last digit is added to ten times what the others leave. *)
EndsWith(a, b, x, v, u, modulus) == a = (10 * x + v) % modulus /\ b = (10 * x + u) % modulus

LEMMA IntegerModAtTheEnd ==
  ASSUME NEW w, NEW r, NEW n, Differs(w, r, n), n = Len(w), AllDigits(w), AllDigits(r), NEW modulus \in Moduli
  PROVE  \E x \in Residues(modulus) : EndsWith(IntegerMod(w, modulus), IntegerMod(r, modulus), x, w[n], r[n], modulus)
<1>0. modulus \in Nat \ {0}
  BY DEF Moduli
<1>1. /\ w \in Seq(0..9) /\ r \in Seq(0..9) /\ n \in 1..n /\ Len(r) = n /\ n - 1 \in 0..n /\ n \in Nat
      /\ \A x \in 1..(n - 1) : r[x] = w[x]
      /\ w[n] \in 0..9 /\ r[n] \in 0..9
  <2>1. /\ w \in Seq(Characters) /\ r \in Seq(Characters) /\ n \in 1..n /\ Len(r) = n
        /\ \A x \in 1..n : x # n => r[x] = w[x]
    BY DEF Differs
  <2>2. w \in Seq(0..9) /\ r \in Seq(0..9) /\ n \in Nat
    BY <2>1, DigitsAreASequence
  <2> QED BY <2>1, <2>2
<1>2. PICK c : Over(c, w, Residues(modulus), 0, IntegerModFn(modulus)) /\ IntegerMod(w, modulus) = c[Len(w)]
  BY <1>0, <1>1, IntegerModWalks, Zenon
<1>3. PICK e : Over(e, r, Residues(modulus), 0, IntegerModFn(modulus)) /\ IntegerMod(r, modulus) = e[Len(r)]
  BY <1>0, <1>1, IntegerModWalks, Zenon
<1> DEFINE step == IntegerModFn(modulus)
<1>4. Meet(c, e, 0) /\ Moves(c, w, n, step) /\ Moves(e, r, n, step) /\ Alike(w, r, 1, n - 1)
  <2> HIDE DEF step
  <2>1. Over(c, w, Residues(modulus), 0, step) /\ Over(e, r, Residues(modulus), 0, step) /\ Len(w) = n /\ Len(r) = n
    BY <1>1, <1>2, <1>3 DEF step
  <2> QED BY <1>1, <2>1 DEF Over, Meet, Moves, Alike
<1>5. IsIntegerModFn(step, modulus)
  BY <1>0, IntegerModFnSteps, Zenon
<1> HIDE DEF step
<1>6. Meet(c, e, n - 1)
  BY <1>1, <1>4, TogetherAtFirst, Zenon
<1>7. c[n] = step[<<c[n - 1], w[n]>>] /\ e[n] = step[<<c[n - 1], r[n]>>]
  BY <1>1, <1>4, <1>6 DEF Moves, Meet
<1>8. c[n - 1] \in Residues(modulus)
  BY <1>1, <1>2 DEF Over
<1>9. c[n] = (10 * c[n - 1] + w[n]) % modulus /\ e[n] = (10 * c[n - 1] + r[n]) % modulus
  BY <1>1, <1>5, <1>7, <1>8 DEF IsIntegerModFn, IntegerModStep
<1>10. EndsWith(IntegerMod(w, modulus), IntegerMod(r, modulus), c[n - 1], w[n], r[n], modulus)
  BY <1>1, <1>2, <1>3, <1>9 DEF EndsWith
<1> QED BY <1>8, <1>10

LEMMA SliceOfDigits ==
  ASSUME NEW d \in Seq(Characters), AllDigits(d), NEW from \in Nat, NEW to \in Nat, from <= to, to <= Len(d)
  PROVE  /\ AllDigits(Slice(d, from, to)) /\ Slice(d, from, to) \in Seq(0..9) /\ Slice(d, from, to) \in Seq(Characters)
         /\ Len(Slice(d, from, to)) = to - from /\ \A x \in 1..(to - from) : Slice(d, from, to)[x] = d[from + x]
<1>1. /\ Slice(d, from, to) \in Seq(Characters) /\ Len(Slice(d, from, to)) = to - from
      /\ \A x \in 1..(to - from) : Slice(d, from, to)[x] = d[from + x]
  BY SliceIs
<1>2. \A x \in 1..(to - from) : IsDigit(d[from + x])
  <2> TAKE x \in 1..(to - from)
  <2>1. from + x \in DOMAIN d
    OBVIOUS
  <2> QED BY <2>1 DEF AllDigits
<1>3. \A x \in 1..(to - from) : IsDigit(Slice(d, from, to)[x])
  BY <1>1, <1>2
<1>4. AllDigits(Slice(d, from, to))
  BY <1>1, <1>3 DEF AllDigits
<1>5. Slice(d, from, to) \in Seq(0..9)
  BY <1>1, <1>4, DigitsAreASequence
<1> QED BY <1>1, <1>4, <1>5

(* k digits with their remainder a, and two more: which of the three an error reaches. *)
HeadMisread(w, r, i, k, a, b) ==
  \/ i <= k /\ a # b /\ r[k + 1] = w[k + 1] /\ r[k + 2] = w[k + 2]
  \/ i = k + 1 /\ a = b /\ r[k + 1] # w[k + 1] /\ r[k + 2] = w[k + 2]
  \/ i = k + 2 /\ a = b /\ r[k + 1] = w[k + 1] /\ r[k + 2] # w[k + 2]

HeadSwapped(w, r, i, k, a, b, modulus) ==
  \/ i < k /\ a # b /\ r[k + 1] = w[k + 1] /\ r[k + 2] = w[k + 2]
  \/ /\ i = k /\ r[k + 1] = w[k] /\ r[k + 2] = w[k + 2] /\ w[k] # w[k + 1]
     /\ \E x \in Residues(modulus) : EndsWith(a, b, x, w[k], w[k + 1], modulus)
  \/ i = k + 1 /\ a = b /\ r[k + 1] = w[k + 2] /\ r[k + 2] = w[k + 1] /\ w[k + 1] # w[k + 2]

CheckTail(d, k) == d[k + 1] \in 0..9 /\ d[k + 2] \in 0..9
LeadingMod(d, k, modulus) == IntegerMod(Slice(d, 0, k), modulus)

MisreadHead(w, r, i, k, modulus) ==
  /\ HeadMisread(w, r, i, k, LeadingMod(w, k, modulus), LeadingMod(r, k, modulus)) /\ CheckTail(w, k) /\ CheckTail(r, k)
  /\ LeadingMod(w, k, modulus) \in Residues(modulus) /\ LeadingMod(r, k, modulus) \in Residues(modulus)

SwappedHead(w, r, i, k, modulus) ==
  /\ HeadSwapped(w, r, i, k, LeadingMod(w, k, modulus), LeadingMod(r, k, modulus), modulus)
  /\ CheckTail(w, k) /\ CheckTail(r, k) /\ w[k] \in 0..9
  /\ LeadingMod(w, k, modulus) \in Residues(modulus) /\ LeadingMod(r, k, modulus) \in Residues(modulus)

LEMMA HeadDiffers ==
  ASSUME NEW w, NEW r, NEW i, Differs(w, r, i), NEW k \in Nat \ {0}, Len(w) = k + 2, AllDigits(w), AllDigits(r),
         NEW modulus \in Moduli
  PROVE  MisreadHead(w, r, i, k, modulus)
<1> USE DEF MisreadHead, LeadingMod
<1>1. /\ w \in Seq(Characters) /\ r \in Seq(Characters) /\ i \in 1..(k + 2) /\ w[i] # r[i] /\ Len(r) = k + 2
      /\ \A x \in 1..(k + 2) : x # i => r[x] = w[x]
  BY DEF Differs
<1>2. 0 \in Nat /\ 0 <= k /\ k <= Len(w) /\ k <= Len(r) /\ k \in Nat
  BY <1>1
<1>3. AllDigits(Slice(w, 0, k)) /\ Slice(w, 0, k) \in Seq(0..9) /\ AllDigits(Slice(r, 0, k)) /\ Slice(r, 0, k) \in Seq(0..9)
  BY <1>1, <1>2, SliceOfDigits
<1> DEFINE a == IntegerMod(Slice(w, 0, k), modulus)
           b == IntegerMod(Slice(r, 0, k), modulus)
<1>4. a \in Residues(modulus) /\ b \in Residues(modulus)
  BY <1>3, IntegerModIsARemainder
<1>5. CheckTail(w, k) /\ CheckTail(r, k)
  <2>1. k + 1 \in 1..(k + 2) /\ k + 2 \in 1..(k + 2)
    OBVIOUS
  <2>2. DOMAIN w = 1..(k + 2) /\ DOMAIN r = 1..(k + 2)
    BY <1>1, LenProperties
  <2> QED BY <2>1, <2>2, Zenon DEF CheckTail, AllDigits, IsDigit
<1>6. CASE i <= k
  <2>1. Differs(Slice(w, 0, k), Slice(r, 0, k), i - 0)
    BY <1>1, <1>2, <1>6, SliceOfDiffers
  <2>2. a # b
    BY <1>3, <2>1, IntegerModDiffers
  <2>3. r[k + 1] = w[k + 1] /\ r[k + 2] = w[k + 2]
    BY <1>1, <1>6
  <2> QED BY <1>4, <1>5, <1>6, <2>2, <2>3 DEF HeadMisread
<1>7. CASE ~ (i <= k)
  <2>1. Slice(r, 0, k) = Slice(w, 0, k)
    BY <1>1, <1>2, <1>7, SliceOfDiffers
  <2>2. i = k + 1 \/ i = k + 2
    BY <1>1, <1>7
  <2>3. i = k + 1 => r[k + 1] # w[k + 1] /\ r[k + 2] = w[k + 2]
    BY <1>1
  <2>4. i = k + 2 => r[k + 1] = w[k + 1] /\ r[k + 2] # w[k + 2]
    BY <1>1
  <2> QED BY <1>4, <1>5, <2>1, <2>2, <2>3, <2>4 DEF HeadMisread
<1> QED BY <1>6, <1>7

LEMMA HeadExchanged ==
  ASSUME NEW w, NEW r, NEW i, Exchanged(w, r, i), NEW k \in Nat \ {0}, Len(w) = k + 2, AllDigits(w), AllDigits(r),
         NEW modulus \in Moduli
  PROVE  SwappedHead(w, r, i, k, modulus)
<1> USE DEF SwappedHead, LeadingMod
<1>1. /\ w \in Seq(Characters) /\ r \in Seq(Characters) /\ i \in 1..(k + 1) /\ w[i] # w[i + 1] /\ Len(r) = k + 2
      /\ r[i] = w[i + 1] /\ r[i + 1] = w[i] /\ \A x \in 1..(k + 2) : x # i /\ x # i + 1 => r[x] = w[x]
  BY DEF Exchanged
<1>2. 0 \in Nat /\ 0 <= k /\ k <= Len(w) /\ k <= Len(r) /\ k \in Nat /\ 0 < i
  BY <1>1
<1>3. AllDigits(Slice(w, 0, k)) /\ Slice(w, 0, k) \in Seq(0..9) /\ AllDigits(Slice(r, 0, k)) /\ Slice(r, 0, k) \in Seq(0..9)
  BY <1>1, <1>2, SliceOfDigits
<1> DEFINE a == IntegerMod(Slice(w, 0, k), modulus)
           b == IntegerMod(Slice(r, 0, k), modulus)
<1>4. a \in Residues(modulus) /\ b \in Residues(modulus)
  BY <1>3, IntegerModIsARemainder
<1>5. CheckTail(w, k) /\ CheckTail(r, k) /\ w[k] \in 0..9
  <2>1. k + 1 \in 1..Len(w) /\ k + 2 \in 1..Len(w) /\ k \in 1..Len(w) /\ Len(r) = Len(w)
    BY <1>1
  <2>2. \A x \in 1..Len(w) : w[x] \in 0..9
    BY <1>1, DigitsAreASequence
  <2>3. \A x \in 1..Len(r) : r[x] \in 0..9
    BY <1>1, DigitsAreASequence
  <2> QED BY <2>1, <2>2, <2>3 DEF CheckTail
<1>6. CASE i < k
  <2>1. Exchanged(Slice(w, 0, k), Slice(r, 0, k), i - 0)
    BY <1>1, <1>2, <1>6, SliceOfExchanged
  <2>2. a # b
    BY <1>3, <2>1, IntegerModExchanged
  <2>3. r[k + 1] = w[k + 1] /\ r[k + 2] = w[k + 2]
    BY <1>1, <1>6
  <2> QED BY <1>4, <1>5, <1>6, <2>2, <2>3 DEF HeadSwapped
<1>7. CASE i = k
  <2>1. Differs(Slice(w, 0, k), Slice(r, 0, k), i - 0)
    BY <1>1, <1>2, <1>7, SliceOfExchanged
  <2>2. /\ Len(Slice(w, 0, k)) = k /\ Slice(w, 0, k)[k] = w[k] /\ Slice(r, 0, k)[k] = w[k + 1] /\ i - 0 = k
    <3>1. /\ Len(Slice(w, 0, k)) = k - 0 /\ \A x \in 1..(k - 0) : Slice(w, 0, k)[x] = w[0 + x]
          /\ \A x \in 1..(k - 0) : Slice(r, 0, k)[x] = r[0 + x]
      BY <1>1, <1>2, SliceOfDigits, Zenon
    <3> QED BY <1>1, <1>7, <3>1
  <2>3. \E x \in Residues(modulus) : EndsWith(a, b, x, w[k], w[k + 1], modulus)
    <3>1. Differs(Slice(w, 0, k), Slice(r, 0, k), k) /\ k = Len(Slice(w, 0, k))
      BY <2>1, <2>2
    <3>2. \E x \in Residues(modulus) : EndsWith(a, b, x, Slice(w, 0, k)[k], Slice(r, 0, k)[k], modulus)
      BY <1>3, <3>1, IntegerModAtTheEnd
    <3> QED BY <2>2, <3>2
  <2>4. r[k + 1] = w[k] /\ r[k + 2] = w[k + 2] /\ w[k] # w[k + 1]
    BY <1>1, <1>7
  <2> QED BY <1>4, <1>5, <1>7, <2>3, <2>4 DEF HeadSwapped
<1>8. CASE i = k + 1
  <2>1. Slice(r, 0, k) = Slice(w, 0, k)
    BY <1>1, <1>2, <1>8, SliceOfExchanged
  <2>2. r[k + 1] = w[k + 2] /\ r[k + 2] = w[k + 1] /\ w[k + 1] # w[k + 2]
    BY <1>1, <1>8
  <2> QED BY <1>4, <1>5, <1>8, <2>1, <2>2 DEF HeadSwapped
<1> QED BY <1>1, <1>6, <1>7, <1>8

LEMMA TwoDigits ==
  ASSUME NEW d \in Seq(Characters), AllDigits(d), NEW k \in Nat, k + 2 <= Len(d)
  PROVE  AsInteger(Slice(d, k, k + 2)) = 10 * d[k + 1] + d[k + 2]
<1>1. k \in Nat /\ k + 2 \in Nat /\ k <= k + 2
  OBVIOUS
<1>2. /\ Slice(d, k, k + 2) \in Seq(0..9) /\ Len(Slice(d, k, k + 2)) = (k + 2) - k
      /\ \A x \in 1..((k + 2) - k) : Slice(d, k, k + 2)[x] = d[k + x]
  BY <1>1, SliceOfDigits
<1>3. (k + 2) - k = 2 /\ 1 \in 1..2 /\ 2 \in 1..2
  OBVIOUS
<1>4. Len(Slice(d, k, k + 2)) = 2 /\ \A x \in 1..2 : Slice(d, k, k + 2)[x] = d[k + x]
  BY <1>2, <1>3
<1>5. Slice(d, k, k + 2)[1] = d[k + 1] /\ Slice(d, k, k + 2)[2] = d[k + 2]
  BY <1>3, <1>4
<1> QED BY <1>2, <1>4, <1>5, AsIntegerSteps

ReadAs(a, p, q) == a = 10 * p + q
Sums97(a, p, q) == (a + (10 * p + q)) % 97 = 0

Twins(p, q, s, t) == p = s /\ q = t

LEMMA DigitsAreRead ==
  ASSUME NEW a, NEW p \in 0..9, NEW q \in 0..9, NEW s \in 0..9, NEW t \in 0..9, ReadAs(a, p, q), ReadAs(a, s, t)
  PROVE  Twins(p, q, s, t)
<1>1. 10 * p + q = 10 * s + t
  BY DEF ReadAs
<1> QED BY <1>1 DEF Twins

LEMMA TurnedDigits ==
  ASSUME NEW a \in 0..96, NEW p \in 0..9, NEW q \in 0..9, Sums97(a, p, q), Sums97(a, q, p)
  PROVE  p = q
<1> DEFINE A == a + (10 * p + q)
           B == a + (10 * q + p)
<1>1. A \in Int /\ B \in Int /\ A % 97 = 0 /\ B % 97 = 0 /\ A - B = 9 * (p - q)
  BY DEF Sums97
<1> HIDE DEF A, B
<1>2. (A - B) % 97 = 0
  BY <1>1
<1>3. (9 * (p - q)) % 97 = 0
  BY <1>1, <1>2
<1> QED BY <1>3

LEMMA OneMultiple ==
  ASSUME NEW a \in 0..96, NEW b \in 0..96, NEW p \in 0..9, NEW q \in 0..9, Sums97(a, p, q), Sums97(b, p, q)
  PROVE  a = b
<1> DEFINE c == 10 * p + q
<1>1. c \in Int /\ (a + c) % 97 = 0 /\ (b + c) % 97 = 0
  BY DEF Sums97
<1> HIDE DEF c
<1>2. ((a + c) - (b + c)) % 97 = 0
  BY <1>1
<1>3. (a - b) % 97 = 0
  BY <1>1, <1>2
<1> QED BY <1>3, SMT

LEMMA OneTail ==
  ASSUME NEW a \in 0..96, NEW p \in 0..9, NEW q \in 0..9, NEW s \in 0..9, NEW t \in 0..9,
         Sums97(a, p, q), Sums97(a, s, t), p = s \/ q = t \/ (p = t /\ q = s)
  PROVE  p = s /\ q = t
<1> DEFINE A == a + (10 * p + q)
           B == a + (10 * s + t)
<1>1. A \in Int /\ B \in Int /\ A % 97 = 0 /\ B % 97 = 0 /\ A - B = 10 * (p - s) + (q - t)
  BY DEF Sums97
<1> HIDE DEF A, B
<1>2. (A - B) % 97 = 0
  BY <1>1
<1>3. (10 * (p - s) + (q - t)) % 97 = 0
  BY <1>1, <1>2
<1>4. CASE p = s
  <2>1. (q - t) % 97 = 0
    BY <1>3, <1>4
  <2> QED BY <1>4, <2>1
<1>5. CASE q = t
  <2>1. (10 * (p - s)) % 97 = 0
    BY <1>3, <1>5
  <2> QED BY <1>5, <2>1
<1>6. CASE p = t /\ q = s
  <2>1. (9 * (p - q)) % 97 = 0
    BY <1>3, <1>6
  <2> QED BY <1>6, <2>1
<1> QED BY <1>4, <1>5, <1>6

LEMMA DigitsApartNine == \A p, q \in 0..9 : p # q => q - p \in (-9..9) \ {0}
OBVIOUS

(* The error is in the last of n characters. *)
DiffersLast(w, r, n) == Differs(w, r, n) /\ Len(w) = n

LEMMA LastDiffers ==
  ASSUME NEW w, NEW r, NEW n, DiffersLast(w, r, n)
  PROVE  /\ n \in Nat \ {0} /\ Len(w) = n /\ Len(r) = n /\ w[n] # r[n] /\ (\A x \in 1..(n - 1) : r[x] = w[x])
         /\ w \in Seq(Characters) /\ r \in Seq(Characters)
BY DEF DiffersLast, Differs

LEMMA LastSumStays ==
  ASSUME NEW w, NEW r, NEW n, DiffersLast(w, r, n), NEW ws, IsWeights(ws), Len(ws) = n - 1
  PROVE  WeightedSum(w, ws) = WeightedSum(r, ws)
<1>1. Differs(w, r, n) /\ ~ (n <= Len(ws))
  BY DEF DiffersLast, Differs
<1> QED BY <1>1, SumStays

LEMMA LastSliceStays ==
  ASSUME NEW w, NEW r, NEW n, DiffersLast(w, r, n), NEW k, k = n - 1
  PROVE  Slice(w, 0, k) = Slice(r, 0, k)
<1>1. Differs(w, r, n) /\ 0 \in Nat /\ k \in Nat /\ 0 <= k /\ k <= Len(w) /\ k < n
  BY DEF DiffersLast, Differs
<1> QED BY <1>1, SliceOfDiffers

LEMMA PrefixOfDigits ==
  ASSUME NEW d \in Seq(Characters), AllDigits(d), NEW k \in Nat, k <= Len(d)
  PROVE  /\ Slice(d, 0, k) \in Seq(0..9) /\ Len(Slice(d, 0, k)) = k /\ AllDigits(Slice(d, 0, k))
         /\ Slice(d, 0, k) \in Seq(Characters)
         /\ \A x \in 1..k : Slice(d, 0, k)[x] = d[x]
<1>1. ASSUME NEW from \in Nat, from = 0
      PROVE  /\ Slice(d, from, k) \in Seq(0..9) /\ Len(Slice(d, from, k)) = k - from /\ AllDigits(Slice(d, from, k))
             /\ Slice(d, from, k) \in Seq(Characters)
             /\ \A x \in 1..(k - from) : Slice(d, from, k)[x] = d[from + x]
  <2>1. from <= k
    BY <1>1
  <2> QED BY <2>1, SliceOfDigits
<1>2. ASSUME NEW from \in Nat, from = 0 PROVE k - from = k /\ \A x \in 1..k : from + x = x
  BY <1>2
<1> QED BY <1>1, <1>2

LEMMA IntegerModOneMore ==
  ASSUME NEW d \in Seq(Characters), AllDigits(d), NEW n \in Nat \ {0}, Len(d) = n, NEW k, k = n - 1, NEW modulus \in Moduli
  PROVE  /\ IntegerMod(d, modulus) = (10 * IntegerMod(Slice(d, 0, k), modulus) + d[n]) % modulus
         /\ IntegerMod(Slice(d, 0, k), modulus) \in Residues(modulus)
<1>0. modulus \in Nat \ {0}
  BY DEF Moduli
<1> DEFINE s == Slice(d, 0, k)
           step == IntegerModFn(modulus)
<1>1. /\ d \in Seq(0..9) /\ s \in Seq(0..9) /\ Len(s) = k /\ k \in Nat /\ k \in 0..k
      /\ \A x \in 1..k : s[x] = d[x]
      /\ d[n] \in 0..9
  <2>1. k \in Nat /\ k <= Len(d)
    OBVIOUS
  <2>2. s \in Seq(0..9) /\ Len(s) = k /\ \A x \in 1..k : s[x] = d[x]
    BY <2>1, PrefixOfDigits
  <2>3. d \in Seq(0..9) /\ d[n] \in 0..9
    BY DigitsAreASequence
  <2> HIDE DEF s
  <2> QED BY <2>1, <2>2, <2>3
<1> HIDE DEF s
<1>2. PICK c : Over(c, d, Residues(modulus), 0, IntegerModFn(modulus)) /\ IntegerMod(d, modulus) = c[Len(d)]
  BY <1>0, <1>1, IntegerModWalks, Zenon
<1>3. PICK e : Over(e, s, Residues(modulus), 0, IntegerModFn(modulus)) /\ IntegerMod(s, modulus) = e[Len(s)]
  BY <1>0, <1>1, IntegerModWalks, Zenon
<1>4. Meet(c, e, 0) /\ Moves(c, d, k, step) /\ Moves(e, s, k, step) /\ Alike(d, s, 1, k)
  <2> HIDE DEF step
  <2>1. Over(c, d, Residues(modulus), 0, step) /\ Over(e, s, Residues(modulus), 0, step)
    BY <1>2, <1>3 DEF step
  <2>2. Meet(c, e, 0)
    BY <2>1, Zenon DEF Over, Meet
  <2>3. \A x \in 1..k : x \in 1..Len(d) /\ x \in 1..Len(s)
    BY <1>1
  <2>4. Moves(c, d, k, step) /\ Moves(e, s, k, step)
    BY <2>1, <2>3, Zenon DEF Over, Moves
  <2>5. Alike(d, s, 1, k)
    BY <1>1, Zenon DEF Alike
  <2> QED BY <2>2, <2>4, <2>5
<1>5. IsIntegerModFn(step, modulus)
  BY <1>0, IntegerModFnSteps, Zenon
<1>6. c[n] = step[<<c[k], d[n]>>] /\ c[k] \in Residues(modulus)
  <2> HIDE DEF step
  <2>1. Over(c, d, Residues(modulus), 0, step)
    BY <1>2 DEF step
  <2>2. n \in 1..Len(d) /\ k \in 0..Len(d)
    BY <1>1
  <2> QED BY <2>1, <2>2 DEF Over
<1> HIDE DEF step
<1>7. Meet(c, e, k)
  BY <1>1, <1>4, TogetherAtFirst, Zenon
<1>8. c[n] = (10 * c[k] + d[n]) % modulus
  BY <1>1, <1>5, <1>6 DEF IsIntegerModFn, IntegerModStep
<1>9. IntegerMod(s, modulus) = c[k] /\ IntegerMod(d, modulus) = c[n]
  BY <1>1, <1>2, <1>3, <1>7 DEF Meet
<1> QED BY <1>6, <1>8, <1>9 DEF s

(* Sums of looked-up values, modulo twenty-six. *)
GrowthOf26(a, b, delta) == Grows(a, b, delta) /\ delta % 26 # 0

LEMMA Sees26 ==
  ASSUME NEW a, NEW b, NEW delta, Grows(a, b, delta), delta % 26 # 0
  PROVE  a \in Int /\ b \in Int /\ a % 26 # b % 26
BY DEF Grows

LEMMA GapTurns ==
  ASSUME NEW A \in 0..25, NEW B \in 0..25, NEW p \in 0..25, NEW q \in 0..25, ((B - q) - (A - p)) % 26 # 0
  PROVE  ((B - A) + (p - q)) % 26 # 0 /\ ((q - p) + (A - B)) % 26 # 0
<1>1. (B - A) + (p - q) = (B - q) - (A - p) /\ (q - p) + (A - B) = 0 - ((B - q) - (A - p))
  OBVIOUS
<1>2. ASSUME NEW x \in Int, x % 26 # 0 PROVE (0 - x) % 26 # 0
  BY <1>2
<1>3. (B - q) - (A - p) \in Int
  OBVIOUS
<1> QED BY <1>1, <1>2, <1>3, Zenon

(* Letters have the numbers ten to thirty-five. *)
Place(name) == CHOOSE i \in DOMAIN Letters : Letters[i] = name

LEMMA LettersAreDistinct == \A i, j \in 1..26 : Letters[i] = Letters[j] => i = j
<1> TAKE i, j \in 1..26
<1>1. \/ i = 1 \/ i = 2 \/ i = 3 \/ i = 4 \/ i = 5 \/ i = 6 \/ i = 7 \/ i = 8 \/ i = 9 \/ i = 10 \/ i = 11 \/ i = 12 \/ i = 13
      \/ i = 14 \/ i = 15 \/ i = 16 \/ i = 17 \/ i = 18 \/ i = 19 \/ i = 20 \/ i = 21 \/ i = 22 \/ i = 23 \/ i = 24 \/ i = 25 \/ i = 26
  OBVIOUS
<1>2. \/ j = 1 \/ j = 2 \/ j = 3 \/ j = 4 \/ j = 5 \/ j = 6 \/ j = 7 \/ j = 8 \/ j = 9 \/ j = 10 \/ j = 11 \/ j = 12 \/ j = 13
      \/ j = 14 \/ j = 15 \/ j = 16 \/ j = 17 \/ j = 18 \/ j = 19 \/ j = 20 \/ j = 21 \/ j = 22 \/ j = 23 \/ j = 24 \/ j = 25 \/ j = 26
  OBVIOUS
<1> QED BY <1>1, <1>2 DEF Letters

LEMMA LetterIs ==
  ASSUME NEW k \in 1..26, NEW name, Letters[k] = name
  PROVE  Letter(name) = 9 + k
<1>1. DOMAIN Letters = 1..26
  BY DEF Letters
<1>2. Place(name) \in 1..26 /\ Letters[Place(name)] = name
  BY <1>1 DEF Place
<1>3. Place(name) = k
  BY <1>2, LettersAreDistinct
<1> QED BY <1>3 DEF Letter, Place

LEMMA LettersAre ==
  /\ Letter("A") = 10 /\ Letter("B") = 11 /\ Letter("C") = 12 /\ Letter("D") = 13 /\ Letter("E") = 14
  /\ Letter("F") = 15 /\ Letter("G") = 16 /\ Letter("H") = 17 /\ Letter("I") = 18 /\ Letter("J") = 19
  /\ Letter("K") = 20 /\ Letter("L") = 21 /\ Letter("M") = 22 /\ Letter("N") = 23 /\ Letter("O") = 24
  /\ Letter("P") = 25 /\ Letter("Q") = 26 /\ Letter("R") = 27 /\ Letter("S") = 28 /\ Letter("T") = 29
  /\ Letter("U") = 30 /\ Letter("V") = 31 /\ Letter("W") = 32 /\ Letter("X") = 33 /\ Letter("Y") = 34
  /\ Letter("Z") = 35
<1>1. /\ Letters[1] = "A" /\ Letters[2] = "B" /\ Letters[3] = "C" /\ Letters[4] = "D" /\ Letters[5] = "E"
      /\ Letters[6] = "F" /\ Letters[7] = "G" /\ Letters[8] = "H" /\ Letters[9] = "I" /\ Letters[10] = "J"
      /\ Letters[11] = "K" /\ Letters[12] = "L" /\ Letters[13] = "M" /\ Letters[14] = "N" /\ Letters[15] = "O"
      /\ Letters[16] = "P" /\ Letters[17] = "Q" /\ Letters[18] = "R" /\ Letters[19] = "S" /\ Letters[20] = "T"
      /\ Letters[21] = "U" /\ Letters[22] = "V" /\ Letters[23] = "W" /\ Letters[24] = "X" /\ Letters[25] = "Y"
      /\ Letters[26] = "Z"
  BY DEF Letters
<1> QED BY <1>1, LetterIs

LEMMA NamesAre ==
  ASSUME NEW names, NEW v, v \in ToSet(Alphabet(names))
  PROVE  \E i \in DOMAIN names : v = Letter(names[i])
BY DEF ToSet, Alphabet

-----------------------------------------------------------------------------
(* Words put together, and digits behind a leading one. *)
LEMMA JoinIs ==
  ASSUME NEW A, NEW u \in Seq(A), NEW v \in Seq(A)
  PROVE  /\ u \o v \in Seq(A) /\ Len(u \o v) = Len(u) + Len(v)
         /\ \A x \in 1..Len(u) : (u \o v)[x] = u[x]
         /\ \A x \in 1..Len(v) : (u \o v)[Len(u) + x] = v[x]
<1>1. u \o v \in Seq(A) /\ Len(u \o v) = Len(u) + Len(v)
  OBVIOUS
<1>2. \A x \in 1..Len(u) : (u \o v)[x] = u[x]
  OBVIOUS
<1>3. \A x \in 1..Len(v) : (u \o v)[Len(u) + x] = v[x]
  OBVIOUS
<1> QED BY <1>1, <1>2, <1>3

LEMMA LedByIs ==
  ASSUME NEW k \in 0..9, NEW s \in Seq(0..9)
  PROVE  /\ <<k>> \o s \in Seq(0..9) /\ Len(<<k>> \o s) = Len(s) + 1
         /\ (<<k>> \o s)[1] = k
         /\ \A x \in 2..(Len(s) + 1) : (<<k>> \o s)[x] = s[x - 1]
<1>1. <<k>> \in Seq(0..9) /\ Len(<<k>>) = 1 /\ <<k>>[1] = k /\ Len(s) \in Nat
  OBVIOUS
<1>2. <<k>> \o s \in Seq(0..9) /\ Len(<<k>> \o s) = Len(s) + 1 /\ (<<k>> \o s)[1] = k
  BY <1>1
<1>3. \A x \in 2..(Len(s) + 1) : (<<k>> \o s)[x] = s[x - 1]
  BY <1>1
<1> QED BY <1>2, <1>3

(* A leading zero does not count. *)
LEMMA AsIntegerOfALead ==
  ASSUME NEW s \in Seq(0..9)
  PROVE  AsInteger(<<0>> \o s) = AsInteger(s)
<1> DEFINE d == <<0>> \o s
           n == Len(s)
<1>1. /\ d \in Seq(0..9) /\ Len(d) = n + 1 /\ d[1] = 0 /\ n \in Nat
      /\ \A x \in 2..(n + 1) : d[x] = s[x - 1]
  <2>1. 0 \in 0..9
    OBVIOUS
  <2> QED BY <2>1, LedByIs
<1>2. PICK c : Over(c, s, Nat, 0, AsIntegerFn) /\ AsInteger(s) = c[Len(s)]
  BY AsIntegerWalks
<1> HIDE DEF d
<1>3. PICK e : Over(e, d, Nat, 0, AsIntegerFn) /\ AsInteger(d) = e[Len(d)]
  BY <1>1, AsIntegerWalks
<1>4. c \in [0..n -> Nat] /\ c[0] = 0 /\ \A k \in 1..n : c[k] = AsIntegerFn[<<c[k - 1], s[k]>>]
  BY <1>2 DEF Over
<1>5. e \in [0..(n + 1) -> Nat] /\ e[0] = 0 /\ \A k \in 1..(n + 1) : e[k] = AsIntegerFn[<<e[k - 1], d[k]>>]
  <2> HIDE DEF n
  <2> QED BY <1>1, <1>3 DEF Over
<1> DEFINE Follows == {k \in 0..n : e[k + 1] = c[k]}
<1>6. \A k \in 1..n : s[k] \in 0..9
  OBVIOUS
<1>8. e[1] = 0
  <2>1. 1 \in 1..(n + 1) /\ 1 - 1 = 0
    BY <1>1
  <2>2. e[1] = AsIntegerFn[<<0, 0>>]
    BY <1>1, <1>5, <2>1
  <2>3. AsIntegerFn[<<0, 0>>] = AsIntegerStep(0, 0)
    <3>1. 0 \in Nat /\ 0 \in 0..9
      OBVIOUS
    <3> QED BY <3>1, AsIntegerFnIs, Zenon
  <2> QED BY <2>2, <2>3 DEF AsIntegerStep
<1> HIDE DEF n
<1>9. 0 \in Follows
  BY <1>1, <1>4, <1>8
<1>10. ASSUME NEW k \in 0..n, k + 1 \in 0..n, k \in Follows PROVE k + 1 \in Follows
  <2>1. k + 1 \in 1..n /\ (k + 1) + 1 \in 1..(n + 1) /\ (k + 1) - 1 = k /\ ((k + 1) + 1) - 1 = k + 1 /\ (k + 1) + 1 \in 2..(n + 1)
    BY <1>1, <1>10
  <2>2. c[k + 1] = AsIntegerFn[<<c[k], s[k + 1]>>]
    BY <1>4, <2>1
  <2>3. e[(k + 1) + 1] = AsIntegerFn[<<e[k + 1], s[k + 1]>>]
    BY <1>1, <1>5, <2>1, SMT
  <2> QED BY <1>10, <2>2, <2>3
<1> HIDE DEF Follows
<1>11. \A k \in 0..n : k \in Follows
  BY <1>1, <1>9, <1>10, PassedOn
<1>12. n \in Follows
  BY <1>1, <1>11
<1>13. e[n + 1] = c[n]
  BY <1>12 DEF Follows
<1> QED BY <1>1, <1>2, <1>3, <1>13 DEF d, n

LEMMA DigitSequences ==
  ASSUME NEW d \in Seq(0..9)
  PROVE  d \in Seq(Characters) /\ AllDigits(d)
<1>1. \A x \in 1..Len(d) : d[x] \in 0..9
  OBVIOUS
<1>2. AllDigits(d)
  BY <1>1 DEF AllDigits, IsDigit
<1>3. 0..9 \subseteq Characters
  BY DEF Characters
<1> QED BY <1>2, <1>3

LEMMA DigitPlaces ==
  ASSUME NEW n \in Seq(Characters), NEW from \in Nat, NEW to \in Nat, from <= to, to <= Len(n), AllDigits(Slice(n, from, to))
  PROVE  /\ Slice(n, from, to) \in Seq(0..9) /\ Slice(n, from, to) \in Seq(Characters)
         /\ Len(Slice(n, from, to)) = to - from
         /\ \A x \in (from + 1)..to : n[x] \in 0..9 /\ Slice(n, from, to)[x - from] = n[x]
<1> DEFINE s == Slice(n, from, to)
<1>1. s \in Seq(Characters) /\ Len(s) = to - from /\ (\A x \in 1..(to - from) : s[x] = n[from + x]) /\ AllDigits(s)
  BY SliceIs
<1> HIDE DEF s
<1>2. s \in Seq(0..9) /\ \A x \in 1..(to - from) : s[x] \in 0..9
  BY <1>1, DigitsAreASequence
<1>3. ASSUME NEW x \in (from + 1)..to PROVE n[x] \in 0..9 /\ s[x - from] = n[x]
  <2>1. x - from \in 1..(to - from) /\ from + (x - from) = x
    OBVIOUS
  <2> QED BY <1>1, <1>2, <2>1
<1>4. /\ s \in Seq(0..9) /\ s \in Seq(Characters) /\ Len(s) = to - from
      /\ \A x \in (from + 1)..to : n[x] \in 0..9 /\ s[x - from] = n[x]
  BY <1>1, <1>2, <1>3
<1> QED BY <1>4 DEF s

LEMMA TakenFromTheStart ==
  ASSUME NEW n \in Seq(Characters), NEW k \in Nat, k <= Len(n)
  PROVE  Slice(n, 0, k) \in Seq(Characters) /\ Len(Slice(n, 0, k)) = k /\ \A x \in 1..k : Slice(n, 0, k)[x] = n[x]
<1>1. ASSUME NEW from \in Nat, from = 0
      PROVE  Slice(n, from, k) \in Seq(Characters) /\ Len(Slice(n, from, k)) = k - from
             /\ \A x \in 1..(k - from) : Slice(n, from, k)[x] = n[from + x]
  <2>1. from <= k
    BY <1>1
  <2> QED BY <2>1, SliceIs
<1>2. ASSUME NEW from \in Nat, from = 0 PROVE k - from = k /\ \A x \in 1..k : from + x = x
  BY <1>2
<1>3. ASSUME NEW from \in Nat, from = 0
      PROVE  Slice(n, from, k) \in Seq(Characters) /\ Len(Slice(n, from, k)) = k /\ \A x \in 1..k : Slice(n, from, k)[x] = n[x]
  BY <1>1, <1>2, <1>3
<1>4. 0 \in Nat
  OBVIOUS
<1> QED BY <1>3, <1>4, Zenon

LEMMA CheckFromSum ==
  ASSUME NEW a \in 0..9, NEW b \in 0..9, a # b
  PROVE  (10 - a) % 10 # (10 - b) % 10 /\ (10 - a) % 10 \in 0..9 /\ (10 - b) % 10 \in 0..9
OBVIOUS

LEMMA LuhnSumIsADigit ==
  ASSUME NEW d \in Seq(0..9)
  PROVE  LuhnSum(d) \in 0..9
<1>1. PICK n \in Nat : Len(d) = n
  OBVIOUS
<1>2. PICK term : term = LuhnTerm(n)
  OBVIOUS
<1>3. IsTerm(term, n, 0..9)
  BY <1>2, LuhnTermIs
<1>4. [x \in 1..n |-> term[<<x, d[x]>>]] \in [1..n -> Int]
  <2>1. n <= Len(d)
    BY <1>1
  <2> QED BY <1>3, <2>1, SumOverIs
<1>5. SumOver(term, d, n) \in Int
  BY <1>4, SumIsAnInteger DEF SumOver
<1>6. LuhnSum(d) = SumOver(term, d, n) % 10
  BY <1>1, <1>2, LuhnSumIs
<1> QED BY <1>5, <1>6, SMT

(* With the check digit written out, the eight digits are a Luhn number. *)
LEMMA LuhnSumCompleted ==
  ASSUME NEW u, NEW v, Differs(u, v, 8), AllDigits(u), AllDigits(v), Len(u) = 8, u[8] = 0
  PROVE  \E S \in Int : LuhnSum(u) = S % 10 /\ LuhnSum(v) = (S + v[8]) % 10 /\ v[8] \in 0..9
<1>1. u \in Seq(Characters) /\ v \in Seq(Characters) /\ Len(v) = 8
  BY DEF Differs
<1>2. u \in Seq(0..9) /\ v \in Seq(0..9) /\ v[8] \in 0..9
  <2>1. u \in Seq(0..9) /\ v \in Seq(0..9) /\ \A x \in 1..Len(v) : v[x] \in 0..9
    BY <1>1, DigitsAreASequence
  <2>2. 8 \in 1..Len(v)
    BY <1>1
  <2>3. v[8] \in 0..9
    BY <2>1, <2>2, Zenon
  <2> QED BY <2>1, <2>3
<1>3. PICK term : term = LuhnTerm(8)
  OBVIOUS
<1>4. 8 \in Nat
  OBVIOUS
<1>5. IsTerm(term, 8, 0..9) /\ \A x \in 1..8 : \A a \in 0..9 : term[<<x, a>>] = LuhnDigit(8 - x, a)
  BY <1>3, <1>4, LuhnTermIs, Zenon
<1>6. Grows(SumOver(term, u, 8), SumOver(term, v, 8), Misread1(term, u, v, 8, 8))
  <2>1. IsTerm(term, 8, 0..9) /\ 8 <= Len(u)
    BY <1>5
  <2> QED BY <1>2, <2>1, SumOverDiffers
<1>7. Misread1(term, u, v, 8, 8) = v[8]
  <2>1. term[<<8, v[8]>>] = LuhnDigit(8 - 8, v[8]) /\ term[<<8, 0>>] = LuhnDigit(8 - 8, 0)
    <3>1. 8 \in 1..8 /\ 0 \in 0..9
      OBVIOUS
    <3> QED BY <1>2, <1>5, <3>1, Zenon
  <2>2. LuhnDigit(8 - 8, v[8]) = v[8] /\ LuhnDigit(8 - 8, 0) = 0
    BY DEF LuhnDigit
  <2> QED BY <1>2, <2>1, <2>2 DEF Misread1
<1>8. LuhnSum(u) = SumOver(term, u, 8) % 10 /\ LuhnSum(v) = SumOver(term, v, 8) % 10
  BY <1>1, <1>2, <1>3, <1>4, LuhnSumIs
<1> QED BY <1>2, <1>6, <1>7, <1>8 DEF Grows

LEMMA AppendedZero ==
  ASSUME NEW s \in Seq(Characters)
  PROVE  /\ Append(s, 0) \in Seq(Characters) /\ Len(Append(s, 0)) = Len(s) + 1
         /\ (\A x \in 1..Len(s) : Append(s, 0)[x] = s[x]) /\ Append(s, 0)[Len(s) + 1] = 0
<1>1. 0 \in Characters
  BY DEF Characters
<1>2. Append(s, 0) \in Seq(Characters) /\ Len(Append(s, 0)) = Len(s) + 1
  BY <1>1
<1>3. (\A x \in 1..Len(s) : Append(s, 0)[x] = s[x]) /\ Append(s, 0)[Len(s) + 1] = 0
  BY <1>1
<1> QED BY <1>2, <1>3

LEMMA EightOrNine ==
  ASSUME NEW k, k \in {8, 9}
  PROVE  k \in Nat /\ 2 <= 7 /\ 7 <= k /\ 8 \in 8..k /\ (k = 9 => 9 \in 8..k) /\ (k # 8 => k = 9)
OBVIOUS

LEMMA LedIs ==
  ASSUME NEW s \in Seq(Characters), NEW k \in Characters, NEW n \in Nat, Len(s) = n
  PROVE  /\ <<k>> \o s \in Seq(Characters) /\ Len(<<k>> \o s) = n + 1 /\ (<<k>> \o s)[1] = k
         /\ \A x \in 1..n : (<<k>> \o s)[x + 1] = s[x]
<1>1. <<k>> \o s \in Seq(Characters) /\ Len(<<k>> \o s) = Len(s) + 1 /\ (<<k>> \o s)[1] = k
  OBVIOUS
<1>2. \A x \in 1..Len(s) : (<<k>> \o s)[x + 1] = s[x]
  OBVIOUS
<1> QED BY <1>1, <1>2, Zenon

LEMMA FollowedIs ==
  ASSUME NEW s \in Seq(Characters), NEW k \in Characters, NEW n \in Nat, Len(s) = n
  PROVE  /\ s \o <<k>> \in Seq(Characters) /\ Len(s \o <<k>>) = n + 1 /\ (s \o <<k>>)[n + 1] = k
         /\ \A x \in 1..n : (s \o <<k>>)[x] = s[x]
<1>1. s \o <<k>> \in Seq(Characters) /\ Len(s \o <<k>>) = Len(s) + 1 /\ (s \o <<k>>)[Len(s) + 1] = k
  OBVIOUS
<1>2. \A x \in 1..Len(s) : (s \o <<k>>)[x] = s[x]
  OBVIOUS
<1> QED BY <1>1, <1>2, Zenon

LEMMA SumOfWeights ==
  ASSUME NEW d \in Seq(Characters), NEW ws, IsWeights(ws)
  PROVE  WeightedSum(d, ws) \in Int
<1>1. PICK n : n = Min({Len(d), Len(ws)})
  OBVIOUS
<1>2. PICK term : term = SumTerm(ws, n)
  OBVIOUS
<1>3. WeightedSum(d, ws) = SumOver(term, d, n) /\ n \in Nat /\ n <= Len(d) /\ n <= Len(ws)
  BY <1>1, <1>2, WeightedSumIs
<1>4. IsTerm(term, n, Characters)
  BY <1>2, <1>3, SumTermIs
<1>5. [x \in 1..n |-> term[<<x, d[x]>>]] \in [1..n -> Int]
  BY <1>3, <1>4, SumOverIs
<1>6. SumOver(term, d, n) \in Int
  BY <1>3, <1>5, SumIsAnInteger DEF SumOver
<1> QED BY <1>3, <1>6

LEMMA SameWord ==
  ASSUME NEW u \in Seq(Characters), NEW v \in Seq(Characters), NEW n, Len(u) = n, Len(v) = n, \A x \in 1..n : v[x] = u[x]
  PROVE  u = v
<1>1. Len(u) = Len(v) /\ \A x \in 1..Len(u) : v[x] = u[x]
  BY Zenon
<1> QED BY <1>1

LEMMA DifferentWords ==
  ASSUME NEW u \in Seq(Characters), NEW v \in Seq(Characters), NEW n, Len(u) = n, Len(v) = n, NEW j \in 1..n,
         v[j] # u[j], \A x \in 1..n : x # j => v[x] = u[x]
  PROVE  Differs(u, v, j)
BY Zenon DEF Differs

LEMMA ExchangedWords ==
  ASSUME NEW u \in Seq(Characters), NEW v \in Seq(Characters), NEW n, Len(u) = n, Len(v) = n, NEW j \in 1..(n - 1),
         u[j] # u[j + 1], v[j] = u[j + 1], v[j + 1] = u[j], \A x \in 1..n : x # j /\ x # j + 1 => v[x] = u[x]
  PROVE  Exchanged(u, v, j)
BY Zenon DEF Exchanged

Remainder23(a, e) == (a + 9 * e) % 23

JoinOf(s, u, t, m, n) ==
  /\ m \in Nat /\ n \in Nat /\ s \in Seq(Characters) /\ Len(s) = m + n
  /\ \A x \in 1..m : s[x] = u[x]
  /\ \A x \in 1..n : s[m + x] = t[x]

LEMMA Joined ==
  ASSUME NEW u \in Seq(Characters), NEW t \in Seq(Characters), NEW m, NEW n, Len(u) = m, Len(t) = n
  PROVE  JoinOf(u \o t, u, t, m, n)
<1>1. Len(u) \in Nat /\ Len(t) \in Nat
  OBVIOUS
<1>2. u \o t \in Seq(Characters) /\ Len(u \o t) = Len(u) + Len(t)
  OBVIOUS
<1>3. \A x \in 1..Len(u) : (u \o t)[x] = u[x]
  OBVIOUS
<1>4. \A x \in 1..Len(t) : (u \o t)[Len(u) + x] = t[x]
  OBVIOUS
<1> QED BY <1>1, <1>2, <1>3, <1>4, Zenon DEF JoinOf

(* What follows, or leads, two words moves the place where they differ. *)
JoinedDiffer(u, v, t, i) ==
  Differs(u \o t, v \o t, i) /\ (u \o t)[i] = u[i] /\ (v \o t)[i] = v[i]

LEMMA JoinDiffers ==
  ASSUME NEW u, NEW v, NEW i, Differs(u, v, i), NEW t \in Seq(Characters)
  PROVE  JoinedDiffer(u, v, t, i)
<1>1. PICK m, n : Len(u) = m /\ Len(t) = n /\ t \in Seq(Characters)
  OBVIOUS
<1>2. /\ u \in Seq(Characters) /\ v \in Seq(Characters) /\ Len(u) = m /\ Len(v) = m
      /\ i \in 1..m /\ v[i] # u[i] /\ \A x \in 1..m : x # i => v[x] = u[x]
  BY <1>1, Zenon DEF Differs
<1>3. /\ m \in Nat /\ n \in Nat /\ u \o t \in Seq(Characters) /\ Len(u \o t) = m + n
      /\ (\A x \in 1..m : (u \o t)[x] = u[x]) /\ (\A x \in 1..n : (u \o t)[m + x] = t[x])
  <2>1. JoinOf(u \o t, u, t, m, n)
    BY <1>1, <1>2, Joined, Zenon
  <2> QED BY <2>1, Zenon DEF JoinOf
<1>4. /\ v \o t \in Seq(Characters) /\ Len(v \o t) = m + n
      /\ (\A x \in 1..m : (v \o t)[x] = v[x]) /\ (\A x \in 1..n : (v \o t)[m + x] = t[x])
  <2>1. JoinOf(v \o t, v, t, m, n)
    BY <1>1, <1>2, Joined, Zenon
  <2> QED BY <2>1, Zenon DEF JoinOf
<1>5. PICK p, q : p = u \o t /\ q = v \o t
  OBVIOUS
<1>6. i \in 1..(m + n) /\ p[i] = u[i] /\ q[i] = v[i] /\ q[i] # p[i]
  <2>1. i \in 1..(m + n)
    BY <1>2, <1>3
  <2> QED BY <1>2, <1>3, <1>4, <1>5, <2>1, Zenon
<1>7. \A x \in 1..(m + n) : x # i => q[x] = p[x]
  <2> SUFFICES ASSUME NEW x \in 1..(m + n), x # i PROVE q[x] = p[x]
    OBVIOUS
  <2>1. CASE x \in 1..m
    BY <1>2, <1>3, <1>4, <1>5, <2>1, Zenon
  <2>2. CASE x \notin 1..m
    <3>1. PICK y : y = x - m
      OBVIOUS
    <3>2. y \in 1..n /\ m + y = x
      BY <1>3, <2>2, <3>1
    <3> QED BY <1>3, <1>4, <1>5, <3>2, Zenon
  <2> QED BY <2>1, <2>2
<1>8. Differs(p, q, i)
  BY <1>3, <1>4, <1>5, <1>6, <1>7, DifferentWords, Zenon
<1> QED BY <1>5, <1>6, <1>8, Zenon DEF JoinedDiffer

JoinedExchanged(u, v, t, i) ==
  Exchanged(u \o t, v \o t, i) /\ (u \o t)[i] = u[i] /\ (u \o t)[i + 1] = u[i + 1]

LEMMA JoinExchanged ==
  ASSUME NEW u, NEW v, NEW i, Exchanged(u, v, i), NEW t \in Seq(Characters)
  PROVE  JoinedExchanged(u, v, t, i)
<1>1. PICK m, n : Len(u) = m /\ Len(t) = n /\ t \in Seq(Characters)
  OBVIOUS
<1>2. /\ u \in Seq(Characters) /\ v \in Seq(Characters) /\ Len(u) = m /\ Len(v) = m
      /\ i \in 1..(m - 1) /\ u[i] # u[i + 1] /\ v[i] = u[i + 1] /\ v[i + 1] = u[i]
      /\ \A x \in 1..m : x # i /\ x # i + 1 => v[x] = u[x]
  BY <1>1, Zenon DEF Exchanged
<1>3. /\ m \in Nat /\ n \in Nat /\ u \o t \in Seq(Characters) /\ Len(u \o t) = m + n
      /\ (\A x \in 1..m : (u \o t)[x] = u[x]) /\ (\A x \in 1..n : (u \o t)[m + x] = t[x])
  <2>1. JoinOf(u \o t, u, t, m, n)
    BY <1>1, <1>2, Joined, Zenon
  <2> QED BY <2>1, Zenon DEF JoinOf
<1>4. /\ v \o t \in Seq(Characters) /\ Len(v \o t) = m + n
      /\ (\A x \in 1..m : (v \o t)[x] = v[x]) /\ (\A x \in 1..n : (v \o t)[m + x] = t[x])
  <2>1. JoinOf(v \o t, v, t, m, n)
    BY <1>1, <1>2, Joined, Zenon
  <2> QED BY <2>1, Zenon DEF JoinOf
<1>5. PICK p, q : p = u \o t /\ q = v \o t
  OBVIOUS
<1>6. i \in 1..((m + n) - 1) /\ p[i] = u[i] /\ q[i] = v[i] /\ p[i + 1] = u[i + 1] /\ q[i + 1] = v[i + 1]
  <2>1. i \in 1..((m + n) - 1) /\ i \in 1..m /\ i + 1 \in 1..m
    BY <1>2, <1>3
  <2> QED BY <1>3, <1>4, <1>5, <2>1, Zenon
<1>7. \A x \in 1..(m + n) : x # i /\ x # i + 1 => q[x] = p[x]
  <2> SUFFICES ASSUME NEW x \in 1..(m + n), x # i, x # i + 1 PROVE q[x] = p[x]
    OBVIOUS
  <2>1. CASE x \in 1..m
    BY <1>2, <1>3, <1>4, <1>5, <2>1, Zenon
  <2>2. CASE x \notin 1..m
    <3>1. PICK y : y = x - m
      OBVIOUS
    <3>2. y \in 1..n /\ m + y = x
      BY <1>3, <2>2, <3>1
    <3> QED BY <1>3, <1>4, <1>5, <3>2, Zenon
  <2> QED BY <2>1, <2>2
<1>8. p[i] # p[i + 1] /\ q[i] = p[i + 1] /\ q[i + 1] = p[i]
  BY <1>2, <1>6, Zenon
<1>9. Exchanged(p, q, i)
  BY <1>3, <1>4, <1>5, <1>6, <1>7, <1>8, ExchangedWords, Zenon
<1> QED BY <1>5, <1>6, <1>9, Zenon DEF JoinedExchanged

LEMMA JoinedDigits ==
  ASSUME NEW u \in Seq(Characters), NEW t \in Seq(Characters), AllDigits(u), AllDigits(t)
  PROVE  AllDigits(u \o t)
<1>1. u \in Seq(0..9) /\ t \in Seq(0..9)
  BY DEF AllDigits, IsDigit
<1>2. u \o t \in Seq(0..9)
  BY <1>1
<1> QED BY <1>2, DigitSequences

LEMMA CheckIsSeen ==
  ASSUME NEW s \in Int, NEW delta \in Int, NEW a \in 0..9, NEW b \in 0..9,
         a = (10 - (s % 10)) % 10, b = (10 - ((s + delta) % 10)) % 10
  PROVE  (delta + (b - a)) % 10 = 0
OBVIOUS

(* FlattenSeq, by which an ISIN's letters are written as two digits each. *)
FlatSolves(h, parts, n) == h = [i \in 1..n |-> IF i = 1 THEN parts[i] ELSE h[i-1] \o parts[i]]
FlatSteps(h, parts, n) ==
  /\ h \in [1..n -> Seq(Characters)] /\ h[1] = parts[1]
  /\ \A k \in 0..n : k + 1 \in 0..n /\ k # 0 => h[k + 1] = h[k] \o parts[k + 1]

LEMMA FlatStepsSolve ==
  ASSUME NEW n \in Nat \ {0}, NEW parts, NEW h, FlatSteps(h, parts, n)
  PROVE  FlatSolves(h, parts, n)
<1>1. \A x \in 1..n : h[x] = IF x = 1 THEN parts[x] ELSE h[x-1] \o parts[x]
  <2> TAKE x \in 1..n
  <2>1. CASE x = 1
    BY <2>1 DEF FlatSteps
  <2>2. CASE x # 1
    <3>1. x - 1 \in 0..n /\ (x - 1) + 1 = x /\ x \in 0..n /\ x - 1 # 0
      BY <2>2
    <3>2. h[(x - 1) + 1] = h[x - 1] \o parts[(x - 1) + 1]
      BY <3>1, Zenon DEF FlatSteps
    <3> QED BY <2>2, <3>1, <3>2, Zenon
  <2> QED BY <2>1, <2>2
<1>2. h = [x \in 1..n |-> h[x]]
  BY DEF FlatSteps
<1>3. [x \in 1..n |-> h[x]] = [x \in 1..n |-> IF x = 1 THEN parts[x] ELSE h[x-1] \o parts[x]]
  BY <1>1, Zenon
<1> QED BY <1>2, <1>3, Zenon DEF FlatSolves

LEMMA FlatExists ==
  ASSUME NEW n \in Nat \ {0}, NEW parts \in [1..n -> Seq(Characters)]
  PROVE  \E h : FlatSteps(h, parts, n)
<1> DEFINE Upto(g, k) == /\ g \in [1..n -> Seq(Characters)] /\ g[1] = parts[1]
                         /\ \A y \in 0..n : y + 1 \in 0..n /\ y # 0 /\ y + 1 <= k => g[y + 1] = g[y] \o parts[y + 1]
           K == {k \in 0..n : \E g : Upto(g, k)}
<1>1. 0 \in K
  <2>1. Upto(parts, 0)
    <3>1. \A y \in 0..n : ~ (y + 1 <= 0)
      OBVIOUS
    <3> QED BY <3>1
  <2>2. 0 \in 0..n
    OBVIOUS
  <2> QED BY <2>1, <2>2
<1>2. ASSUME NEW k \in 0..n, k + 1 \in 0..n, k \in K PROVE k + 1 \in K
  <2>1. PICK g : Upto(g, k)
    BY <1>2
  <2>2. CASE k = 0
    <3>1. Upto(g, k + 1)
      <4>1. \A y \in 0..n : ~ (y # 0 /\ y + 1 <= k + 1)
        BY <2>2
      <4> QED BY <2>1, <4>1
    <3> QED BY <1>2, <3>1
  <2>3. CASE k # 0
    <3> DEFINE f == [g EXCEPT ![k + 1] = g[k] \o parts[k + 1]]
    <3>1. k \in 1..n /\ k + 1 \in 1..n /\ k + 1 # 1
      BY <1>2, <2>3
    <3>2. g[k] \o parts[k + 1] \in Seq(Characters)
      <4>1. g[k] \in Seq(Characters) /\ parts[k + 1] \in Seq(Characters)
        BY <2>1, <3>1
      <4> QED BY <4>1
    <3>3. f \in [1..n -> Seq(Characters)] /\ (\A x \in 1..n : x # k + 1 => f[x] = g[x]) /\ f[k + 1] = g[k] \o parts[k + 1]
      BY <2>1, <3>1, <3>2
    <3> HIDE DEF f
    <3>4. f[1] = parts[1]
      <4>1. 1 \in 1..n
        OBVIOUS
      <4> QED BY <2>1, <3>1, <3>3, <4>1, Zenon
    <3>5. \A y \in 0..n : y + 1 \in 0..n /\ y # 0 /\ y + 1 <= k + 1 => f[y + 1] = f[y] \o parts[y + 1]
      <4> SUFFICES ASSUME NEW y \in 0..n, y + 1 \in 0..n, y # 0, y + 1 <= k + 1 PROVE f[y + 1] = f[y] \o parts[y + 1]
        OBVIOUS
      <4>1. y \in 1..n /\ y # k + 1 /\ y + 1 \in 1..n
        OBVIOUS
      <4>2. f[y] = g[y]
        BY <3>3, <4>1, Zenon
      <4>3. CASE y = k
        BY <3>3, <4>2, <4>3, Zenon
      <4>4. CASE y # k
        <5>1. y + 1 <= k /\ y + 1 # k + 1
          BY <4>4
        <5>2. g[y + 1] = g[y] \o parts[y + 1]
          BY <2>1, <5>1
        <5> QED BY <3>3, <4>1, <4>2, <5>1, <5>2, Zenon
      <4> QED BY <4>3, <4>4
    <3>6. Upto(f, k + 1)
      BY <3>3, <3>4, <3>5
    <3> QED BY <1>2, <3>6
  <2> QED BY <2>2, <2>3
<1>3. \A k \in 0..n : k \in K
  <2> HIDE DEF K
  <2> QED BY <1>1, <1>2, PassedOn
<1>4. PICK h : Upto(h, n)
  <2>1. n \in 0..n
    OBVIOUS
  <2>2. n \in K
    BY <1>3, <2>1, Zenon
  <2> HIDE DEF Upto
  <2> QED BY <2>2
<1>5. \A k \in 0..n : k + 1 \in 0..n /\ k # 0 => h[k + 1] = h[k] \o parts[k + 1]
  <2>1. \A k \in 0..n : k + 1 \in 0..n => k + 1 <= n
    OBVIOUS
  <2> QED BY <1>4, <2>1, Zenon
<1>6. FlatSteps(h, parts, n)
  BY <1>4, <1>5 DEF FlatSteps
<1> QED BY <1>6

LEMMA FlatSolvesSteps ==
  ASSUME NEW n \in Nat \ {0}, NEW parts \in [1..n -> Seq(Characters)], NEW h, FlatSolves(h, parts, n)
  PROVE  FlatSteps(h, parts, n)
<1>0. PICK f : f = [x \in 1..n |-> IF x = 1 THEN parts[x] ELSE h[x-1] \o parts[x]]
  OBVIOUS
<1>1. h = f /\ DOMAIN h = 1..n /\ \A x \in 1..n : h[x] = IF x = 1 THEN parts[x] ELSE h[x-1] \o parts[x]
  <2>1. h = f
    BY <1>0, Zenon DEF FlatSolves
  <2>2. DOMAIN f = 1..n /\ \A x \in 1..n : f[x] = IF x = 1 THEN parts[x] ELSE h[x-1] \o parts[x]
    BY <1>0, Zenon
  <2> QED BY <2>1, <2>2, Zenon
<1>2. h[1] = parts[1] /\ 1 \in 1..n
  <2>1. 1 \in 1..n
    OBVIOUS
  <2> QED BY <1>1, <2>1, Zenon
<1>3. \A k \in 0..n : k + 1 \in 0..n /\ k # 0 => h[k + 1] = h[k] \o parts[k + 1]
  <2> SUFFICES ASSUME NEW k \in 0..n, k + 1 \in 0..n, k # 0 PROVE h[k + 1] = h[k] \o parts[k + 1]
    OBVIOUS
  <2>1. k + 1 \in 1..n /\ k + 1 # 1 /\ (k + 1) - 1 = k
    OBVIOUS
  <2>2. h[k + 1] = h[(k + 1) - 1] \o parts[k + 1]
    BY <1>1, <2>1, Zenon
  <2> QED BY <2>1, <2>2, Zenon
<1> DEFINE K == {k \in 0..n : k # 0 => h[k] \in Seq(Characters)}
<1>4. 0 \in K
  OBVIOUS
<1>5. ASSUME NEW k \in 0..n, k + 1 \in 0..n, k \in K PROVE k + 1 \in K
  <2>1. CASE k = 0
    <3>1. h[k + 1] \in Seq(Characters)
      BY <1>2, <2>1
    <3> QED BY <1>5, <3>1
  <2>2. CASE k # 0
    <3>1. h[k + 1] = h[k] \o parts[k + 1] /\ h[k] \in Seq(Characters) /\ k + 1 \in 1..n
      <4>1. h[k] \in Seq(Characters)
        BY <1>5, <2>2
      <4>2. k + 1 \in 1..n
        BY <1>5
      <4> QED BY <1>3, <1>5, <2>2, <4>1, <4>2, Zenon
    <3>2. parts[k + 1] \in Seq(Characters)
      BY <3>1
    <3>3. h[k + 1] \in Seq(Characters)
      BY <3>1, <3>2
    <3> QED BY <1>5, <3>3
  <2> QED BY <2>1, <2>2
<1>6. \A k \in 0..n : k \in K
  <2> HIDE DEF K
  <2> QED BY <1>4, <1>5, PassedOn
<1>7. \A x \in 1..n : h[x] \in Seq(Characters)
  BY <1>6
<1>8. h \in [1..n -> Seq(Characters)]
  <2>1. \A x \in 1..n : (IF x = 1 THEN parts[x] ELSE h[x-1] \o parts[x]) \in Seq(Characters)
    BY <1>1, <1>7, Zenon
  <2> QED BY <1>0, <1>1, <2>1, Zenon
<1> QED BY <1>2, <1>3, <1>8, Zenon DEF FlatSteps

LEMMA FlattenIs ==
  ASSUME NEW n \in Nat \ {0}, NEW parts \in [1..n -> Seq(Characters)]
  PROVE  \E h : FlatSteps(h, parts, n) /\ FlattenSeq(parts) = h[n]
<1> DEFINE flat == CHOOSE h : FlatSolves(h, parts, n)
<1>1. FlatSolves(flat, parts, n)
  BY FlatExists, FlatStepsSolve
<1>2. FlatSteps(flat, parts, n)
  BY <1>1, FlatSolvesSteps
<1>3. Len(parts) = n
  OBVIOUS
<1>4. FlattenSeq(parts) = flat[n]
  BY <1>3 DEF FlattenSeq, FlatSolves
<1> QED BY <1>2, <1>4

(* What leads two words moves the place where they differ. *)
LedDiffer(u, v, t, i, n) == Differs(t \o u, t \o v, n + i)

LEMMA LedDiffers ==
  ASSUME NEW u, NEW v, NEW i, Differs(u, v, i), NEW t \in Seq(Characters), NEW n, Len(t) = n
  PROVE  LedDiffer(u, v, t, i, n)
<1>1. PICK m : Len(u) = m /\ t \in Seq(Characters)
  OBVIOUS
<1>2. /\ u \in Seq(Characters) /\ v \in Seq(Characters) /\ Len(u) = m /\ Len(v) = m
      /\ i \in 1..m /\ v[i] # u[i] /\ \A x \in 1..m : x # i => v[x] = u[x]
  BY <1>1, Zenon DEF Differs
<1>3. JoinOf(t \o u, t, u, n, m) /\ JoinOf(t \o v, t, v, n, m)
  BY <1>1, <1>2, Joined, Zenon
<1>4. PICK p, q : p = t \o u /\ q = t \o v
  OBVIOUS
<1>5. /\ n \in Nat /\ m \in Nat /\ p \in Seq(Characters) /\ Len(p) = n + m /\ q \in Seq(Characters) /\ Len(q) = n + m
      /\ (\A x \in 1..n : p[x] = t[x]) /\ (\A x \in 1..m : p[n + x] = u[x])
      /\ (\A x \in 1..n : q[x] = t[x]) /\ (\A x \in 1..m : q[n + x] = v[x])
  BY <1>3, <1>4, Zenon DEF JoinOf
<1>6. PICK j : j = n + i
  OBVIOUS
<1>7. j \in 1..(n + m) /\ i \in Int
  BY <1>2, <1>5, <1>6
<1>8. q[j] # p[j]
  BY <1>2, <1>5, <1>6, Zenon
<1>9. \A x \in 1..(n + m) : x # j => q[x] = p[x]
  <2> SUFFICES ASSUME NEW x \in 1..(n + m), x # j PROVE q[x] = p[x]
    OBVIOUS
  <2>1. CASE x \in 1..n
    BY <1>5, <2>1, Zenon
  <2>2. CASE x \notin 1..n
    <3>1. PICK y : y = x - n
      OBVIOUS
    <3>2. y \in 1..m /\ n + y = x /\ y # i
      BY <1>5, <1>6, <1>7, <2>2, <3>1, SMT
    <3> QED BY <1>2, <1>5, <3>2, Zenon
  <2> QED BY <2>1, <2>2
<1>10. Differs(p, q, j)
  BY <1>5, <1>7, <1>8, <1>9, DifferentWords, Zenon
<1> QED BY <1>4, <1>6, <1>10, Zenon DEF LedDiffer

SameUpto(u, v, n, i) == \A k \in 1..n : k < i => u[k] = v[k]

LEMMA FlatsAgree ==
  ASSUME NEW n \in Nat \ {0}, NEW p \in [1..n -> Seq(Characters)], NEW q \in [1..n -> Seq(Characters)],
         NEW g, NEW h, FlatSteps(g, p, n), FlatSteps(h, q, n), NEW i \in 1..n, SameUpto(p, q, n, i)
  PROVE  SameUpto(g, h, n, i)
<1> DEFINE K == {k \in 0..n : k # 0 /\ k < i => g[k] = h[k]}
<1>1. 0 \in K
  OBVIOUS
<1>2. ASSUME NEW k \in 0..n, k + 1 \in 0..n, k \in K PROVE k + 1 \in K
  <2> SUFFICES ASSUME k + 1 < i PROVE g[k + 1] = h[k + 1]
    BY <1>2
  <2>1. k + 1 \in 1..n /\ q[k + 1] = p[k + 1]
    BY <1>2 DEF SameUpto
  <2>2. CASE k = 0
    <3>1. g[1] = p[1] /\ h[1] = q[1] /\ 0 + 1 = 1
      BY DEF FlatSteps
    <3> QED BY <2>1, <2>2, <3>1, Zenon
  <2>3. CASE k # 0
    <3>1. g[k] = h[k]
      BY <1>2, <2>3
    <3>2. g[k + 1] = g[k] \o p[k + 1] /\ h[k + 1] = h[k] \o q[k + 1]
      BY <1>2, <2>3, Zenon DEF FlatSteps
    <3> QED BY <2>1, <3>1, <3>2, Zenon
  <2> QED BY <2>2, <2>3
<1>3. \A k \in 0..n : k \in K
  <2> HIDE DEF K
  <2> QED BY <1>1, <1>2, PassedOn
<1> QED BY <1>3 DEF SameUpto

(* One part differs: so does the whole, in one place. *)
LEMMA FlattenDiffers ==
  ASSUME NEW n \in Nat \ {0}, NEW p \in [1..n -> Seq(Characters)], NEW q \in [1..n -> Seq(Characters)],
         NEW i \in 1..n, Differs(p[i], q[i], 1), \A x \in 1..n : x # i => q[x] = p[x]
  PROVE  \E j : Differs(FlattenSeq(p), FlattenSeq(q), j)
<1>1. PICK g : FlatSteps(g, p, n) /\ FlattenSeq(p) = g[n]
  BY FlattenIs
<1>2. PICK h : FlatSteps(h, q, n) /\ FlattenSeq(q) = h[n]
  BY FlattenIs
<1>3. \A k \in 1..n : k < i => g[k] = h[k]
  <2>1. SameUpto(p, q, n, i)
    BY DEF SameUpto
  <2>2. SameUpto(g, h, n, i)
    BY <1>1, <1>2, <2>1, FlatsAgree, Zenon
  <2> QED BY <2>2, Zenon DEF SameUpto
<1> DEFINE Told(k) == \E j : Differs(g[k], h[k], j)
           K == {k \in 0..n : k >= i => Told(k)}
<1> HIDE DEF Told
<1>4. 0 \in K
  OBVIOUS
<1>5. ASSUME NEW k \in 0..n, k + 1 \in 0..n, k \in K PROVE k + 1 \in K
  <2> SUFFICES ASSUME k + 1 >= i PROVE Told(k + 1)
    BY <1>5
  <2>1. CASE k + 1 = i
    <3>1. CASE k = 0
      <4>1. g[1] = p[1] /\ h[1] = q[1] /\ i = 1 /\ 0 + 1 = 1
        BY <1>1, <1>2, <2>1, <3>1 DEF FlatSteps
      <4>2. Differs(p[1], q[1], 1)
        BY <4>1, Zenon
      <4> QED BY <3>1, <4>1, <4>2, Zenon DEF Told
    <3>2. CASE k # 0
      <4>1. k \in 1..n /\ k < i
        BY <2>1, <3>2
      <4>2. g[k] = h[k] /\ g[k] \in Seq(Characters)
        BY <1>1, <1>3, <4>1 DEF FlatSteps
      <4>3. g[k + 1] = g[k] \o p[i] /\ h[k + 1] = g[k] \o q[i]
        BY <1>1, <1>2, <1>5, <2>1, <3>2, <4>2, Zenon DEF FlatSteps
      <4>4. LedDiffer(p[i], q[i], g[k], 1, Len(g[k]))
        BY <4>2, LedDiffers, Zenon
      <4> QED BY <4>3, <4>4, Zenon DEF LedDiffer, Told
    <3> QED BY <3>1, <3>2
  <2>2. CASE k + 1 # i
    <3>1. k # 0 /\ k >= i /\ k + 1 \in 1..n /\ k \in 1..n
      BY <1>5, <2>2
    <3>2. Told(k)
      BY <1>5, <3>1
    <3>3. PICK j : Differs(g[k], h[k], j)
      BY <3>2, Zenon DEF Told
    <3>4. q[k + 1] = p[k + 1] /\ p[k + 1] \in Seq(Characters)
      BY <2>2, <3>1
    <3>5. g[k + 1] = g[k] \o p[k + 1] /\ h[k + 1] = h[k] \o p[k + 1]
      BY <1>1, <1>2, <1>5, <3>1, <3>4, Zenon DEF FlatSteps
    <3>6. JoinedDiffer(g[k], h[k], p[k + 1], j)
      BY <3>3, <3>4, JoinDiffers, Zenon
    <3> QED BY <3>5, <3>6, Zenon DEF JoinedDiffer, Told
  <2> QED BY <2>1, <2>2
<1>6. \A k \in 0..n : k \in K
  <2> HIDE DEF K
  <2> QED BY <1>4, <1>5, PassedOn
<1>7. Told(n)
  <2>1. n \in 0..n /\ n >= i
    OBVIOUS
  <2> QED BY <1>6, <2>1
<1> QED BY <1>1, <1>2, <1>7, Zenon DEF Told

EndsIn(s, t, n, a, b) ==
  /\ s \in Seq(Characters) /\ Len(s) = n + 2
  /\ (\A x \in 1..n : s[x] = t[x]) /\ s[n + 1] = a /\ s[n + 2] = b

LEMMA DigitsAtTheEnd ==
  ASSUME NEW t \in Seq(Characters), NEW a \in Characters, NEW b \in Characters, NEW n, n = Len(t)
  PROVE  EndsIn((t \o <<a>>) \o <<b>>, t, n, a, b)
<1>1. PICK s : s = t \o <<a>>
  OBVIOUS
<1>2. s \in Seq(Characters) /\ Len(s) = n + 1 /\ n \in Nat /\ s[n + 1] = a
  BY <1>1
<1>3. \A x \in 1..n : s[x] = t[x]
  BY <1>1
<1>4. s \o <<b>> \in Seq(Characters) /\ Len(s \o <<b>>) = n + 2 /\ (s \o <<b>>)[n + 2] = b
  BY <1>2
<1>5. \A x \in 1..(n + 1) : (s \o <<b>>)[x] = s[x]
  BY <1>2
<1>6. n + 1 \in 1..(n + 1) /\ \A x \in 1..n : x \in 1..(n + 1)
  BY <1>2
<1> QED BY <1>1, <1>2, <1>3, <1>4, <1>5, <1>6, Zenon DEF EndsIn

ExchangedAs(u, v, j, a, b) == Exchanged(u, v, j) /\ u[j] = a /\ u[j + 1] = b

LEMMA EndsExchanged ==
  ASSUME NEW t \in Seq(Characters), NEW a \in Characters, NEW b \in Characters, a # b, NEW n, n = Len(t)
  PROVE  ExchangedAs((t \o <<a>>) \o <<b>>, (t \o <<b>>) \o <<a>>, n + 1, a, b)
<1>1. n \in Nat /\ (n + 1) + 1 = n + 2
  OBVIOUS
<1>2. PICK p, q : p = (t \o <<a>>) \o <<b>> /\ q = (t \o <<b>>) \o <<a>>
  OBVIOUS
<1>3. p \in Seq(Characters) /\ Len(p) = n + 2 /\ (\A x \in 1..n : p[x] = t[x]) /\ p[n + 1] = a /\ p[n + 2] = b
  <2>1. EndsIn((t \o <<a>>) \o <<b>>, t, n, a, b)
    BY DigitsAtTheEnd, Zenon
  <2> QED BY <1>2, <2>1, Zenon DEF EndsIn
<1>4. q \in Seq(Characters) /\ Len(q) = n + 2 /\ (\A x \in 1..n : q[x] = t[x]) /\ q[n + 1] = b /\ q[n + 2] = a
  <2>1. EndsIn((t \o <<b>>) \o <<a>>, t, n, b, a)
    BY DigitsAtTheEnd, Zenon
  <2> QED BY <1>2, <2>1, Zenon DEF EndsIn
<1>5. PICK j : j = n + 1
  OBVIOUS
<1>6. j \in 1..((n + 2) - 1) /\ j + 1 = n + 2
  BY <1>1, <1>5
<1>7. \A x \in 1..(n + 2) : x # j /\ x # j + 1 => x \in 1..n
  BY <1>1, <1>5
<1>8. p[j] # p[j + 1] /\ q[j] = p[j + 1] /\ q[j + 1] = p[j]
  BY <1>3, <1>4, <1>5, <1>6, Zenon
<1>9. \A x \in 1..(n + 2) : x # j /\ x # j + 1 => q[x] = p[x]
  BY <1>3, <1>4, <1>7, Zenon
<1>10. Exchanged(p, q, j)
  BY <1>3, <1>4, <1>6, <1>8, <1>9, ExchangedWords, Zenon
<1>11. p[j] = a /\ p[j + 1] = b
  BY <1>3, <1>5, <1>6, Zenon
<1> QED BY <1>2, <1>5, <1>10, <1>11, Zenon DEF ExchangedAs

(* Two neighbouring parts, one character each, changed places. *)
LEMMA FlattenExchanged ==
  ASSUME NEW n \in Nat \ {0}, NEW p \in [1..n -> Seq(Characters)], NEW q \in [1..n -> Seq(Characters)],
         NEW i \in 2..(n - 1), NEW a \in Characters, NEW b \in Characters, a # b,
         p[i] = <<a>>, p[i + 1] = <<b>>, q[i] = <<b>>, q[i + 1] = <<a>>,
         \A x \in 1..n : x # i /\ x # i + 1 => q[x] = p[x]
  PROVE  \E j : ExchangedAs(FlattenSeq(p), FlattenSeq(q), j, a, b)
<1>1. PICK g : FlatSteps(g, p, n) /\ FlattenSeq(p) = g[n]
  BY FlattenIs
<1>2. PICK h : FlatSteps(h, q, n) /\ FlattenSeq(q) = h[n]
  BY FlattenIs
<1>3. \A k \in 1..n : k < i => g[k] = h[k]
  <2>1. SameUpto(p, q, n, i) /\ i \in 1..n
    BY DEF SameUpto
  <2>2. SameUpto(g, h, n, i)
    BY <1>1, <1>2, <2>1, FlatsAgree, Zenon
  <2> QED BY <2>2, Zenon DEF SameUpto
<1> DEFINE Told(k) == \E j : ExchangedAs(g[k], h[k], j, a, b)
           K == {k \in 0..n : k >= i + 1 => Told(k)}
<1> HIDE DEF Told
<1>4. 0 \in K
  OBVIOUS
<1>5. ASSUME NEW k \in 0..n, k + 1 \in 0..n, k \in K PROVE k + 1 \in K
  <2> SUFFICES ASSUME k + 1 >= i + 1 PROVE Told(k + 1)
    BY <1>5
  <2>1. CASE k + 1 = i + 1
    <3>1. PICK l : l = i - 1
      OBVIOUS
    <3>2. l \in 0..n /\ l \in 1..n /\ l < i /\ l + 1 = i /\ l # 0 /\ i # 0 /\ i \in 0..n /\ i + 1 \in 0..n /\ k = i
      BY <1>5, <2>1, <3>1
    <3> HIDE DEF K
    <3>3. g[l] = h[l] /\ g[l] \in Seq(Characters)
      BY <1>1, <1>3, <3>2 DEF FlatSteps
    <3>4. g[i] = g[l] \o <<a>> /\ h[i] = g[l] \o <<b>>
      BY <1>1, <1>2, <3>2, <3>3, Zenon DEF FlatSteps
    <3>5. g[i + 1] = (g[l] \o <<a>>) \o <<b>> /\ h[i + 1] = (g[l] \o <<b>>) \o <<a>>
      BY <1>1, <1>2, <3>2, <3>4, Zenon DEF FlatSteps
    <3>6. PICK t, y : t = g[l] /\ y = Len(t)
      OBVIOUS
    <3>7. ExchangedAs((t \o <<a>>) \o <<b>>, (t \o <<b>>) \o <<a>>, y + 1, a, b)
      BY <3>3, <3>6, EndsExchanged, Zenon
    <3>8. ExchangedAs(g[i + 1], h[i + 1], y + 1, a, b)
      BY <3>5, <3>6, <3>7, Zenon
    <3> QED BY <3>2, <3>8, Zenon DEF Told
  <2>2. CASE k + 1 # i + 1
    <3>1. k # 0 /\ k >= i + 1 /\ k + 1 \in 1..n /\ k \in 1..n /\ k + 1 # i
      BY <1>5, <2>2
    <3>2. Told(k)
      BY <1>5, <3>1
    <3>3. PICK j : ExchangedAs(g[k], h[k], j, a, b)
      BY <3>2, Zenon DEF Told
    <3>4. q[k + 1] = p[k + 1] /\ p[k + 1] \in Seq(Characters)
      BY <2>2, <3>1
    <3>5. g[k + 1] = g[k] \o p[k + 1] /\ h[k + 1] = h[k] \o p[k + 1]
      BY <1>1, <1>2, <1>5, <3>1, <3>4, Zenon DEF FlatSteps
    <3>6. JoinedExchanged(g[k], h[k], p[k + 1], j)
      BY <3>3, <3>4, JoinExchanged, Zenon DEF ExchangedAs
    <3>7. ExchangedAs(g[k + 1], h[k + 1], j, a, b)
      BY <3>3, <3>5, <3>6, Zenon DEF JoinedExchanged, ExchangedAs
    <3> QED BY <3>7, Zenon DEF Told
  <2> QED BY <2>1, <2>2
<1>6. \A k \in 0..n : k \in K
  <2> HIDE DEF K
  <2> QED BY <1>4, <1>5, PassedOn
<1>7. Told(n)
  <2>1. n \in 0..n /\ n >= i + 1
    OBVIOUS
  <2> QED BY <1>6, <2>1
<1> QED BY <1>1, <1>2, <1>7, Zenon DEF Told

Part(v) == IF IsDigit(v) THEN <<v>> ELSE <<v \div 10, v % 10>>
Parts(d) == [i \in DOMAIN d |-> IF IsDigit(d[i]) THEN <<d[i]>> ELSE <<d[i] \div 10, d[i] % 10>>]

LEMMA PartIs ==
  ASSUME NEW v \in Characters
  PROVE  Part(v) \in Seq(Characters)
<1>1. CASE IsDigit(v)
  <2>1. <<v>> \in Seq(Characters)
    OBVIOUS
  <2> QED BY <1>1, <2>1, Zenon DEF Part
<1>2. CASE ~ IsDigit(v)
  <2>1. v \div 10 \in Characters /\ v % 10 \in Characters
    BY DEF Characters
  <2>2. <<v \div 10, v % 10>> \in Seq(Characters)
    BY <2>1
  <2> QED BY <1>2, <2>2, Zenon DEF Part
<1> QED BY <1>1, <1>2

LEMMA PartsAre ==
  ASSUME NEW d \in Seq(Characters), NEW n, Len(d) = n
  PROVE  Parts(d) \in [1..n -> Seq(Characters)] /\ \A x \in 1..n : Parts(d)[x] = Part(d[x])
<1>1. DOMAIN d = 1..n /\ \A x \in 1..n : d[x] \in Characters
  <2>1. DOMAIN d = 1..Len(d) /\ \A x \in 1..Len(d) : d[x] \in Characters
    OBVIOUS
  <2> QED BY <2>1, Zenon
<1>2. Parts(d) = [x \in 1..n |-> Part(d[x])]
  BY <1>1, Zenon DEF Parts, Part
<1>3. \A x \in 1..n : Part(d[x]) \in Seq(Characters)
  BY <1>1, PartIs, Zenon
<1> QED BY <1>2, <1>3, Zenon

LEMMA DigitsApartAsWords ==
  ASSUME NEW a \in 0..9, NEW b \in 0..9, a # b
  PROVE  Differs(<<a>>, <<b>>, 1) /\ a \in Characters /\ b \in Characters
<1>1. <<a>> \in Seq(Characters) /\ <<b>> \in Seq(Characters) /\ Len(<<a>>) = 1 /\ Len(<<b>>) = 1
  BY DEF Characters
<1>2. \A x \in 1..1 : x = 1
  OBVIOUS
<1>3. <<a>>[1] = a /\ <<b>>[1] = b /\ 1 \in 1..1
  OBVIOUS
<1>4. a \in Characters /\ b \in Characters
  BY DEF Characters
<1> QED BY <1>1, <1>2, <1>3, <1>4, Zenon DEF Differs

-----------------------------------------------------------------------------
(* The powers of ten modulo 97: none but the first is one, up to as many   *)
(* digits as an IBAN has with its letters written out.                     *)
PowersOfTen == <<
   1, 10, 3, 30, 9, 90, 27, 76, 81, 34, 49, 5, 50, 15, 53,
   45, 62, 38, 89, 17, 73, 51, 25, 56, 75, 71, 31, 19, 93, 57,
   85, 74, 61, 28, 86, 84, 64, 58, 95, 77, 91, 37, 79, 14, 43,
   42, 32, 29, 96, 87, 94, 67, 88, 7, 70, 21, 16, 63, 48, 92,
   47, 82, 44, 52, 35, 59, 8, 80, 24, 46, 72, 41, 22, 26, 66,
   78, 4, 40, 12, 23, 36, 69, 11, 13, 33, 39, 2, 20, 6, 60 >>

TenTo(k) == PowersOfTen[k + 1]
IsNext(k) == /\ TenTo(k) \in 1..96 /\ TenTo(k + 1) \in 2..96 /\ TenTo(k + 1) = (10 * TenTo(k)) % 97

LEMMA PowersAreNext ==
  ASSUME NEW k \in 0..88
  PROVE  IsNext(k)
<1>1. ASSUME k \in 0..9 PROVE IsNext(k)
  <2>1. k = 0 \/ k = 1 \/ k = 2 \/ k = 3 \/ k = 4 \/ k = 5 \/ k = 6 \/ k = 7 \/ k = 8 \/ k = 9
    BY <1>1
  <2> QED BY <2>1 DEF IsNext, TenTo, PowersOfTen
<1>2. ASSUME k \in 10..19 PROVE IsNext(k)
  <2>1. k = 10 \/ k = 11 \/ k = 12 \/ k = 13 \/ k = 14 \/ k = 15 \/ k = 16 \/ k = 17 \/ k = 18 \/ k = 19
    BY <1>2
  <2> QED BY <2>1 DEF IsNext, TenTo, PowersOfTen
<1>3. ASSUME k \in 20..29 PROVE IsNext(k)
  <2>1. k = 20 \/ k = 21 \/ k = 22 \/ k = 23 \/ k = 24 \/ k = 25 \/ k = 26 \/ k = 27 \/ k = 28 \/ k = 29
    BY <1>3
  <2> QED BY <2>1 DEF IsNext, TenTo, PowersOfTen
<1>4. ASSUME k \in 30..39 PROVE IsNext(k)
  <2>1. k = 30 \/ k = 31 \/ k = 32 \/ k = 33 \/ k = 34 \/ k = 35 \/ k = 36 \/ k = 37 \/ k = 38 \/ k = 39
    BY <1>4
  <2> QED BY <2>1 DEF IsNext, TenTo, PowersOfTen
<1>5. ASSUME k \in 40..49 PROVE IsNext(k)
  <2>1. k = 40 \/ k = 41 \/ k = 42 \/ k = 43 \/ k = 44 \/ k = 45 \/ k = 46 \/ k = 47 \/ k = 48 \/ k = 49
    BY <1>5
  <2> QED BY <2>1 DEF IsNext, TenTo, PowersOfTen
<1>6. ASSUME k \in 50..59 PROVE IsNext(k)
  <2>1. k = 50 \/ k = 51 \/ k = 52 \/ k = 53 \/ k = 54 \/ k = 55 \/ k = 56 \/ k = 57 \/ k = 58 \/ k = 59
    BY <1>6
  <2> QED BY <2>1 DEF IsNext, TenTo, PowersOfTen
<1>7. ASSUME k \in 60..69 PROVE IsNext(k)
  <2>1. k = 60 \/ k = 61 \/ k = 62 \/ k = 63 \/ k = 64 \/ k = 65 \/ k = 66 \/ k = 67 \/ k = 68 \/ k = 69
    BY <1>7
  <2> QED BY <2>1 DEF IsNext, TenTo, PowersOfTen
<1>8. ASSUME k \in 70..79 PROVE IsNext(k)
  <2>1. k = 70 \/ k = 71 \/ k = 72 \/ k = 73 \/ k = 74 \/ k = 75 \/ k = 76 \/ k = 77 \/ k = 78 \/ k = 79
    BY <1>8
  <2> QED BY <2>1 DEF IsNext, TenTo, PowersOfTen
<1>9. ASSUME k \in 80..88 PROVE IsNext(k)
  <2>1. k = 80 \/ k = 81 \/ k = 82 \/ k = 83 \/ k = 84 \/ k = 85 \/ k = 86 \/ k = 87 \/ k = 88
    BY <1>9
  <2> QED BY <2>1 DEF IsNext, TenTo, PowersOfTen
<1>10. k \in 0..9 \/ k \in 10..19 \/ k \in 20..29 \/ k \in 30..39 \/ k \in 40..49 \/ k \in 50..59 \/ k \in 60..69 \/ k \in 70..79 \/ k \in 80..88
  OBVIOUS
<1> QED BY <1>1, <1>2, <1>3, <1>4, <1>5, <1>6, <1>7, <1>8, <1>9, <1>10

LEMMA TenToNothing == TenTo(0) = 1
BY DEF TenTo, PowersOfTen

(* How far two remainders are apart, as a multiple of a power of ten. *)
ApartBy(a, b, delta, p) == (a - b - (delta * p)) % 97 = 0

LEMMA ApartByTen ==
  ASSUME NEW a \in 0..96, NEW b \in 0..96, NEW delta \in -9..9, NEW p \in 0..96, NEW v \in Int, ApartBy(a, b, delta, p)
  PROVE  ApartBy((10 * a + v) % 97, (10 * b + v) % 97, delta, (10 * p) % 97)
<1>1. \/ delta = 0 \/ delta = 1 \/ delta = 2 \/ delta = 3 \/ delta = 4 \/ delta = 5 \/ delta = 6 \/ delta = 7 \/ delta = 8
      \/ delta = 9 \/ delta = -1 \/ delta = -2 \/ delta = -3 \/ delta = -4 \/ delta = -5 \/ delta = -6 \/ delta = -7
      \/ delta = -8 \/ delta = -9
  OBVIOUS
<1>2. PICK s, t, u, z : s = (10 * a + v) \div 97 /\ t = (10 * b + v) \div 97 /\ u = (10 * p) \div 97 /\ z = (a - b - (delta * p)) \div 97
  OBVIOUS
<1>3. s \in Int /\ t \in Int /\ u \in Int /\ z \in Int
  BY <1>2
<1>4. (10 * a + v) % 97 = 10 * a + v - 97 * s /\ (10 * b + v) % 97 = 10 * b + v - 97 * t /\ (10 * p) % 97 = 10 * p - 97 * u
  BY <1>2
<1>5. a - b - (delta * p) = 97 * z
  BY <1>1, <1>2 DEF ApartBy
<1>6. PICK y : y = 10 * z - s + t + delta * u
  OBVIOUS
<1>7. y \in Int
  BY <1>3, <1>6
<1>8. (10 * a + v - 97 * s) - (10 * b + v - 97 * t) - (delta * (10 * p - 97 * u)) = 97 * y
  BY <1>1, <1>3, <1>5, <1>6
<1>9. (97 * y) % 97 = 0
  BY <1>7
<1> QED BY <1>4, <1>8, <1>9, Zenon DEF ApartBy

LEMMA ApartByOne ==
  ASSUME NEW delta \in (-9..9) \ {0}, NEW p \in 2..96, NEW x \in Int, (x - (delta * p)) % 97 = 0, (x - delta) % 97 = 0
  PROVE  FALSE
<1>1. \/ delta = 1 \/ delta = 2 \/ delta = 3 \/ delta = 4 \/ delta = 5 \/ delta = 6 \/ delta = 7 \/ delta = 8
      \/ delta = 9 \/ delta = -1 \/ delta = -2 \/ delta = -3 \/ delta = -4 \/ delta = -5 \/ delta = -6 \/ delta = -7
      \/ delta = -8 \/ delta = -9
  OBVIOUS
<1> QED BY <1>1

(* Two remainders after k characters, a misread digit before them. *)
KeptApart(a, b, delta, x) == \E k \in 0..(2 * (x - 1)) : ApartBy(a, b, delta, TenTo(k))

LEMMA KeptApartStep ==
  ASSUME NEW a \in 0..96, NEW b \in 0..96, NEW delta \in -9..9, NEW v \in Characters, NEW x \in 1..44, KeptApart(a, b, delta, x)
  PROVE  KeptApart(Mod97Step(a, v), Mod97Step(b, v), delta, x + 1)
<1>1. PICK k \in 0..(2 * (x - 1)) : ApartBy(a, b, delta, TenTo(k))
  BY DEF KeptApart
<1>2. k \in 0..88 /\ k + 1 \in 0..88 /\ k + 1 \in 0..(2 * ((x + 1) - 1)) /\ (k + 1) + 1 \in 0..(2 * ((x + 1) - 1)) /\ v \in Int /\ 0 \in Int
  <2>1. k \in 0..88 /\ k + 1 \in 0..88
    OBVIOUS
  <2>2. k + 1 \in 0..(2 * ((x + 1) - 1)) /\ (k + 1) + 1 \in 0..(2 * ((x + 1) - 1))
    OBVIOUS
  <2> QED BY <2>1, <2>2 DEF Characters
<1>3. IsNext(k) /\ IsNext(k + 1)
  BY <1>2, PowersAreNext, Zenon
<1>4. PICK p, q, z : p = TenTo(k) /\ q = TenTo(k + 1) /\ z = TenTo((k + 1) + 1)
  OBVIOUS
<1>5. p \in 1..96 /\ q = (10 * p) % 97 /\ q \in 2..96 /\ z = (10 * q) % 97
  BY <1>3, <1>4, Zenon DEF IsNext
<1>6. p \in 0..96 /\ q \in 0..96
  BY <1>5
<1>7. ApartBy(a, b, delta, p)
  BY <1>1, <1>4, Zenon
<1>8. CASE IsDigit(v)
  <2>1. Mod97Step(a, v) = (10 * a + v) % 97 /\ Mod97Step(b, v) = (10 * b + v) % 97
    BY <1>8, Zenon DEF Mod97Step
  <2>2. ApartBy((10 * a + v) % 97, (10 * b + v) % 97, delta, q)
    BY <1>2, <1>5, <1>6, <1>7, ApartByTen, Zenon
  <2> QED BY <1>2, <1>4, <2>1, <2>2, Zenon DEF KeptApart
<1>9. CASE ~ IsDigit(v)
  <2>1. Mod97Step(a, v) = (100 * a + v) % 97 /\ Mod97Step(b, v) = (100 * b + v) % 97
    BY <1>9, Zenon DEF Mod97Step
  <2>2. PICK c, d : c = (10 * a + 0) % 97 /\ d = (10 * b + 0) % 97
    OBVIOUS
  <2>3. c \in 0..96 /\ d \in 0..96
    BY <2>2
  <2>4. ApartBy(c, d, delta, q)
    BY <1>2, <1>5, <1>6, <1>7, <2>2, ApartByTen, Zenon
  <2>5. ApartBy((10 * c + v) % 97, (10 * d + v) % 97, delta, z)
    BY <1>2, <1>5, <1>6, <2>3, <2>4, ApartByTen, Zenon
  <2>6. (10 * c + v) % 97 = (100 * a + v) % 97 /\ (10 * d + v) % 97 = (100 * b + v) % 97
    <3>1. ASSUME NEW y \in 0..96, NEW s, s = (10 * y + 0) % 97 PROVE (10 * s + v) % 97 = (100 * y + v) % 97
      BY <1>2, <3>1
    <3> QED BY <2>2, <3>1, Zenon
  <2> QED BY <1>2, <1>4, <2>1, <2>5, <2>6, Zenon DEF KeptApart
<1> QED BY <1>8, <1>9

(* The first digit and the last change places. *)
EndsSwapped(w, r, n, a, b) ==
  /\ w \in Seq(Characters) /\ r \in Seq(Characters) /\ Len(w) = n /\ Len(r) = n
  /\ w[1] = b /\ r[1] = a /\ w[n] = a /\ r[n] = b
  /\ \A x \in 1..n : x # 1 /\ x # n => r[x] = w[x]

WalksMod97(c, w, n) ==
  /\ c \in [0..n -> 0..96] /\ c[0] = 0 /\ c[n] = 1
  /\ \A k \in 0..n : k + 1 \in 0..n => c[k + 1] = Mod97Step(c[k], w[k + 1])

LEMMA Mod97WalksOf ==
  ASSUME NEW w \in Seq(Characters), NEW n, Len(w) = n, Mod97_10(w)
  PROVE  \E c : WalksMod97(c, w, n)
<1>1. PICK c : Over(c, w, 0..96, 0, Mod97Fn) /\ (Mod97_10(w) <=> w # <<>> /\ c[Len(w)] = 1)
  BY Mod97Walks
<1>2. n \in Nat /\ \A k \in 1..n : w[k] \in Characters
  OBVIOUS
<1>3. c \in [0..n -> 0..96] /\ c[0] = 0 /\ c[n] = 1 /\ \A k \in 1..n : c[k] = Mod97Fn[<<c[k - 1], w[k]>>]
  BY <1>1, Zenon DEF Over
<1>4. \A k \in 0..n : k + 1 \in 0..n => c[k + 1] = Mod97Step(c[k], w[k + 1])
  <2> SUFFICES ASSUME NEW k \in 0..n, k + 1 \in 0..n PROVE c[k + 1] = Mod97Step(c[k], w[k + 1])
    OBVIOUS
  <2>1. k + 1 \in 1..n /\ (k + 1) - 1 = k
    BY <1>2
  <2>2. c[k + 1] = Mod97Fn[<<c[k], w[k + 1]>>]
    BY <1>3, <2>1, Zenon
  <2>3. c[k] \in 0..96 /\ w[k + 1] \in Characters
    BY <1>2, <1>3, <2>1, Zenon
  <2> QED BY <2>2, <2>3, Mod97FnIs, Zenon
<1> QED BY <1>3, <1>4, Zenon DEF WalksMod97

LEMMA Mod97EndsSwapped ==
  ASSUME NEW w, NEW r, NEW n \in 2..46, NEW a \in 0..9, NEW b \in 0..9, a # b, EndsSwapped(w, r, n, a, b),
         Mod97_10(w), Mod97_10(r)
  PROVE  FALSE
<1>1. /\ w \in Seq(Characters) /\ r \in Seq(Characters) /\ Len(w) = n /\ Len(r) = n
      /\ w[1] = b /\ r[1] = a /\ w[n] = a /\ r[n] = b
      /\ \A x \in 1..n : x # 1 /\ x # n => r[x] = w[x]
  BY Zenon DEF EndsSwapped
<1>2. PICK c : WalksMod97(c, w, n)
  BY <1>1, Mod97WalksOf, Zenon
<1>3. PICK e : WalksMod97(e, r, n)
  BY <1>1, Mod97WalksOf, Zenon
<1>4. /\ c \in [0..n -> 0..96] /\ c[0] = 0 /\ c[n] = 1
      /\ \A k \in 0..n : k + 1 \in 0..n => c[k + 1] = Mod97Step(c[k], w[k + 1])
  BY <1>2, Zenon DEF WalksMod97
<1>5. /\ e \in [0..n -> 0..96] /\ e[0] = 0 /\ e[n] = 1
      /\ \A k \in 0..n : k + 1 \in 0..n => e[k + 1] = Mod97Step(e[k], r[k + 1])
  BY <1>3, Zenon DEF WalksMod97
<1>6. PICK delta, m : delta = b - a /\ m = n - 1
  OBVIOUS
<1>7. /\ delta \in (-9..9) \ {0} /\ delta \in -9..9 /\ m \in 1..45 /\ m \in Nat /\ m + 1 = n /\ m \in 0..n /\ m + 1 \in 0..n
      /\ 0 \in 0..n /\ 0 + 1 \in 0..n /\ 0 + 1 = 1
  BY <1>6
<1>8. KeptApart(c[1], e[1], delta, 1)
  <2>1. c[1] = Mod97Step(c[0], w[1]) /\ e[1] = Mod97Step(e[0], r[1])
    BY <1>4, <1>5, <1>7, Zenon
  <2>2. c[1] = Mod97Step(0, b) /\ e[1] = Mod97Step(0, a)
    BY <1>1, <1>4, <1>5, <2>1, Zenon
  <2>3. c[1] = b /\ e[1] = a
    BY <2>2 DEF Mod97Step, IsDigit
  <2>4. ApartBy(b, a, delta, 1)
    BY <1>6 DEF ApartBy
  <2>5. 0 \in 0..(2 * (1 - 1))
    OBVIOUS
  <2> QED BY <2>3, <2>4, <2>5, TenToNothing, Zenon DEF KeptApart
<1> DEFINE K == {k \in 0..m : k # 0 => KeptApart(c[k], e[k], delta, k)}
<1>9. \A k \in 0..m : k \in K
  <2>1. 0 \in K
    BY <1>7
  <2>2. ASSUME NEW k \in 0..m, k + 1 \in 0..m, k \in K PROVE k + 1 \in K
    <3>1. CASE k = 0
      BY <1>7, <1>8, <2>2, <3>1
    <3>2. CASE k # 0
      <4>1. KeptApart(c[k], e[k], delta, k)
        BY <2>2, <3>2
      <4>2. k \in 0..n /\ k + 1 \in 0..n /\ k \in 1..44 /\ k + 1 # 1 /\ k + 1 # n /\ k + 1 \in 1..n
        BY <1>7, <2>2, <3>2
      <4>3. c[k] \in 0..96 /\ e[k] \in 0..96
        BY <1>4, <1>5, <4>2, Zenon
      <4>4. r[k + 1] = w[k + 1]
        BY <1>1, <4>2, Zenon
      <4>5. w[k + 1] \in Characters
        <5>1. \A x \in 1..Len(w) : w[x] \in Characters
          BY <1>1
        <5> QED BY <1>1, <4>2, <5>1, Zenon
      <4>6. KeptApart(Mod97Step(c[k], w[k + 1]), Mod97Step(e[k], w[k + 1]), delta, k + 1)
        BY <1>7, <4>1, <4>2, <4>3, <4>5, KeptApartStep, Zenon
      <4>7. KeptApart(c[k + 1], e[k + 1], delta, k + 1)
        BY <1>4, <1>5, <4>2, <4>4, <4>6, Zenon
      <4> QED BY <2>2, <4>7
    <3> QED BY <3>1, <3>2
  <2> HIDE DEF K
  <2> QED BY <1>7, <2>1, <2>2, PassedOn
<1>10. KeptApart(c[m], e[m], delta, m)
  <2>1. m \in 0..m /\ m # 0
    BY <1>7
  <2> QED BY <1>9, <2>1
<1>11. PICK k \in 0..(2 * (m - 1)) : ApartBy(c[m], e[m], delta, TenTo(k))
  BY <1>10 DEF KeptApart
<1>12. k \in 0..88
  BY <1>7
<1>13. PICK p, q, x, y : p = TenTo(k) /\ q = TenTo(k + 1) /\ x = c[m] /\ y = e[m]
  OBVIOUS
<1>14. p \in 1..96 /\ q = (10 * p) % 97 /\ q \in 2..96
  BY <1>12, <1>13, PowersAreNext, Zenon DEF IsNext
<1>15. x \in 0..96 /\ y \in 0..96 /\ p \in 0..96 /\ ApartBy(x, y, delta, p) /\ 0 \in Int
  <2>1. p \in 0..96 /\ 0 \in Int
    BY <1>14
  <2> QED BY <1>4, <1>5, <1>7, <1>11, <1>13, <2>1, Zenon
<1>16. ApartBy((10 * x + 0) % 97, (10 * y + 0) % 97, delta, q)
  BY <1>7, <1>14, <1>15, ApartByTen, Zenon
<1>17. 1 = Mod97Step(x, a) /\ 1 = Mod97Step(y, b)
  <2>1. c[m + 1] = Mod97Step(c[m], w[m + 1]) /\ e[m + 1] = Mod97Step(e[m], r[m + 1])
    BY <1>4, <1>5, <1>7, Zenon
  <2>2. c[n] = Mod97Step(c[m], w[n]) /\ e[n] = Mod97Step(e[m], r[n])
    BY <1>7, <2>1, Zenon
  <2> QED BY <1>1, <1>4, <1>5, <1>13, <2>2, Zenon
<1>18. (10 * x + a) % 97 = 1 /\ (10 * y + b) % 97 = 1
  BY <1>17 DEF Mod97Step, IsDigit
<1>19. PICK z : z = ((10 * x + 0) % 97) - ((10 * y + 0) % 97)
  OBVIOUS
<1>20. z \in Int /\ (z - (delta * q)) % 97 = 0
  <2>1. z \in Int
    BY <1>15, <1>19
  <2> QED BY <1>16, <1>19, <2>1, Zenon DEF ApartBy
<1>21. (z - delta) % 97 = 0
  BY <1>6, <1>15, <1>18, <1>19
<1> QED BY <1>7, <1>14, <1>20, <1>21, ApartByOne, Zenon

(* What leads two words, when two neighbours changed places in what follows. *)
LedExchanged(u, v, t, i, n) == Exchanged(t \o u, t \o v, n + i) /\ (t \o u)[n + i] = u[i] /\ (t \o u)[(n + i) + 1] = u[i + 1]

LEMMA LedExchange ==
  ASSUME NEW u, NEW v, NEW i, Exchanged(u, v, i), NEW t \in Seq(Characters), NEW n, Len(t) = n
  PROVE  LedExchanged(u, v, t, i, n)
<1>1. PICK m : Len(u) = m /\ t \in Seq(Characters)
  OBVIOUS
<1>2. /\ u \in Seq(Characters) /\ v \in Seq(Characters) /\ Len(u) = m /\ Len(v) = m
      /\ i \in 1..(m - 1) /\ u[i] # u[i + 1] /\ v[i] = u[i + 1] /\ v[i + 1] = u[i]
      /\ \A x \in 1..m : x # i /\ x # i + 1 => v[x] = u[x]
  BY <1>1, Zenon DEF Exchanged
<1>3. JoinOf(t \o u, t, u, n, m) /\ JoinOf(t \o v, t, v, n, m)
  BY <1>1, <1>2, Joined, Zenon
<1>4. PICK p, q : p = t \o u /\ q = t \o v
  OBVIOUS
<1>5. /\ n \in Nat /\ m \in Nat /\ p \in Seq(Characters) /\ Len(p) = n + m /\ q \in Seq(Characters) /\ Len(q) = n + m
      /\ (\A x \in 1..n : p[x] = t[x]) /\ (\A x \in 1..m : p[n + x] = u[x])
      /\ (\A x \in 1..n : q[x] = t[x]) /\ (\A x \in 1..m : q[n + x] = v[x])
  BY <1>3, <1>4, Zenon DEF JoinOf
<1>6. PICK j : j = n + i
  OBVIOUS
<1>7. j \in 1..((n + m) - 1) /\ i \in 1..m /\ i + 1 \in 1..m /\ j + 1 = n + (i + 1)
  BY <1>2, <1>5, <1>6
<1>8. p[j] = u[i] /\ p[j + 1] = u[i + 1] /\ q[j] = v[i] /\ q[j + 1] = v[i + 1]
  BY <1>5, <1>6, <1>7, Zenon
<1>9. \A x \in 1..(n + m) : x # j /\ x # j + 1 => q[x] = p[x]
  <2> SUFFICES ASSUME NEW x \in 1..(n + m), x # j, x # j + 1 PROVE q[x] = p[x]
    OBVIOUS
  <2>1. CASE x \in 1..n
    BY <1>5, <2>1, Zenon
  <2>2. CASE x \notin 1..n
    <3>1. PICK y : y = x - n
      OBVIOUS
    <3>2. y \in 1..m /\ n + y = x /\ y # i /\ y # i + 1
      BY <1>5, <1>6, <1>7, <2>2, <3>1
    <3> QED BY <1>2, <1>5, <3>2, Zenon
  <2> QED BY <2>1, <2>2
<1>10. p[j] # p[j + 1] /\ q[j] = p[j + 1] /\ q[j + 1] = p[j]
  BY <1>2, <1>8, Zenon
<1>11. Exchanged(p, q, j)
  BY <1>5, <1>7, <1>9, <1>10, ExchangedWords, Zenon
<1> QED BY <1>4, <1>6, <1>8, <1>11, Zenon DEF LedExchanged

LEMMA KindsOf == \A v \in 0..35 : ~ IsDigit(v) <=> IsLetter(v)
BY DEF IsDigit, IsLetter

(* A month field of at most twelve begins with a zero or a one. *)
LEMMA MonthFieldBegins == \A a, b \in 0..9 : 10 * a + b \in 1..12 => a <= 1
OBVIOUS

=============================================================================

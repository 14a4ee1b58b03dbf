--------------------------- MODULE Readings_proofs ---------------------------
(***************************************************************************)
(* Theorems of Readings about amounts of money, for every text, every      *)
(* surroundings, every table of currencies and every budget.               *)
(*                                                                         *)
(* What is found is a verdict on some match of the pattern, so two things  *)
(* are needed: what the two patterns make a match look like, and what the  *)
(* two validators make of a span that looks like it.                       *)
(***************************************************************************)
EXTENDS Readings, CheckDigits_proofs

-----------------------------------------------------------------------------
(* Drop as a walk over the characters, and when two of them agree. *)

DropWalk(c, s, S, marks) ==
  /\ c \in [0..Len(s) -> Seq(S)] /\ c[0] = <<>> /\ c[Len(s)] = Drop(s, marks)
  /\ \A k \in 1..Len(s) : c[k] = IF s[k] \in marks THEN c[k - 1] ELSE Append(c[k - 1], s[k])

LEMMA DropWalks ==
  ASSUME NEW S, NEW s \in Seq(S), NEW marks
  PROVE  \E c : DropWalk(c, s, S, marks)
<1> DEFINE n == Len(s)
           Solves(g) == g = [i \in 0..n |-> IF i = 0 THEN <<>> ELSE IF s[i] \in marks THEN g[i - 1] ELSE Append(g[i - 1], s[i])]
           kept == CHOOSE g : Solves(g)
           step == [p \in (1..n) \X Seq(S) |-> IF s[p[1]] \in marks THEN p[2] ELSE Append(p[2], s[p[1]])]
<1>1. n \in Nat /\ (\A i \in 1..n : s[i] \in S) /\ <<>> \in Seq(S)
  OBVIOUS
<1>2. \A i \in 1..n : \A x \in Seq(S) : step[<<i, x>>] = IF s[i] \in marks THEN x ELSE Append(x, s[i])
  OBVIOUS
<1>3. IsStep(step, 1..n, Seq(S))
  <2>1. ASSUME NEW i \in 1..n, NEW x \in Seq(S) PROVE step[<<i, x>>] \in Seq(S)
    <3>1. Append(x, s[i]) \in Seq(S)
      BY <1>1, AppendProperties
    <3> QED BY <1>2, <3>1, Zenon
  <2> QED BY <2>1, Zenon DEF IsStep
<1>4. Drop(s, marks) = kept[n]
  BY DEF Drop
<1> HIDE DEF step, n
<1>5. PICK h : FoldSolves(h, n, Seq(S), <<>>, step)
  BY <1>1, <1>3, FoldIsSolved, Zenon
<1>6. Solving(h, n, Seq(S), <<>>, step)
  BY <1>5 DEF FoldSolves, Solving
<1>7. PICK c : Walks(c, n, Seq(S), <<>>, step, h[1..n])
  BY <1>1, <1>3, <1>6, FoldWalks, Zenon
<1>8. c \in [0..n -> Seq(S)] /\ c[0] = <<>>
      /\ \A k \in 1..n : c[k] = IF s[k] \in marks THEN c[k - 1] ELSE Append(c[k - 1], s[k])
  <2>1. c \in [0..n -> Seq(S)] /\ c[0] = <<>> /\ \A k \in 1..n : c[k] = step[<<k, c[k - 1]>>]
    BY <1>7, Zenon DEF Walks
  <2>2. ASSUME NEW k \in 1..n PROVE c[k - 1] \in Seq(S)
    <3>1. k - 1 \in 0..n
      BY <1>1
    <3> QED BY <2>1, <3>1
  <2> QED BY <1>2, <2>1, <2>2, Zenon
<1>9. Solves(c)
  <2>1. \A i \in 0..n : c[i] = IF i = 0 THEN <<>> ELSE IF s[i] \in marks THEN c[i - 1] ELSE Append(c[i - 1], s[i])
    <3> TAKE i \in 0..n
    <3>1. i = 0 \/ i \in 1..n
      BY <1>1
    <3>2. i \in 1..n => i # 0
      BY <1>1
    <3> QED BY <1>8, <3>1, <3>2, Zenon
  <2> QED BY <1>8, <2>1
<1>10. Solves(kept)
  <2> HIDE DEF Solves
  <2> QED BY <1>9
<1>11. \A i \in 0..n : kept[i] = IF i = 0 THEN <<>> ELSE IF s[i] \in marks THEN kept[i - 1] ELSE Append(kept[i - 1], s[i])
  <2> HIDE DEF kept
  <2> QED BY <1>10
<1> HIDE DEF kept
<1>12. kept[n] = c[n]
  <2> DEFINE Same == {i \in 0..n : kept[i] = c[i]}
  <2>1. 0 \in Same
    BY <1>1, <1>8, <1>11
  <2>2. ASSUME NEW k \in 0..n, k + 1 \in 0..n, k \in Same PROVE k + 1 \in Same
    <3>1. k + 1 \in 1..n /\ (k + 1) - 1 = k /\ k + 1 # 0
      BY <1>1, <2>2
    <3>2. kept[k] = c[k]
      BY <2>2
    <3>3. kept[k + 1] = IF s[k + 1] \in marks THEN kept[k] ELSE Append(kept[k], s[k + 1])
      BY <1>11, <2>2, <3>1
    <3>4. c[k + 1] = IF s[k + 1] \in marks THEN c[k] ELSE Append(c[k], s[k + 1])
      BY <1>8, <3>1
    <3> QED BY <2>2, <3>2, <3>3, <3>4
  <2> HIDE DEF Same
  <2>3. \A k \in 0..n : k \in Same
    BY <1>1, <2>1, <2>2, PassedOn
  <2> QED BY <1>1, <2>3 DEF Same
<1> QED BY <1>4, <1>8, <1>12 DEF DropWalk, n

(* Only what lies between the offsets l and h is left of s, and of that what is left of u. *)
Between(s, l, h, marks, others) ==
  /\ l \in 0..Len(s) /\ h \in l..Len(s)
  /\ \A i \in 1..l : s[i] \in marks
  /\ \A i \in (h + 1)..Len(s) : s[i] \in marks
  /\ \A i \in (l + 1)..h : s[i] \in marks <=> s[i] \in others

LEMMA DropAgrees ==
  ASSUME NEW S, NEW s \in Seq(S), NEW l, NEW h, NEW marks, NEW others, Between(s, l, h, marks, others)
  PROVE  Drop(s, marks) = Drop(TextOf(s, l, h), others)
<1> DEFINE n == Len(s)
<1>1. n \in Nat /\ l \in 0..n /\ h \in l..n /\ l \in Nat /\ h \in Nat
  BY DEF Between
<1>2. PICK u : u = TextOf(s, l, h)
  OBVIOUS
<1>3. u \in Seq(S) /\ Len(u) = h - l /\ \A j \in 1..(h - l) : u[j] = s[l + j]
  <2>1. \A i \in (l + 1)..h : s[i] \in S
    BY <1>1
  <2>2. /\ SubSeq(s, l + 1, h) \in Seq(S) /\ Len(SubSeq(s, l + 1, h)) = IF l + 1 <= h THEN h - (l + 1) + 1 ELSE 0
        /\ \A j \in 1..(h - (l + 1) + 1) : SubSeq(s, l + 1, h)[j] = s[l + 1 + j - 1]
    BY <1>1, <2>1, SubSeqProperties
  <2> QED BY <1>1, <1>2, <2>2 DEF TextOf
<1>4. PICK c : DropWalk(c, s, S, marks)
  BY DropWalks
<1>5. PICK e : DropWalk(e, u, S, others)
  BY <1>3, DropWalks
<1>6. \A k \in 1..n : c[k] = IF s[k] \in marks THEN c[k - 1] ELSE Append(c[k - 1], s[k])
  BY <1>4 DEF DropWalk
<1>7. \A k \in 1..(h - l) : e[k] = IF u[k] \in others THEN e[k - 1] ELSE Append(e[k - 1], u[k])
  BY <1>3, <1>5 DEF DropWalk
<1>8. c[0] = <<>> /\ e[0] = <<>> /\ c[n] = Drop(s, marks) /\ e[h - l] = Drop(u, others)
  BY <1>3, <1>4, <1>5 DEF DropWalk
<1> HIDE DEF n
<1>9. /\ \A i \in 1..l : s[i] \in marks
      /\ \A i \in (h + 1)..n : s[i] \in marks
      /\ \A i \in (l + 1)..h : s[i] \in marks <=> s[i] \in others
  BY DEF Between, n
<1>10. c[l] = <<>>
  <2> DEFINE Good == {k \in 0..l : c[k] = <<>>}
  <2>1. 0 \in Good
    BY <1>1, <1>8
  <2>2. ASSUME NEW k \in 0..l, k + 1 \in 0..l, k \in Good PROVE k + 1 \in Good
    <3>1. k + 1 \in 1..l /\ k + 1 \in 1..n /\ (k + 1) - 1 = k /\ c[k] = <<>>
      BY <1>1, <2>2
    <3> QED BY <1>6, <1>9, <2>2, <3>1
  <2> HIDE DEF Good
  <2>3. \A k \in 0..l : k \in Good
    BY <1>1, <2>1, <2>2, PassedOn
  <2> QED BY <1>1, <2>3 DEF Good
<1>11. c[h] = e[h - l]
  <2> DEFINE m == h - l
             Good == {k \in 0..m : c[l + k] = e[k]}
  <2>1. m \in Nat /\ l + m = h
    BY <1>1
  <2> HIDE DEF m
  <2>2. 0 \in Good
    BY <1>1, <1>8, <1>10, <2>1
  <2>3. ASSUME NEW k \in 0..m, k + 1 \in 0..m, k \in Good PROVE k + 1 \in Good
    <3>1. k + 1 \in 1..m /\ l + (k + 1) \in 1..n /\ l + (k + 1) \in (l + 1)..h /\ (k + 1) - 1 = k /\ (l + (k + 1)) - 1 = l + k
      BY <1>1, <2>1, <2>3
    <3>2. c[l + k] = e[k]
      BY <2>3
    <3>3. u[k + 1] = s[l + (k + 1)]
      BY <1>3, <3>1 DEF m
    <3>4. c[l + (k + 1)] = IF s[l + (k + 1)] \in marks THEN c[l + k] ELSE Append(c[l + k], s[l + (k + 1)])
      BY <1>6, <3>1
    <3>5. e[k + 1] = IF u[k + 1] \in others THEN e[k] ELSE Append(e[k], u[k + 1])
      BY <1>7, <3>1 DEF m
    <3>6. s[l + (k + 1)] \in marks <=> s[l + (k + 1)] \in others
      BY <1>9, <3>1
    <3>7. c[l + (k + 1)] = e[k + 1]
      <4>1. CASE s[l + (k + 1)] \in marks
        <5>1. c[l + (k + 1)] = c[l + k]
          BY <3>4, <4>1
        <5>2. e[k + 1] = e[k]
          BY <3>3, <3>5, <3>6, <4>1
        <5> QED BY <3>2, <5>1, <5>2
      <4>2. CASE s[l + (k + 1)] \notin marks
        <5>1. c[l + (k + 1)] = Append(c[l + k], s[l + (k + 1)])
          BY <3>4, <4>2
        <5>2. e[k + 1] = Append(e[k], u[k + 1])
          BY <3>3, <3>5, <3>6, <4>2
        <5> QED BY <3>2, <3>3, <5>1, <5>2
      <4> QED BY <4>1, <4>2
    <3> QED BY <2>3, <3>7
  <2> HIDE DEF Good
  <2>4. \A k \in 0..m : k \in Good
    BY <2>1, <2>2, <2>3, PassedOn
  <2>5. m \in Good
    BY <2>1, <2>4
  <2>6. c[l + m] = e[m]
    BY <2>5 DEF Good
  <2> QED BY <2>1, <2>6 DEF m
<1>12. c[n] = c[h]
  <2> DEFINE m == n - h
             Good == {k \in 0..m : c[h + k] = c[h]}
  <2>1. m \in Nat /\ h + m = n
    BY <1>1
  <2> HIDE DEF m
  <2>2. 0 \in Good
    BY <1>1, <2>1
  <2>3. ASSUME NEW k \in 0..m, k + 1 \in 0..m, k \in Good PROVE k + 1 \in Good
    <3>1. h + (k + 1) \in 1..n /\ h + (k + 1) \in (h + 1)..n /\ (h + (k + 1)) - 1 = h + k
      BY <1>1, <2>1, <2>3
    <3>2. c[h + k] = c[h]
      BY <2>3
    <3>3. c[h + (k + 1)] = c[h + k]
      BY <1>6, <1>9, <3>1
    <3> QED BY <2>3, <3>2, <3>3
  <2> HIDE DEF Good
  <2>4. \A k \in 0..m : k \in Good
    BY <2>1, <2>2, <2>3, PassedOn
  <2>5. m \in Good
    BY <2>1, <2>4
  <2> QED BY <2>1, <2>5 DEF Good
<1> QED BY <1>2, <1>8, <1>11, <1>12

(* What Drop returns is a sequence of the same characters. *)
LEMMA DropIsASequence ==
  ASSUME NEW S, NEW s \in Seq(S), NEW marks
  PROVE  Drop(s, marks) \in Seq(S)
<1>1. PICK c : DropWalk(c, s, S, marks)
  BY DropWalks
<1> QED BY <1>1 DEF DropWalk

-----------------------------------------------------------------------------
(* The folds a pattern is matched with. *)

AdvanceFn(t, A) == [p \in (SUBSET Int) \X A |-> Advance(t, p[2], p[1])]
AdvanceWalk(c, t, items, froms) ==
  /\ c[0] = froms /\ c[Len(items)] = Through(t, items, froms)
  /\ \A k \in 1..Len(items) : c[k - 1] \in SUBSET Int /\ c[k] \in SUBSET Int /\ c[k] = Advance(t, items[k], c[k - 1])
IsItem(a) == a.low \in Nat /\ a.high \in Nat

LEMMA LesserOf ==
  ASSUME NEW x \in Int, NEW y \in Int
  PROVE  Min({x, y}) \in Int /\ Min({x, y}) <= x /\ Min({x, y}) <= y /\ (Min({x, y}) = x \/ Min({x, y}) = y)
<1>1. \E z \in {x, y} : \A v \in {x, y} : z =< v
  <2>1. CASE x <= y
    BY <2>1
  <2>2. CASE ~ (x <= y)
    BY <2>2
  <2> QED BY <2>1, <2>2
<1>2. Min({x, y}) \in {x, y} /\ \A v \in {x, y} : Min({x, y}) =< v
  BY <1>1, Zenon DEF Min
<1> QED BY <1>2

(* An item leads from an offset over characters of its class, as many as it may take. *)
Steps(t, item, F, q) ==
  /\ q \in Int /\ q <= Len(t)
  /\ \E p \in F : p + item.low <= q /\ q <= p + item.high /\ \A i \in (p + 1)..q : t[i] \in item.class

LEMMA AdvanceIs ==
  ASSUME NEW S, NEW t \in Seq(S), NEW F \in SUBSET Int, NEW item, IsItem(item), NEW q \in Advance(t, item, F)
  PROVE  Steps(t, item, F, q)
<1>1. PICK p \in F : q \in (p + item.low)..Min({p + item.high, Len(t)}) /\ \A i \in (p + 1)..q : t[i] \in item.class
  BY Zenon DEF Advance
<1>2. p \in Int /\ item.low \in Nat /\ item.high \in Nat /\ Len(t) \in Nat
  BY DEF IsItem
<1>3. p + item.high \in Int /\ Len(t) \in Int
  BY <1>2
<1>4. PICK m : m = Min({p + item.high, Len(t)})
  OBVIOUS
<1>5. m \in Int /\ m <= p + item.high /\ m <= Len(t)
  BY <1>3, <1>4, LesserOf
<1>6. q \in Int /\ p + item.low <= q /\ q <= p + item.high /\ q <= Len(t)
  BY <1>1, <1>2, <1>4, <1>5
<1> QED BY <1>1, <1>6, Zenon DEF Steps

LEMMA AdvanceFnIs ==
  ASSUME NEW S, NEW t \in Seq(S), NEW A, \A a \in A : IsItem(a)
  PROVE  \A F \in SUBSET Int : \A a \in A :
           AdvanceFn(t, A)[<<F, a>>] = Advance(t, a, F) /\ AdvanceFn(t, A)[<<F, a>>] \in SUBSET Int
<1> TAKE F \in SUBSET Int
<1> TAKE a \in A
<1>1. Advance(t, a, F) \in SUBSET Int
  <2>1. ASSUME NEW q \in Advance(t, a, F) PROVE q \in Int
    BY <2>1, AdvanceIs, Zenon DEF Steps
  <2> QED BY <2>1
<1>2. AdvanceFn(t, A)[<<F, a>>] = Advance(t, a, F)
  BY Zenon DEF AdvanceFn
<1> QED BY <1>1, <1>2

LEMMA ThroughWalks ==
  ASSUME NEW S, NEW t \in Seq(S), NEW A, NEW items \in Seq(A), \A a \in A : IsItem(a), NEW froms \in SUBSET Int
  PROVE  \E c : AdvanceWalk(c, t, items, froms)
<1> DEFINE Solves(h) ==
             h = [s \in SUBSET (DOMAIN items) |-> IF s = {} THEN froms ELSE Advance(t, items[Max(s)], h[s \ {Max(s)}])]
           iter == CHOOSE h : Solves(h)
           Fn == AdvanceFn(t, A)
<1>0. \A F \in SUBSET Int : \A a \in A : Fn[<<F, a>>] = Advance(t, a, F) /\ Fn[<<F, a>>] \in SUBSET Int
  BY AdvanceFnIs
<1> HIDE DEF Fn
<1>1. DOMAIN items = 1..Len(items) /\ (\A i \in 1..Len(items) : items[i] \in A) /\ Len(items) \in Nat
  OBVIOUS
<1>2. TypedStep(Fn, SUBSET Int, A)
  BY <1>0, Zenon DEF TypedStep
<1>3. PICK h : FoldOver(h, items, SUBSET Int, froms, Fn)
  <2> HIDE DEF Solves
  <2> QED BY <1>1, <1>2, FoldOverExists, Zenon
<1>4. Solves(iter)
  <2>1. \A s \in SUBSET (1..Len(items)) : h[s] = IF s = {} THEN froms ELSE Advance(t, items[Max(s)], h[s \ {Max(s)}])
    <3> SUFFICES ASSUME NEW s \in SUBSET (1..Len(items)), s # {}
                 PROVE  h[s] = Advance(t, items[Max(s)], h[s \ {Max(s)}])
      BY <1>3, Zenon DEF FoldOver
    <3>1. /\ Max(s) \in 1..Len(items) /\ h[s \ {Max(s)}] \in SUBSET Int
          /\ h[s] = Fn[<<h[s \ {Max(s)}], items[Max(s)]>>]
      BY <1>3, Zenon DEF FoldOver
    <3>2. items[Max(s)] \in A
      BY <1>1, <3>1
    <3> QED BY <1>0, <3>1, <3>2, Zenon
  <2>2. Solves(h)
    BY <1>1, <1>3, <2>1, Zenon DEF FoldOver
  <2> HIDE DEF Solves
  <2> QED BY <2>2
<1> HIDE DEF iter
<1>5. SolvesOver(iter, items, SUBSET Int, froms, Fn)
  <2>1. /\ iter[{}] = froms
        /\ \A s \in SUBSET (1..Len(items)) : s # {} => iter[s] = Advance(t, items[Max(s)], iter[s \ {Max(s)}])
    BY <1>1, <1>4, Zenon
  <2> HIDE DEF Solves
  <2>2. ASSUME NEW s \in SUBSET (1..Len(items)), s # {}, Max(s) \in 1..Len(items), iter[s \ {Max(s)}] \in SUBSET Int
        PROVE  iter[s] = Fn[<<iter[s \ {Max(s)}], items[Max(s)]>>]
    BY <1>0, <1>1, <2>1, <2>2, Zenon
  <2> QED BY <2>1, <2>2, Zenon DEF SolvesOver
<1>6. PICK c : Over(c, items, SUBSET Int, froms, Fn) /\ c[Len(items)] = iter[1..Len(items)]
  <2> HIDE DEF Solves
  <2>1. PICK c : WalkTo(c, items, SUBSET Int, froms, Fn, iter[1..Len(items)])
    BY <1>1, <1>2, <1>5, FoldIsAWalk, Zenon
  <2> QED BY <2>1, Zenon DEF WalkTo
<1>7. Through(t, items, froms) = iter[DOMAIN items]
  BY DEF Through, FoldLeft, MapThenFoldSet, iter
<1>8. c[0] = froms /\ c[Len(items)] = Through(t, items, froms)
  BY <1>1, <1>6, <1>7, Zenon DEF Over
<1>9. ASSUME NEW k \in 1..Len(items)
      PROVE  c[k - 1] \in SUBSET Int /\ c[k] \in SUBSET Int /\ c[k] = Advance(t, items[k], c[k - 1])
  <2>1. k \in 0..Len(items) /\ k - 1 \in 0..Len(items) /\ items[k] \in A
    BY <1>1
  <2>2. c[k - 1] \in SUBSET Int /\ c[k] \in SUBSET Int /\ c[k] = Fn[<<c[k - 1], items[k]>>]
    BY <1>6, <2>1 DEF Over
  <2> QED BY <1>0, <2>1, <2>2, Zenon
<1> QED BY <1>8, <1>9, Zenon DEF AdvanceWalk

LEMMA ThroughTwo ==
  ASSUME NEW S, NEW t \in Seq(S), NEW a, NEW b, IsItem(a), IsItem(b), NEW froms \in SUBSET Int
  PROVE  /\ Advance(t, a, froms) \in SUBSET Int
         /\ Through(t, <<a, b>>, froms) = Advance(t, b, Advance(t, a, froms))
         /\ Through(t, <<a, b>>, froms) \in SUBSET Int
<1>1. PICK items : items = <<a, b>>
  OBVIOUS
<1>0. PICK A : A = {a, b}
  OBVIOUS
<1>2. items \in Seq(A) /\ Len(items) = 2 /\ items[1] = a /\ items[2] = b
  BY <1>0, <1>1
<1>3. \A x \in A : IsItem(x)
  BY <1>0
<1>4. PICK c : AdvanceWalk(c, t, items, froms)
  BY <1>2, <1>3, ThroughWalks, Zenon
<1>5. 1 \in 1..Len(items) /\ 2 \in 1..Len(items) /\ 1 - 1 = 0 /\ 2 - 1 = 1
  BY <1>2
<1>6. c[0] = froms /\ c[2] = Through(t, items, froms)
  BY <1>2, <1>4, Zenon DEF AdvanceWalk
<1>7. c[1] \in SUBSET Int /\ c[1] = Advance(t, a, c[0])
  BY <1>2, <1>4, <1>5, Zenon DEF AdvanceWalk
<1>8. c[2] \in SUBSET Int /\ c[2] = Advance(t, b, c[1])
  BY <1>2, <1>4, <1>5, Zenon DEF AdvanceWalk
<1> QED BY <1>1, <1>6, <1>7, <1>8, Zenon

LEMMA ThroughThree ==
  ASSUME NEW S, NEW t \in Seq(S), NEW a, NEW b, NEW d, IsItem(a), IsItem(b), IsItem(d), NEW froms \in SUBSET Int
  PROVE  /\ Advance(t, a, froms) \in SUBSET Int /\ Advance(t, b, Advance(t, a, froms)) \in SUBSET Int
         /\ Through(t, <<a, b, d>>, froms) = Advance(t, d, Advance(t, b, Advance(t, a, froms)))
         /\ Through(t, <<a, b, d>>, froms) \in SUBSET Int
<1>1. PICK items : items = <<a, b, d>>
  OBVIOUS
<1>0. PICK A : A = {a, b, d}
  OBVIOUS
<1>2. items \in Seq(A) /\ Len(items) = 3 /\ items[1] = a /\ items[2] = b /\ items[3] = d
  BY <1>0, <1>1
<1>3. \A x \in A : IsItem(x)
  BY <1>0
<1>4. PICK c : AdvanceWalk(c, t, items, froms)
  BY <1>2, <1>3, ThroughWalks, Zenon
<1>5. 1 \in 1..Len(items) /\ 2 \in 1..Len(items) /\ 3 \in 1..Len(items) /\ 1 - 1 = 0 /\ 2 - 1 = 1 /\ 3 - 1 = 2
  BY <1>2
<1>6. c[0] = froms /\ c[3] = Through(t, items, froms)
  BY <1>2, <1>4, Zenon DEF AdvanceWalk
<1>7. c[1] \in SUBSET Int /\ c[1] = Advance(t, a, c[0])
  BY <1>2, <1>4, <1>5, Zenon DEF AdvanceWalk
<1>8. c[2] \in SUBSET Int /\ c[2] = Advance(t, b, c[1])
  BY <1>2, <1>4, <1>5, Zenon DEF AdvanceWalk
<1>9. c[3] \in SUBSET Int /\ c[3] = Advance(t, d, c[2])
  BY <1>2, <1>4, <1>5, Zenon DEF AdvanceWalk
<1> QED BY <1>1, <1>6, <1>7, <1>8, <1>9, Zenon

(* A repetition stays in every set of offsets its items do not lead out of. *)
RepeatFn(t, items, Good, A) == [p \in (SUBSET Good) \X A |-> p[1] \union Through(t, items, p[1])]
Stays(t, items, Good) == \A Q \in SUBSET Good : Through(t, items, Q) \in SUBSET Good

LEMMA RepeatedStays ==
  ASSUME NEW A, NEW t \in Seq(A), NEW items, NEW Good, NEW froms \in SUBSET Good, Stays(t, items, Good)
  PROVE  Repeated(t, items, froms) \in SUBSET Good
<1> DEFINE Solves(h) ==
             h = [s \in SUBSET (DOMAIN t) |-> IF s = {} THEN froms
                    ELSE h[s \ {Max(s)}] \union Through(t, items, h[s \ {Max(s)}])]
           iter == CHOOSE h : Solves(h)
           Fn == RepeatFn(t, items, Good, A)
<1>1. DOMAIN t = 1..Len(t) /\ (\A i \in 1..Len(t) : t[i] \in A) /\ Len(t) \in Nat
  OBVIOUS
<1>0. \A Q \in SUBSET Good : \A a \in A : Fn[<<Q, a>>] = Q \union Through(t, items, Q) /\ Fn[<<Q, a>>] \in SUBSET Good
  <2> TAKE Q \in SUBSET Good
  <2> TAKE a \in A
  <2>1. Fn[<<Q, a>>] = Q \union Through(t, items, Q)
    BY Zenon DEF RepeatFn
  <2>2. Through(t, items, Q) \in SUBSET Good
    BY DEF Stays
  <2> HIDE DEF Fn
  <2> QED BY <2>1, <2>2
<1>2. TypedStep(Fn, SUBSET Good, A)
  <2> HIDE DEF Fn
  <2> QED BY <1>0, Zenon DEF TypedStep
<1>3. PICK h : FoldOver(h, t, SUBSET Good, froms, Fn)
  <2> HIDE DEF Solves, Fn
  <2> QED BY <1>1, <1>2, FoldOverExists, Zenon
<1>4. Solves(iter)
  <2>1. \A s \in SUBSET (1..Len(t)) : h[s] = IF s = {} THEN froms ELSE h[s \ {Max(s)}] \union Through(t, items, h[s \ {Max(s)}])
    <3> SUFFICES ASSUME NEW s \in SUBSET (1..Len(t)), s # {}
                 PROVE  h[s] = h[s \ {Max(s)}] \union Through(t, items, h[s \ {Max(s)}])
      BY <1>3, Zenon DEF FoldOver
    <3> HIDE DEF Fn
    <3>1. /\ Max(s) \in 1..Len(t) /\ h[s \ {Max(s)}] \in SUBSET Good
          /\ h[s] = Fn[<<h[s \ {Max(s)}], t[Max(s)]>>]
      BY <1>3, Zenon DEF FoldOver
    <3>2. t[Max(s)] \in A
      BY <1>1, <3>1
    <3> QED BY <1>0, <3>1, <3>2, Zenon
  <2>2. Solves(h)
    BY <1>1, <1>3, <2>1, Zenon DEF FoldOver
  <2> HIDE DEF Solves
  <2> QED BY <2>2
<1> HIDE DEF iter
<1>5. SolvesOver(iter, t, SUBSET Good, froms, Fn)
  <2>1. /\ iter[{}] = froms
        /\ \A s \in SUBSET (1..Len(t)) : s # {} => iter[s] = iter[s \ {Max(s)}] \union Through(t, items, iter[s \ {Max(s)}])
    BY <1>1, <1>4, Zenon
  <2> HIDE DEF Solves, Fn
  <2>2. ASSUME NEW s \in SUBSET (1..Len(t)), s # {}, Max(s) \in 1..Len(t), iter[s \ {Max(s)}] \in SUBSET Good
        PROVE  iter[s] = Fn[<<iter[s \ {Max(s)}], t[Max(s)]>>]
    BY <1>0, <1>1, <2>1, <2>2, Zenon
  <2> QED BY <2>1, <2>2, Zenon DEF SolvesOver
<1>6. PICK c : Over(c, t, SUBSET Good, froms, Fn) /\ c[Len(t)] = iter[1..Len(t)]
  <2> HIDE DEF Solves, Fn
  <2>1. PICK c : WalkTo(c, t, SUBSET Good, froms, Fn, iter[1..Len(t)])
    BY <1>1, <1>2, <1>5, FoldIsAWalk, Zenon
  <2> QED BY <2>1, Zenon DEF WalkTo
<1>7. Repeated(t, items, froms) = iter[DOMAIN t]
  BY DEF Repeated, FoldLeft, MapThenFoldSet, iter
<1>8. c[Len(t)] \in SUBSET Good
  <2>1. Len(t) \in 0..Len(t)
    BY <1>1
  <2> HIDE DEF Fn
  <2> QED BY <1>6, <2>1 DEF Over
<1> QED BY <1>1, <1>6, <1>7, <1>8, Zenon

-----------------------------------------------------------------------------
(* What find_iter finds are matches of the table. *)

Matches(table, n) ==
  {m \in [start : 0..n, end : Int, retries : Int] : m.end \in table[m.start] /\ m.start < m.end}

(* A table of matches: from every offset, the offsets behind it where one ends. *)
IsTable(table, n) == \A p \in 0..n : \A q \in table[p] : q \in Int /\ p < q /\ q <= n

FoundAt(table, limit, r, acc, p) ==
  IF p < acc.at \/ Longest(table, p, limit) = {} THEN acc
  ELSE LET q == CHOOSE q \in Longest(table, p, limit) : TRUE
       IN  [at |-> q, items |-> Append(acc.items, [start |-> p, end |-> q, retries |-> r])]
FindStates(table, n) == [at : Int, items : Seq(Matches(table, n))]
FindFn(table, n, limit, r, A) == [x \in FindStates(table, n) \X A |-> FoundAt(table, limit, r, x[1], x[2])]

LEMMA FoundAtIs ==
  ASSUME NEW table, NEW n \in Nat, IsTable(table, n), NEW limit, NEW r \in Int,
         NEW acc \in FindStates(table, n), NEW p \in 0..n
  PROVE  FoundAt(table, limit, r, acc, p) \in FindStates(table, n)
<1>1. CASE p < acc.at \/ Longest(table, p, limit) = {}
  BY <1>1 DEF FoundAt
<1>2. CASE ~ (p < acc.at \/ Longest(table, p, limit) = {})
  <2>1. PICK q : q = CHOOSE r1 \in Longest(table, p, limit) : TRUE
    OBVIOUS
  <2>2. q \in Longest(table, p, limit)
    BY <1>2, <2>1, Zenon
  <2>3. q \in table[p] /\ q \in Int /\ p < q
    BY <2>2 DEF Longest, IsTable
  <2>4. PICK m : m = [start |-> p, end |-> q, retries |-> r]
    OBVIOUS
  <2>5. m \in Matches(table, n)
    BY <2>3, <2>4 DEF Matches
  <2>6. FoundAt(table, limit, r, acc, p) = [at |-> q, items |-> Append(acc.items, m)]
    BY <1>2, <2>1, <2>4, Zenon DEF FoundAt
  <2>7. acc.items \in Seq(Matches(table, n))
    BY Zenon DEF FindStates
  <2>8. Append(acc.items, m) \in Seq(Matches(table, n))
    BY <2>5, <2>7, AppendProperties, Zenon
  <2> QED BY <2>3, <2>6, <2>8 DEF FindStates
<1> QED BY <1>1, <1>2

LEMMA FindIterFinds ==
  ASSUME NEW table, NEW n \in Nat, IsTable(table, n), NEW from \in Nat, NEW limit \in Int, limit <= n, NEW r \in Int
  PROVE  FindIter(table, from, limit, r) \in Seq(Matches(table, n))
<1>20. PICK A : A = 0..n
  OBVIOUS
<1>21. PICK base : base = [at |-> from, items |-> <<>>]
  OBVIOUS
<1>22. PICK d : d = [i \in 1..(limit - from) |-> from + i - 1]
  OBVIOUS
<1>23. d \in Seq(A)
  <2>1. \A i \in 1..(limit - from) : from + i - 1 \in A
    BY <1>20
  <2>2. limit - from \in Int
    OBVIOUS
  <2>3. CASE limit - from \in Nat
    BY <1>22, <2>1, <2>3
  <2>4. CASE limit - from \notin Nat
    <3>1. 1..(limit - from) = {}
      BY <2>2, <2>4
    <3>2. d = <<>>
      BY <1>22, <3>1
    <3> QED BY <3>2
  <2> QED BY <2>3, <2>4
<1>24. base \in FindStates(table, n)
  BY <1>21 DEF FindStates
<1> DEFINE Solves(h) ==
             h = [s \in SUBSET (DOMAIN d) |-> IF s = {} THEN base ELSE FoundAt(table, limit, r, h[s \ {Max(s)}], d[Max(s)])]
           iter == CHOOSE h : Solves(h)
           Fn == FindFn(table, n, limit, r, A)
           St == FindStates(table, n)
<1>0. \A x \in St : \A p \in A : Fn[<<x, p>>] = FoundAt(table, limit, r, x, p) /\ Fn[<<x, p>>] \in St
  <2> TAKE x \in St
  <2> TAKE p \in A
  <2>1. Fn[<<x, p>>] = FoundAt(table, limit, r, x, p)
    BY Zenon DEF FindFn
  <2>2. FoundAt(table, limit, r, x, p) \in St
    BY <1>20, FoundAtIs
  <2> HIDE DEF Fn
  <2> QED BY <2>1, <2>2
<1> HIDE DEF Fn, St
<1>1. DOMAIN d = 1..Len(d) /\ (\A i \in 1..Len(d) : d[i] \in A) /\ Len(d) \in Nat
  BY <1>23
<1>2. TypedStep(Fn, St, A)
  BY <1>0, Zenon DEF TypedStep
<1>25. base \in St
  BY <1>24 DEF St
<1>3. PICK h : FoldOver(h, d, St, base, Fn)
  <2> HIDE DEF Solves
  <2> QED BY <1>23, <1>25, <1>2, FoldOverExists, Zenon
<1>4. Solves(iter)
  <2>1. \A s \in SUBSET (1..Len(d)) : h[s] = IF s = {} THEN base ELSE FoundAt(table, limit, r, h[s \ {Max(s)}], d[Max(s)])
    <3> SUFFICES ASSUME NEW s \in SUBSET (1..Len(d)), s # {}
                 PROVE  h[s] = FoundAt(table, limit, r, h[s \ {Max(s)}], d[Max(s)])
      BY <1>3, Zenon DEF FoldOver
    <3>1. /\ Max(s) \in 1..Len(d) /\ h[s \ {Max(s)}] \in St
          /\ h[s] = Fn[<<h[s \ {Max(s)}], d[Max(s)]>>]
      BY <1>3, Zenon DEF FoldOver
    <3>2. d[Max(s)] \in A
      BY <1>1, <3>1
    <3> QED BY <1>0, <3>1, <3>2, Zenon
  <2>2. Solves(h)
    BY <1>1, <1>3, <2>1, Zenon DEF FoldOver
  <2> HIDE DEF Solves
  <2> QED BY <2>2
<1> HIDE DEF iter
<1>5. SolvesOver(iter, d, St, base, Fn)
  <2>1. /\ iter[{}] = base
        /\ \A s \in SUBSET (1..Len(d)) : s # {} => iter[s] = FoundAt(table, limit, r, iter[s \ {Max(s)}], d[Max(s)])
    BY <1>1, <1>4, Zenon
  <2> HIDE DEF Solves
  <2>2. ASSUME NEW s \in SUBSET (1..Len(d)), s # {}, Max(s) \in 1..Len(d), iter[s \ {Max(s)}] \in St
        PROVE  iter[s] = Fn[<<iter[s \ {Max(s)}], d[Max(s)]>>]
    BY <1>0, <1>1, <2>1, <2>2, Zenon
  <2> QED BY <2>1, <2>2, Zenon DEF SolvesOver
<1>6. PICK c : Over(c, d, St, base, Fn) /\ c[Len(d)] = iter[1..Len(d)]
  <2> HIDE DEF Solves
  <2>1. PICK c : WalkTo(c, d, St, base, Fn, iter[1..Len(d)])
    BY <1>23, <1>25, <1>2, <1>5, FoldIsAWalk, Zenon
  <2> QED BY <2>1, Zenon DEF WalkTo
<1>7. FindIter(table, from, limit, r) = iter[DOMAIN d].items
  BY <1>21, <1>22 DEF FindIter, FoldLeft, MapThenFoldSet, iter, FoundAt
<1>8. c[Len(d)] \in St
  <2>1. Len(d) \in 0..Len(d)
    BY <1>1
  <2> QED BY <1>6, <2>1 DEF Over
<1>9. c[Len(d)].items \in Seq(Matches(table, n))
  BY <1>8 DEF St, FindStates
<1> QED BY <1>1, <1>6, <1>7, <1>9, Zenon

-----------------------------------------------------------------------------
(* What the patterns of money.rs match. *)

InAmount == Digits \union Marks \union Grouping
BesideAmount == Capitals \union Signs \union Blanks

(* From k to q an amount is written, from digit to digit; a price may also open with its decimal mark. *)
Amount(t, k, q) ==
  /\ k \in Nat /\ q \in Nat /\ k < q /\ q <= Len(t)
  /\ t[k + 1] \in Digits /\ t[q] \in Digits
  /\ \A i \in (k + 1)..q : t[i] \in InAmount
Price(t, k, q) ==
  /\ k \in Nat /\ q \in Nat /\ k < q /\ q <= Len(t)
  /\ t[k + 1] \in Digits \/ (t[k + 1] \in Marks /\ k + 2 <= q /\ t[k + 2] \in Digits)
  /\ t[q] \in Digits
  /\ \A i \in (k + 1)..q : t[i] \in InAmount
AmountsFrom(t, F) == {q \in Int : \E k \in F : Amount(t, k, q)}
PricesFrom(t, F) == {q \in Int : \E k \in F : Price(t, k, q)}

LEMMA GroupsStay ==
  ASSUME NEW S, NEW t \in Seq(S), NEW F, NEW Class, Class \subseteq Marks \union Grouping,
         NEW b, IsItem(b), b.low >= 1, b.class = Digits
  PROVE  Stays(t, <<One(Class), b>>, AmountsFrom(t, F))
<1>1. PICK x : x = One(Class)
  OBVIOUS
<1>2. IsItem(x) /\ x.low = 1 /\ x.high = 1 /\ x.class = Class
  BY <1>1 DEF IsItem, One, Times
<1> SUFFICES ASSUME NEW Q \in SUBSET AmountsFrom(t, F), NEW q \in Through(t, <<x, b>>, Q)
             PROVE  q \in AmountsFrom(t, F)
  BY <1>1, Zenon DEF Stays
<1>3. Q \in SUBSET Int
  BY Zenon DEF AmountsFrom
<1>4. Advance(t, x, Q) \in SUBSET Int /\ q \in Advance(t, b, Advance(t, x, Q))
  BY <1>2, <1>3, ThroughTwo, Zenon
<1>5. PICK R : R = Advance(t, x, Q)
  OBVIOUS
<1>6. R \in SUBSET Int /\ q \in Advance(t, b, R)
  BY <1>4, <1>5
<1>7. Steps(t, b, R, q)
  BY <1>6, AdvanceIs, Zenon
<1>8. PICK p \in R : p + b.low <= q /\ q <= p + b.high /\ \A i \in (p + 1)..q : t[i] \in Digits
  BY <1>7, Zenon DEF Steps
<1>9. Steps(t, x, Q, p)
  BY <1>2, <1>3, <1>5, AdvanceIs, Zenon
<1>10. PICK o \in Q : o + 1 <= p /\ p <= o + 1 /\ \A i \in (o + 1)..p : t[i] \in Class
  BY <1>2, <1>9, Zenon DEF Steps
<1>11. PICK k \in F : Amount(t, k, o)
  BY <1>10, Zenon DEF AmountsFrom
<1>12. /\ k \in Nat /\ o \in Nat /\ k < o /\ q \in Int /\ q <= Len(t) /\ p = o + 1 /\ p + 1 <= q
  <2>1. k \in Nat /\ o \in Nat /\ k < o
    BY <1>11, Zenon DEF Amount
  <2>2. q \in Int /\ q <= Len(t) /\ b.low \in Nat
    BY <1>7, Zenon DEF Steps, IsItem
  <2>3. p \in Int
    BY <1>6
  <2> QED BY <1>8, <1>10, <2>1, <2>2, <2>3
<1>13. \A i \in (k + 1)..q : t[i] \in InAmount
  <2> TAKE i \in (k + 1)..q
  <2>1. CASE i <= o
    <3>1. i \in (k + 1)..o
      BY <1>12, <2>1
    <3> QED BY <1>11, <3>1, Zenon DEF Amount
  <2>2. CASE i = p
    <3>1. i \in (o + 1)..p
      BY <1>12, <2>2
    <3>2. t[i] \in Class
      BY <1>10, <3>1
    <3> QED BY <3>2, Zenon DEF InAmount
  <2>3. CASE p < i
    <3>1. i \in (p + 1)..q
      BY <1>12, <2>3
    <3>2. t[i] \in Digits
      BY <1>8, <3>1
    <3> QED BY <3>2, Zenon DEF InAmount
  <2> QED BY <1>12, <2>1, <2>2, <2>3
<1>14. t[q] \in Digits
  <2>1. q \in (p + 1)..q
    BY <1>12
  <2> QED BY <1>8, <2>1
<1>15. Amount(t, k, q)
  BY <1>11, <1>12, <1>13, <1>14 DEF Amount
<1> QED BY <1>12, <1>15, Zenon DEF AmountsFrom

LEMMA AmountEndsAre ==
  ASSUME NEW S, NEW t \in Seq(S), NEW F \in SUBSET Nat
  PROVE  AmountEnds(t, F) \in SUBSET AmountsFrom(t, F)
<1>1. PICK b : b = Many(t)
  OBVIOUS
<1>2. PICK d : d = D(3)
  OBVIOUS
<1>3. IsItem(b) /\ b.low = 1 /\ b.class = Digits /\ IsItem(d) /\ d.low = 3 /\ d.class = Digits
  BY <1>1, <1>2 DEF Many, D, Times, IsItem
<1>4. Advance(t, b, F) \in SUBSET AmountsFrom(t, F)
  <2> SUFFICES ASSUME NEW q \in Advance(t, b, F) PROVE q \in AmountsFrom(t, F)
    OBVIOUS
  <2>1. F \in SUBSET Int
    OBVIOUS
  <2>2. Steps(t, b, F, q)
    BY <1>3, <2>1, AdvanceIs, Zenon
  <2>3. PICK k \in F : k + b.low <= q /\ q <= k + b.high /\ \A i \in (k + 1)..q : t[i] \in Digits
    BY <1>3, <2>2, Zenon DEF Steps
  <2>4. k \in Nat /\ q \in Nat /\ k < q /\ q <= Len(t) /\ k + 1 \in (k + 1)..q /\ q \in (k + 1)..q
    BY <1>3, <2>2, <2>3 DEF Steps
  <2>5. \A i \in (k + 1)..q : t[i] \in InAmount
    BY <2>3, Zenon DEF InAmount
  <2>6. Amount(t, k, q)
    BY <2>3, <2>4, <2>5 DEF Amount
  <2> QED BY <2>4, <2>6 DEF AmountsFrom
<1>5. Stays(t, <<One(Grouping), d>>, AmountsFrom(t, F)) /\ Stays(t, <<One(Marks), b>>, AmountsFrom(t, F))
  <2>1. Grouping \subseteq Marks \union Grouping /\ Marks \subseteq Marks \union Grouping
    OBVIOUS
  <2>2. d.low >= 1 /\ b.low >= 1
    BY <1>3
  <2> QED BY <1>3, <2>1, <2>2, GroupsStay, Zenon
<1>9. PICK P : P = Advance(t, b, F)
  OBVIOUS
<1>6. PICK G : G = Repeated(t, <<One(Grouping), d>>, P)
  OBVIOUS
<1>7. G \in SUBSET AmountsFrom(t, F)
  <2>1. P \in SUBSET AmountsFrom(t, F)
    BY <1>4, <1>9
  <2> QED BY <1>5, <1>6, <2>1, RepeatedStays, Zenon
<1>8. Repeated(t, <<One(Marks), b>>, G) \in SUBSET AmountsFrom(t, F)
  BY <1>5, <1>7, RepeatedStays, Zenon
<1> QED BY <1>1, <1>2, <1>6, <1>8, <1>9, Zenon DEF AmountEnds

LEMMA AmountsArePrices ==
  ASSUME NEW t, NEW F
  PROVE  AmountsFrom(t, F) \in SUBSET PricesFrom(t, F)
<1> SUFFICES ASSUME NEW q \in AmountsFrom(t, F) PROVE q \in PricesFrom(t, F)
  OBVIOUS
<1>1. PICK k \in F : Amount(t, k, q)
  BY DEF AmountsFrom
<1>2. Price(t, k, q) /\ q \in Int
  BY <1>1 DEF Amount, Price
<1> QED BY <1>2, Zenon DEF PricesFrom

LEMMA PriceEndsAre ==
  ASSUME NEW S, NEW t \in Seq(S), NEW F \in SUBSET Nat
  PROVE  PriceEnds(t, F) \in SUBSET PricesFrom(t, F)
<1>1. AmountEnds(t, F) \in SUBSET PricesFrom(t, F)
  <2>1. AmountEnds(t, F) \in SUBSET AmountsFrom(t, F)
    BY AmountEndsAre
  <2>2. AmountsFrom(t, F) \in SUBSET PricesFrom(t, F)
    BY AmountsArePrices
  <2> QED BY <2>1, <2>2, Zenon
<1>2. PICK x : x = One(Marks)
  OBVIOUS
<1>3. PICK b : b = Many(t)
  OBVIOUS
<1>4. /\ IsItem(x) /\ x.low = 1 /\ x.high = 1 /\ x.class = Marks
      /\ IsItem(b) /\ b.low = 1 /\ b.class = Digits
  BY <1>2, <1>3 DEF IsItem, One, Many, Times
<1>5. ASSUME NEW q \in Through(t, <<x, b>>, F) PROVE q \in PricesFrom(t, F)
  <2>1. F \in SUBSET Int
    OBVIOUS
  <2>2. Advance(t, x, F) \in SUBSET Int /\ q \in Advance(t, b, Advance(t, x, F))
    BY <1>4, <1>5, <2>1, ThroughTwo, Zenon
  <2>3. PICK R : R = Advance(t, x, F)
    OBVIOUS
  <2>4. R \in SUBSET Int /\ q \in Advance(t, b, R)
    BY <2>2, <2>3
  <2>5. Steps(t, b, R, q)
    BY <1>4, <2>4, AdvanceIs, Zenon
  <2>6. PICK p \in R : p + b.low <= q /\ q <= p + b.high /\ \A i \in (p + 1)..q : t[i] \in Digits
    BY <1>4, <2>5, Zenon DEF Steps
  <2>7. Steps(t, x, F, p)
    BY <1>4, <2>1, <2>3, AdvanceIs, Zenon
  <2>8. PICK k \in F : k + 1 <= p /\ p <= k + 1 /\ \A i \in (k + 1)..p : t[i] \in Marks
    BY <1>4, <2>7, Zenon DEF Steps
  <2>9. /\ k \in Nat /\ q \in Nat /\ k < q /\ q <= Len(t) /\ p = k + 1 /\ k + 2 <= q
        /\ k + 1 \in (k + 1)..p /\ k + 2 \in (p + 1)..q /\ q \in (p + 1)..q
    BY <1>4, <2>4, <2>5, <2>6, <2>8 DEF Steps
  <2>10. t[k + 1] \in Marks /\ t[k + 2] \in Digits /\ t[q] \in Digits
    BY <2>6, <2>8, <2>9
  <2>11. \A i \in (k + 1)..q : t[i] \in InAmount
    <3> TAKE i \in (k + 1)..q
    <3>1. i = k + 1 \/ i \in (p + 1)..q
      BY <2>9
    <3> QED BY <2>6, <2>10, <3>1 DEF InAmount
  <2>12. Price(t, k, q)
    BY <2>9, <2>10, <2>11 DEF Price
  <2> QED BY <2>9, <2>12 DEF PricesFrom
<1> QED BY <1>1, <1>2, <1>3, <1>5, Zenon DEF PriceEnds

(* One item, then another. *)
TwoSteps(t, a, b, F, q) == \E o \in Int : Steps(t, a, F, o) /\ Steps(t, b, {o}, q)
ThreeSteps(t, a, b, d, F, q) == \E o \in Int : TwoSteps(t, a, b, F, o) /\ Steps(t, d, {o}, q)

LEMMA StepsFrom ==
  ASSUME NEW t, NEW item, NEW F, NEW q, Steps(t, item, F, q)
  PROVE  \E o \in F : Steps(t, item, {o}, q)
<1>1. PICK p \in F : p + item.low <= q /\ q <= p + item.high /\ \A i \in (p + 1)..q : t[i] \in item.class
  BY Zenon DEF Steps
<1>2. q \in Int /\ q <= Len(t)
  BY Zenon DEF Steps
<1>3. Steps(t, item, {p}, q)
  BY <1>1, <1>2, Zenon DEF Steps
<1> QED BY <1>3, Zenon

LEMMA ThroughTwoSteps ==
  ASSUME NEW S, NEW t \in Seq(S), NEW a, NEW b, IsItem(a), IsItem(b), NEW F \in SUBSET Int,
         NEW q \in Through(t, <<a, b>>, F)
  PROVE  TwoSteps(t, a, b, F, q)
<1>1. PICK R : R = Advance(t, a, F)
  OBVIOUS
<1>2. R \in SUBSET Int /\ q \in Advance(t, b, R)
  BY <1>1, ThroughTwo, Zenon
<1>3. Steps(t, b, R, q)
  BY <1>2, AdvanceIs, Zenon
<1>4. PICK o \in R : Steps(t, b, {o}, q)
  BY <1>3, StepsFrom, Zenon
<1>5. Steps(t, a, F, o)
  BY <1>1, AdvanceIs, Zenon
<1>6. o \in Int
  BY <1>2
<1> QED BY <1>4, <1>5, <1>6, Zenon DEF TwoSteps

LEMMA ThroughThreeSteps ==
  ASSUME NEW S, NEW t \in Seq(S), NEW a, NEW b, NEW d, IsItem(a), IsItem(b), IsItem(d), NEW F \in SUBSET Int,
         NEW q \in Through(t, <<a, b, d>>, F)
  PROVE  ThreeSteps(t, a, b, d, F, q)
<1>1. PICK R : R = Advance(t, a, F)
  OBVIOUS
<1>2. PICK Q : Q = Advance(t, b, R)
  OBVIOUS
<1>3. R \in SUBSET Int /\ Q \in SUBSET Int /\ q \in Advance(t, d, Q)
  <2>1. /\ Advance(t, a, F) \in SUBSET Int /\ Advance(t, b, Advance(t, a, F)) \in SUBSET Int
        /\ Through(t, <<a, b, d>>, F) = Advance(t, d, Advance(t, b, Advance(t, a, F)))
    BY ThroughThree
  <2>2. Q = Advance(t, b, Advance(t, a, F))
    BY <1>1, <1>2
  <2> QED BY <1>1, <2>1, <2>2
<1>4. Steps(t, d, Q, q)
  BY <1>3, AdvanceIs, Zenon
<1>5. PICK o \in Q : Steps(t, d, {o}, q)
  BY <1>4, StepsFrom, Zenon
<1>6. Steps(t, b, R, o)
  BY <1>2, <1>3, AdvanceIs, Zenon
<1>7. PICK m \in R : Steps(t, b, {m}, o)
  BY <1>6, StepsFrom, Zenon
<1>8. Steps(t, a, F, m)
  BY <1>1, AdvanceIs, Zenon
<1>9. o \in Int /\ m \in Int
  BY <1>3
<1>10. TwoSteps(t, a, b, F, o)
  BY <1>7, <1>8, <1>9, Zenon DEF TwoSteps
<1> QED BY <1>5, <1>9, <1>10, Zenon DEF ThreeSteps

(* A code and its amount, and an amount and its code, at most one blank between them. *)
CodeThenAmount(t, p, k, q) ==
  /\ k \in Int /\ p + 3 <= k /\ k <= p + 4
  /\ \A i \in (p + 1)..(p + 3) : t[i] \in Capitals
  /\ \A i \in (p + 4)..k : t[i] \in Blanks
  /\ Amount(t, k, q)
AmountThenCode(t, p, h, q) ==
  /\ q \in Int /\ q <= Len(t) /\ h + 3 <= q /\ q <= h + 4
  /\ \A i \in (h + 1)..(q - 3) : t[i] \in Blanks
  /\ \A i \in (q - 2)..q : t[i] \in Capitals
  /\ Amount(t, p, h)

LEMMA IsoCodeShapes ==
  ASSUME NEW S, NEW t \in Seq(S), NEW p \in Nat, NEW q \in IsoCodeEnds(t, p)
  PROVE  (\E k \in Nat : CodeThenAmount(t, p, k, q)) \/ (\E h \in Nat : AmountThenCode(t, p, h, q))
<1>1. PICK l : l = L(3)
  OBVIOUS
<1>2. PICK m : m = Maybe(Blanks)
  OBVIOUS
<1>3. /\ IsItem(l) /\ l.low = 3 /\ l.high = 3 /\ l.class = Capitals
      /\ IsItem(m) /\ m.low = 0 /\ m.high = 1 /\ m.class = Blanks
  BY <1>1, <1>2 DEF IsItem, L, Maybe, Times
<1>4. {p} \in SUBSET Int /\ {p} \in SUBSET Nat
  OBVIOUS
<1>5. PICK F : F = Through(t, <<l, m>>, {p})
  OBVIOUS
<1>6. PICK G : G = AmountEnds(t, {p})
  OBVIOUS
<1>7. G \in SUBSET AmountsFrom(t, {p})
  BY <1>4, <1>6, AmountEndsAre, Zenon
<1>8. G \in SUBSET Int
  BY <1>7, Zenon DEF AmountsFrom
<1>9. CASE q \in AmountEnds(t, F)
  <2>1. \A k \in F : /\ k \in Nat /\ p + 3 <= k /\ k <= p + 4
                     /\ \A i \in (p + 1)..(p + 3) : t[i] \in Capitals
                     /\ \A i \in (p + 4)..k : t[i] \in Blanks
    <3> TAKE k \in F
    <3>1. TwoSteps(t, l, m, {p}, k)
      BY <1>3, <1>4, <1>5, ThroughTwoSteps, Zenon
    <3>2. PICK o \in Int : Steps(t, l, {p}, o) /\ Steps(t, m, {o}, k)
      BY <3>1, Zenon DEF TwoSteps
    <3>3. p + 3 <= o /\ o <= p + 3 /\ \A i \in (p + 1)..o : t[i] \in Capitals
      BY <1>3, <3>2, Zenon DEF Steps
    <3>4. k \in Int /\ o + 0 <= k /\ k <= o + 1 /\ \A i \in (o + 1)..k : t[i] \in Blanks
      BY <1>3, <3>2, Zenon DEF Steps
    <3> QED BY <3>3, <3>4
  <2>2. F \in SUBSET Nat
    BY <2>1
  <2>3. AmountEnds(t, F) \in SUBSET AmountsFrom(t, F)
    BY <2>2, AmountEndsAre, Zenon
  <2>4. PICK k \in F : Amount(t, k, q)
    BY <1>9, <2>3, Zenon DEF AmountsFrom
  <2>5. CodeThenAmount(t, p, k, q)
    BY <2>1, <2>2, <2>4 DEF CodeThenAmount
  <2> QED BY <2>2, <2>4, <2>5
<1>10. CASE q \in Through(t, <<m, l>>, G)
  <2>1. TwoSteps(t, m, l, G, q)
    BY <1>3, <1>8, <1>10, ThroughTwoSteps, Zenon
  <2>2. PICK o \in Int : Steps(t, m, G, o) /\ Steps(t, l, {o}, q)
    BY <2>1, Zenon DEF TwoSteps
  <2>3. PICK h \in G : h + 0 <= o /\ o <= h + 1 /\ \A i \in (h + 1)..o : t[i] \in Blanks
    BY <1>3, <2>2, Zenon DEF Steps
  <2>4. q \in Int /\ q <= Len(t) /\ o + 3 <= q /\ q <= o + 3 /\ \A i \in (o + 1)..q : t[i] \in Capitals
    BY <1>3, <2>2, Zenon DEF Steps
  <2>5. Amount(t, p, h)
    BY <1>7, <2>3, Zenon DEF AmountsFrom
  <2>6. h \in Nat
    BY <2>5 DEF Amount
  <2>7. o = q - 3
    BY <2>4
  <2>8. (\A i \in (h + 1)..(q - 3) : t[i] \in Blanks) /\ h + 3 <= q /\ q <= h + 4
    BY <2>3, <2>4, <2>6, <2>7
  <2>9. \A i \in (q - 2)..q : t[i] \in Capitals
    BY <2>4, <2>7
  <2>10. AmountThenCode(t, p, h, q)
    BY <2>4, <2>5, <2>8, <2>9 DEF AmountThenCode
  <2> QED BY <2>6, <2>10
<1>11. q \in AmountEnds(t, F) \/ q \in Through(t, <<m, l>>, G)
  BY <1>1, <1>2, <1>5, <1>6, Zenon DEF IsoCodeEnds
<1> QED BY <1>9, <1>10, <1>11

(* A sign, with up to two capitals before it, and its price, and the other way round. *)
SignThenPrice(t, p, k, q) ==
  /\ k \in Int /\ p < k
  /\ t[p + 1] \in Capitals \union Signs
  /\ \A i \in (p + 1)..k : t[i] \in BesideAmount
  /\ Price(t, k, q)
PriceThenSign(t, p, h, q) ==
  /\ q \in Int /\ q <= Len(t) /\ h < q
  /\ \A i \in (h + 1)..q : t[i] \in BesideAmount
  /\ Price(t, p, h)

LEMMA Triples ==
  ASSUME NEW a, NEW b, NEW d
  PROVE  Append(<<a, b>>, d) = <<a, b, d>> /\ <<a>> \o <<b, d>> = <<a, b, d>>
<1>1. PICK A : A = {a, b, d}
  OBVIOUS
<1>2. a \in A /\ b \in A /\ d \in A
  BY <1>1
<1>3. PICK s : s = <<a, b>>
  OBVIOUS
<1>4. PICK u : u = <<a>>
  OBVIOUS
<1>5. PICK v : v = <<b, d>>
  OBVIOUS
<1>6. PICK w : w = <<a, b, d>>
  OBVIOUS
<1>7. /\ s \in Seq(A) /\ Len(s) = 2 /\ s[1] = a /\ s[2] = b
      /\ u \in Seq(A) /\ Len(u) = 1 /\ u[1] = a
  BY <1>2, <1>3, <1>4
<1>8. /\ v \in Seq(A) /\ Len(v) = 2 /\ v[1] = b /\ v[2] = d
      /\ w \in Seq(A) /\ Len(w) = 3 /\ w[1] = a /\ w[2] = b /\ w[3] = d
  BY <1>2, <1>5, <1>6
<1>9. Append(s, d) = w
  <2>1. PICK x : x = Append(s, d)
    OBVIOUS
  <2>2. x \in Seq(A) /\ Len(x) = Len(s) + 1 /\ (\A i \in 1..Len(s) : x[i] = s[i]) /\ x[Len(s) + 1] = d
    <3>1. s \in Seq(A)
      BY <1>7
    <3>3. \A z \in Seq(A) : \A y \in A :
            /\ Append(z, y) \in Seq(A) /\ Len(Append(z, y)) = Len(z) + 1
            /\ \A i \in 1..Len(z) : Append(z, y)[i] = z[i]
            /\ Append(z, y)[Len(z) + 1] = y
      BY AppendProperties
    <3>2. /\ Append(s, d) \in Seq(A) /\ Len(Append(s, d)) = Len(s) + 1
          /\ \A i \in 1..Len(s) : Append(s, d)[i] = s[i]
          /\ Append(s, d)[Len(s) + 1] = d
      BY <1>2, <3>1, <3>3, Zenon
    <3> QED BY <2>1, <3>2, Zenon
  <2>3. Len(x) = 3 /\ x[1] = a /\ x[2] = b /\ x[3] = d
    BY <1>7, <2>2
  <2>4. Len(x) = Len(w) /\ \A i \in 1..Len(x) : x[i] = w[i]
    BY <1>8, <2>3
  <2>5. x = w
    BY <1>8, <2>2, <2>4, SeqEqual
  <2> QED BY <2>1, <2>5
<1>10. u \o v = w
  <2>1. PICK x : x = u \o v
    OBVIOUS
  <2>2. /\ x \in Seq(A) /\ Len(x) = Len(u) + Len(v)
        /\ \A i \in 1..(Len(u) + Len(v)) : x[i] = IF i <= Len(u) THEN u[i] ELSE v[i - Len(u)]
    BY <1>7, <1>8, <2>1, ConcatProperties
  <2>6. Len(x) = 3 /\ \A i \in 1..3 : x[i] = IF i <= 1 THEN u[i] ELSE v[i - 1]
    BY <1>7, <1>8, <2>2
  <2>7. x[1] = u[1] /\ x[2] = v[1] /\ x[3] = v[2]
    BY <2>6
  <2>3. Len(x) = 3 /\ x[1] = a /\ x[2] = b /\ x[3] = d
    BY <1>7, <1>8, <2>6, <2>7, Zenon
  <2>4. Len(x) = Len(w) /\ \A i \in 1..Len(x) : x[i] = w[i]
    BY <1>8, <2>3
  <2>5. x = w
    BY <1>8, <2>2, <2>4, SeqEqual
  <2> QED BY <2>1, <2>5
<1> QED BY <1>3, <1>4, <1>5, <1>6, <1>9, <1>10

LEMMA SymbolShapes ==
  ASSUME NEW S, NEW t \in Seq(S), NEW p \in Nat, NEW q \in SymbolEnds(t, p)
  PROVE  (\E k \in Nat : SignThenPrice(t, p, k, q)) \/ (\E h \in Nat : PriceThenSign(t, p, h, q))
<1>1. PICK c : c = Times(Capitals, 0, 2)
  OBVIOUS
<1>2. PICK g : g = One(Signs)
  OBVIOUS
<1>3. PICK m : m = Maybe(Blanks)
  OBVIOUS
<1>4. /\ IsItem(c) /\ c.low = 0 /\ c.high = 2 /\ c.class = Capitals
      /\ IsItem(g) /\ g.low = 1 /\ g.high = 1 /\ g.class = Signs
      /\ IsItem(m) /\ m.low = 0 /\ m.high = 1 /\ m.class = Blanks
  BY <1>1, <1>2, <1>3 DEF IsItem, One, Maybe, Times
<1>5. Append(Symbol, Maybe(Blanks)) = <<c, g, m>> /\ <<Maybe(Blanks)>> \o Symbol = <<m, c, g>>
  <2>1. Symbol = <<c, g>> /\ Maybe(Blanks) = m
    BY <1>1, <1>2, <1>3, Zenon DEF Symbol
  <2>2. Append(<<c, g>>, m) = <<c, g, m>> /\ <<m>> \o <<c, g>> = <<m, c, g>>
    BY Triples, Zenon
  <2> QED BY <2>1, <2>2, Zenon
<1>6. {p} \in SUBSET Int /\ {p} \in SUBSET Nat
  OBVIOUS
<1>7. PICK F : F = Through(t, <<c, g, m>>, {p})
  OBVIOUS
<1>8. PICK G : G = PriceEnds(t, {p})
  OBVIOUS
<1>9. G \in SUBSET PricesFrom(t, {p})
  BY <1>6, <1>8, PriceEndsAre, Zenon
<1>10. G \in SUBSET Int
  BY <1>9, Zenon DEF PricesFrom
<1>11. CASE q \in PriceEnds(t, F)
  <2>1. \A k \in F : /\ k \in Nat /\ p < k
                     /\ t[p + 1] \in Capitals \union Signs
                     /\ \A i \in (p + 1)..k : t[i] \in BesideAmount
    <3> TAKE k \in F
    <3>1. ThreeSteps(t, c, g, m, {p}, k)
      BY <1>4, <1>6, <1>7, ThroughThreeSteps
    <3>2. PICK o \in Int : TwoSteps(t, c, g, {p}, o) /\ Steps(t, m, {o}, k)
      BY <3>1, Zenon DEF ThreeSteps
    <3>3. PICK n \in Int : Steps(t, c, {p}, n) /\ Steps(t, g, {n}, o)
      BY <3>2, Zenon DEF TwoSteps
    <3>4. p + 0 <= n /\ n <= p + 2 /\ \A i \in (p + 1)..n : t[i] \in Capitals
      BY <1>4, <3>3, Zenon DEF Steps
    <3>5. n + 1 <= o /\ o <= n + 1 /\ \A i \in (n + 1)..o : t[i] \in Signs
      BY <1>4, <3>3, Zenon DEF Steps
    <3>6. k \in Int /\ o + 0 <= k /\ k <= o + 1 /\ \A i \in (o + 1)..k : t[i] \in Blanks
      BY <1>4, <3>2, Zenon DEF Steps
    <3>7. k \in Nat /\ p < k
      BY <3>4, <3>5, <3>6
    <3>8. t[p + 1] \in Capitals \union Signs
      <4>1. p + 1 \in (p + 1)..n \/ p + 1 \in (n + 1)..o
        BY <3>4, <3>5
      <4> QED BY <3>4, <3>5, <4>1, Zenon
    <3>9. ASSUME NEW i \in (p + 1)..k PROVE t[i] \in BesideAmount
      <4>1. i \in (p + 1)..n \/ i \in (n + 1)..o \/ i \in (o + 1)..k
        BY <3>4, <3>5, <3>6
      <4> QED BY <3>4, <3>5, <3>6, <4>1, Zenon DEF BesideAmount
    <3> QED BY <3>7, <3>8, <3>9
  <2>2. F \in SUBSET Nat
    BY <2>1
  <2>3. PriceEnds(t, F) \in SUBSET PricesFrom(t, F)
    BY <2>2, PriceEndsAre, Zenon
  <2>4. PICK k \in F : Price(t, k, q)
    BY <1>11, <2>3, Zenon DEF PricesFrom
  <2>5. k \in Nat /\ k \in Int
    BY <2>2
  <2>6. SignThenPrice(t, p, k, q)
    BY <2>1, <2>4, <2>5, Zenon DEF SignThenPrice
  <2> QED BY <2>5, <2>6
<1>12. CASE q \in Through(t, <<m, c, g>>, G)
  <2>1. ThreeSteps(t, m, c, g, G, q)
    BY <1>4, <1>10, <1>12, ThroughThreeSteps
  <2>2. PICK o \in Int : TwoSteps(t, m, c, G, o) /\ Steps(t, g, {o}, q)
    BY <2>1, Zenon DEF ThreeSteps
  <2>3. PICK n \in Int : Steps(t, m, G, n) /\ Steps(t, c, {n}, o)
    BY <2>2, Zenon DEF TwoSteps
  <2>4. PICK h \in G : h + 0 <= n /\ n <= h + 1 /\ \A i \in (h + 1)..n : t[i] \in Blanks
    BY <1>4, <2>3, Zenon DEF Steps
  <2>5. n + 0 <= o /\ o <= n + 2 /\ \A i \in (n + 1)..o : t[i] \in Capitals
    BY <1>4, <2>3, Zenon DEF Steps
  <2>6. q \in Int /\ q <= Len(t) /\ o + 1 <= q /\ q <= o + 1 /\ \A i \in (o + 1)..q : t[i] \in Signs
    BY <1>4, <2>2, Zenon DEF Steps
  <2>7. Price(t, p, h)
    BY <1>9, <2>4, Zenon DEF PricesFrom
  <2>8. h \in Nat
    BY <2>7 DEF Price
  <2>9. h < q
    BY <2>4, <2>5, <2>6, <2>8
  <2>10. ASSUME NEW i \in (h + 1)..q PROVE t[i] \in BesideAmount
    <3>1. i \in (h + 1)..n \/ i \in (n + 1)..o \/ i \in (o + 1)..q
      BY <2>4, <2>5, <2>6, <2>8
    <3> QED BY <2>4, <2>5, <2>6, <3>1, Zenon DEF BesideAmount
  <2>11. PriceThenSign(t, p, h, q)
    BY <2>6, <2>7, <2>9, <2>10, Zenon DEF PriceThenSign
  <2> QED BY <2>8, <2>11
<1>13. q \in PriceEnds(t, F) \/ q \in Through(t, <<m, c, g>>, G)
  BY <1>5, <1>7, <1>8, Zenon DEF SymbolEnds
<1> QED BY <1>11, <1>12, <1>13

-----------------------------------------------------------------------------
(* Parts of a text. *)

LEMMA LeastOf ==
  ASSUME NEW Places \in SUBSET Nat, Places # {}
  PROVE  Min(Places) \in Places /\ \A y \in Places : Min(Places) <= y
<1>1. \E x \in Places : \A y \in Places : x =< y
  BY LeastNumber
<1> QED BY <1>1, Zenon DEF Min

(* u is what stands in t between l and h. *)
Fits(t, l, h) == l \in Nat /\ h \in Nat /\ l <= h /\ h <= Len(t)
IsPart(u, S, t, l, h) ==
  /\ u \in Seq(S) /\ Len(u) = h - l
  /\ \A j \in 1..(h - l) : u[j] = t[l + j]

LEMMA TextOfIs ==
  ASSUME NEW S, NEW t \in Seq(S), NEW l, NEW h, Fits(t, l, h)
  PROVE  IsPart(TextOf(t, l, h), S, t, l, h)
<1>1. l \in Nat /\ h \in Nat /\ l <= h /\ h <= Len(t) /\ Len(t) \in Nat /\ l + 1 \in Int
  BY DEF Fits
<1>2. \A i \in (l + 1)..h : t[i] \in S
  BY <1>1
<1>3. /\ SubSeq(t, l + 1, h) \in Seq(S) /\ Len(SubSeq(t, l + 1, h)) = IF l + 1 <= h THEN h - (l + 1) + 1 ELSE 0
      /\ \A j \in 1..(h - (l + 1) + 1) : SubSeq(t, l + 1, h)[j] = t[l + 1 + j - 1]
  BY <1>1, <1>2, SubSeqProperties
<1> QED BY <1>1, <1>3 DEF TextOf, IsPart

LEMMA TextWithin ==
  ASSUME NEW S, NEW t \in Seq(S), NEW a \in Nat, NEW b \in Nat, b <= Len(t),
         NEW l \in Nat, NEW h \in Nat, l <= h, a + h <= b
  PROVE  TextOf(TextOf(t, a, b), l, h) = TextOf(t, a + l, a + h)
<1>1. PICK u : u = TextOf(t, a, b)
  OBVIOUS
<1>3. u \in Seq(S) /\ Len(u) = b - a /\ \A j \in 1..(b - a) : u[j] = t[a + j]
  <2>1. Fits(t, a, b)
    BY DEF Fits
  <2>2. IsPart(u, S, t, a, b)
    BY <1>1, <2>1, TextOfIs, Zenon
  <2> QED BY <2>2, Zenon DEF IsPart
<1>4. PICK v : v = TextOf(u, l, h)
  OBVIOUS
<1>5. PICK w : w = TextOf(t, a + l, a + h)
  OBVIOUS
<1>6. v \in Seq(S) /\ Len(v) = h - l /\ \A j \in 1..(h - l) : v[j] = u[l + j]
  <2>1. Fits(u, l, h)
    BY <1>3 DEF Fits
  <2>2. IsPart(v, S, u, l, h)
    BY <1>3, <1>4, <2>1, TextOfIs, Zenon
  <2> QED BY <2>2, Zenon DEF IsPart
<1>7. w \in Seq(S) /\ Len(w) = (a + h) - (a + l) /\ \A j \in 1..((a + h) - (a + l)) : w[j] = t[(a + l) + j]
  <2>1. Len(t) \in Nat
    BY LenProperties
  <2>2. Fits(t, a + l, a + h)
    BY <2>1 DEF Fits
  <2>3. IsPart(w, S, t, a + l, a + h)
    BY <1>5, <2>2, TextOfIs, Zenon
  <2> QED BY <2>3, Zenon DEF IsPart
<1>8. Len(v) = Len(w) /\ \A j \in 1..Len(v) : v[j] = w[j]
  <2>1. Len(v) = Len(w)
    BY <1>6, <1>7
  <2>2. ASSUME NEW j \in 1..Len(v) PROVE v[j] = w[j]
    <3>1. j \in 1..(h - l) /\ l + j \in 1..(b - a) /\ a + (l + j) = (a + l) + j
      BY <1>6, <2>2
    <3>2. v[j] = t[a + (l + j)]
      BY <1>3, <1>6, <3>1
    <3>3. w[j] = t[(a + l) + j]
      BY <1>7, <3>1
    <3> QED BY <3>1, <3>2, <3>3
  <2> QED BY <2>1, <2>2
<1>9. v = w
  BY <1>6, <1>7, <1>8, SeqEqual
<1> QED BY <1>1, <1>4, <1>5, <1>9

(* Trimming leaves what lies between the first and the last character that is no blank. *)
LEMMA TrimmedTo ==
  ASSUME NEW S, NEW t \in Seq(S), NEW a \in Nat, NEW b \in Nat, b <= Len(t),
         NEW k \in Nat, NEW h \in Nat, a <= k, k < h, h <= b,
         \A i \in (a + 1)..k : t[i] \in Blanks, \A i \in (h + 1)..b : t[i] \in Blanks,
         t[k + 1] \notin Blanks, t[h] \notin Blanks
  PROVE  TrimBlanks(TextOf(t, a, b)) = TextOf(t, k, h)
<1>1. PICK w : w = TextOf(t, a, b)
  OBVIOUS
<1>2. w \in Seq(S) /\ Len(w) = b - a /\ \A j \in 1..(b - a) : w[j] = t[a + j]
  <2>1. Fits(t, a, b)
    BY DEF Fits
  <2>2. IsPart(w, S, t, a, b)
    BY <1>1, <2>1, TextOfIs, Zenon
  <2> QED BY <2>2, Zenon DEF IsPart
<1>3. PICK inked : inked = {i \in DOMAIN w : w[i] \notin Blanks}
  OBVIOUS
<1>4. DOMAIN w = 1..(b - a)
  BY <1>2
<1>5. k - a + 1 \in inked /\ h - a \in inked
  <2>1. k - a + 1 \in 1..(b - a) /\ h - a \in 1..(b - a) /\ a + (k - a + 1) = k + 1 /\ a + (h - a) = h
    OBVIOUS
  <2> QED BY <1>2, <1>3, <1>4, <2>1
<1>6. \A y \in inked : y \in Nat /\ k - a + 1 <= y /\ y <= h - a
  <2> TAKE y \in inked
  <2>1. y \in 1..(b - a) /\ w[y] \notin Blanks /\ w[y] = t[a + y]
    BY <1>2, <1>3, <1>4
  <2>2. a + y \notin (a + 1)..k /\ a + y \notin (h + 1)..b
    BY <2>1
  <2> QED BY <2>1, <2>2
<1>7. Min(inked) = k - a + 1 /\ Max(inked) = h - a
  <2>1. \E x \in inked : \A y \in inked : x =< y
    BY <1>5, <1>6
  <2>2. Min(inked) \in inked /\ \A y \in inked : Min(inked) =< y
    BY <2>1, Zenon DEF Min
  <2>3. \E x \in inked : \A y \in inked : x >= y
    BY <1>5, <1>6
  <2>4. Max(inked) \in inked /\ \A y \in inked : Max(inked) >= y
    BY <2>3, Zenon DEF Max
  <2>5. Min(inked) <= k - a + 1 /\ Max(inked) >= h - a
    BY <1>5, <2>2, <2>4
  <2>6. Min(inked) >= k - a + 1 /\ Max(inked) <= h - a /\ Min(inked) \in Nat /\ Max(inked) \in Nat
    BY <1>6, <2>2, <2>4
  <2> QED BY <2>5, <2>6
<1>8. TrimBlanks(w) = SubSeq(w, Min(inked), Max(inked))
  BY <1>3, <1>5, Zenon DEF TrimBlanks
<1>9. TrimBlanks(w) = TextOf(w, k - a, h - a)
  BY <1>7, <1>8 DEF TextOf
<1>10. TextOf(w, k - a, h - a) = TextOf(t, k, h)
  <2>1. PICK l : l = k - a
    OBVIOUS
  <2>2. PICK r : r = h - a
    OBVIOUS
  <2>3. l \in Nat /\ r \in Nat /\ l <= r /\ a + r <= b /\ a + l = k /\ a + r = h
    BY <2>1, <2>2
  <2>4. TextOf(TextOf(t, a, b), l, r) = TextOf(t, a + l, a + r)
    BY <2>3, TextWithin
  <2> QED BY <1>1, <2>1, <2>2, <2>3, <2>4
<1> QED BY <1>1, <1>9, <1>10

(* What begins with another character is only trimmed at its end. *)
LEMMA TrimmedBehind ==
  ASSUME NEW S, NEW w \in Seq(S), w # <<>>, w[1] \notin Blanks
  PROVE  /\ TrimBlanks(w) \in Seq(S) /\ Len(TrimBlanks(w)) <= Len(w)
         /\ \A i \in 1..Len(TrimBlanks(w)) : TrimBlanks(w)[i] = w[i]
<1>1. PICK inked : inked = {i \in DOMAIN w : w[i] \notin Blanks}
  OBVIOUS
<1>2. DOMAIN w = 1..Len(w) /\ Len(w) \in Nat /\ Len(w) # 0
  OBVIOUS
<1>3. 1 \in inked /\ inked \in SUBSET (1..Len(w))
  BY <1>1, <1>2
<1>4. Min(inked) = 1
  <2>1. \E x \in inked : \A y \in inked : x =< y
    BY <1>3
  <2>2. Min(inked) \in inked /\ \A y \in inked : Min(inked) =< y
    BY <2>1, Zenon DEF Min
  <2>3. Min(inked) \in 1..Len(w) /\ Min(inked) <= 1
    BY <1>3, <2>2, Zenon
  <2> QED BY <1>2, <2>3
<1>5. Max(inked) \in 1..Len(w)
  <2>1. Max(inked) \in inked
    BY <1>2, <1>3, MaxIsGreatest, Zenon
  <2> QED BY <1>3, <2>1
<1>6. PICK m : m = Max(inked)
  OBVIOUS
<1>7. TrimBlanks(w) = SubSeq(w, 1, m)
  BY <1>1, <1>3, <1>4, <1>6, Zenon DEF TrimBlanks
<1>8. m \in 1..Len(w) /\ 0 + 1 = 1
  BY <1>5, <1>6
<1>9. PICK u : u = TextOf(w, 0, m)
  OBVIOUS
<1>10. u = TrimBlanks(w)
  BY <1>7, <1>8, <1>9 DEF TextOf
<1>11. u \in Seq(S) /\ Len(u) = m - 0 /\ \A j \in 1..(m - 0) : u[j] = w[0 + j]
  <2>1. Fits(w, 0, m)
    BY <1>2, <1>8 DEF Fits
  <2>2. IsPart(u, S, w, 0, m)
    BY <1>9, <2>1, TextOfIs, Zenon
  <2> QED BY <2>2, Zenon DEF IsPart
<1> QED BY <1>2, <1>8, <1>10, <1>11

LEMMA LeadingCapitalsAre ==
  ASSUME NEW S, NEW w \in Seq(S)
  PROVE  /\ LeadingCapitals(w) \in Nat /\ LeadingCapitals(w) <= Len(w)
         /\ \A i \in 1..LeadingCapitals(w) : w[i] \in Capitals
<1>1. PICK Places : Places = {i \in DOMAIN w : \A j \in 1..i : w[j] \in Capitals}
  OBVIOUS
<1>2. LeadingCapitals(w) = Cardinality(Places)
  BY <1>1 DEF LeadingCapitals
<1>3. DOMAIN w = 1..Len(w) /\ Len(w) \in Nat
  OBVIOUS
<1>4. CASE Places = {}
  <2>1. Cardinality(Places) = 0
    BY <1>4, FS_EmptySet
  <2> QED BY <1>2, <1>3, <2>1
<1>5. CASE Places # {}
  <2>1. Places \in SUBSET (1..Len(w))
    BY <1>1, <1>3
  <2>2. Max(Places) \in Places /\ \A y \in Places : Max(Places) >= y
    BY <1>3, <1>5, <2>1, MaxIsGreatest, Zenon
  <2>3. PICK m : m = Max(Places)
    OBVIOUS
  <2>4. m \in 1..Len(w) /\ \A j \in 1..m : w[j] \in Capitals
    BY <1>1, <1>3, <2>2, <2>3
  <2>5. Places = 1..m
    <3>1. ASSUME NEW i \in Places PROVE i \in 1..m
      BY <2>1, <2>2, <2>3, <2>4
    <3>2. ASSUME NEW i \in 1..m PROVE i \in Places
      <4>1. i \in 1..Len(w) /\ \A j \in 1..i : j \in 1..m
        BY <1>3, <2>4
      <4> QED BY <1>1, <1>3, <2>4, <4>1
    <3> QED BY <3>1, <3>2
  <2>6. Cardinality(1..m) = m
    BY <2>4, FS_Interval
  <2> QED BY <1>2, <2>4, <2>5, <2>6
<1> QED BY <1>4, <1>5

LEMMA FirstDigitIs ==
  ASSUME NEW w, NEW n \in Nat, DOMAIN w = 1..n, NEW i \in 1..n, w[i] \in Digits, \A j \in 1..(i - 1) : w[j] \notin Digits
  PROVE  FirstDigit(w) = i
<1>1. PICK f : f = FirstDigit(w)
  OBVIOUS
<1>2. f \in 1..n /\ w[f] \in Digits /\ \A j \in 1..(f - 1) : w[j] \notin Digits
  BY <1>1, Zenon DEF FirstDigit
<1>3. ~ (f < i) /\ ~ (i < f)
  <2>1. f < i => f \in 1..(i - 1)
    BY <1>2
  <2>2. i < f => i \in 1..(f - 1)
    BY <1>2
  <2> QED BY <1>2, <2>1, <2>2
<1> QED BY <1>1, <1>2, <1>3

LEMMA LastDigitIs ==
  ASSUME NEW w, NEW n \in Nat, DOMAIN w = 1..n, Len(w) = n, NEW i \in 1..n, w[i] \in Digits,
         \A j \in (i + 1)..n : w[j] \notin Digits
  PROVE  LastDigit(w) = i
<1>1. PICK f : f = LastDigit(w)
  OBVIOUS
<1>2. f \in 1..n /\ w[f] \in Digits /\ \A j \in (f + 1)..n : w[j] \notin Digits
  BY <1>1, Zenon DEF LastDigit
<1>3. ~ (f < i) /\ ~ (i < f)
  <2>1. f < i => i \in (f + 1)..n
    BY <1>2
  <2>2. i < f => f \in (i + 1)..n
    BY <1>2
  <2> QED BY <1>2, <2>1, <2>2
<1> QED BY <1>1, <1>2, <1>3

-----------------------------------------------------------------------------
(* What the two validators make of such a match. *)

LEMMA Kinds ==
  /\ \A v \in Digits : v \notin Blanks /\ v \notin Marks /\ v \notin Capitals /\ v \notin Signs /\ v \notin BesideAmount
  /\ \A v \in Marks : v \notin Blanks /\ v \notin Digits /\ v \notin Capitals /\ v \notin Signs /\ v \notin BesideAmount
  /\ \A v \in Capitals \union Signs : v \notin Blanks /\ v \notin Digits /\ v \notin Marks /\ v \notin Grouping
  /\ \A v \in InAmount : v \notin Capitals /\ v \notin Signs
  /\ \A v \in BesideAmount : v \notin Digits /\ v \notin Marks
  /\ Capitals \subseteq BesideAmount /\ Blanks \subseteq BesideAmount
  /\ \A v \in BesideAmount : v \in Capitals \union Signs \union Grouping
BY DEF Digits, Blanks, Marks, Capitals, Signs, Grouping, BesideAmount, InAmount,
       Dot, Comma, Space, Nbsp, Apostrophe, Dollar, Euro

(* f reads the amount between k and h, and only a code, a sign and blanks beside it. *)
Reading(t, f, k, h) ==
  /\ f.start \in Nat /\ f.start <= k /\ h <= f.end /\ f.end \in Nat /\ f.end <= Len(t)
  /\ Price(t, k, h)
  /\ \A i \in (f.start + 1)..k : t[i] \in BesideAmount
  /\ \A i \in (h + 1)..f.end : t[i] \in BesideAmount
  /\ f.key.code \in DOMAIN Exponents
  /\ \E m \in to_minor_units(TextOf(t, k, h), Exponents[f.key.code]) : f.key.minor = m.minor /\ f.key.inferred = m.inferred

(* Its neighbours were asked: on the left of its span, or of the capitals it stands behind. *)
Guarded(t, f) ==
  /\ ~ continues_right(t, f.end)
  /\ \/ /\ f.start \in Nat
        /\ \E s \in 0..f.start : ~ continues_left(t, s) /\ \A i \in (s + 1)..f.start : t[i] \in Capitals
     \/ ByteBefore(t, f.start) \notin Alnum \union Separators

LEMMA MintedIs ==
  ASSUME NEW start, NEW end, NEW code, NEW amount, NEW f \in Minted(start, end, code, amount)
  PROVE  /\ f.start = start /\ f.end = end /\ f.key.code = code /\ code \in DOMAIN Exponents
         /\ \E m \in to_minor_units(amount, Exponents[code]) : f.key.minor = m.minor /\ f.key.inferred = m.inferred
<1>1. code \in DOMAIN Exponents
  BY Zenon DEF Minted
<1>2. PICK m \in to_minor_units(amount, Exponents[code]) :
        f = [start |-> start, end |-> end, key |-> [code |-> code, minor |-> m.minor, inferred |-> m.inferred]]
  BY <1>1, Zenon DEF Minted
<1>3. f.start = start /\ f.end = end /\ f.key.code = code /\ f.key.minor = m.minor /\ f.key.inferred = m.inferred
  BY <1>2
<1> QED BY <1>1, <1>3, Zenon

Framed(t, a, e, k, h) ==
  /\ a \in Nat /\ e \in Nat /\ a <= k /\ h <= e /\ e <= Len(t) /\ Price(t, k, h)
  /\ \A i \in (a + 1)..k : t[i] \in BesideAmount
  /\ \A i \in (h + 1)..e : t[i] \in BesideAmount

LEMMA MintedReads ==
  ASSUME NEW t, NEW a, NEW e, NEW k, NEW h, Framed(t, a, e, k, h), NEW code, NEW f \in Minted(a, e, code, TextOf(t, k, h))
  PROVE  Reading(t, f, k, h) /\ f.start = a /\ f.end = e
<1>2. PICK amount : amount = TextOf(t, k, h)
  OBVIOUS
<1>3. /\ f.start = a /\ f.end = e /\ f.key.code = code /\ code \in DOMAIN Exponents
      /\ \E m \in to_minor_units(amount, Exponents[code]) : f.key.minor = m.minor /\ f.key.inferred = m.inferred
  BY <1>2, MintedIs
<1>1. /\ f.start = a /\ f.end = e /\ f.key.code = code /\ code \in DOMAIN Exponents
      /\ \E m \in to_minor_units(TextOf(t, k, h), Exponents[code]) : f.key.minor = m.minor /\ f.key.inferred = m.inferred
  BY <1>2, <1>3, Zenon
<1> QED BY <1>1, Zenon DEF Reading, Framed

LEMMA PriceIsInked ==
  ASSUME NEW t, NEW k, NEW q, Price(t, k, q)
  PROVE  /\ k \in Nat /\ q \in Nat /\ k < q /\ q <= Len(t)
         /\ t[k + 1] \notin Blanks /\ t[q] \notin Blanks /\ t[k + 1] \in Digits \union Marks /\ t[q] \in Digits
BY Kinds, Zenon DEF Price

LEMMA AmountIsAPrice ==
  ASSUME NEW t, NEW k, NEW q, Amount(t, k, q)
  PROVE  Price(t, k, q)
BY Zenon DEF Amount, Price

LEMMA IsoCodeReads ==
  ASSUME NEW S, NEW t \in Seq(S), NEW s \in Nat, NEW e \in IsoCodeEnds(t, s), NEW cued,
         NEW f \in ValidateIsoCode(t, s, e, cued)
  PROVE  Guarded(t, f) /\ \E k, h \in Nat : Reading(t, f, k, h)
<1>1. PICK word : word = TextOf(t, s, e)
  OBVIOUS
<1>2. PICK code : code = IF word[1] \in Capitals THEN SubSeq(word, 1, 3) ELSE SubSeq(word, Len(word) - 2, Len(word))
  OBVIOUS
<1>3. PICK amount :
        amount = TrimBlanks(IF word[1] \in Capitals THEN SubSeq(word, 4, Len(word)) ELSE SubSeq(word, 1, Len(word) - 3))
  OBVIOUS
<1>4. ~ continues_left(t, s) /\ ~ continues_right(t, e) /\ f \in Minted(s, e, code, amount)
  BY <1>1, <1>2, <1>3, Zenon DEF ValidateIsoCode
<1>5. \E k, h \in Nat : amount = TextOf(t, k, h) /\ Framed(t, s, e, k, h)
  <2>1. CASE \E k \in Nat : CodeThenAmount(t, s, k, e)
    <3>1. PICK k \in Nat : CodeThenAmount(t, s, k, e)
      BY <2>1
    <3>2. Price(t, k, e)
      BY <3>1, AmountIsAPrice, Zenon DEF CodeThenAmount
    <3>3. e \in Nat /\ k < e /\ e <= Len(t) /\ t[k + 1] \notin Blanks /\ t[e] \notin Blanks
      BY <3>2, PriceIsInked, Zenon
    <3>4. /\ s + 3 <= k /\ k <= s + 4 /\ (\A i \in (s + 1)..(s + 3) : t[i] \in Capitals)
          /\ \A i \in ((s + 3) + 1)..k : t[i] \in Blanks
      BY <3>1 DEF CodeThenAmount
    <3>5. Fits(t, s, e)
      BY <3>3, <3>4 DEF Fits
    <3>6. IsPart(word, S, t, s, e)
      BY <1>1, <3>5, TextOfIs, Zenon
    <3>7. Len(word) = e - s /\ word[1] = t[s + 1]
      BY <3>3, <3>4, <3>6 DEF IsPart
    <3>8. word[1] \in Capitals
      BY <3>4, <3>7
    <3>9. PICK n : n = e - s
      OBVIOUS
    <3>10. n \in Nat /\ 3 <= n /\ s + n = e /\ Len(word) = n
      BY <3>3, <3>4, <3>7, <3>9
    <3>11. TextOf(TextOf(t, s, e), 3, n) = TextOf(t, s + 3, s + n)
      BY <3>3, <3>10, TextWithin
    <3>12. SubSeq(word, 4, Len(word)) = TextOf(t, s + 3, e)
      BY <1>1, <3>10, <3>11 DEF TextOf
    <3>13. amount = TrimBlanks(TextOf(t, s + 3, e))
      BY <1>3, <3>8, <3>12, Zenon
    <3>14. TrimBlanks(TextOf(t, s + 3, e)) = TextOf(t, k, e)
      <4>1. PICK a : a = s + 3
        OBVIOUS
      <4>2. a \in Nat /\ a <= k /\ e <= e /\ (\A i \in (a + 1)..k : t[i] \in Blanks) /\ (\A i \in (e + 1)..e : t[i] \in Blanks)
        BY <3>3, <3>4, <4>1
      <4>3. TrimBlanks(TextOf(t, a, e)) = TextOf(t, k, e)
        BY <3>3, <4>2, TrimmedTo
      <4> QED BY <4>1, <4>3
    <3>15. \A i \in (s + 1)..k : t[i] \in BesideAmount
      <4> TAKE i \in (s + 1)..k
      <4>1. i \in (s + 1)..(s + 3) \/ i \in ((s + 3) + 1)..k
        BY <3>4
      <4> QED BY <3>4, <4>1, Kinds
    <3>16. Framed(t, s, e, k, e)
      BY <3>2, <3>3, <3>4, <3>15 DEF Framed
    <3> QED BY <3>3, <3>13, <3>14, <3>16, Zenon
  <2>2. CASE \E h \in Nat : AmountThenCode(t, s, h, e)
    <3>1. PICK h \in Nat : AmountThenCode(t, s, h, e)
      BY <2>2
    <3>2. Price(t, s, h)
      BY <3>1, AmountIsAPrice, Zenon DEF AmountThenCode
    <3>3. s < h /\ h <= Len(t) /\ t[s + 1] \notin Blanks /\ t[h] \notin Blanks /\ t[s + 1] \in Digits
      BY <3>1, <3>2, PriceIsInked, Zenon DEF AmountThenCode, Amount
    <3>4. /\ e \in Int /\ e <= Len(t) /\ h + 3 <= e /\ e <= h + 4
          /\ (\A i \in (h + 1)..(e - 3) : t[i] \in Blanks)
          /\ \A i \in (e - 2)..e : t[i] \in Capitals
      BY <3>1, Zenon DEF AmountThenCode
    <3>5. Fits(t, s, e)
      BY <3>3, <3>4 DEF Fits
    <3>6. IsPart(word, S, t, s, e)
      BY <1>1, <3>5, TextOfIs, Zenon
    <3>7. Len(word) = e - s /\ word[1] = t[s + 1]
      BY <3>3, <3>4, <3>6 DEF IsPart
    <3>8. word[1] \notin Capitals
      BY <3>3, <3>7, Kinds
    <3>9. PICK n : n = e - s - 3
      OBVIOUS
    <3>10. n \in Nat /\ s + n = e - 3 /\ Len(word) - 3 = n /\ e \in Nat /\ s + n <= e /\ 0 <= n
      BY <3>3, <3>4, <3>7, <3>9
    <3>11. TextOf(TextOf(t, s, e), 0, n) = TextOf(t, s + 0, s + n)
      BY <3>4, <3>10, TextWithin
    <3>12. PICK b : b = e - 3
      OBVIOUS
    <3>13. SubSeq(word, 1, Len(word) - 3) = TextOf(t, s, b)
      <4>1. s + 0 = s /\ s + n = b /\ 0 + 1 = 1
        BY <3>10, <3>12
      <4>2. TextOf(word, 0, n) = TextOf(t, s, b)
        BY <1>1, <3>11, <4>1
      <4> QED BY <3>10, <4>1, <4>2 DEF TextOf
    <3>14. amount = TrimBlanks(TextOf(t, s, b))
      BY <1>3, <3>8, <3>13, Zenon
    <3>15. TrimBlanks(TextOf(t, s, b)) = TextOf(t, s, h)
      <4>1. b \in Nat /\ b <= Len(t) /\ h <= b /\ (\A i \in (s + 1)..s : t[i] \in Blanks) /\ (\A i \in (h + 1)..b : t[i] \in Blanks)
        BY <3>4, <3>12
      <4>2. s <= s
        OBVIOUS
      <4> QED BY <3>3, <4>1, <4>2, TrimmedTo
    <3>16. \A i \in (h + 1)..e : t[i] \in BesideAmount
      <4> TAKE i \in (h + 1)..e
      <4>1. i \in (h + 1)..(e - 3) \/ i \in (e - 2)..e
        BY <3>4
      <4> QED BY <3>4, <4>1, Kinds
    <3>17. Framed(t, s, e, s, h)
      BY <3>2, <3>4, <3>10, <3>16 DEF Framed
    <3> QED BY <3>14, <3>15, <3>17, Zenon
  <2> QED BY <2>1, <2>2, IsoCodeShapes, Zenon
<1>6. PICK k \in Nat, h \in Nat : amount = TextOf(t, k, h) /\ Framed(t, s, e, k, h)
  BY <1>5
<1>7. Reading(t, f, k, h) /\ f.start = s /\ f.end = e
  BY <1>4, <1>6, MintedReads
<1>8. Guarded(t, f)
  <2>1. s \in 0..f.start /\ \A i \in (s + 1)..f.start : t[i] \in Capitals
    BY <1>7
  <2> QED BY <1>4, <1>7, <2>1 DEF Guarded
<1> QED BY <1>7, <1>8

(* A code found beside the sign: three capitals and a blank at most up to the sign. *)
BesideTheSign(t, n, sign_at) ==
  /\ n.at \in Nat /\ n.at <= sign_at
  /\ ByteBefore(t, n.at) \notin Alnum \union Separators
  /\ \A i \in (n.at + 1)..sign_at : t[i] \in BesideAmount

LEMMA CodeBesideSignIs ==
  ASSUME NEW S, NEW t \in Seq(S), NEW s \in Nat, NEW symbol, LeadingCapitals(symbol) \in Nat,
         s + LeadingCapitals(symbol) <= Len(t), NEW n \in code_beside_sign(t, s, symbol)
  PROVE  BesideTheSign(t, n, s + LeadingCapitals(symbol))
<1>1. PICK sign_at : sign_at = s + LeadingCapitals(symbol)
  OBVIOUS
<1>2. PICK head : head = IF ByteBefore(t, sign_at) \in Blanks THEN sign_at - 1 ELSE sign_at
  OBVIOUS
<1>3. PICK code : code = TextOf(t, head - 3, head)
  OBVIOUS
<1>4. /\ head >= 3 /\ ToSet(code) \subseteq Capitals
      /\ ByteBefore(t, head - 3) \notin Alnum \union Separators
      /\ n \in {[code |-> code, at |-> head - 3]}
  BY <1>1, <1>2, <1>3, Zenon DEF code_beside_sign
<1>5. sign_at \in Nat /\ sign_at <= Len(t) /\ Len(t) \in Nat
  BY <1>1
<1>6. /\ head \in Nat /\ head <= sign_at /\ sign_at <= head + 1
      /\ head < sign_at => ByteBefore(t, sign_at) \in Blanks
  <2>1. CASE ByteBefore(t, sign_at) \in Blanks
    <3>1. head = sign_at - 1
      BY <1>2, <2>1, Zenon
    <3> QED BY <1>4, <1>5, <2>1, <3>1
  <2>2. CASE ByteBefore(t, sign_at) \notin Blanks
    <3>1. head = sign_at
      BY <1>2, <2>2, Zenon
    <3> QED BY <1>5, <3>1
  <2> QED BY <2>1, <2>2
<1>7. PICK a : a = head - 3
  OBVIOUS
<1>8. a \in Nat /\ a + 3 = head /\ n.at = a
  BY <1>4, <1>6, <1>7
<1>9. IsPart(code, S, t, a, head)
  <2>1. Fits(t, a, head)
    BY <1>5, <1>6, <1>8 DEF Fits
  <2> QED BY <1>3, <1>7, <2>1, TextOfIs, Zenon
<1>10. \A i \in (a + 1)..head : t[i] \in Capitals
  <2> TAKE i \in (a + 1)..head
  <2>1. i - a \in 1..3 /\ a + (i - a) = i /\ head - a = 3
    BY <1>8
  <2>2. Len(code) = 3 /\ code \in Seq(S) /\ code[i - a] = t[i]
    BY <1>9, <2>1 DEF IsPart
  <2>3. i - a \in DOMAIN code
    BY <2>1, <2>2
  <2>4. code[i - a] \in ToSet(code)
    BY <2>3 DEF ToSet
  <2> QED BY <1>4, <2>2, <2>4
<1>11. \A i \in (a + 1)..sign_at : t[i] \in BesideAmount
  <2> TAKE i \in (a + 1)..sign_at
  <2>1. CASE i <= head
    <3>1. i \in (a + 1)..head
      BY <1>6, <1>8, <2>1
    <3> QED BY <1>10, <3>1, Kinds
  <2>2. CASE ~ (i <= head)
    <3>1. i = sign_at /\ head < sign_at /\ sign_at # 0
      BY <1>5, <1>6, <1>8, <2>2
    <3>2. t[i] \in Blanks
      BY <1>6, <3>1 DEF ByteBefore
    <3> QED BY <3>2, Kinds
  <2> QED BY <2>1, <2>2
<1>12. ByteBefore(t, a) \notin Alnum \union Separators
  BY <1>4, <1>7
<1>13. a <= sign_at
  BY <1>5, <1>6, <1>8
<1> QED BY <1>1, <1>8, <1>11, <1>12, <1>13, Zenon DEF BesideTheSign

(* The three ways a symbol's match is reported. *)
SymbolOutcome(t, s, e, f, symbol, amount, leading) ==
  \/ leading /\ \E n \in code_beside_sign(t, s, symbol) : f \in Minted(n.at, e, n.code, amount)
  \/ ~ continues_left(t, s) /\ \E c : f \in Minted(s, e, c, amount)
  \/ leading /\ ~ continues_left(t, s) /\ \E c : f \in Minted(s + LeadingCapitals(symbol), e, c, amount)

SplitOf(word) ==
  IF FirstDigit(word) > 1 /\ word[FirstDigit(word) - 1] \in Marks THEN FirstDigit(word) - 2 ELSE FirstDigit(word) - 1
SymbolOf(word, leading) ==
  TrimBlanks(IF leading THEN SubSeq(word, 1, SplitOf(word)) ELSE SubSeq(word, LastDigit(word) + 1, Len(word)))
AmountIn(word, leading) ==
  TrimBlanks(IF leading THEN SubSeq(word, SplitOf(word) + 1, Len(word)) ELSE SubSeq(word, 1, LastDigit(word)))

LEMMA SymbolOutcomes ==
  ASSUME NEW t, NEW s, NEW e, NEW f \in ValidateSymbol(t, s, e), NEW word, word = TextOf(t, s, e),
         NEW leading \in BOOLEAN, leading <=> word[1] \notin Digits \union Marks
  PROVE  ~ continues_right(t, e) /\ SymbolOutcome(t, s, e, f, SymbolOf(word, leading), AmountIn(word, leading), leading)
<1>1. PICK symbol : symbol = SymbolOf(word, leading)
  OBVIOUS
<1>2. PICK amount : amount = AmountIn(word, leading)
  OBVIOUS
<1>3. PICK named : named = IF leading THEN code_beside_sign(t, s, symbol) ELSE {}
  OBVIOUS
<1>4. PICK letters : letters = LeadingCapitals(symbol)
  OBVIOUS
<1>5. f \in IF continues_right(t, e) THEN {}
      ELSE IF named # {} THEN UNION {Minted(n.at, e, n.code, amount) : n \in named}
      ELSE IF continues_left(t, s) THEN {}
      ELSE IF CodesOf(symbol) # <<>> THEN Minted(s, e, CodesOf(symbol)[1], amount)
      ELSE IF leading /\ letters > 0 /\ ByteBefore(t, s) \notin Alnum /\ CodesOf(SignOf(symbol)) # <<>>
        THEN Minted(s + letters, e, CodesOf(SignOf(symbol))[1], amount)
      ELSE {}
  BY <1>1, <1>2, <1>3, <1>4 DEF ValidateSymbol, SymbolOf, AmountIn, SplitOf
<1>6. ~ continues_right(t, e)
  BY <1>5, Zenon
<1>7. \/ \E n \in named : f \in Minted(n.at, e, n.code, amount)
      \/ ~ continues_left(t, s) /\ \E c : f \in Minted(s, e, c, amount)
      \/ leading /\ ~ continues_left(t, s) /\ \E c : f \in Minted(s + letters, e, c, amount)
  BY <1>5, Zenon
<1>8. (\E n \in named : f \in Minted(n.at, e, n.code, amount))
        => leading /\ \E n \in code_beside_sign(t, s, symbol) : f \in Minted(n.at, e, n.code, amount)
  BY <1>3, Zenon
<1> QED BY <1>1, <1>2, <1>4, <1>6, <1>7, <1>8, Zenon DEF SymbolOutcome

(* A sign and its price: where the one ends and the other begins. *)
LEMMA SplitIs ==
  ASSUME NEW S, NEW t \in Seq(S), NEW s \in Nat, NEW k \in Nat, NEW e, SignThenPrice(t, s, k, e),
         NEW word, word = TextOf(t, s, e)
  PROVE  /\ word[1] \notin Digits \union Marks /\ SplitOf(word) = k - s
         /\ Len(word) = e - s /\ Fits(t, s, e) /\ s < k /\ k < e
<1>1. /\ s < k /\ t[s + 1] \in Capitals \union Signs /\ (\A i \in (s + 1)..k : t[i] \in BesideAmount) /\ Price(t, k, e)
  BY Zenon DEF SignThenPrice
<1>2. /\ e \in Nat /\ k < e /\ e <= Len(t) /\ t[e] \in Digits
      /\ t[k + 1] \in Digits \/ (t[k + 1] \in Marks /\ k + 2 <= e /\ t[k + 2] \in Digits)
  BY <1>1, Zenon DEF Price
<1>3. Fits(t, s, e)
  BY <1>1, <1>2 DEF Fits
<1>4. IsPart(word, S, t, s, e)
  BY <1>3, TextOfIs, Zenon
<1>5. PICK n : n = e - s
  OBVIOUS
<1>6. n \in Nat /\ Len(word) = n /\ DOMAIN word = 1..n /\ \A j \in 1..n : word[j] = t[s + j]
  <2>1. n \in Nat
    BY <1>1, <1>2, <1>5
  <2>2. Len(word) = n /\ word \in Seq(S) /\ \A j \in 1..n : word[j] = t[s + j]
    BY <1>4, <1>5, Zenon DEF IsPart
  <2>3. DOMAIN word = 1..n
    BY <2>2
  <2> QED BY <2>1, <2>2, <2>3
<1>7. PICK m : m = k - s
  OBVIOUS
<1>8. m \in Nat /\ m >= 1 /\ m < n /\ s + m = k
  BY <1>1, <1>2, <1>5, <1>7
<1>9. \A j \in 1..m : word[j] \in BesideAmount
  <2> TAKE j \in 1..m
  <2>1. s + j \in (s + 1)..k /\ j \in 1..n
    BY <1>6, <1>8
  <2> QED BY <1>1, <1>6, <2>1
<1>10. word[1] \notin Digits \union Marks
  <2>1. 1 \in 1..m
    BY <1>8
  <2> QED BY <1>9, <2>1, Kinds
<1>11. SplitOf(word) = m
  <2>1. CASE t[k + 1] \in Digits
    <3>1. PICK i : i = m + 1
      OBVIOUS
    <3>2. i \in 1..n /\ s + i = k + 1 /\ i - 1 = m /\ i > 1
      BY <1>6, <1>8, <3>1
    <3>3. word[i] \in Digits
      BY <1>6, <2>1, <3>2
    <3>4. \A j \in 1..(i - 1) : word[j] \notin Digits
      BY <1>9, <3>2, Kinds
    <3>5. FirstDigit(word) = i
      BY <1>6, <3>2, <3>3, <3>4, FirstDigitIs
    <3>6. m \in 1..m
      BY <1>8
    <3>7. word[i - 1] \notin Marks
      BY <1>9, <3>2, <3>6, Kinds
    <3>8. SplitOf(word) = i - 1
      BY <3>5, <3>7, Zenon DEF SplitOf
    <3> QED BY <3>2, <3>8
  <2>2. CASE t[k + 1] \in Marks /\ k + 2 <= e /\ t[k + 2] \in Digits
    <3>1. PICK i : i = m + 2
      OBVIOUS
    <3>2. i \in 1..n /\ s + i = k + 2 /\ i - 1 = m + 1 /\ m + 1 \in 1..n /\ s + (m + 1) = k + 1 /\ i > 1 /\ i - 2 = m
      BY <1>2, <1>5, <1>8, <2>2, <3>1
    <3>3. word[i] \in Digits /\ word[m + 1] \in Marks
      BY <1>6, <2>2, <3>2
    <3>4. \A j \in 1..(i - 1) : word[j] \notin Digits
      <4> TAKE j \in 1..(i - 1)
      <4>1. j \in 1..m \/ j = m + 1
        BY <1>8, <3>2
      <4> QED BY <1>9, <3>3, <4>1, Kinds
    <3>5. FirstDigit(word) = i
      BY <1>6, <3>2, <3>3, <3>4, FirstDigitIs
    <3>6. SplitOf(word) = i - 2
      BY <3>2, <3>3, <3>5, Zenon DEF SplitOf
    <3> QED BY <3>2, <3>6
  <2> QED BY <1>2, <2>1, <2>2
<1> QED BY <1>1, <1>2, <1>3, <1>5, <1>6, <1>7, <1>10, <1>11

SignedParts(t, s, k, e, word) ==
  /\ AmountIn(word, TRUE) = TextOf(t, k, e)
  /\ LeadingCapitals(SymbolOf(word, TRUE)) \in Nat
  /\ s + LeadingCapitals(SymbolOf(word, TRUE)) <= k
  /\ \A i \in (s + 1)..(s + LeadingCapitals(SymbolOf(word, TRUE))) : t[i] \in Capitals

LEMMA SignThenPriceParts ==
  ASSUME NEW S, NEW t \in Seq(S), NEW s \in Nat, NEW k \in Nat, NEW e, SignThenPrice(t, s, k, e),
         NEW word, word = TextOf(t, s, e)
  PROVE  SignedParts(t, s, k, e, word)
<1>1. /\ SplitOf(word) = k - s /\ Len(word) = e - s /\ Fits(t, s, e) /\ s < k /\ k < e
  BY SplitIs
<1>2. e \in Nat /\ e <= Len(t)
  BY <1>1, Zenon DEF Fits
<1>3. PICK n : n = k - s
  OBVIOUS
<1>4. PICK m : m = e - s
  OBVIOUS
<1>5. n \in Nat /\ m \in Nat /\ n < m /\ n >= 1 /\ s + n = k /\ s + m = e
  BY <1>1, <1>2, <1>3, <1>4
<1>6. Price(t, k, e)
  BY Zenon DEF SignThenPrice
<1>7. t[k + 1] \notin Blanks /\ t[e] \notin Blanks
  BY <1>6, PriceIsInked, Zenon
<1>8. SubSeq(word, SplitOf(word) + 1, Len(word)) = TextOf(t, k, e)
  <2>1. TextOf(TextOf(t, s, e), n, m) = TextOf(t, s + n, s + m)
    BY <1>2, <1>5, TextWithin
  <2> QED BY <1>1, <1>3, <1>4, <1>5, <2>1 DEF TextOf
<1>9. SubSeq(word, 1, SplitOf(word)) = TextOf(t, s, k)
  <2>1. 0 <= n /\ s + n <= e /\ 0 \in Nat
    BY <1>5
  <2>2. TextOf(TextOf(t, s, e), 0, n) = TextOf(t, s + 0, s + n)
    BY <1>2, <1>5, <2>1, TextWithin
  <2>3. s + 0 = s /\ 0 + 1 = 1
    OBVIOUS
  <2>4. TextOf(word, 0, n) = TextOf(t, s, k)
    BY <1>5, <2>2, <2>3
  <2> QED BY <1>1, <1>3, <2>3, <2>4 DEF TextOf
<1>10. AmountIn(word, TRUE) = TextOf(t, k, e)
  <2>1. AmountIn(word, TRUE) = TrimBlanks(TextOf(t, k, e))
    BY <1>8, Zenon DEF AmountIn
  <2>2. k <= k /\ e <= e /\ (\A i \in (k + 1)..k : t[i] \in Blanks) /\ (\A i \in (e + 1)..e : t[i] \in Blanks)
    BY <1>2
  <2>3. TrimBlanks(TextOf(t, k, e)) = TextOf(t, k, e)
    BY <1>1, <1>2, <1>7, <2>2, TrimmedTo
  <2> QED BY <2>1, <2>3
<1>11. PICK w : w = TextOf(t, s, k)
  OBVIOUS
<1>12. w \in Seq(S) /\ Len(w) = n /\ \A j \in 1..n : w[j] = t[s + j]
  <2>1. Fits(t, s, k)
    BY <1>1, <1>2 DEF Fits
  <2>2. IsPart(w, S, t, s, k)
    BY <1>11, <2>1, TextOfIs, Zenon
  <2> QED BY <1>3, <2>2, Zenon DEF IsPart
<1>13. w # <<>> /\ w[1] \notin Blanks
  <2>1. 1 \in 1..n
    BY <1>5
  <2>2. t[s + 1] \in Capitals \union Signs
    BY Zenon DEF SignThenPrice
  <2>3. w[1] = t[s + 1] /\ Len(w) # 0
    BY <1>5, <1>12, <2>1
  <2> QED BY <1>12, <2>2, <2>3, Kinds
<1>14. PICK y : y = SymbolOf(word, TRUE)
  OBVIOUS
<1>15. y = TrimBlanks(w)
  BY <1>9, <1>11, <1>14, Zenon DEF SymbolOf
<1>16. y \in Seq(S) /\ Len(y) <= n /\ \A i \in 1..Len(y) : y[i] = w[i]
  BY <1>12, <1>13, <1>15, TrimmedBehind
<1>17. PICK c : c = LeadingCapitals(y)
  OBVIOUS
<1>18. c \in Nat /\ c <= Len(y) /\ \A i \in 1..c : y[i] \in Capitals
  BY <1>16, <1>17, LeadingCapitalsAre
<1>19. Len(y) \in Nat
  BY <1>16
<1>20. s + c <= k
  BY <1>5, <1>16, <1>18, <1>19
<1>21. \A i \in (s + 1)..(s + c) : t[i] \in Capitals
  <2> TAKE i \in (s + 1)..(s + c)
  <2>1. i - s \in 1..c /\ i - s \in 1..Len(y) /\ i - s \in 1..n /\ s + (i - s) = i
    BY <1>5, <1>16, <1>18, <1>19
  <2> QED BY <1>12, <1>16, <1>18, <2>1
<1> QED BY <1>10, <1>14, <1>17, <1>18, <1>20, <1>21 DEF SignedParts

SignedBehind(t, s, h, word) == word[1] \in Digits \union Marks /\ AmountIn(word, FALSE) = TextOf(t, s, h)

LEMMA PriceThenSignParts ==
  ASSUME NEW S, NEW t \in Seq(S), NEW s \in Nat, NEW h \in Nat, NEW e, PriceThenSign(t, s, h, e),
         NEW word, word = TextOf(t, s, e)
  PROVE  SignedBehind(t, s, h, word)
<1>1. e \in Int /\ e <= Len(t) /\ h < e /\ (\A i \in (h + 1)..e : t[i] \in BesideAmount) /\ Price(t, s, h)
  BY Zenon DEF PriceThenSign
<1>2. /\ s < h /\ h <= Len(t) /\ t[s + 1] \notin Blanks /\ t[h] \notin Blanks
      /\ t[s + 1] \in Digits \union Marks /\ t[h] \in Digits
  BY <1>1, PriceIsInked, Zenon
<1>3. e \in Nat /\ Fits(t, s, e)
  BY <1>1, <1>2 DEF Fits
<1>4. IsPart(word, S, t, s, e)
  BY <1>3, TextOfIs, Zenon
<1>5. PICK n : n = e - s
  OBVIOUS
<1>6. n \in Nat /\ Len(word) = n /\ DOMAIN word = 1..n /\ \A j \in 1..n : word[j] = t[s + j]
  <2>1. n \in Nat
    BY <1>1, <1>2, <1>5
  <2>2. word \in Seq(S) /\ Len(word) = n /\ \A j \in 1..n : word[j] = t[s + j]
    BY <1>4, <1>5, Zenon DEF IsPart
  <2> QED BY <2>1, <2>2
<1>7. PICK m : m = h - s
  OBVIOUS
<1>8. m \in 1..n /\ m \in Nat /\ s + m = h /\ s + n = e /\ 1 \in 1..n
  BY <1>1, <1>2, <1>3, <1>5, <1>7
<1>9. word[1] \in Digits \union Marks
  BY <1>2, <1>6, <1>8
<1>10. LastDigit(word) = m
  <2>1. word[m] \in Digits
    BY <1>2, <1>6, <1>8
  <2>2. \A j \in (m + 1)..n : word[j] \notin Digits
    <3> TAKE j \in (m + 1)..n
    <3>1. j \in 1..n /\ s + j \in (h + 1)..e
      BY <1>8, <1>6, <1>3
    <3>2. word[j] \in BesideAmount
      BY <1>1, <1>6, <3>1
    <3> QED BY <3>2, Kinds
  <2> QED BY <1>6, <1>8, <2>1, <2>2, LastDigitIs
<1>11. SubSeq(word, 1, LastDigit(word)) = TextOf(t, s, h)
  <2>1. 0 <= m /\ s + m <= e /\ 0 \in Nat
    BY <1>1, <1>8
  <2>2. TextOf(TextOf(t, s, e), 0, m) = TextOf(t, s + 0, s + m)
    BY <1>1, <1>3, <1>8, <2>1, TextWithin
  <2>3. s + 0 = s /\ 0 + 1 = 1
    OBVIOUS
  <2>4. TextOf(word, 0, m) = TextOf(t, s, h)
    BY <1>8, <2>2, <2>3
  <2> QED BY <1>10, <2>3, <2>4 DEF TextOf
<1>12. AmountIn(word, FALSE) = TrimBlanks(TextOf(t, s, h))
  BY <1>11, Zenon DEF AmountIn
<1>13. TrimBlanks(TextOf(t, s, h)) = TextOf(t, s, h)
  <2>1. s <= s /\ h <= h /\ (\A i \in (s + 1)..s : t[i] \in Blanks) /\ (\A i \in (h + 1)..h : t[i] \in Blanks)
    OBVIOUS
  <2> QED BY <1>2, <2>1, TrimmedTo
<1> QED BY <1>9, <1>12, <1>13, Zenon DEF SignedBehind

LEMMA SymbolReads ==
  ASSUME NEW S, NEW t \in Seq(S), NEW s \in Nat, NEW e \in SymbolEnds(t, s), NEW f \in ValidateSymbol(t, s, e)
  PROVE  Guarded(t, f) /\ \E k, h \in Nat : Reading(t, f, k, h)
<1>1. PICK word : word = TextOf(t, s, e)
  OBVIOUS
<1>2. CASE \E k \in Nat : SignThenPrice(t, s, k, e)
  <2>1. PICK k \in Nat : SignThenPrice(t, s, k, e)
    BY <1>2
  <2>2. word[1] \notin Digits \union Marks /\ Fits(t, s, e) /\ s < k /\ k < e
    BY <1>1, <2>1, SplitIs
  <2>3. PICK symbol : symbol = SymbolOf(word, TRUE)
    OBVIOUS
  <2>4. PICK amount : amount = AmountIn(word, TRUE)
    OBVIOUS
  <2>5. ~ continues_right(t, e) /\ SymbolOutcome(t, s, e, f, symbol, amount, TRUE)
    BY <1>1, <2>2, <2>3, <2>4, SymbolOutcomes
  <2>6. PICK letters : letters = LeadingCapitals(symbol)
    OBVIOUS
  <2>7. /\ amount = TextOf(t, k, e) /\ letters \in Nat /\ s + letters <= k
        /\ \A i \in (s + 1)..(s + letters) : t[i] \in Capitals
    <3>1. SignedParts(t, s, k, e, word)
      BY <1>1, <2>1, SignThenPriceParts, Zenon
    <3> QED BY <2>3, <2>4, <2>6, <3>1, Zenon DEF SignedParts
  <2>8. /\ e \in Nat /\ e <= Len(t) /\ Len(t) \in Nat /\ Price(t, k, e)
        /\ \A i \in (s + 1)..k : t[i] \in BesideAmount
    BY <2>1, <2>2 DEF SignThenPrice, Fits
  <2>9. ASSUME NEW a \in Nat, a <= k, \A i \in (a + 1)..k : t[i] \in BesideAmount,
               NEW c, f \in Minted(a, e, c, amount)
        PROVE  Reading(t, f, k, e) /\ f.start = a /\ f.end = e
    <3>1. e <= e /\ \A i \in (e + 1)..e : t[i] \in BesideAmount
      BY <2>8
    <3>2. Framed(t, a, e, k, e)
      BY <2>8, <2>9, <3>1, Zenon DEF Framed
    <3>3. f \in Minted(a, e, c, TextOf(t, k, e))
      BY <2>7, <2>9
    <3> QED BY <3>2, <3>3, MintedReads
  <2>10. CASE \E n \in code_beside_sign(t, s, symbol) : f \in Minted(n.at, e, n.code, amount)
    <3>1. PICK n \in code_beside_sign(t, s, symbol) : f \in Minted(n.at, e, n.code, amount)
      BY <2>10
    <3>2. s + letters <= Len(t)
      BY <2>2, <2>7, <2>8
    <3>3. BesideTheSign(t, n, s + letters)
      BY <2>6, <2>7, <3>2, CodeBesideSignIs
    <3>4. PICK a : a = n.at
      OBVIOUS
    <3>5. PICK g : g = s + letters
      OBVIOUS
    <3>6. /\ a \in Nat /\ a <= g /\ ByteBefore(t, a) \notin Alnum \union Separators
          /\ \A i \in (a + 1)..g : t[i] \in BesideAmount
      BY <3>3, <3>4, <3>5, Zenon DEF BesideTheSign
    <3>7. g \in Nat /\ s <= g /\ g <= k
      BY <2>7, <3>5
    <3>8. \A i \in (a + 1)..k : t[i] \in BesideAmount
      <4> TAKE i \in (a + 1)..k
      <4>1. i \in (a + 1)..g \/ i \in (s + 1)..k
        BY <3>6, <3>7
      <4> QED BY <2>8, <3>6, <4>1
    <3>9. a <= k
      BY <3>6, <3>7
    <3>10. f \in Minted(a, e, n.code, amount)
      BY <3>1, <3>4
    <3>11. Reading(t, f, k, e) /\ f.start = a /\ f.end = e
      BY <2>9, <3>6, <3>8, <3>9, <3>10, Zenon
    <3>12. Guarded(t, f)
      BY <2>5, <3>6, <3>11, Zenon DEF Guarded
    <3> QED BY <2>8, <3>11, <3>12
  <2>11. CASE ~ continues_left(t, s) /\ \E c : f \in Minted(s, e, c, amount)
    <3>1. PICK c : f \in Minted(s, e, c, amount)
      BY <2>11
    <3>2. s <= k
      BY <2>2
    <3>3. Reading(t, f, k, e) /\ f.start = s /\ f.end = e
      BY <2>8, <2>9, <3>1, <3>2, Zenon
    <3>4. s \in 0..f.start /\ \A i \in (s + 1)..f.start : t[i] \in Capitals
      BY <3>3
    <3>5. Guarded(t, f)
      BY <2>5, <2>11, <3>3, <3>4, Zenon DEF Guarded
    <3> QED BY <2>8, <3>3, <3>5
  <2>12. CASE ~ continues_left(t, s) /\ \E c : f \in Minted(s + letters, e, c, amount)
    <3>1. PICK c : f \in Minted(s + letters, e, c, amount)
      BY <2>12
    <3>2. PICK a : a = s + letters
      OBVIOUS
    <3>3. a \in Nat /\ s <= a /\ a <= k
      BY <2>7, <3>2
    <3>4. \A i \in (a + 1)..k : t[i] \in BesideAmount
      <4> TAKE i \in (a + 1)..k
      <4>1. i \in (s + 1)..k
        BY <3>3
      <4> QED BY <2>8, <4>1
    <3>5. f \in Minted(a, e, c, amount)
      BY <3>1, <3>2
    <3>6. Reading(t, f, k, e) /\ f.start = a /\ f.end = e
      BY <2>9, <3>3, <3>4, <3>5, Zenon
    <3>7. f.start \in Nat /\ s \in 0..f.start /\ \A i \in (s + 1)..f.start : t[i] \in Capitals
      <4>1. s \in 0..a
        BY <3>3
      <4> QED BY <2>7, <3>2, <3>3, <3>6, <4>1, Zenon
    <3>8. Guarded(t, f)
      BY <2>5, <2>12, <3>6, <3>7, Zenon DEF Guarded
    <3> QED BY <2>8, <3>6, <3>8
  <2> QED BY <2>5, <2>6, <2>10, <2>11, <2>12, Zenon DEF SymbolOutcome
<1>3. CASE \E h \in Nat : PriceThenSign(t, s, h, e)
  <2>1. PICK h \in Nat : PriceThenSign(t, s, h, e)
    BY <1>3
  <2>2. word[1] \in Digits \union Marks /\ AmountIn(word, FALSE) = TextOf(t, s, h)
    <3>1. SignedBehind(t, s, h, word)
      BY <1>1, <2>1, PriceThenSignParts, Zenon
    <3> QED BY <3>1, Zenon DEF SignedBehind
  <2>3. PICK symbol : symbol = SymbolOf(word, FALSE)
    OBVIOUS
  <2>4. PICK amount : amount = AmountIn(word, FALSE)
    OBVIOUS
  <2>5. ~ continues_right(t, e) /\ SymbolOutcome(t, s, e, f, symbol, amount, FALSE)
    BY <1>1, <2>2, <2>3, <2>4, SymbolOutcomes
  <2>6. PICK c : ~ continues_left(t, s) /\ f \in Minted(s, e, c, amount)
    BY <2>5, Zenon DEF SymbolOutcome
  <2>7. /\ e \in Int /\ e <= Len(t) /\ h < e /\ (\A i \in (h + 1)..e : t[i] \in BesideAmount) /\ Price(t, s, h)
    BY <2>1, Zenon DEF PriceThenSign
  <2>8. Framed(t, s, e, s, h)
    <3>1. e \in Nat /\ h <= e /\ s <= s /\ \A i \in (s + 1)..s : t[i] \in BesideAmount
      BY <2>7
    <3> QED BY <2>7, <3>1, Zenon DEF Framed
  <2>9. f \in Minted(s, e, c, TextOf(t, s, h))
    BY <2>2, <2>4, <2>6
  <2>10. Reading(t, f, s, h) /\ f.start = s /\ f.end = e
    BY <2>8, <2>9, MintedReads
  <2>11. s \in 0..f.start /\ \A i \in (s + 1)..f.start : t[i] \in Capitals
    BY <2>10
  <2>12. Guarded(t, f)
    BY <2>5, <2>6, <2>10, <2>11, Zenon DEF Guarded
  <2> QED BY <2>10, <2>12
<1> QED BY <1>2, <1>3, SymbolShapes, Zenon

-----------------------------------------------------------------------------
(* The invariant: what is queued is a match of the pattern, and what is found a verdict on one. *)

MoneyVerdict(t, f) == Guarded(t, f) /\ \E k, h \in Nat : Reading(t, f, k, h)
TableOf(rule, t) == [p \in 0..Len(t) |-> EndsAt(rule, t, p)]

Tabled == (ends = <<>> /\ queue = <<>>) \/ ends = TableOf(sample.rule, text)
Queued == queue \in Seq(Matches(ends, Len(text)))
Judged == \A f \in found : MoneyVerdict(text, f)
MoneyInv == text \in Seq(Nat) /\ (IsMoney => Tabled /\ Queued /\ Judged)

LEMMA EndsOfMoney ==
  ASSUME NEW rule \in MoneyRules, NEW t, NEW p
  PROVE  /\ rule = "iso_code" => EndsAt(rule, t, p) = IsoCodeEnds(t, p)
         /\ rule = "symbol" => EndsAt(rule, t, p) = SymbolEnds(t, p)
BY DEF EndsAt

LEMMA VerdictsOnMoney ==
  ASSUME NEW rule \in MoneyRules, NEW t, NEW s, NEW e
  PROVE  /\ rule = "iso_code" => Verdicts(rule, t, s, e) = ValidateIsoCode(t, s, e, TRUE)
         /\ rule = "symbol" => Verdicts(rule, t, s, e) = ValidateSymbol(t, s, e)
<1>1. DOMAIN Dated = {"rfc2822", "clf", "iso_week"} /\ DOMAIN Addressed = {"ip", "asn", "email", "decimal", "dms", "plus_code"}
  BY DEF Dated, Addressed
<1>2. rule \notin DOMAIN Dated /\ rule \notin DOMAIN Addressed /\ rule # "phone" /\ (rule = "iso_code" \/ rule = "symbol")
  BY <1>1 DEF MoneyRules
<1> QED BY <1>2 DEF Verdicts

LEMMA MoneyIsTabled ==
  ASSUME NEW rule \in MoneyRules, NEW S, NEW t \in Seq(S)
  PROVE  IsTable(TableOf(rule, t), Len(t))
<1> SUFFICES ASSUME NEW p \in 0..Len(t), NEW q \in EndsAt(rule, t, p)
             PROVE  q \in Int /\ p < q /\ q <= Len(t)
  BY Zenon DEF IsTable, TableOf
<1>1. p \in Nat /\ Len(t) \in Nat
  OBVIOUS
<1>2. CASE rule = "iso_code"
  <2>1. q \in IsoCodeEnds(t, p)
    BY <1>2, EndsOfMoney, Zenon
  <2>2. (\E k \in Nat : CodeThenAmount(t, p, k, q)) \/ (\E h \in Nat : AmountThenCode(t, p, h, q))
    BY <1>1, <2>1, IsoCodeShapes, Zenon
  <2> QED BY <1>1, <2>2 DEF CodeThenAmount, AmountThenCode, Amount
<1>3. CASE rule = "symbol"
  <2>1. q \in SymbolEnds(t, p)
    BY <1>3, EndsOfMoney, Zenon
  <2>2. (\E k \in Nat : SignThenPrice(t, p, k, q)) \/ (\E h \in Nat : PriceThenSign(t, p, h, q))
    BY <1>1, <2>1, SymbolShapes, Zenon
  <2> QED BY <1>1, <2>2 DEF SignThenPrice, PriceThenSign, Price
<1> QED BY <1>2, <1>3 DEF MoneyRules

LEMMA MoneyIsJudged ==
  ASSUME NEW rule \in MoneyRules, NEW S, NEW t \in Seq(S), NEW s \in 0..Len(t), NEW e \in EndsAt(rule, t, s),
         NEW f \in Verdicts(rule, t, s, e)
  PROVE  MoneyVerdict(t, f)
<1>1. s \in Nat
  OBVIOUS
<1>2. CASE rule = "iso_code"
  <2>1. e \in IsoCodeEnds(t, s) /\ f \in ValidateIsoCode(t, s, e, TRUE)
    BY <1>2, EndsOfMoney, VerdictsOnMoney, Zenon
  <2> QED BY <1>1, <2>1, IsoCodeReads, Zenon DEF MoneyVerdict
<1>3. CASE rule = "symbol"
  <2>1. e \in SymbolEnds(t, s) /\ f \in ValidateSymbol(t, s, e)
    BY <1>3, EndsOfMoney, VerdictsOnMoney, Zenon
  <2> QED BY <1>1, <2>1, SymbolReads, Zenon DEF MoneyVerdict
<1> QED BY <1>2, <1>3 DEF MoneyRules

LEMMA MatchesBehind ==
  ASSUME NEW table, NEW n \in Nat, IsTable(table, n), NEW m \in Matches(table, n)
  PROVE  m.start \in 0..n /\ m.end \in table[m.start] /\ m.end \in Int /\ m.end <= n /\ m.start < m.end /\ m.retries \in Int
BY DEF Matches, IsTable

LEMMA AllButTheLast ==
  ASSUME NEW S, NEW q \in Seq(S), q # <<>>
  PROVE  Front(q) \in Seq(S) /\ Last(q) \in S
<1>1. Len(q) \in Nat /\ Len(q) # 0 /\ Len(q) \in 1..Len(q) /\ Len(q) - 1 \in Int
  OBVIOUS
<1>2. \A i \in 1..(Len(q) - 1) : q[i] \in S
  BY <1>1
<1>3. SubSeq(q, 1, Len(q) - 1) \in Seq(S)
  BY <1>1, <1>2, SubSeqProperties
<1> QED BY <1>1, <1>3 DEF Front, Last

LEMMA MoneyInit ==
  ASSUME Init
  PROVE  MoneyInv
<1>1. PICK w \in Written, c \in Contexts : text = c.left \o w.body \o c.right
  BY DEF Init
<1>2. w.body \in Seq(Nat) /\ c.left \in Seq(Nat) /\ c.right \in Seq(Nat)
  BY ReadingsAssumption
<1>3. text \in Seq(Nat)
  <2>1. c.left \o w.body \in Seq(Nat)
    BY <1>2, ConcatProperties
  <2> QED BY <1>1, <1>2, <2>1, ConcatProperties
<1>4. ends = <<>> /\ queue = <<>> /\ found = {}
  BY DEF Init
<1>5. Queued
  BY <1>4 DEF Queued
<1> QED BY <1>3, <1>4, <1>5 DEF MoneyInv, Tabled, Judged

LEMMA MoneyPropose ==
  ASSUME MoneyInv, Propose
  PROVE  MoneyInv'
<1>1. text' = text /\ sample' = sample /\ found' = found
  BY DEF Propose
<1>2. text \in Seq(Nat) /\ (IsMoney => Judged)
  BY DEF MoneyInv
<1>3. ASSUME IsMoney PROVE Tabled' /\ Queued'
  <2>1. sample.rule \in MoneyRules
    BY <1>3 DEF IsMoney
  <2>2. ends' = TableOf(sample.rule, text)
    BY DEF Propose, TableOf
  <2>3. Len(text) \in Nat /\ Len(text) \in Int /\ Len(text) <= Len(text) /\ 0 \in Nat /\ 0 \in Int
    BY <1>2
  <2>4. IsTable(ends', Len(text))
    BY <1>2, <2>1, <2>2, MoneyIsTabled
  <2>5. PICK table : table = ends'
    OBVIOUS
  <2>6. FindIter(table, 0, Len(text), 0) \in Seq(Matches(table, Len(text)))
    BY <2>3, <2>4, <2>5, FindIterFinds
  <2>7. queue' = FindIter(table, 0, Len(text), 0)
    BY <2>5 DEF Propose
  <2> QED BY <1>1, <2>2, <2>5, <2>6, <2>7 DEF Tabled, Queued
<1>4. IsMoney' <=> IsMoney
  BY <1>1 DEF IsMoney
<1>5. Judged' <=> Judged
  BY <1>1 DEF Judged
<1> QED BY <1>1, <1>2, <1>3, <1>4, <1>5 DEF MoneyInv

(* The span on top of the queue, when there is one. *)
OnTop == Top \in Matches(ends, Len(text)) /\ Front(queue) \in Seq(Matches(ends, Len(text)))
         /\ ends = TableOf(sample.rule, text) /\ IsTable(ends, Len(text))

LEMMA MoneyOnTop ==
  ASSUME MoneyInv, IsMoney, queue # <<>>
  PROVE  OnTop
<1>1. text \in Seq(Nat) /\ Tabled /\ Queued
  BY DEF MoneyInv
<1>2. ends = TableOf(sample.rule, text)
  BY <1>1 DEF Tabled
<1>3. sample.rule \in MoneyRules
  BY DEF IsMoney
<1>4. IsTable(ends, Len(text))
  BY <1>1, <1>2, <1>3, MoneyIsTabled
<1>5. PICK M : M = Matches(ends, Len(text))
  OBVIOUS
<1>6. queue \in Seq(M)
  BY <1>1, <1>5 DEF Queued
<1>7. Front(queue) \in Seq(M) /\ Last(queue) \in M
  BY <1>6, AllButTheLast
<1> QED BY <1>2, <1>4, <1>5, <1>7 DEF OnTop, Top

LEMMA MoneySkip ==
  ASSUME MoneyInv, Skip
  PROVE  MoneyInv'
<1>1. text' = text /\ sample' = sample /\ found' = found /\ ends' = ends /\ queue # <<>> /\ queue' = Front(queue)
  BY DEF Skip
<1>2. text \in Seq(Nat) /\ (IsMoney => Judged)
  BY DEF MoneyInv
<1>3. ASSUME IsMoney PROVE Tabled' /\ Queued'
  <2>1. OnTop
    BY <1>1, <1>3, MoneyOnTop
  <2> QED BY <1>1, <2>1 DEF OnTop, Tabled, Queued
<1>4. IsMoney' <=> IsMoney
  BY <1>1 DEF IsMoney
<1>5. Judged' <=> Judged
  BY <1>1 DEF Judged
<1> QED BY <1>1, <1>2, <1>3, <1>4, <1>5 DEF MoneyInv

LEMMA MoneyAccept ==
  ASSUME MoneyInv, Accept
  PROVE  MoneyInv'
<1>1. /\ text' = text /\ sample' = sample /\ ends' = ends /\ queue # <<>> /\ queue' = Front(queue)
      /\ found' = found \union VerdictsOn(Top)
  BY DEF Accept
<1>2. text \in Seq(Nat) /\ (IsMoney => Judged)
  BY DEF MoneyInv
<1>3. ASSUME IsMoney PROVE Tabled' /\ Queued' /\ Judged'
  <2>1. OnTop
    BY <1>1, <1>3, MoneyOnTop
  <2>2. Tabled' /\ Queued'
    BY <1>1, <2>1 DEF OnTop, Tabled, Queued
  <2>3. sample.rule \in MoneyRules /\ Len(text) \in Nat
    BY <1>2, <1>3 DEF IsMoney
  <2>4. Top.start \in 0..Len(text) /\ Top.end \in ends[Top.start]
    BY <2>1, <2>3, MatchesBehind, Zenon DEF OnTop
  <2>5. Top.end \in EndsAt(sample.rule, text, Top.start)
    BY <2>1, <2>4 DEF OnTop, TableOf
  <2>6. ASSUME NEW f \in VerdictsOn(Top) PROVE MoneyVerdict(text, f)
    <3>1. f \in Verdicts(sample.rule, text, Top.start, Top.end)
      BY <2>6, Zenon DEF VerdictsOn
    <3> QED BY <1>2, <2>3, <2>4, <2>5, <3>1, MoneyIsJudged
  <2>7. \A f \in found : MoneyVerdict(text, f)
    BY <1>2, <1>3 DEF Judged
  <2>8. Judged'
    BY <1>1, <2>6, <2>7 DEF Judged
  <2> QED BY <2>2, <2>8
<1>4. IsMoney' <=> IsMoney
  BY <1>1 DEF IsMoney
<1> QED BY <1>1, <1>2, <1>3, <1>4 DEF MoneyInv

LEMMA MoneyReject ==
  ASSUME MoneyInv, Reject
  PROVE  MoneyInv'
<1>1. /\ text' = text /\ sample' = sample /\ ends' = ends /\ found' = found /\ queue # <<>>
      /\ queue' = Front(queue) \o Behind(Top) \o Inside(Top)
  BY DEF Reject
<1>2. text \in Seq(Nat) /\ (IsMoney => Judged)
  BY DEF MoneyInv
<1>3. ASSUME IsMoney PROVE Tabled' /\ Queued'
  <2>1. OnTop
    BY <1>1, <1>3, MoneyOnTop
  <2>2. PICK m : m = Top
    OBVIOUS
  <2>3. PICK n : n = Len(text)
    OBVIOUS
  <2>4. PICK M : M = Matches(ends, n)
    OBVIOUS
  <2>5. n \in Nat /\ IsTable(ends, n) /\ m \in M /\ Front(queue) \in Seq(M)
    BY <1>2, <2>1, <2>2, <2>3, <2>4 DEF OnTop
  <2>6. m.start \in 0..n /\ m.end \in Int /\ m.end <= n /\ m.start < m.end /\ m.retries \in Int
    BY <2>4, <2>5, MatchesBehind, Zenon
  <2>7. Behind(m) \in Seq(M)
    <3>1. PICK from : from = m.start + 1
      OBVIOUS
    <3>2. PICK r : r = m.retries
      OBVIOUS
    <3>3. from \in Nat /\ n \in Int /\ n <= n /\ r \in Int
      BY <2>5, <2>6, <3>1, <3>2
    <3>4. PICK later : later = FindIter(ends, from, n, r)
      OBVIOUS
    <3>5. later \in Seq(M)
      BY <2>4, <2>5, <3>3, <3>4, FindIterFinds
    <3>6. Behind(m) = IF MayResume /\ later # <<>> THEN <<Head(later)>> ELSE <<>>
      BY <2>3, <3>1, <3>2, <3>4, Zenon DEF Behind
    <3>7. later # <<>> => Head(later) \in M
      BY <3>5
    <3>8. later # <<>> => <<Head(later)>> \in Seq(M)
      BY <3>7
    <3> QED BY <3>6, <3>8
  <2>8. Inside(m) \in Seq(M)
    <3>1. PICK from : from = m.start
      OBVIOUS
    <3>2. PICK r : r = m.retries + 1
      OBVIOUS
    <3>3. PICK limit : limit = m.end - 1
      OBVIOUS
    <3>4. from \in Nat /\ limit \in Int /\ limit <= n /\ r \in Int
      BY <2>5, <2>6, <3>1, <3>2, <3>3
    <3>5. FindIter(ends, from, limit, r) \in Seq(M)
      BY <2>4, <2>5, <3>4, FindIterFinds
    <3>6. Inside(m) = IF MayShrink(m) THEN FindIter(ends, from, limit, r) ELSE <<>>
      BY <3>1, <3>2, <3>3, Zenon DEF Inside
    <3> QED BY <3>5, <3>6
  <2>9. queue' = Front(queue) \o Behind(m) \o Inside(m)
    BY <1>1, <2>2
  <2>10. Front(queue) \o Behind(m) \o Inside(m) \in Seq(M)
    <3>1. \A x, y \in Seq(M) : x \o y \in Seq(M)
      BY ConcatProperties
    <3>2. Front(queue) \o Behind(m) \in Seq(M)
      BY <2>5, <2>7, <3>1, Zenon
    <3> QED BY <2>8, <3>1, <3>2, Zenon
  <2>11. queue' \in Seq(Matches(ends, Len(text)))
    BY <2>3, <2>4, <2>9, <2>10, Zenon
  <2>12. Tabled'
    BY <1>1, <2>1 DEF OnTop, Tabled
  <2>13. Queued'
    BY <1>1, <2>11 DEF Queued
  <2> QED BY <2>12, <2>13
<1>4. IsMoney' <=> IsMoney
  BY <1>1 DEF IsMoney
<1>5. Judged' <=> Judged
  BY <1>1 DEF Judged
<1> QED BY <1>1, <1>2, <1>3, <1>4, <1>5 DEF MoneyInv

(***************************************************************************)
(* Of money, whatever was refused before, every span in the queue is a     *)
(* match of the rule's pattern, and everything found is a verdict on one:  *)
(* an amount with nothing but its code, its sign and blanks beside it,     *)
(* whose neighbours were asked.                                            *)
(***************************************************************************)
THEOREM MoneyInvariant == Spec => []MoneyInv
<1>1. Init => MoneyInv
  BY MoneyInit
<1>2. MoneyInv /\ [Next]_readingsVars => MoneyInv'
  <2> SUFFICES ASSUME MoneyInv, [Next]_readingsVars PROVE MoneyInv'
    OBVIOUS
  <2>1. CASE Propose
    BY <2>1, MoneyPropose
  <2>2. CASE Skip
    BY <2>2, MoneySkip
  <2>3. CASE Accept
    BY <2>3, MoneyAccept
  <2>4. CASE Reject
    BY <2>4, MoneyReject
  <2>5. CASE UNCHANGED readingsVars
    BY <2>5 DEF readingsVars, MoneyInv, IsMoney, Tabled, Queued, Judged
  <2> QED BY <2>1, <2>2, <2>3, <2>4, <2>5 DEF Next
<1> QED BY <1>1, <1>2, PTL DEF Spec

-----------------------------------------------------------------------------
(* What the neighbours were asked is enough: no digit is cut off. *)

LEMMA OutsetIs ==
  ASSUME NEW f, f.start \in Nat
  PROVE  Outset(f) \in 0..f.start /\ \A j \in (Outset(f) + 1)..f.start : text[j] \in Capitals
<1>1. PICK Places : Places = {i \in 0..f.start : f.start - i <= 2 /\ \A j \in (i + 1)..f.start : text[j] \in Capitals}
  OBVIOUS
<1>2. f.start \in Places
  BY <1>1
<1>3. Places \in SUBSET Nat
  BY <1>1
<1>4. Min(Places) \in Places
  BY <1>2, <1>3, LeastOf
<1>5. Outset(f) = Min(Places)
  BY <1>1 DEF Outset
<1> QED BY <1>1, <1>4, <1>5

LEMMA LeftNeighbours ==
  ASSUME NEW f, Guarded(text, f), f.start \in Nat
  PROVE  /\ ByteBefore(text, Outset(f)) \notin Digits \union {Hyphen}
         /\ ByteBefore(text, Outset(f)) \in Separators => ByteBefore(text, Outset(f) - 1) \notin Digits
<1>1. PICK o : o = Outset(f)
  OBVIOUS
<1>2. o \in 0..f.start /\ \A j \in (o + 1)..f.start : text[j] \in Capitals
  BY <1>1, OutsetIs
<1>3. \A v \in Capitals : v \in Alnum /\ v \notin Digits \union {Hyphen} /\ v \notin Separators
  BY DEF Capitals, Alnum, Digits, Separators, Dot, Comma, Hyphen
<1>4. Digits \union {Hyphen} \subseteq Alnum \union Separators
  BY DEF Alnum, Digits, Separators
<1>5. CASE ByteBefore(text, f.start) \notin Alnum \union Separators
  <2>1. o = f.start
    <3> SUFFICES ASSUME o # f.start PROVE FALSE
      OBVIOUS
    <3>1. f.start \in (o + 1)..f.start /\ f.start # 0
      BY <1>2
    <3>2. ByteBefore(text, f.start) = text[f.start] /\ text[f.start] \in Capitals
      BY <1>2, <3>1 DEF ByteBefore
    <3> QED BY <1>3, <1>5, <3>2
  <2> QED BY <1>1, <1>4, <1>5, <2>1
<1>6. CASE \E s \in 0..f.start : ~ continues_left(text, s) /\ \A i \in (s + 1)..f.start : text[i] \in Capitals
  <2>1. PICK s \in 0..f.start : ~ continues_left(text, s) /\ \A i \in (s + 1)..f.start : text[i] \in Capitals
    BY <1>6
  <2>2. ByteBefore(text, s) \notin Alnum \union {Hyphen}
    BY <2>1, Zenon DEF continues_left
  <2>3. CASE s < o
    <3>1. o # 0 /\ o \in (s + 1)..f.start
      BY <1>2, <2>1, <2>3
    <3>2. ByteBefore(text, o) = text[o] /\ text[o] \in Capitals
      BY <2>1, <3>1 DEF ByteBefore
    <3> QED BY <1>1, <1>3, <3>2
  <2>4. CASE o = s
    <3>1. ASSUME ByteBefore(text, s) \in Separators PROVE ByteBefore(text, s - 1) \notin Digits
      <4>1. ByteBefore(text, s) # Space /\ s # 0
        BY <3>1 DEF ByteBefore, Separators, Dot, Comma, Hyphen, Space, Nothing
      <4>2. s > 0
        BY <2>1, <4>1
      <4> QED BY <2>1, <3>1, <4>1, <4>2, Zenon DEF continues_left
    <3>2. Digits \union {Hyphen} \subseteq Alnum \union {Hyphen}
      BY DEF Digits, Alnum
    <3> QED BY <1>1, <2>2, <2>4, <3>1, <3>2
  <2>5. CASE o < s
    <3>1. s # 0 /\ s \in (o + 1)..f.start
      BY <1>2, <2>1, <2>5
    <3>2. ByteBefore(text, s) = text[s] /\ text[s] \in Capitals
      BY <1>2, <3>1 DEF ByteBefore
    <3> QED BY <1>3, <2>2, <3>2
  <2>6. s < o \/ o = s \/ o < s
    BY <1>2, <2>1
  <2> QED BY <2>3, <2>4, <2>5, <2>6
<1> QED BY <1>5, <1>6, Zenon DEF Guarded

LEMMA RightNeighbours ==
  ASSUME NEW t, NEW e, ~ continues_right(t, e)
  PROVE  /\ ByteAfter(t, e) \notin Alnum
         /\ t[e] \in Digits /\ ByteAfter(t, e) \in Separators => ByteAfter(t, e + 1) \notin Digits
<1>1. Space \notin Digits
  BY DEF Space, Digits
<1>2. ByteAfter(t, e) \notin Alnum
  BY Zenon DEF continues_right
<1>3. ASSUME t[e] \in Digits, ByteAfter(t, e) \in Separators PROVE ByteAfter(t, e + 1) \notin Digits
  <2> SUFFICES ASSUME ByteAfter(t, e + 1) \in Digits PROVE FALSE
    OBVIOUS
  <2>1. ByteAfter(t, e + 1) # Space
    BY <1>1
  <2> QED BY <1>3, <2>1, Zenon DEF continues_right
<1> QED BY <1>2, <1>3

(***************************************************************************)
(* No digit, no minus and no separator with a digit on its other side      *)
(* touches an amount that is reported, or the capitals its sign stands     *)
(* behind: the guards of money.rs 309 to 377 see to it for every text,     *)
(* after every refusal, retry and narrowing of a span.                     *)
(***************************************************************************)
THEOREM DigitsAreNotCutOff == Spec => []NoDigitCutOff
<1>1. MoneyInv => NoDigitCutOff
  <2> SUFFICES ASSUME MoneyInv, IsMoney, NEW f \in found
               PROVE  /\ ByteBefore(text, Outset(f)) \notin Digits \union {Hyphen}
                      /\ ByteBefore(text, Outset(f)) \in Separators => ByteBefore(text, Outset(f) - 1) \notin Digits
                      /\ ByteAfter(text, f.end) \notin Alnum
                      /\ text[f.end] \in Digits /\ ByteAfter(text, f.end) \in Separators => ByteAfter(text, f.end + 1) \notin Digits
    BY Zenon DEF NoDigitCutOff
  <2>1. MoneyVerdict(text, f)
    BY DEF MoneyInv, Judged
  <2>2. Guarded(text, f) /\ \E k, h \in Nat : Reading(text, f, k, h)
    BY <2>1, Zenon DEF MoneyVerdict
  <2>3. f.start \in Nat
    BY <2>2, Zenon DEF Reading
  <2>4. ~ continues_right(text, f.end)
    BY <2>2, Zenon DEF Guarded
  <2>5. /\ ByteBefore(text, Outset(f)) \notin Digits \union {Hyphen}
        /\ ByteBefore(text, Outset(f)) \in Separators => ByteBefore(text, Outset(f) - 1) \notin Digits
    BY <2>2, <2>3, LeftNeighbours, Zenon
  <2>6. /\ ByteAfter(text, f.end) \notin Alnum
        /\ text[f.end] \in Digits /\ ByteAfter(text, f.end) \in Separators => ByteAfter(text, f.end + 1) \notin Digits
    BY <2>4, RightNeighbours
  <2> QED BY <2>5, <2>6
<1> QED BY <1>1, MoneyInvariant, PTL

-----------------------------------------------------------------------------
(* The amount a reader sees is the one the code converted. *)

LEMMA AmountOfIs ==
  ASSUME NEW S, text \in Seq(S), NEW f, NEW k, NEW h, Reading(text, f, k, h)
  PROVE  AmountOf(f) = Drop(TextOf(text, k, h), Grouping)
<1>1. /\ f.start \in Nat /\ f.start <= k /\ h <= f.end /\ f.end \in Nat /\ f.end <= Len(text)
      /\ (\A i \in (f.start + 1)..k : text[i] \in BesideAmount) /\ (\A i \in (h + 1)..f.end : text[i] \in BesideAmount)
      /\ k \in Nat /\ h \in Nat /\ k < h /\ \A i \in (k + 1)..h : text[i] \in InAmount
  BY Zenon DEF Reading, Price
<1>2. PICK a : a = f.start
  OBVIOUS
<1>3. PICK e : e = f.end
  OBVIOUS
<1>4. PICK l : l = k - a
  OBVIOUS
<1>5. PICK r : r = h - a
  OBVIOUS
<1>6. PICK n : n = e - a
  OBVIOUS
<1>7. a \in Nat /\ e \in Nat /\ e <= Len(text) /\ l \in 0..n /\ r \in l..n /\ n \in Nat /\ a + l = k /\ a + r = h /\ a + n = e
  <2>1. /\ a \in Nat /\ a <= k /\ h <= e /\ e \in Nat /\ e <= Len(text)
        /\ k \in Nat /\ h \in Nat /\ k < h
    BY <1>1, <1>2, <1>3, Zenon
  <2> QED BY <1>4, <1>5, <1>6, <2>1
<1>8. PICK u : u = TextOf(text, a, e)
  OBVIOUS
<1>9. u \in Seq(S) /\ Len(u) = n /\ \A i \in 1..n : u[i] = text[a + i]
  <2>1. Fits(text, a, e)
    BY <1>7 DEF Fits
  <2>2. IsPart(u, S, text, a, e)
    BY <1>8, <2>1, TextOfIs, Zenon
  <2> QED BY <1>6, <2>2, Zenon DEF IsPart
<1>10. PICK marks : marks = Capitals \union Signs \union Grouping
  OBVIOUS
<1>11. \A i \in 1..l : u[i] \in marks
  <2> TAKE i \in 1..l
  <2>1. i \in 1..n /\ a + i \in (a + 1)..k
    BY <1>7
  <2>2. u[i] \in BesideAmount
    BY <1>1, <1>2, <1>9, <2>1
  <2> QED BY <1>10, <2>2, Kinds, Zenon
<1>12. \A i \in (r + 1)..n : u[i] \in marks
  <2> TAKE i \in (r + 1)..n
  <2>1. i \in 1..n /\ a + i \in (h + 1)..e
    BY <1>7
  <2>2. u[i] \in BesideAmount
    BY <1>1, <1>3, <1>9, <2>1
  <2> QED BY <1>10, <2>2, Kinds, Zenon
<1>13. \A i \in (l + 1)..r : u[i] \in marks <=> u[i] \in Grouping
  <2> TAKE i \in (l + 1)..r
  <2>1. i \in 1..n /\ a + i \in (k + 1)..h
    BY <1>7
  <2>2. u[i] \in InAmount
    BY <1>1, <1>9, <2>1
  <2>3. u[i] \notin Capitals /\ u[i] \notin Signs
    BY <2>2, Kinds, Zenon
  <2> QED BY <1>10, <2>3
<1>14. Between(u, l, r, marks, Grouping)
  BY <1>7, <1>9, <1>11, <1>12, <1>13 DEF Between
<1>15. Drop(u, marks) = Drop(TextOf(u, l, r), Grouping)
  <2>1. u \in Seq(S)
    BY <1>9
  <2> QED BY <1>14, <2>1, DropAgrees
<1>16. TextOf(u, l, r) = TextOf(text, k, h)
  <2>1. l \in Nat /\ r \in Nat /\ l <= r /\ a + r <= e
    BY <1>7
  <2>2. TextOf(TextOf(text, a, e), l, r) = TextOf(text, a + l, a + r)
    BY <1>7, <2>1, TextWithin
  <2> QED BY <1>7, <1>8, <2>2
<1>17. AmountOf(f) = Drop(u, marks)
  BY <1>2, <1>3, <1>8, <1>10, Zenon DEF AmountOf
<1> QED BY <1>15, <1>16, <1>17

-----------------------------------------------------------------------------
(* Groups of three: every fourth offset before the end. *)

(* Every offset of G is the first, or four behind the one before it. *)
FourApart(G) ==
  \A i \in G : \/ i \in 2..4 /\ \A j \in G : ~ (j < i)
               \/ i - 4 \in G /\ \A j \in G : j < i => j <= i - 4
EveryFourth(end) == {i \in 2..(end - 1) : (end - i) % 4 = 0}

LEMMA PreviousIs ==
  ASSUME NEW n \in Nat, NEW G \in SUBSET (1..n), NEW i \in G
  PROVE  /\ Previous(i, G) = {} => \A j \in G : ~ (j < i)
         /\ \A p : Previous(i, G) = {p} => p \in G /\ p < i /\ \A j \in G : j < i => j <= p
<1>1. PICK Places : Places = {j \in G : j < i}
  OBVIOUS
<1>2. ASSUME Previous(i, G) = {}, NEW j \in G, j < i PROVE FALSE
  <2>1. Places # {} /\ Places \in SUBSET (1..n)
    BY <1>1, <1>2
  <2>2. Max(Places) \in Places /\ \A y \in Places : Max(Places) >= y
    BY <2>1, MaxIsGreatest, Zenon
  <2>3. PICK m : m = Max(Places)
    OBVIOUS
  <2>4. m \in G /\ m < i /\ \A k \in G : k < i => k <= m
    BY <1>1, <2>2, <2>3
  <2>5. m \in Previous(i, G)
    BY <2>4, Zenon DEF Previous
  <2> QED BY <1>2, <2>5
<1>3. ASSUME NEW p, Previous(i, G) = {p} PROVE p \in G /\ p < i /\ \A j \in G : j < i => j <= p
  <2>1. p \in Previous(i, G)
    BY <1>3
  <2> QED BY <2>1, Zenon DEF Previous
<1> QED BY <1>2, <1>3

LEMMA WellGroupedIs ==
  ASSUME NEW a, NEW n \in Nat, NEW G \in SUBSET (1..n), NEW end, WellGrouped(a, G, end)
  PROVE  FourApart(G)
<1> SUFFICES ASSUME NEW i \in G
             PROVE  \/ i \in 2..4 /\ \A j \in G : ~ (j < i)
                    \/ i - 4 \in G /\ \A j \in G : j < i => j <= i - 4
  BY DEF FourApart
<1>1. (Previous(i, G) = {} /\ i \in 2..4) \/ Previous(i, G) = {i - 4}
  BY Zenon DEF WellGrouped
<1>2. CASE Previous(i, G) = {} /\ i \in 2..4
  BY <1>2, PreviousIs, Zenon
<1>3. CASE Previous(i, G) = {i - 4}
  BY <1>3, PreviousIs, Zenon
<1> QED BY <1>1, <1>2, <1>3

LEMMA GroupsAreEveryFourth ==
  ASSUME NEW n \in Nat, NEW G \in SUBSET (1..n), NEW end \in 1..(n + 1), \A i \in G : i < end,
         FourApart(G), end - 4 \in G
  PROVE  EveryFourth(end) = G
<1>0. \A i \in G : i \in 1..n /\ i \in Nat /\ i < end
  OBVIOUS
<1>1. \A i \in G : (i \in 2..4 /\ \A j \in G : ~ (j < i)) \/ (i - 4 \in G /\ \A j \in G : j < i => j <= i - 4)
  BY DEF FourApart
<1>2. ASSUME NEW i \in G PROVE i \in 2..(end - 1)
  <2>1. i \in 2..4 \/ i - 4 \in G
    BY <1>1
  <2>2. CASE i \in 2..4
    BY <1>0, <2>2
  <2>3. CASE i - 4 \in G
    <3>1. i - 4 \in 1..n
      BY <1>0, <2>3
    <3> QED BY <1>0, <3>1
  <2> QED BY <2>1, <2>2, <2>3
<1>3. ASSUME NEW i \in G PROVE (end - i) % 4 = 0
  <2>1. PICK B : B = {j \in G : (end - j) % 4 # 0}
    OBVIOUS
  <2> SUFFICES ASSUME B # {} PROVE FALSE
    BY <2>1
  <2>2. B \in SUBSET (1..n)
    BY <1>0, <2>1
  <2>3. Max(B) \in B /\ \A y \in B : Max(B) >= y
    BY <2>2, MaxIsGreatest, Zenon
  <2>4. PICK b : b = Max(B)
    OBVIOUS
  <2>5. b \in G /\ (end - b) % 4 # 0 /\ b \in 1..n /\ b < end
    BY <1>0, <2>1, <2>3, <2>4
  <2>6. b < end - 4
    <3>1. b # end - 4
      BY <2>5
    <3>2. ASSUME end - 4 < b PROVE FALSE
      <4>1. ~ (\A j \in G : ~ (j < b))
        BY <3>2
      <4>2. end - 4 <= b - 4
        BY <1>1, <2>5, <3>2, <4>1, Zenon
      <4> QED BY <2>5, <4>2
    <3> QED BY <2>5, <3>1, <3>2
  <2>7. PICK U : U = {j \in G : b < j}
    OBVIOUS
  <2>8. U # {} /\ U \in SUBSET Nat
    BY <1>0, <2>6, <2>7
  <2>9. Min(U) \in U /\ \A y \in U : Min(U) <= y
    BY <2>8, LeastOf
  <2>10. PICK u : u = Min(U)
    OBVIOUS
  <2>11. u \in G /\ b < u /\ u \in 1..n /\ u < end /\ \A y \in G : b < y => u <= y
    BY <1>0, <2>7, <2>9, <2>10
  <2>12. u - 4 \in G /\ b <= u - 4
    <3>1. ~ (\A j \in G : ~ (j < u))
      BY <2>5, <2>11
    <3> QED BY <1>1, <2>5, <2>11, <3>1, Zenon
  <2>13. u - 4 = b
    <3>1. ~ (b < u - 4)
      <4>1. b < u - 4 => u <= u - 4
        BY <2>11, <2>12
      <4> QED BY <2>11, <4>1
    <3> QED BY <2>5, <2>11, <2>12, <3>1
  <2>14. (end - u) % 4 # 0
    <3>1. end - b = (end - u) + 4 /\ end - u \in Nat
      BY <2>5, <2>11, <2>13
    <3> QED BY <2>5, <3>1
  <2>15. u \in B
    BY <2>1, <2>11, <2>14
  <2> QED BY <2>3, <2>4, <2>5, <2>11, <2>15
<1>4. ASSUME NEW i \in 2..(end - 1), (end - i) % 4 = 0 PROVE i \in G
  <2>1. PICK B : B = {j \in 2..(end - 1) : (end - j) % 4 = 0 /\ j \notin G}
    OBVIOUS
  <2> SUFFICES ASSUME B # {} PROVE FALSE
    BY <1>4, <2>1
  <2>2. B \in SUBSET (1..n)
    BY <2>1
  <2>3. Max(B) \in B /\ \A y \in B : Max(B) >= y
    BY <2>2, MaxIsGreatest, Zenon
  <2>4. PICK b : b = Max(B)
    OBVIOUS
  <2>5. b \in 2..(end - 1) /\ (end - b) % 4 = 0 /\ b \notin G
    BY <2>1, <2>3, <2>4
  <2>6. PICK c : c = b + 4
    OBVIOUS
  <2>7. c \in 2..(end - 1) /\ (end - c) % 4 = 0
    <3>1. PICK x : x = end - b
      OBVIOUS
    <3>2. x \in Nat /\ x >= 1 /\ x % 4 = 0
      BY <2>5, <3>1
    <3>3. x >= 4
      BY <3>2
    <3>4. x # 4
      BY <2>5, <3>1
    <3>5. x >= 8 /\ (x - 4) % 4 = 0
      BY <3>2, <3>3, <3>4
    <3>6. end - c = x - 4
      BY <2>5, <2>6, <3>1
    <3> QED BY <2>5, <2>6, <3>1, <3>5, <3>6
  <2>8. c \in G
    <3>1. c \notin B
      BY <2>3, <2>4, <2>5, <2>6
    <3> QED BY <2>1, <2>7, <3>1
  <2>9. c \notin 2..4 /\ c - 4 = b
    BY <2>5, <2>6
  <2> QED BY <1>1, <2>5, <2>8, <2>9, Zenon
<1> QED BY <1>2, <1>3, <1>4 DEF EveryFourth

-----------------------------------------------------------------------------
(* The decimal mark the code takes, and the conventions it is the mark of. *)

MinorAt(a, end, exponent) == Minor(SubSeq(a, 1, end - 1), SubSeq(a, end + 1, Len(a)), exponent)
MarkedBy(a, d) == {i \in MarksIn(a) : a[i] = d}
EndFor(a, d) == IF MarkedBy(a, d) = {} THEN Len(a) + 1 ELSE Min(MarkedBy(a, d))

(* What to_minor_units settled on: a decimal mark or none, the groups before it, and where the units end. *)
Settled(a, exponent, decimal, groups, end) ==
  /\ decimal = DecimalMark(a) /\ groups = MarksIn(a) \ decimal
  /\ end = (IF decimal = {} THEN Len(a) + 1 ELSE CHOOSE i \in decimal : TRUE)
  /\ groups = {} \/ WellGrouped(a, groups, end)
  /\ Len(SubSeq(a, end + 1, Len(a))) <= exponent

LEMMA ConvertedIs ==
  ASSUME NEW amount, NEW exponent, NEW m \in to_minor_units(amount, exponent), NEW a, a = Drop(amount, Grouping)
  PROVE  \E decimal, groups, end :
           /\ Settled(a, exponent, decimal, groups, end)
           /\ m.minor = MinorAt(a, end, exponent)
           /\ m.inferred <=> decimal = {} /\ Cardinality(groups) = 1
<1>1. PICK decimal : decimal = DecimalMark(a)
  OBVIOUS
<1>2. PICK groups : groups = MarksIn(a) \ decimal
  OBVIOUS
<1>3. PICK end : end = IF decimal = {} THEN Len(a) + 1 ELSE CHOOSE i \in decimal : TRUE
  OBVIOUS
<1>4. PICK fraction : fraction = SubSeq(a, end + 1, Len(a))
  OBVIOUS
<1>5. m \in IF /\ OpensWell(a)
               /\ groups = {} \/ WellGrouped(a, groups, end)
               /\ Cardinality({i \in 1..(end - 1) : a[i] \in Digits}) <= 24
               /\ Len(fraction) <= exponent
              THEN {[minor |-> Minor(SubSeq(a, 1, end - 1), fraction, exponent),
                     inferred |-> decimal = {} /\ Cardinality(groups) = 1]}
              ELSE {}
  BY <1>1, <1>2, <1>3, <1>4 DEF to_minor_units
<1>6. PICK x : x = Minor(SubSeq(a, 1, end - 1), fraction, exponent)
  OBVIOUS
<1>7. PICK y : y = (decimal = {} /\ Cardinality(groups) = 1)
  OBVIOUS
<1>8. groups = {} \/ WellGrouped(a, groups, end)
  BY <1>5, Zenon
<1>9. Len(fraction) <= exponent
  BY <1>5, Zenon
<1>10. m = [minor |-> x, inferred |-> y]
  BY <1>5, <1>6, <1>7, Zenon
<1>11. m.minor = x /\ m.inferred = y
  BY <1>10
<1>12. Settled(a, exponent, decimal, groups, end)
  BY <1>1, <1>2, <1>3, <1>4, <1>8, <1>9, Zenon DEF Settled
<1>13. m.minor = MinorAt(a, end, exponent)
  BY <1>4, <1>6, <1>11, Zenon DEF MinorAt
<1>14. m.inferred <=> decimal = {} /\ Cardinality(groups) = 1
  BY <1>7, <1>11, Zenon
<1> QED BY <1>12, <1>13, <1>14, Zenon

LEMMA MarksInAre ==
  ASSUME NEW S, NEW a \in Seq(S)
  PROVE  Len(a) \in Nat /\ MarksIn(a) \in SUBSET (1..Len(a)) /\ \A i \in 1..Len(a) : i \in MarksIn(a) <=> a[i] \in Marks
<1>1. Len(a) \in Nat /\ DOMAIN a = 1..Len(a)
  OBVIOUS
<1> QED BY <1>1 DEF MarksIn

(* The last separator is a group or the decimal mark. *)
LastMark(a, last) ==
  /\ last \in MarksIn(a) /\ \A j \in MarksIn(a) : j <= last
  /\ IsGroup(a, last) => DecimalMark(a) = {}
  /\ ~ IsGroup(a, last) => DecimalMark(a) = {last}

LEMMA LastMarkIs ==
  ASSUME NEW S, NEW a \in Seq(S), MarksIn(a) # {}
  PROVE  \E last : LastMark(a, last)
<1>1. Len(a) \in Nat /\ MarksIn(a) \in SUBSET (1..Len(a))
  BY MarksInAre
<1>2. PICK M : M = MarksIn(a)
  OBVIOUS
<1>3. M \in SUBSET (1..Len(a)) /\ M # {}
  BY <1>1, <1>2
<1>4. Max(M) \in M /\ \A y \in M : Max(M) >= y
  BY <1>1, <1>3, MaxIsGreatest, Zenon
<1>5. PICK last : last = Max(M)
  OBVIOUS
<1>6. last \in M /\ \A j \in M : j <= last
  BY <1>1, <1>3, <1>4, <1>5
<1>7. \A i \in M : (\A j \in M : j <= i) => i = last
  <2> TAKE i \in M
  <2>1. i \in Nat /\ last \in Nat /\ i <= last
    BY <1>3, <1>6
  <2> QED BY <1>6, <2>1
<1>8. DecimalMark(a) = {i \in M : (\A j \in M : j <= i) /\ ~ IsGroup(a, i)}
  BY <1>2 DEF DecimalMark
<1>9. IsGroup(a, last) => DecimalMark(a) = {}
  BY <1>7, <1>8, Zenon
<1>10. ~ IsGroup(a, last) => DecimalMark(a) = {last}
  BY <1>6, <1>7, <1>8, Zenon
<1> QED BY <1>2, <1>6, <1>9, <1>10, Zenon DEF LastMark

LEMMA OtherMark ==
  /\ \A d \in Marks : \E g \in Marks \ {d} : \A x \in Marks : x # d => x = g
  /\ \A d \in Marks : \A g \in Marks \ {d} : \A x \in Marks : x = d \/ x = g
BY DEF Marks, Dot, Comma

LEMMA EndForIs ==
  ASSUME NEW S, NEW a \in Seq(S), NEW d \in Marks
  PROVE  (IF d \in ToSet(a) THEN SelectInSeq(a, LAMBDA v : v = d) ELSE Len(a) + 1) = EndFor(a, d)
<1>1. Len(a) \in Nat /\ DOMAIN a = 1..Len(a)
  OBVIOUS
<1>2. PICK Places : Places = {i \in 1..Len(a) : a[i] = d}
  OBVIOUS
<1>3. MarkedBy(a, d) = Places
  BY <1>1, <1>2 DEF MarkedBy, MarksIn
<1>4. d \in ToSet(a) <=> Places # {}
  BY <1>1, <1>2 DEF ToSet
<1>5. SelectInSeq(a, LAMBDA v : v = d) = IF Places # {} THEN Min(Places) ELSE 0
  BY <1>2 DEF SelectInSeq
<1>6. CASE Places = {}
  BY <1>3, <1>4, <1>6, Zenon DEF EndFor
<1>7. CASE Places # {}
  BY <1>3, <1>4, <1>5, <1>7, Zenon DEF EndFor
<1> QED BY <1>6, <1>7

LEMMA FractionFits ==
  ASSUME NEW S, NEW a \in Seq(S), NEW end \in 1..(Len(a) + 1), NEW exponent \in Nat,
         Len(SubSeq(a, end + 1, Len(a))) <= exponent
  PROVE  Len(a) - end <= exponent
<1>1. Len(a) \in Nat /\ end \in Nat
  OBVIOUS
<1>2. \A i \in (end + 1)..Len(a) : a[i] \in S
  BY <1>1
<1>3. Len(SubSeq(a, end + 1, Len(a))) = IF end + 1 <= Len(a) THEN Len(a) - (end + 1) + 1 ELSE 0
  BY <1>1, <1>2, SubSeqProperties
<1>4. CASE end + 1 <= Len(a)
  BY <1>1, <1>3, <1>4
<1>5. CASE ~ (end + 1 <= Len(a))
  BY <1>1, <1>5
<1> QED BY <1>4, <1>5

Convention(a, g, d, own, G, end, exponent) ==
  /\ own = MarkedBy(a, d) /\ G = MarksIn(a) \ own /\ end = EndFor(a, d)
  /\ Cardinality(own) <= 1
  /\ \A i \in G : a[i] = g /\ i < end
  /\ G # {} => EveryFourth(end) = G
  /\ Len(a) - end <= exponent

LEMMA WrittenWithIs ==
  ASSUME NEW a, NEW g, NEW d, NEW exponent
  PROVE  IsWrittenWith(a, g, d, exponent) <=> \E own, G, end : Convention(a, g, d, own, G, end, exponent)
<1>1. PICK own : own = MarkedBy(a, d)
  OBVIOUS
<1>2. PICK G : G = MarksIn(a) \ own
  OBVIOUS
<1>3. PICK end : end = EndFor(a, d)
  OBVIOUS
<1>4. own = {i \in MarksIn(a) : a[i] = d}
  BY <1>1 DEF MarkedBy
<1>5. end = IF own = {} THEN Len(a) + 1 ELSE Min(own)
  BY <1>1, <1>3, Zenon DEF EndFor
<1>6. IsWrittenWith(a, g, d, exponent) <=>
        /\ Cardinality(own) <= 1
        /\ \A i \in G : a[i] = g /\ i < end
        /\ G # {} => EveryFourth(end) = G
        /\ Len(a) - end <= exponent
  BY <1>2, <1>4, <1>5, Zenon DEF IsWrittenWith, EveryFourth
<1> QED BY <1>1, <1>2, <1>3, <1>6, Zenon DEF Convention

(* The three ways to_minor_units settles: the last separator is the decimal mark, or there is none at all,
   or all are groups. *)
Fractional(a, last, groups, exponent) ==
  /\ last \in 1..Len(a) /\ last \in MarksIn(a) /\ (\A j \in MarksIn(a) : j <= last) /\ ~ IsGroup(a, last)
  /\ groups = MarksIn(a) \ {last}
  /\ groups # {} => EveryFourth(last) = groups /\ \E g \in Marks : g # a[last] /\ \A i \in groups : a[i] = g
  /\ Len(a) - last <= exponent
Grouped(a) ==
  /\ MarksIn(a) # {} /\ EveryFourth(Len(a) + 1) = MarksIn(a)
  /\ \E c \in Marks : \A i \in MarksIn(a) : a[i] = c

LEMMA WellGroupedEnds ==
  ASSUME NEW S, NEW a \in Seq(S), NEW G \in SUBSET (1..Len(a)), NEW end \in 1..(Len(a) + 1),
         \A i \in G : i < end, WellGrouped(a, G, end)
  PROVE  /\ EveryFourth(end) = G /\ end - 4 \in G
         /\ \A i \in G : a[i] = a[end - 4]
         /\ end <= Len(a) => a[end] # a[end - 4]
<1>1. Len(a) \in Nat
  OBVIOUS
<1>2. end - 4 \in G /\ (\A i, j \in G : a[i] = a[j]) /\ (end <= Len(a) => a[end] # a[end - 4])
  BY Zenon DEF WellGrouped
<1>3. FourApart(G)
  BY <1>1, WellGroupedIs, Zenon
<1>4. EveryFourth(end) = G
  BY <1>1, <1>2, <1>3, GroupsAreEveryFourth
<1> QED BY <1>2, <1>4, Zenon

LEMMA SettledWays ==
  ASSUME NEW S, NEW a \in Seq(S), NEW exponent \in Nat, NEW decimal, NEW groups, NEW end,
         Settled(a, exponent, decimal, groups, end)
  PROVE  \/ decimal = {end} /\ Fractional(a, end, groups, exponent)
         \/ decimal = {} /\ groups = {} /\ MarksIn(a) = {} /\ end = Len(a) + 1
         \/ decimal = {} /\ groups = MarksIn(a) /\ Grouped(a) /\ end = Len(a) + 1
<1>1. Len(a) \in Nat /\ MarksIn(a) \in SUBSET (1..Len(a)) /\ \A i \in 1..Len(a) : i \in MarksIn(a) <=> a[i] \in Marks
  BY MarksInAre
<1>2. /\ decimal = DecimalMark(a) /\ groups = MarksIn(a) \ decimal
      /\ end = (IF decimal = {} THEN Len(a) + 1 ELSE CHOOSE i \in decimal : TRUE)
      /\ groups = {} \/ WellGrouped(a, groups, end)
      /\ Len(SubSeq(a, end + 1, Len(a))) <= exponent
  BY Zenon DEF Settled
<1>3. CASE MarksIn(a) = {}
  <2>1. decimal = {}
    BY <1>2, <1>3 DEF DecimalMark
  <2> QED BY <1>2, <1>3, <2>1
<1>4. CASE MarksIn(a) # {}
  <2>1. PICK last : LastMark(a, last)
    BY <1>4, LastMarkIs
  <2>2. last \in MarksIn(a) /\ (\A j \in MarksIn(a) : j <= last) /\ last \in 1..Len(a)
    BY <1>1, <2>1 DEF LastMark
  <2>3. CASE IsGroup(a, last)
    <3>1. decimal = {}
      BY <1>2, <2>1, <2>3, Zenon DEF LastMark
    <3>2. groups = MarksIn(a) /\ end = Len(a) + 1
      BY <1>2, <3>1
    <3>3. WellGrouped(a, groups, end)
      BY <1>2, <1>4, <3>2
    <3>4. groups \in SUBSET (1..Len(a)) /\ end \in 1..(Len(a) + 1) /\ \A i \in groups : i < end
      BY <1>1, <3>2
    <3>5. EveryFourth(end) = groups /\ end - 4 \in groups /\ \A i \in groups : a[i] = a[end - 4]
      BY <3>3, <3>4, WellGroupedEnds
    <3>6. a[end - 4] \in Marks
      BY <1>1, <3>2, <3>5
    <3>7. Grouped(a)
      BY <1>4, <3>2, <3>5, <3>6, Zenon DEF Grouped
    <3> QED BY <3>1, <3>2, <3>7
  <2>4. CASE ~ IsGroup(a, last)
    <3>1. decimal = {last}
      BY <1>2, <2>1, <2>4, Zenon DEF LastMark
    <3>2. end = last
      BY <1>2, <3>1
    <3>3. groups = MarksIn(a) \ {last}
      BY <1>2, <3>1
    <3>4. groups \in SUBSET (1..Len(a)) /\ last \in 1..(Len(a) + 1) /\ \A i \in groups : i < last
      BY <1>1, <2>2, <3>3
    <3>5. Len(a) - last <= exponent
      BY <1>2, <3>2, <3>4, FractionFits
    <3>6. ASSUME groups # {} PROVE EveryFourth(last) = groups /\ \E g \in Marks : g # a[last] /\ \A i \in groups : a[i] = g
      <4>1. WellGrouped(a, groups, last)
        BY <1>2, <3>2, <3>6
      <4>2. /\ EveryFourth(last) = groups /\ last - 4 \in groups /\ (\A i \in groups : a[i] = a[last - 4])
            /\ last <= Len(a) => a[last] # a[last - 4]
        BY <3>4, <4>1, WellGroupedEnds
      <4>3. a[last - 4] \in Marks
        BY <1>1, <3>3, <4>2
      <4>4. last <= Len(a)
        BY <1>1, <2>2
      <4> QED BY <4>2, <4>3, <4>4, Zenon
    <3>7. Fractional(a, last, groups, exponent)
      BY <2>2, <2>4, <3>3, <3>5, <3>6, Zenon DEF Fractional
    <3> QED BY <3>1, <3>2, <3>7
  <2> QED BY <2>3, <2>4
<1> QED BY <1>3, <1>4

LEMMA ConventionOfNone ==
  ASSUME NEW a, MarksIn(a) = {}, NEW d
  PROVE  MarkedBy(a, d) = {} /\ EndFor(a, d) = Len(a) + 1
BY DEF MarkedBy, EndFor

LEMMA OneOrNone ==
  ASSUME NEW n \in Nat, NEW Places \in SUBSET (1..n), Cardinality(Places) <= 1
  PROVE  \A x, y \in Places : x = y
<1> SUFFICES ASSUME NEW x \in Places, NEW y \in Places, x # y PROVE FALSE
  OBVIOUS
<1>1. IsFiniteSet(1..n)
  BY FS_Interval
<1>2. IsFiniteSet(Places)
  BY <1>1, FS_Subset
<1>3. {x, y} \subseteq Places /\ Cardinality({x, y}) = 2
  <2>1. Cardinality({x}) = 1 /\ IsFiniteSet({x})
    BY FS_Singleton
  <2>2. Cardinality({x} \union {y}) = Cardinality({x}) + 1
    BY <2>1, FS_AddElement
  <2>3. {x} \union {y} = {x, y}
    OBVIOUS
  <2> QED BY <2>1, <2>2, <2>3
<1>4. Cardinality({x, y}) <= Cardinality(Places)
  BY <1>2, <1>3, FS_Subset
<1>5. Cardinality(Places) \in Nat
  BY <1>2, FS_CardinalityType
<1> QED BY <1>3, <1>4, <1>5

LEMMA OneIsOne ==
  ASSUME NEW x
  PROVE  Cardinality({x}) = 1 /\ Cardinality({}) = 0
BY FS_Singleton, FS_EmptySet

LEMMA FractionalEnd ==
  ASSUME NEW S, NEW a \in Seq(S), NEW last, NEW groups, NEW exponent, Fractional(a, last, groups, exponent),
         NEW d, a[last] = d, Cardinality(MarkedBy(a, d)) <= 1
  PROVE  MarkedBy(a, d) = {last} /\ EndFor(a, d) = last
<1>1. Len(a) \in Nat /\ MarksIn(a) \in SUBSET (1..Len(a))
  BY MarksInAre
<1>2. PICK own : own = MarkedBy(a, d)
  OBVIOUS
<1>3. own \in SUBSET (1..Len(a)) /\ last \in own /\ last \in Nat
  BY <1>1, <1>2 DEF MarkedBy, Fractional
<1>4. \A x, y \in own : x = y
  BY <1>1, <1>2, <1>3, OneOrNone
<1>5. own = {last}
  BY <1>3, <1>4
<1>6. Min(own) \in own
  BY <1>3, LeastOf
<1> QED BY <1>2, <1>5, <1>6, Zenon DEF EndFor

(* What the code settles on is a convention of the amount. *)
LEMMA SettledIsAConvention ==
  ASSUME NEW S, NEW a \in Seq(S), NEW exponent \in Nat, NEW decimal, NEW groups, NEW end,
         Settled(a, exponent, decimal, groups, end)
  PROVE  \E d \in Marks : EndFor(a, d) = end /\ \E g \in Marks \ {d} : IsWrittenWith(a, g, d, exponent)
<1>1. Len(a) \in Nat /\ MarksIn(a) \in SUBSET (1..Len(a)) /\ \A i \in 1..Len(a) : i \in MarksIn(a) <=> a[i] \in Marks
  BY MarksInAre
<1>2. \A x : Cardinality({x}) <= 1 /\ Cardinality({}) <= 1
  BY OneIsOne
<1>3. \A x \in Marks : \E y \in Marks : x # y
  BY OtherMark
<1>4. CASE Fractional(a, end, groups, exponent)
  <2>1. PICK d : d = a[end]
    OBVIOUS
  <2>2. d \in Marks /\ end \in MarksIn(a) /\ groups = MarksIn(a) \ {end} /\ Len(a) - end <= exponent
        /\ \A j \in MarksIn(a) : j <= end
    BY <1>1, <1>4, <2>1 DEF Fractional
  <2>3. \E g \in Marks \ {d} : \A i \in groups : a[i] = g
    <3>1. CASE groups = {}
      BY <1>3, <2>2, <3>1
    <3>2. CASE groups # {}
      BY <1>4, <2>1, <3>2 DEF Fractional
    <3> QED BY <3>1, <3>2
  <2>4. PICK g \in Marks \ {d} : \A i \in groups : a[i] = g
    BY <2>3
  <2>5. MarkedBy(a, d) = {end}
    <3>1. \A i \in MarksIn(a) : a[i] = d <=> i = end
      BY <2>1, <2>2, <2>4
    <3> QED BY <2>2, <3>1 DEF MarkedBy
  <2>6. Cardinality(MarkedBy(a, d)) <= 1
    BY <1>2, <2>5
  <2>7. EndFor(a, d) = end
    BY <1>4, <2>1, <2>6, FractionalEnd
  <2>8. \A i \in groups : a[i] = g /\ i < end
    BY <1>1, <2>2, <2>4
  <2>9. groups # {} => EveryFourth(end) = groups
    BY <1>4, Zenon DEF Fractional
  <2>10. Convention(a, g, d, {end}, groups, end, exponent)
    BY <2>2, <2>5, <2>6, <2>7, <2>8, <2>9, Zenon DEF Convention
  <2> QED BY <2>2, <2>4, <2>7, <2>10, WrittenWithIs, Zenon
<1>5. CASE MarksIn(a) = {} /\ end = Len(a) + 1
  <2>1. Dot \in Marks
    BY DEF Marks
  <2>2. PICK g \in Marks \ {Dot} : TRUE
    BY <1>3, <2>1
  <2>3. MarkedBy(a, Dot) = {} /\ EndFor(a, Dot) = end
    BY <1>5, ConventionOfNone
  <2>4. Len(a) - end <= exponent
    BY <1>1, <1>5
  <2>5. {} = MarksIn(a) \ {}
    BY <1>5
  <2>6. Convention(a, g, Dot, {}, {}, end, exponent)
    BY <1>2, <2>3, <2>4, <2>5, Zenon DEF Convention
  <2> QED BY <2>1, <2>2, <2>3, <2>6, WrittenWithIs, Zenon
<1>6. CASE Grouped(a) /\ end = Len(a) + 1
  <2>1. PICK c \in Marks : \A i \in MarksIn(a) : a[i] = c
    BY <1>6, Zenon DEF Grouped
  <2>2. PICK d \in Marks : c # d
    BY <1>3, <2>1
  <2>3. MarkedBy(a, d) = {}
    BY <2>1, <2>2 DEF MarkedBy
  <2>4. EndFor(a, d) = end
    BY <1>6, <2>3 DEF EndFor
  <2>5. Len(a) - end <= exponent /\ \A i \in MarksIn(a) : i < end
    BY <1>1, <1>6
  <2>6. MarksIn(a) = MarksIn(a) \ {}
    OBVIOUS
  <2>7. EveryFourth(end) = MarksIn(a)
    BY <1>6, Zenon DEF Grouped
  <2>8. Convention(a, c, d, {}, MarksIn(a), end, exponent)
    BY <1>2, <2>1, <2>3, <2>4, <2>5, <2>6, <2>7, Zenon DEF Convention
  <2>9. c \in Marks \ {d}
    BY <2>1, <2>2
  <2> QED BY <2>2, <2>4, <2>8, <2>9, WrittenWithIs, Zenon
<1> QED BY <1>4, <1>5, <1>6, SettledWays, Zenon

(* Where it does not call its separator inferred, every convention of the amount has its mark there. *)
LEMMA NoOtherConvention ==
  ASSUME NEW S, NEW a \in Seq(S), NEW exponent \in Nat, NEW decimal, NEW groups, NEW end,
         Settled(a, exponent, decimal, groups, end), ~ (decimal = {} /\ Cardinality(groups) = 1),
         NEW d \in Marks, NEW g \in Marks \ {d}, IsWrittenWith(a, g, d, exponent)
  PROVE  EndFor(a, d) = end
<1>1. Len(a) \in Nat /\ MarksIn(a) \in SUBSET (1..Len(a)) /\ \A i \in 1..Len(a) : i \in MarksIn(a) <=> a[i] \in Marks
  BY MarksInAre
<1>2. PICK own, G, e : Convention(a, g, d, own, G, e, exponent)
  BY WrittenWithIs, Zenon
<1>3. /\ own = MarkedBy(a, d) /\ G = MarksIn(a) \ own /\ e = EndFor(a, d)
      /\ Cardinality(own) <= 1 /\ (\A i \in G : a[i] = g /\ i < e) /\ (G # {} => EveryFourth(e) = G)
  BY <1>2, Zenon DEF Convention
<1>4. CASE Fractional(a, end, groups, exponent)
  <2>1. /\ end \in 1..Len(a) /\ end \in MarksIn(a) /\ (\A j \in MarksIn(a) : j <= end) /\ ~ IsGroup(a, end)
    BY <1>4, Zenon DEF Fractional
  <2>2. CASE a[end] = d
    BY <1>3, <1>4, <2>2, FractionalEnd
  <2>3. CASE a[end] # d
    <3>1. end \in G /\ end < e
      BY <1>3, <2>1, <2>3 DEF MarkedBy
    <3>2. own = {}
      <4> SUFFICES ASSUME own # {} PROVE FALSE
        OBVIOUS
      <4>1. own \in SUBSET Nat /\ own \subseteq MarksIn(a)
        BY <1>1, <1>3 DEF MarkedBy
      <4>2. e = Min(own)
        BY <1>3, Zenon DEF EndFor
      <4>3. e \in own
        BY <4>1, <4>2, LeastOf
      <4> QED BY <1>1, <2>1, <3>1, <4>1, <4>3
    <3>3. e = Len(a) + 1 /\ G = MarksIn(a)
      BY <1>3, <3>2, Zenon DEF EndFor
    <3>4. EveryFourth(e) = MarksIn(a) /\ \A i \in MarksIn(a) : a[i] = g
      BY <1>3, <3>1, <3>3, Zenon
    <3>5. end \in 2..(e - 1) /\ (e - end) % 4 = 0
      BY <2>1, <3>4 DEF EveryFourth
    <3>6. ASSUME end < Len(a) - 3 PROVE FALSE
      <4>1. Len(a) - 3 \in 2..(e - 1) /\ (e - (Len(a) - 3)) % 4 = 0
        BY <1>1, <2>1, <3>3, <3>5, <3>6
      <4>2. Len(a) - 3 \in MarksIn(a)
        BY <3>4, <4>1 DEF EveryFourth
      <4> QED BY <1>1, <2>1, <3>6, <4>2
    <3>7. Len(a) - end = 3
      <4>1. PICK x : x = e - end
        OBVIOUS
      <4>2. x \in Nat /\ x >= 1 /\ x % 4 = 0
        BY <1>1, <2>1, <3>3, <3>5, <4>1
      <4>3. x <= 4
        BY <1>1, <2>1, <3>3, <3>6, <4>1
      <4>4. x = 4
        BY <4>2, <4>3
      <4> QED BY <1>1, <2>1, <3>3, <4>1, <4>4
    <3>8. \A j \in Previous(end, MarksIn(a)) : a[j] = a[end]
      BY <2>1, <3>4, Zenon DEF Previous
    <3> QED BY <2>1, <3>7, <3>8, Zenon DEF IsGroup
  <2> QED BY <2>2, <2>3
<1>5. CASE MarksIn(a) = {} /\ end = Len(a) + 1
  BY <1>5, ConventionOfNone
<1>6. CASE decimal = {} /\ groups = MarksIn(a) /\ Grouped(a) /\ end = Len(a) + 1
  <2>1. PICK c \in Marks : \A i \in MarksIn(a) : a[i] = c
    BY <1>6, Zenon DEF Grouped
  <2>2. CASE c = d
    <3>1. own = MarksIn(a) /\ own # {}
      BY <1>3, <1>6, <2>1, <2>2 DEF MarkedBy, Grouped
    <3>2. PICK x : x \in own
      BY <3>1
    <3>3. \A x1, y1 \in own : x1 = y1
      BY <1>1, <1>3, <3>1, OneOrNone
    <3>4. own = {x}
      BY <3>2, <3>3
    <3>5. Cardinality(own) = 1
      BY <3>4, OneIsOne
    <3> QED BY <1>6, <3>1, <3>5
  <2>3. CASE c # d
    <3>1. own = {}
      BY <1>3, <2>1, <2>3 DEF MarkedBy
    <3> QED BY <1>3, <1>6, <3>1, Zenon DEF EndFor
  <2> QED BY <2>2, <2>3
<1> QED BY <1>4, <1>5, <1>6, SettledWays, Zenon

MarksOfConventions(a, exponent) == {d \in Marks : \E g \in Marks \ {d} : IsWrittenWith(a, g, d, exponent)}

LEMMA InterpretationsAre ==
  ASSUME NEW S, NEW a \in Seq(S), NEW exponent
  PROVE  Interpretations(a, exponent) = {MinorAt(a, EndFor(a, d), exponent) : d \in MarksOfConventions(a, exponent)}
<1> DEFINE EndOf(d) == IF d \in ToSet(a) THEN SelectInSeq(a, LAMBDA v : v = d) ELSE Len(a) + 1
<1>1. \A d \in Marks : EndOf(d) = EndFor(a, d)
  BY EndForIs
<1>2. Interpretations(a, exponent) =
        {MinorAt(a, EndOf(d), exponent) : d \in MarksOfConventions(a, exponent)}
  BY DEF Interpretations, MinorAt, MarksOfConventions
<1>3. \A d \in MarksOfConventions(a, exponent) : d \in Marks
  BY DEF MarksOfConventions
<1> HIDE DEF EndOf
<1> QED BY <1>1, <1>2, <1>3

(* The number read is one of the conventions', and the only one unless it is flagged. *)
LEMMA CertainOrInferred ==
  ASSUME NEW S, NEW a \in Seq(S), NEW exponent \in Nat, NEW decimal, NEW groups, NEW end,
         Settled(a, exponent, decimal, groups, end)
  PROVE  /\ MinorAt(a, end, exponent) \in Interpretations(a, exponent)
         /\ ~ (decimal = {} /\ Cardinality(groups) = 1) => Interpretations(a, exponent) = {MinorAt(a, end, exponent)}
<1>1. PICK I : I = Interpretations(a, exponent)
  OBVIOUS
<1>2. PICK marks : marks = MarksOfConventions(a, exponent)
  OBVIOUS
<1>3. I = {MinorAt(a, EndFor(a, d), exponent) : d \in marks}
  <2>1. Interpretations(a, exponent) = {MinorAt(a, EndFor(a, d), exponent) : d \in MarksOfConventions(a, exponent)}
    BY InterpretationsAre
  <2> QED BY <1>1, <1>2, <2>1
<1>4. \E d \in marks : EndFor(a, d) = end
  <2>1. PICK d \in Marks : EndFor(a, d) = end /\ \E g \in Marks \ {d} : IsWrittenWith(a, g, d, exponent)
    BY SettledIsAConvention
  <2>2. d \in marks
    BY <1>2, <2>1 DEF MarksOfConventions
  <2> QED BY <2>1, <2>2
<1>5. MinorAt(a, end, exponent) \in I
  BY <1>3, <1>4, Zenon
<1>6. ASSUME ~ (decimal = {} /\ Cardinality(groups) = 1) PROVE \A d \in marks : EndFor(a, d) = end
  <2> SUFFICES ASSUME NEW d \in marks PROVE EndFor(a, d) = end
    OBVIOUS
  <2>1. d \in Marks
    BY <1>2 DEF MarksOfConventions
  <2>2. PICK g \in Marks \ {d} : IsWrittenWith(a, g, d, exponent)
    BY <1>2 DEF MarksOfConventions
  <2> QED BY <1>6, <2>1, <2>2, NoOtherConvention, Zenon
<1>7. ASSUME ~ (decimal = {} /\ Cardinality(groups) = 1) PROVE I = {MinorAt(a, end, exponent)}
  <2>1. \A x \in I : x = MinorAt(a, end, exponent)
    BY <1>3, <1>6, <1>7, Zenon
  <2> QED BY <1>5, <2>1, Zenon
<1> QED BY <1>1, <1>5, <1>7, Zenon

(***************************************************************************)
(* The minor units of every entity are those of a convention its amount    *)
(* can be written in; where another convention gives another number, the   *)
(* entity says that its separator was inferred (money.rs 385), for every   *)
(* text and every table of currencies.                                     *)
(***************************************************************************)
THEOREM AmountsAreCertainOrFlagged == Spec => []CertainOrFlagged
<1>1. MoneyInv => CertainOrFlagged
  <2> SUFFICES ASSUME MoneyInv, IsMoney, NEW f \in found
               PROVE  /\ f.key.minor \in Interpretations(AmountOf(f), Exponents[f.key.code])
                      /\ ~ f.key.inferred => Interpretations(AmountOf(f), Exponents[f.key.code]) = {f.key.minor}
    BY Zenon DEF CertainOrFlagged
  <2>1. text \in Seq(Nat) /\ MoneyVerdict(text, f)
    BY DEF MoneyInv, Judged
  <2>2. PICK k \in Nat, h \in Nat : Reading(text, f, k, h)
    BY <2>1, Zenon DEF MoneyVerdict
  <2>3. PICK exponent : exponent = Exponents[f.key.code]
    OBVIOUS
  <2>4. exponent \in Nat
    BY <2>2, <2>3, ReadingsAssumption, Zenon DEF Reading
  <2>5. PICK amount : amount = TextOf(text, k, h)
    OBVIOUS
  <2>6. amount \in Seq(Nat)
    <3>1. f.end \in Nat /\ f.end <= Len(text) /\ h <= f.end /\ k < h
      BY <2>2, Zenon DEF Reading, Price
    <3>2. Len(text) \in Nat
      BY <2>1
    <3>3. Fits(text, k, h)
      BY <3>1, <3>2 DEF Fits
    <3>4. IsPart(amount, Nat, text, k, h)
      BY <2>1, <2>5, <3>3, TextOfIs, Zenon
    <3> QED BY <3>4, Zenon DEF IsPart
  <2>7. PICK a : a = Drop(amount, Grouping)
    OBVIOUS
  <2>8. a \in Seq(Nat)
    BY <2>6, <2>7, DropIsASequence, Zenon
  <2>9. PICK m \in to_minor_units(amount, exponent) : f.key.minor = m.minor /\ f.key.inferred = m.inferred
    BY <2>2, <2>3, <2>5, Zenon DEF Reading
  <2>10. PICK decimal, groups, end :
           /\ Settled(a, exponent, decimal, groups, end)
           /\ m.minor = MinorAt(a, end, exponent)
           /\ m.inferred <=> decimal = {} /\ Cardinality(groups) = 1
    BY <2>7, ConvertedIs
  <2>11. /\ MinorAt(a, end, exponent) \in Interpretations(a, exponent)
         /\ ~ (decimal = {} /\ Cardinality(groups) = 1) => Interpretations(a, exponent) = {MinorAt(a, end, exponent)}
    BY <2>4, <2>8, <2>10, CertainOrInferred, Zenon
  <2>12. AmountOf(f) = a
    BY <2>1, <2>2, <2>5, <2>7, AmountOfIs, Zenon
  <2> QED BY <2>3, <2>9, <2>10, <2>11, <2>12, Zenon
<1> QED BY <1>1, MoneyInvariant, PTL

=============================================================================

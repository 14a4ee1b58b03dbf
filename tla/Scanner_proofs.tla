---------------------------- MODULE Scanner_proofs ----------------------------
(***************************************************************************)
(* Proofs about the work list of ScanLoop, and then about a whole call of  *)
(* Scanner::scan: what the drained loop guarantees together with what      *)
(* resolution keeps, for every fragment, every set of rules, every budget  *)
(* and every ladder of strengths.                                          *)
(***************************************************************************)
EXTENDS Scanner, TLAPS, SequenceTheorems, FiniteSetTheorems, WellFoundedInduction

-----------------------------------------------------------------------------
(* Facts about one search: what it returns, and where. *)

LEMMA LeftmostIsAMatch ==
  ASSUME NEW pat, NEW from \in Nat, NEW limit \in Nat, NEW s \in Leftmost(pat, from, limit)
  PROVE  /\ s \in Spans /\ from <= s.start /\ s.end <= limit
         /\ ~ pat.anchored \/ limit = Size => Covers(pat, s)
BY FragmentAssumption DEF Leftmost, Preferred, Fits, Covers, Spans, Offsets

LEMMA FindFromIsAMatch ==
  ASSUME NEW pat, NEW at \in Nat, NEW m \in FindFrom(pat, at)
  PROVE  m \in Spans /\ at <= m.start /\ Covers(pat, m)
BY LeftmostIsAMatch, FragmentAssumption DEF FindFrom

(* A match in a slice, shifted back, has its place in the fragment. *)
LEMMA FindInIsAMatch ==
  ASSUME NEW pat, NEW origin \in Offsets, NEW limit \in Offsets, NEW at \in Offsets,
         NEW m \in FindIn(pat, origin, limit, at)
  PROVE  /\ Rebased(m, origin) \in Leftmost(pat, origin + at, limit)
         /\ Rebased(m, origin) \in Spans
         /\ origin + at <= Rebased(m, origin).start
         /\ Rebased(m, origin).end <= limit
         /\ m.end = Rebased(m, origin).end - origin
         /\ m.end \in Offsets
<1>1. PICK s \in Leftmost(pat, origin + at, limit) : m = [start |-> s.start - origin, end |-> s.end - origin]
  BY DEF FindIn
<1>2. origin + at \in Nat /\ limit \in Nat
  BY FragmentAssumption DEF Offsets
<1>3. s \in Spans /\ origin + at <= s.start /\ s.end <= limit
  BY <1>1, <1>2, LeftmostIsAMatch
<1>4. s = [start |-> s.start, end |-> s.end] /\ s.start \in Offsets /\ s.end \in Offsets /\ s.start < s.end
  BY <1>3 DEF Spans
<1>5. Rebased(m, origin) = s
  BY <1>1, <1>4, FragmentAssumption DEF Rebased, Offsets
<1> QED BY <1>1, <1>3, <1>4, <1>5, FragmentAssumption DEF Offsets

(* It is a match in the fragment, too, when the pattern does not look at the end of the slice. *)
LEMMA FindInCovers ==
  ASSUME NEW pat, ~ pat.anchored,
         NEW origin \in Offsets, NEW limit \in Offsets, NEW at \in Offsets,
         NEW m \in FindIn(pat, origin, limit, at)
  PROVE  Covers(pat, Rebased(m, origin))
<1>1. Rebased(m, origin) \in Leftmost(pat, origin + at, limit)
  BY FindInIsAMatch
<1>2. origin + at \in Nat /\ limit \in Nat
  BY FragmentAssumption DEF Offsets
<1> QED BY <1>1, <1>2, LeftmostIsAMatch

NatLess == {p \in Nat \X Nat : p[1] < p[2]}

LEMMA NatLessIsWellFounded == IsWellFoundedOn(NatLess, Nat)
BY NatLessThanWellFounded DEF OpToRel, NatLess

LEMMA LeastNatural ==
  ASSUME NEW S \in SUBSET Nat, S # {}
  PROVE  \E n \in S : \A k \in S : n <= k
<1>1. PICK n \in S : \A k \in S : <<k, n>> \notin NatLess
  BY WFMin, NatLessIsWellFounded
<1>2. ASSUME NEW k \in S PROVE n <= k
  <2>1. k \in Nat /\ n \in Nat
    OBVIOUS
  <2>2. k < n => <<k, n>> \in NatLess
    BY <2>1 DEF NatLess
  <2> QED BY <1>1, <2>1, <2>2
<1> QED BY <1>1, <1>2

(* Where a pattern matches at all, the engine prefers some match with the same start. *)
LEMMA SomeEndIsPreferred ==
  ASSUME NEW pat, IsPattern(pat), ~ pat.anchored, NEW limit \in Nat,
         NEW t \in Spans, Covers(pat, t), t.end <= limit
  PROVE  \E s \in Spans : s.start = t.start /\ Preferred(pat, s, limit)
<1> DEFINE ends == pat.ends[t.start]
           I == {i \in DOMAIN ends : Fits(pat, ends[i], limit)}
<1>1. t.start \in Offsets /\ t.end \in Offsets
  BY DEF Spans
<1>2. ends \in Seq(Boundaries) /\ \A i \in DOMAIN ends : t.start < ends[i]
  BY <1>1 DEF IsPattern
<1>3. DOMAIN ends = 1..Len(ends) /\ Len(ends) \in Nat /\ \A i \in DOMAIN ends : ends[i] \in Offsets
  BY <1>2, LenProperties, FragmentAssumption DEF Offsets
<1>4. I \in SUBSET Nat
  BY <1>3
<1>5. I # {}
  BY DEF Covers, Fits
<1>6. PICK i \in I : \A k \in I : i <= k
  BY <1>4, <1>5, LeastNatural
<1> DEFINE s == [start |-> t.start, end |-> ends[i]]
<1>7. s \in Spans
  BY <1>1, <1>2, <1>3, <1>6 DEF Spans
<1>8. \A j \in 1..(i - 1) : ~ Fits(pat, ends[j], limit)
  BY <1>3, <1>6
<1>9. Preferred(pat, s, limit)
  BY <1>6, <1>8 DEF Preferred
<1> QED BY <1>7, <1>9

(* A search that is not past a match finds one that starts no later. *)
LEMMA LeftmostIsNoLater ==
  ASSUME NEW pat, IsPattern(pat), ~ pat.anchored, NEW from \in Nat, NEW limit \in Nat,
         NEW t \in Spans, Covers(pat, t), from <= t.start, t.end <= limit
  PROVE  /\ Leftmost(pat, from, limit) # {}
         /\ \A s \in Leftmost(pat, from, limit) : s.start <= t.start
<1>1. PICK p \in Spans : p.start = t.start /\ Preferred(pat, p, limit)
  BY SomeEndIsPreferred
<1>2. \A s \in Leftmost(pat, from, limit) : s.start <= t.start
  BY <1>1 DEF Leftmost
<1> DEFINE Reachable == {s \in Spans : from <= s.start /\ Preferred(pat, s, limit)}
           Starts == {s.start : s \in Reachable}
<1>3. Starts \in SUBSET Nat
  BY FragmentAssumption DEF Spans, Offsets
<1>4. Starts # {}
  BY <1>1
<1>5. PICK n \in Starts : \A k \in Starts : n <= k
  BY <1>3, <1>4, LeastNatural
<1>6. PICK s \in Reachable : s.start = n
  BY <1>5
<1>7. s \in Leftmost(pat, from, limit)
  BY <1>5, <1>6 DEF Leftmost
<1> QED BY <1>2, <1>7

(* A search finds at most one match. *)
LEMMA LeftmostIsUnique ==
  ASSUME NEW pat, IsPattern(pat), NEW from \in Nat, NEW limit \in Nat,
         NEW s \in Leftmost(pat, from, limit), NEW t \in Leftmost(pat, from, limit)
  PROVE  s = t
<1>1. /\ s \in Spans /\ t \in Spans /\ Preferred(pat, s, limit) /\ Preferred(pat, t, limit)
      /\ s.start <= t.start /\ t.start <= s.start
  BY DEF Leftmost
<1>2. s.start \in Nat /\ t.start \in Nat /\ s.start \in Offsets
      /\ s = [start |-> s.start, end |-> s.end] /\ t = [start |-> t.start, end |-> t.end]
  BY <1>1, FragmentAssumption DEF Spans, Offsets
<1>3. s.start = t.start
  BY <1>1, <1>2
<1> DEFINE ends == pat.ends[s.start]
<1>4. DOMAIN ends = 1..Len(ends) /\ Len(ends) \in Nat
  BY <1>2, LenProperties DEF IsPattern
<1>5. PICK i \in DOMAIN ends : /\ ends[i] = s.end /\ Fits(pat, s.end, limit)
                              /\ \A k \in 1..(i - 1) : ~ Fits(pat, ends[k], limit)
  BY <1>1 DEF Preferred
<1>6. PICK j \in DOMAIN ends : /\ ends[j] = t.end /\ Fits(pat, t.end, limit)
                              /\ \A k \in 1..(j - 1) : ~ Fits(pat, ends[k], limit)
  BY <1>1, <1>3 DEF Preferred
<1>7. i = j
  BY <1>4, <1>5, <1>6
<1> QED BY <1>2, <1>3, <1>5, <1>6, <1>7

LEMMA NextBoundaryIsAnOffset ==
  ASSUME NEW at, NEW b \in NextBoundary(at)
  PROVE  b \in Offsets
<1>1. b \in Boundaries
  BY DEF NextBoundary
<1> QED BY <1>1, FragmentAssumption DEF Offsets

LEMMA SpanMakesItem ==
  ASSUME NEW r \in Rules, NEW s \in Spans, NEW n \in 0..RetryPerCandidate
  PROVE  /\ ItemFor(r, s, n) \in Items
         /\ SpanOf(CandidateOf(ItemFor(r, s, n))) = s
         /\ SpanOf(ItemFor(r, s, n)) = s
BY DEF ItemFor, Items, Spans, CandidateOf, SpanOf

-----------------------------------------------------------------------------
(* The queue as a stack of items. *)

LEMMA StackOps ==
  ASSUME NEW S, NEW q \in Seq(S)
  PROVE  /\ q # <<>> => /\ q[Len(q)] \in S
                        /\ SubSeq(q, 1, Len(q) - 1) \in Seq(S)
                        /\ Len(SubSeq(q, 1, Len(q) - 1)) = Len(q) - 1
                        /\ \A i \in 1..(Len(q) - 1) : SubSeq(q, 1, Len(q) - 1)[i] = q[i]
         /\ \A x \in S : /\ Append(q, x) \in Seq(S)
                         /\ Len(Append(q, x)) = Len(q) + 1
                         /\ \A i \in 1..Len(q) : Append(q, x)[i] = q[i]
                         /\ Append(q, x)[Len(q) + 1] = x
         /\ Len(q) \in Nat /\ DOMAIN q = 1..Len(q)
<1>1. Len(q) \in Nat /\ q \in [1..Len(q) -> S] /\ DOMAIN q = 1..Len(q)
  BY LenProperties
<1>2. ASSUME q # <<>>
      PROVE  /\ q[Len(q)] \in S
             /\ SubSeq(q, 1, Len(q) - 1) \in Seq(S)
             /\ Len(SubSeq(q, 1, Len(q) - 1)) = Len(q) - 1
             /\ \A i \in 1..(Len(q) - 1) : SubSeq(q, 1, Len(q) - 1)[i] = q[i]
  <2>1. Len(q) # 0
    BY <1>2, EmptySeq
  <2>2. Len(q) - 1 \in Int /\ \A i \in 1..(Len(q) - 1) : q[i] \in S
    BY <1>1
  <2>3. /\ SubSeq(q, 1, Len(q) - 1) \in Seq(S)
        /\ Len(SubSeq(q, 1, Len(q) - 1)) = IF 1 <= Len(q) - 1 THEN (Len(q) - 1) - 1 + 1 ELSE 0
        /\ \A i \in 1..((Len(q) - 1) - 1 + 1) : SubSeq(q, 1, Len(q) - 1)[i] = q[1 + i - 1]
    BY <2>2, SubSeqProperties
  <2> QED BY <1>1, <2>1, <2>3
<1>3. \A x \in S : /\ Append(q, x) \in Seq(S)
                   /\ Len(Append(q, x)) = Len(q) + 1
                   /\ \A i \in 1..Len(q) : Append(q, x)[i] = q[i]
                   /\ Append(q, x)[Len(q) + 1] = x
  BY AppendProperties
<1> QED BY <1>1, <1>2, <1>3

-----------------------------------------------------------------------------
(* Type correctness. *)

LEMMA IdleCursorIsACursor == IdleCursor \in Cursors
BY FragmentAssumption, RulesAssumption, LoopAssumption DEF IdleCursor, Cursors, Rules, Offsets

LEMMA TopIsAnItem ==
  ASSUME TypeOK, queue # <<>>
  PROVE  Top \in Items /\ Popped \in Seq(Items)
BY StackOps DEF TypeOK, Top, Popped

LEMMA ItemIsACandidate ==
  ASSUME NEW item \in Items
  PROVE  CandidateOf(item) \in Candidates
BY DEF Items, CandidateOf, Candidates

LEMMA PushKeepsTypes ==
  ASSUME NEW items \in Seq(Items), queued \subseteq Items, NEW item \in Items, Push(items, item)
  PROVE  queue' \in Seq(Items) /\ queued' \subseteq Items
BY StackOps DEF Push

LEMMA ResumeKeepsTypes ==
  ASSUME TypeOK, queue # <<>>, Resume(Top)
  PROVE  /\ queue' \in Seq(Items)
         /\ queued' \subseteq Items
         /\ fragmentResumes' \in 0..ResumePerFragment
<1>1. Top \in Items /\ Popped \in Seq(Items)
  BY TopIsAnItem
<1>2. fragmentResumes' \in 0..ResumePerFragment
  BY LoopAssumption DEF TypeOK, Resume, MayResume
<1>3. ResumedItems(Top) \subseteq Items
  <2>1. SUFFICES ASSUME NEW from \in NextBoundary(Top.start),
                        NEW m \in FindFrom(pattern[Top.rule], from)
                 PROVE  ItemFor(Top.rule, m, Top.retries) \in Items
    BY DEF ResumedItems
  <2>2. from \in Nat
    BY NextBoundaryIsAnOffset, FragmentAssumption DEF Offsets
  <2>3. m \in Spans
    BY <2>2, FindFromIsAMatch
  <2> QED BY <1>1, <2>3, SpanMakesItem DEF Items
<1>4. CASE ResumedItems(Top) = {}
  BY <1>1, <1>2, <1>4 DEF Resume, TypeOK
<1>5. CASE ResumedItems(Top) # {}
  <2>1. PICK resumed \in ResumedItems(Top) : Push(Popped, resumed)
    BY <1>5 DEF Resume
  <2> QED BY <1>1, <1>2, <1>3, <2>1, PushKeepsTypes DEF TypeOK
<1> QED BY <1>4, <1>5

LEMMA ShrinkKeepsTypes ==
  ASSUME TypeOK, queue # <<>>, visited' = visited \union {CandidateOf(Top)},
         pc = "pop", Shrink(Top)
  PROVE  /\ pc' \in {"pop", "interior"}
         /\ cursor' \in Cursors
         /\ fragmentRetries' \in 0..RetryPerFragment
         /\ shrunk' \subseteq visited'
<1>1. Top \in Items
  BY TopIsAnItem
<1>2. CASE InteriorLimit(Top) = {}
  BY <1>2 DEF TypeOK, Shrink
<1>3. CASE InteriorLimit(Top) # {}
  <2>1. PICK limit \in InteriorLimit(Top) :
              /\ cursor' = InteriorCursor(Top, limit)
              /\ fragmentRetries' = fragmentRetries + 1
              /\ shrunk' = shrunk \union {CandidateOf(Top)}
              /\ pc' = "interior"
    BY <1>3 DEF Shrink
  <2>2. ~ (Top.retries >= RetryPerCandidate \/ fragmentRetries >= RetryPerFragment)
    BY <1>3 DEF InteriorLimit
  <2>3. limit \in Boundaries
    BY <2>1 DEF InteriorLimit, PreviousBoundary
  <2>4. limit \in Offsets
    BY <2>3, FragmentAssumption DEF Offsets
  <2>5. cursor' \in Cursors
    BY <1>1, <2>1, <2>2, <2>4, LoopAssumption, FragmentAssumption
    DEF Items, Cursors, InteriorCursor, Offsets
  <2>6. fragmentRetries' \in 0..RetryPerFragment
    BY <2>1, <2>2, LoopAssumption DEF TypeOK
  <2> QED BY <2>1, <2>5, <2>6 DEF TypeOK
<1> QED BY <1>2, <1>3

THEOREM InitTypeOK == Init => TypeOK
<1> SUFFICES ASSUME Init PROVE TypeOK
  OBVIOUS
<1>1. \A r \in Rules : IsPattern(pattern[r])
  BY RulesAssumption DEF Init
<1>2. cursor \in Cursors
  BY IdleCursorIsACursor DEF Init
<1>3. queue \in Seq(Items) /\ accepted \in Seq(AcceptedEntries)
  BY EmptySeq DEF Init
<1>4. fragmentRetries \in 0..RetryPerFragment /\ fragmentResumes \in 0..ResumePerFragment
  BY LoopAssumption DEF Init
<1> QED BY <1>1, <1>2, <1>3, <1>4 DEF TypeOK, Init

THEOREM StepTypeOK == TypeOK /\ [Next]_loopVars => TypeOK'
<1> SUFFICES ASSUME TypeOK, [Next]_loopVars PROVE TypeOK'
  OBVIOUS
<1>1. CASE Compile
  BY <1>1 DEF TypeOK, Compile
<1>2. CASE CollectMatch
  <2>1. PICK m \in FindFrom(pattern[cursor.rule], cursor.at) :
              /\ Push(queue, ItemFor(cursor.rule, m, 0))
              /\ cursor' = [cursor EXCEPT !.at = After(m)]
    BY <1>2 DEF CollectMatch
  <2>2. cursor.at \in Nat /\ cursor.rule \in Rules
    BY FragmentAssumption DEF TypeOK, Cursors, Offsets
  <2>3. m \in Spans
    BY <2>2, FindFromIsAMatch
  <2>4. ItemFor(cursor.rule, m, 0) \in Items
    BY <2>2, <2>3, SpanMakesItem, LoopAssumption
  <2>5. queue' \in Seq(Items) /\ queued' \subseteq Items
    BY <2>1, <2>4, PushKeepsTypes DEF TypeOK
  <2>6. cursor' \in Cursors
    BY <2>1, <2>3 DEF TypeOK, Cursors, After, Spans
  <2> QED BY <1>2, <2>5, <2>6 DEF TypeOK, CollectMatch
<1>3. CASE CollectNextRule
  <2>1. cursor' \in Cursors
    <3>1. CASE cursor.rule < RuleCount
      <4>1. cursor' = [IdleCursor EXCEPT !.rule = cursor.rule + 1] /\ cursor.rule + 1 \in Rules
        BY <1>3, <3>1, RulesAssumption DEF CollectNextRule, TypeOK, Cursors, Rules
      <4> QED BY <4>1, IdleCursorIsACursor DEF Cursors
    <3>2. CASE ~ (cursor.rule < RuleCount)
      BY <1>3, <3>2, IdleCursorIsACursor DEF CollectNextRule
    <3> QED BY <3>1, <3>2
  <2> QED BY <1>3, <2>1 DEF TypeOK, CollectNextRule
<1>4. CASE Skip
  BY <1>4, TopIsAnItem DEF TypeOK, Skip
<1>5. CASE Accept
  <2>1. Top \in Items /\ Popped \in Seq(Items) /\ CandidateOf(Top) \in Candidates
    BY <1>5, TopIsAnItem, ItemIsACandidate DEF Accept
  <2>2. PICK s \in VerdictSpans(Top) : accepted' = Append(accepted, EntityFrom(Top, s))
    BY <1>5 DEF Accept
  <2>3. EntityFrom(Top, s) \in AcceptedEntries
    BY <2>1, <2>2 DEF EntityFrom, AcceptedEntries, VerdictSpans, Spans, CandidateOf
  <2>4. accepted' \in Seq(AcceptedEntries)
    BY <2>2, <2>3, StackOps DEF TypeOK
  <2> QED BY <1>5, <2>1, <2>4 DEF TypeOK, Accept
<1>6. CASE Reject
  <2>1. /\ pc = "pop" /\ queue # <<>> /\ Resume(Top) /\ Shrink(Top)
        /\ visited' = visited \union {CandidateOf(Top)}
        /\ UNCHANGED <<pattern, accepted>>
    BY <1>6 DEF Reject
  <2>2. CandidateOf(Top) \in Candidates
    BY <2>1, TopIsAnItem, ItemIsACandidate
  <2>3. /\ queue' \in Seq(Items) /\ queued' \subseteq Items
        /\ fragmentResumes' \in 0..ResumePerFragment
    BY <2>1, ResumeKeepsTypes
  <2>4. /\ pc' \in {"pop", "interior"} /\ cursor' \in Cursors
        /\ fragmentRetries' \in 0..RetryPerFragment /\ shrunk' \subseteq visited'
    BY <2>1, ShrinkKeepsTypes
  <2> QED BY <2>1, <2>2, <2>3, <2>4 DEF TypeOK
<1>7. CASE InteriorMatch
  <2>1. PICK m \in FindIn(pattern[cursor.rule], cursor.base, cursor.limit, cursor.at) :
              /\ Push(queue, ItemFor(cursor.rule, Rebased(m, cursor.base), cursor.retries))
              /\ cursor' = [cursor EXCEPT !.at = After(m)]
    BY <1>7 DEF InteriorMatch
  <2>2. /\ cursor.base \in Offsets /\ cursor.limit \in Offsets /\ cursor.at \in Offsets
        /\ cursor.rule \in Rules /\ cursor.retries \in 0..RetryPerCandidate
    BY DEF TypeOK, Cursors
  <2>3. Rebased(m, cursor.base) \in Spans /\ m.end \in Offsets
    BY <2>2, FindInIsAMatch
  <2>4. ItemFor(cursor.rule, Rebased(m, cursor.base), cursor.retries) \in Items
    BY <2>2, <2>3, SpanMakesItem
  <2>5. queue' \in Seq(Items) /\ queued' \subseteq Items
    BY <2>1, <2>4, PushKeepsTypes DEF TypeOK
  <2>6. cursor' \in Cursors
    BY <2>1, <2>3 DEF TypeOK, Cursors, After
  <2> QED BY <1>7, <2>5, <2>6 DEF TypeOK, InteriorMatch
<1>8. CASE InteriorDone
  BY <1>8, IdleCursorIsACursor DEF TypeOK, InteriorDone
<1>9. CASE Drain
  BY <1>9 DEF TypeOK, Drain
<1>10. CASE UNCHANGED loopVars
  BY <1>10 DEF TypeOK, loopVars
<1> QED BY <1>1, <1>2, <1>3, <1>4, <1>5, <1>6, <1>7, <1>8, <1>9, <1>10 DEF Next

(***************************************************************************)
(* The loop's state keeps its shape whatever the patterns and verdicts     *)
(* are: no counter passes its budget and nothing but a span of the         *)
(* fragment is ever queued, validated or accepted.                         *)
(***************************************************************************)
THEOREM TypeCorrect == Spec => []TypeOK
BY InitTypeOK, StepTypeOK, PTL DEF Spec

-----------------------------------------------------------------------------
(***************************************************************************)
(* The inductive invariant.  The properties of the drained loop speak of   *)
(* visited; what makes them inductive is the same statement about every    *)
(* item ever queued, for the part of the search that is already behind.    *)
(***************************************************************************)
ItemsOn(q) == {q[i] : i \in DOMAIN q}

QueueInv ==
  /\ ItemsOn(queue) \subseteq queued
  /\ \A item \in queued : Covers(pattern[item.rule], SpanOf(item))
  /\ \A item \in queued : CandidateOf(item) \in visited \/ item \in ItemsOn(queue)
  /\ pc = "drained" => queue = <<>>

VerdictInv ==
  /\ \A c \in visited : Covers(pattern[c.rule], SpanOf(c))
  /\ AcceptedCandidates \subseteq visited
  /\ AcceptedOnce

BudgetInv == IsFiniteSet(shrunk) /\ Cardinality(shrunk) = fragmentRetries

(* The prefilter's pass is past the matches of the earlier rules and those left of the cursor. *)
Passed(r, t) ==
  \/ pc \in {"pop", "interior", "drained"}
  \/ pc = "collect" /\ (r < cursor.rule \/ (r = cursor.rule /\ t.start < cursor.at))

SweepInv ==
  /\ pc = "compile" => cursor = IdleCursor
  /\ pc \notin {"compile", "refused"} => \A r \in Rules : ~ pattern[r].anchored
  /\ \A r \in Rules : \A t \in Spans :
       Covers(pattern[r], t) /\ Passed(r, t) =>
         \E v \in queued : v.rule = r /\ v.start <= t.start /\ t.start < v.end

(* The interior of c up to limit is the slice the cursor is in. *)
Searching(c, limit) ==
  pc = "interior" /\ cursor.rule = c.rule /\ cursor.base = c.start /\ cursor.limit = limit

InteriorInv ==
  \A c \in shrunk : \A limit \in PreviousBoundary(c.start, c.end) : \A t \in Spans :
    /\ Covers(pattern[c.rule], t) /\ Inside(t, c.start, limit)
    /\ Searching(c, limit) => t.start < cursor.base + cursor.at
    => \E v \in queued : /\ v.rule = c.rule /\ Inside(v, c.start, limit)
                         /\ v.start <= t.start /\ t.start < v.end

ResumeInv ==
  fragmentResumes < ResumePerFragment =>
    \A c \in Rejected : c.rule \in Resuming =>
      \A from \in NextBoundary(c.start) : \A m \in FindFrom(pattern[c.rule], from) :
        \E item \in queued : CandidateOf(item) = [rule |-> c.rule, start |-> m.start, end |-> m.end]

LoopInv ==
  /\ TypeOK
  /\ QueueInv
  /\ VerdictInv
  /\ BudgetInv
  /\ SlicesOnBoundaries
  /\ SweepInv
  /\ InteriorInv
  /\ ResumeInv

-----------------------------------------------------------------------------
(* What the queue operations do to the set of queued items. *)

LEMMA ItemsOnAppend ==
  ASSUME NEW S, NEW q \in Seq(S), NEW x \in S
  PROVE  ItemsOn(Append(q, x)) = ItemsOn(q) \union {x}
<1>1. DOMAIN q = 1..Len(q) /\ Len(q) \in Nat
  BY StackOps
<1>2. /\ DOMAIN Append(q, x) = 1..(Len(q) + 1)
      /\ \A i \in 1..Len(q) : Append(q, x)[i] = q[i]
      /\ Append(q, x)[Len(q) + 1] = x
  <2>1. Append(q, x) \in Seq(S) /\ Len(Append(q, x)) = Len(q) + 1
    BY StackOps
  <2>2. DOMAIN Append(q, x) = 1..Len(Append(q, x))
    BY <2>1, StackOps
  <2> QED BY <2>1, <2>2, StackOps
<1>3. 1..(Len(q) + 1) = 1..Len(q) \union {Len(q) + 1}
  BY <1>1
<1> QED BY <1>1, <1>2, <1>3 DEF ItemsOn

LEMMA ItemsOnPop ==
  ASSUME NEW S, NEW q \in Seq(S), q # <<>>
  PROVE  ItemsOn(q) = ItemsOn(SubSeq(q, 1, Len(q) - 1)) \union {q[Len(q)]}
<1> DEFINE p == SubSeq(q, 1, Len(q) - 1)
<1>1. /\ p \in Seq(S) /\ Len(p) = Len(q) - 1 /\ \A i \in 1..(Len(q) - 1) : p[i] = q[i]
      /\ DOMAIN q = 1..Len(q) /\ Len(q) \in Nat
  BY StackOps
<1>2. DOMAIN p = 1..(Len(q) - 1)
  BY <1>1, LenProperties
<1>3. Len(q) # 0
  BY EmptySeq
<1>4. 1..Len(q) = 1..(Len(q) - 1) \union {Len(q)}
  BY <1>1, <1>3
<1> HIDE DEF p
<1>5. ItemsOn(q) = ItemsOn(p) \union {q[Len(q)]}
  BY <1>1, <1>2, <1>4 DEF ItemsOn
<1> QED BY <1>5 DEF p

LEMMA PoppedItems ==
  ASSUME TypeOK, queue # <<>>
  PROVE  ItemsOn(queue) = ItemsOn(Popped) \union {Top}
BY ItemsOnPop DEF TypeOK, Popped, Top

LEMMA PushedItems ==
  ASSUME NEW q \in Seq(Items), NEW item \in Items, Push(q, item)
  PROVE  ItemsOn(queue') = ItemsOn(q) \union {item} /\ queued' = queued \union {item}
BY ItemsOnAppend DEF Push

(* A rejection queues a set later of resumed matches, the whole of what the search found. *)
LEMMA ResumedMatches ==
  ASSUME TypeOK, queue # <<>>, Resume(Top)
  PROVE  /\ ResumedItems(Top) \subseteq Items
         /\ \A item \in ResumedItems(Top) : Covers(pattern[item.rule], SpanOf(item))
         /\ \E later \in SUBSET ResumedItems(Top) :
              /\ ItemsOn(queue') = ItemsOn(Popped) \union later
              /\ queued' = queued \union later
              /\ ResumedItems(Top) # {} => later # {}
<1>1. Top \in Items /\ Popped \in Seq(Items)
  BY TopIsAnItem
<1>2. ASSUME NEW item \in ResumedItems(Top)
      PROVE  item \in Items /\ Covers(pattern[item.rule], SpanOf(item))
  <2>1. PICK from \in NextBoundary(Top.start) : \E m \in FindFrom(pattern[Top.rule], from) :
               item = ItemFor(Top.rule, m, Top.retries)
    BY <1>2 DEF ResumedItems
  <2>2. PICK m \in FindFrom(pattern[Top.rule], from) : item = ItemFor(Top.rule, m, Top.retries)
    BY <2>1
  <2>3. from \in Nat
    BY NextBoundaryIsAnOffset, FragmentAssumption DEF Offsets
  <2>4. m \in Spans /\ Covers(pattern[Top.rule], m)
    BY <2>3, FindFromIsAMatch
  <2>5. item \in Items /\ SpanOf(item) = m
    BY <1>1, <2>2, <2>4, SpanMakesItem DEF Items
  <2>6. item.rule = Top.rule
    BY <2>2 DEF ItemFor
  <2> QED BY <2>4, <2>5, <2>6
<1>3. CASE ResumedItems(Top) = {}
  BY <1>2, <1>3 DEF Resume
<1>4. CASE ResumedItems(Top) # {}
  <2>1. PICK resumed \in ResumedItems(Top) : Push(Popped, resumed)
    BY <1>4 DEF Resume
  <2>2. resumed \in Items
    BY <1>2
  <2>3. ItemsOn(queue') = ItemsOn(Popped) \union {resumed} /\ queued' = queued \union {resumed}
    BY <1>1, <2>1, <2>2, PushedItems
  <2> QED BY <1>2, <2>3
<1> QED BY <1>3, <1>4

-----------------------------------------------------------------------------
(* Queue: what was proposed is a match, and is queued until it is validated. *)

LEMMA PushKeepsQueueInv ==
  ASSUME TypeOK, QueueInv, NEW item \in Items, Covers(pattern[item.rule], SpanOf(item)),
         Push(queue, item), UNCHANGED <<pattern, pc, visited>>, pc # "drained"
  PROVE  QueueInv'
BY PushedItems DEF QueueInv, TypeOK

LEMMA StepQueueInv ==
  ASSUME TypeOK, QueueInv, SweepInv, [Next]_loopVars
  PROVE  QueueInv'
<1>1. CASE Compile
  BY <1>1 DEF QueueInv, Compile
<1>2. CASE CollectMatch
  <2>1. PICK m \in FindFrom(pattern[cursor.rule], cursor.at) : Push(queue, ItemFor(cursor.rule, m, 0))
    BY <1>2 DEF CollectMatch
  <2>2. cursor.at \in Nat /\ cursor.rule \in Rules
    BY FragmentAssumption DEF TypeOK, Cursors, Offsets
  <2>3. m \in Spans /\ Covers(pattern[cursor.rule], m)
    BY <2>2, FindFromIsAMatch
  <2> DEFINE item == ItemFor(cursor.rule, m, 0)
  <2>4. item \in Items /\ SpanOf(item) = m
    BY <2>2, <2>3, SpanMakesItem, LoopAssumption
  <2>5. item.rule = cursor.rule
    BY DEF ItemFor
  <2> HIDE DEF item
  <2>6. Push(queue, item) /\ Covers(pattern[item.rule], SpanOf(item))
    BY <2>1, <2>3, <2>4, <2>5 DEF item
  <2> QED BY <1>2, <2>4, <2>6, PushKeepsQueueInv DEF CollectMatch
<1>3. CASE CollectNextRule
  BY <1>3 DEF QueueInv, CollectNextRule
<1>4. CASE Skip
  BY <1>4, PoppedItems DEF QueueInv, Skip, Seen
<1>5. CASE Accept
  BY <1>5, PoppedItems DEF QueueInv, Accept
<1>6. CASE Reject
  <2>1. /\ pc = "pop" /\ queue # <<>> /\ Resume(Top) /\ Shrink(Top)
        /\ visited' = visited \union {CandidateOf(Top)}
        /\ UNCHANGED <<pattern, accepted>>
    BY <1>6 DEF Reject
  <2>2. PICK later \in SUBSET ResumedItems(Top) :
              /\ ItemsOn(queue') = ItemsOn(Popped) \union later
              /\ queued' = queued \union later
    BY <2>1, ResumedMatches
  <2>3. \A item \in later : Covers(pattern[item.rule], SpanOf(item))
    BY <2>1, <2>2, ResumedMatches
  <2>4. pc' # "drained"
    BY <2>1 DEF Shrink
  <2> QED BY <2>1, <2>2, <2>3, <2>4, PoppedItems DEF QueueInv
<1>7. CASE InteriorMatch
  <2>1. PICK m \in FindIn(pattern[cursor.rule], cursor.base, cursor.limit, cursor.at) :
              Push(queue, ItemFor(cursor.rule, Rebased(m, cursor.base), cursor.retries))
    BY <1>7 DEF InteriorMatch
  <2>2. /\ cursor.base \in Offsets /\ cursor.limit \in Offsets /\ cursor.at \in Offsets
        /\ cursor.rule \in Rules /\ cursor.retries \in 0..RetryPerCandidate
    BY DEF TypeOK, Cursors
  <2>7. ~ pattern[cursor.rule].anchored
    BY <1>7, <2>2 DEF SweepInv, InteriorMatch
  <2>3. Rebased(m, cursor.base) \in Spans /\ Covers(pattern[cursor.rule], Rebased(m, cursor.base))
    BY <2>2, <2>7, FindInIsAMatch, FindInCovers
  <2> DEFINE item == ItemFor(cursor.rule, Rebased(m, cursor.base), cursor.retries)
  <2>4. item \in Items /\ SpanOf(item) = Rebased(m, cursor.base)
    BY <2>2, <2>3, SpanMakesItem
  <2>5. item.rule = cursor.rule
    BY DEF ItemFor
  <2> HIDE DEF item
  <2>6. Push(queue, item) /\ Covers(pattern[item.rule], SpanOf(item))
    BY <2>1, <2>3, <2>4, <2>5 DEF item
  <2> QED BY <1>7, <2>4, <2>6, PushKeepsQueueInv DEF InteriorMatch
<1>8. CASE InteriorDone
  BY <1>8 DEF QueueInv, InteriorDone
<1>9. CASE Drain
  BY <1>9 DEF QueueInv, Drain
<1>10. CASE UNCHANGED loopVars
  BY <1>10 DEF QueueInv, loopVars
<1> QED BY <1>1, <1>2, <1>3, <1>4, <1>5, <1>6, <1>7, <1>8, <1>9, <1>10 DEF Next

-----------------------------------------------------------------------------
(* Verdicts: a candidate is validated once, so it is accepted at most once. *)

LEMMA AcceptKeepsVerdictInv ==
  ASSUME TypeOK, QueueInv, VerdictInv, Accept
  PROVE  VerdictInv'
<1>1. Top \in Items /\ CandidateOf(Top) \in Candidates
  BY TopIsAnItem, ItemIsACandidate DEF Accept
<1>2. CandidateOf(Top) \notin visited /\ visited' = visited \union {CandidateOf(Top)}
  BY DEF Accept, Seen
<1>3. PICK s \in VerdictSpans(Top) : accepted' = Append(accepted, EntityFrom(Top, s))
  BY DEF Accept
<1> DEFINE entity == EntityFrom(Top, s)
<1>4. entity.candidate = CandidateOf(Top)
  BY DEF EntityFrom, CandidateOf
<1>5. entity \in AcceptedEntries
  BY <1>1, <1>3, <1>4 DEF EntityFrom, AcceptedEntries, VerdictSpans, Spans
<1> HIDE DEF entity
<1>6. /\ accepted \in Seq(AcceptedEntries) /\ Len(accepted) \in Nat
      /\ DOMAIN accepted = 1..Len(accepted)
  BY StackOps DEF TypeOK
<1>7. /\ accepted' \in Seq(AcceptedEntries) /\ Len(accepted') = Len(accepted) + 1
      /\ \A i \in 1..Len(accepted) : accepted'[i] = accepted[i]
      /\ accepted'[Len(accepted) + 1] = entity
  BY <1>3, <1>5, <1>6, AppendProperties DEF entity
<1>8. DOMAIN accepted' = 1..(Len(accepted) + 1)
  BY <1>7, LenProperties
<1>9. \A i \in DOMAIN accepted : accepted[i].candidate \in visited
  BY DEF VerdictInv, AcceptedCandidates
<1>10. AcceptedCandidates' \subseteq visited'
  BY <1>2, <1>4, <1>6, <1>7, <1>8, <1>9 DEF AcceptedCandidates
<1>11. AcceptedOnce'
  <2> SUFFICES ASSUME NEW i \in 1..(Len(accepted) + 1), NEW j \in 1..(Len(accepted) + 1),
                      accepted'[i].candidate = accepted'[j].candidate
               PROVE  i = j
    BY <1>8 DEF AcceptedOnce
  <2>1. CASE i \in DOMAIN accepted /\ j \in DOMAIN accepted
    BY <2>1, <1>6, <1>7 DEF VerdictInv, AcceptedOnce
  <2>2. CASE i = Len(accepted) + 1 /\ j \in DOMAIN accepted
    BY <2>2, <1>2, <1>4, <1>6, <1>7, <1>9
  <2>3. CASE j = Len(accepted) + 1 /\ i \in DOMAIN accepted
    BY <2>3, <1>2, <1>4, <1>6, <1>7, <1>9
  <2> QED BY <2>1, <2>2, <2>3, <1>6
<1>12. Covers(pattern[CandidateOf(Top).rule], SpanOf(CandidateOf(Top)))
  BY PoppedItems DEF QueueInv, Accept, CandidateOf, SpanOf
<1>13. \A c \in visited' : Covers(pattern'[c.rule], SpanOf(c))
  BY <1>2, <1>12 DEF VerdictInv, Accept
<1> QED BY <1>10, <1>11, <1>13 DEF VerdictInv

LEMMA StepVerdictInv ==
  ASSUME TypeOK, QueueInv, VerdictInv, [Next]_loopVars
  PROVE  VerdictInv'
<1>1. CASE Accept
  BY <1>1, AcceptKeepsVerdictInv
<1>2. CASE Reject
  <2>1. Covers(pattern[CandidateOf(Top).rule], SpanOf(CandidateOf(Top)))
    BY <1>2, PoppedItems DEF QueueInv, Reject, CandidateOf, SpanOf
  <2>2. visited' = visited \union {CandidateOf(Top)} /\ UNCHANGED <<pattern, accepted>>
    BY <1>2 DEF Reject
  <2> QED BY <2>1, <2>2 DEF VerdictInv, AcceptedCandidates, AcceptedOnce
<1>3. CASE UNCHANGED <<pattern, visited, accepted>>
  BY <1>3 DEF VerdictInv, AcceptedCandidates, AcceptedOnce
<1>4. ~ Accept /\ ~ Reject => UNCHANGED <<pattern, visited, accepted>>
  BY DEF Next, loopVars, Compile, CollectMatch, CollectNextRule, Skip, InteriorMatch, InteriorDone,
         Drain
<1> QED BY <1>1, <1>2, <1>3, <1>4

-----------------------------------------------------------------------------
(* Budget: what was searched was not visited before, so each search counts once. *)

LEMMA StepBudgetInv ==
  ASSUME TypeOK, BudgetInv, [Next]_loopVars
  PROVE  BudgetInv'
<1>1. CASE Reject
  <2>1. CASE InteriorLimit(Top) = {}
    BY <1>1, <2>1 DEF Reject, Shrink, BudgetInv
  <2>2. CASE InteriorLimit(Top) # {}
    <3>1. fragmentRetries' = fragmentRetries + 1 /\ shrunk' = shrunk \union {CandidateOf(Top)}
      BY <1>1, <2>2 DEF Reject, Shrink
    <3>2. CandidateOf(Top) \notin shrunk
      BY <1>1 DEF Reject, Seen, TypeOK
    <3> QED BY <3>1, <3>2, FS_AddElement DEF BudgetInv
  <2> QED BY <2>1, <2>2
<1>2. ~ Reject => UNCHANGED <<fragmentRetries, shrunk>>
  BY DEF Next, loopVars, Compile, CollectMatch, CollectNextRule, Skip, Accept, InteriorMatch,
         InteriorDone, Drain
<1> QED BY <1>1, <1>2 DEF BudgetInv

-----------------------------------------------------------------------------
(* Slices: a match starts on a character, and so does the cut before its last one. *)

LEMMA MatchStartsOnABoundary ==
  ASSUME NEW pat, IsPattern(pat), NEW s, s.start \in Offsets, Covers(pat, s)
  PROVE  s.start \in Boundaries /\ s.end \in Boundaries
<1>1. PICK i \in DOMAIN pat.ends[s.start] : pat.ends[s.start][i] = s.end
  BY DEF Covers
<1>2. pat.ends[s.start] \in Seq(Boundaries) /\ s.start \in Boundaries
  BY <1>1 DEF IsPattern
<1> QED BY <1>1, <1>2, ElementOfSeq, LenProperties

LEMMA StepSlicesOnBoundaries ==
  ASSUME TypeOK, QueueInv, SlicesOnBoundaries, [Next]_loopVars
  PROVE  SlicesOnBoundaries'
<1>1. CASE Reject
  <2>1. CASE InteriorLimit(Top) = {}
    BY <1>1, <2>1 DEF Reject, Shrink, SlicesOnBoundaries
  <2>2. CASE InteriorLimit(Top) # {}
    <3>1. PICK limit \in InteriorLimit(Top) : cursor' = InteriorCursor(Top, limit)
      BY <1>1, <2>2 DEF Reject, Shrink
    <3>2. cursor'.base = Top.start /\ cursor'.limit = limit
      BY <3>1 DEF InteriorCursor
    <3>3. limit \in Boundaries /\ Top.start < limit
      BY <3>1 DEF InteriorLimit, PreviousBoundary
    <3>4. Top \in Items /\ Top \in queued
      BY <1>1, TopIsAnItem, PoppedItems DEF Reject, QueueInv
    <3>5. /\ Covers(pattern[Top.rule], SpanOf(Top)) /\ IsPattern(pattern[Top.rule])
          /\ SpanOf(Top).start = Top.start /\ Top.start \in Offsets
      BY <3>4 DEF QueueInv, TypeOK, SpanOf, Items
    <3>6. Top.start \in Boundaries
      BY <3>5, MatchStartsOnABoundary
    <3> QED BY <3>2, <3>3, <3>6 DEF SlicesOnBoundaries
  <2> QED BY <2>1, <2>2
<1>2. CASE InteriorMatch
  <2>1. pc = "interior" /\ cursor'.base = cursor.base /\ cursor'.limit = cursor.limit
    BY <1>2 DEF InteriorMatch, TypeOK, Cursors
  <2> QED BY <2>1 DEF SlicesOnBoundaries
<1>3. CASE Compile \/ CollectMatch \/ CollectNextRule \/ Skip \/ Accept \/ InteriorDone \/ Drain
  <2>1. pc' # "interior"
    BY <1>3 DEF Compile, CollectMatch, CollectNextRule, Skip, Accept, InteriorDone, Drain
  <2> QED BY <2>1 DEF SlicesOnBoundaries
<1>4. CASE UNCHANGED loopVars
  BY <1>4 DEF loopVars, SlicesOnBoundaries
<1> QED BY <1>1, <1>2, <1>3, <1>4 DEF Next

-----------------------------------------------------------------------------
(* Sweep: the iterator passes no match that it does not cover. *)

LEMMA QueuedGrows ==
  ASSUME TypeOK, [Next]_loopVars
  PROVE  queued \subseteq queued' /\ pattern' = pattern
<1>1. CASE Reject
  BY <1>1, ResumedMatches DEF Reject
<1>2. CASE ~ Reject
  BY <1>2 DEF Next, loopVars, Compile, CollectMatch, CollectNextRule, Skip, Accept, InteriorMatch,
              InteriorDone, Drain, Push
<1> QED BY <1>1, <1>2

LEMMA CollectMatchKeepsSweepInv ==
  ASSUME TypeOK, SweepInv, CollectMatch
  PROVE  SweepInv'
<1>1. PICK m \in FindFrom(pattern[cursor.rule], cursor.at) :
            /\ Push(queue, ItemFor(cursor.rule, m, 0))
            /\ cursor' = [cursor EXCEPT !.at = After(m)]
  BY DEF CollectMatch
<1>2. /\ cursor.at \in Nat /\ cursor.rule \in Rules /\ Size \in Nat
      /\ IsPattern(pattern[cursor.rule]) /\ ~ pattern[cursor.rule].anchored
  BY FragmentAssumption DEF TypeOK, Cursors, Offsets, SweepInv, CollectMatch
<1>3. m \in Spans
  BY <1>2, FindFromIsAMatch
<1>4. cursor'.rule = cursor.rule /\ cursor'.at = m.end
  BY <1>1 DEF TypeOK, Cursors, After
<1>5. queued' = queued \union {ItemFor(cursor.rule, m, 0)}
  BY <1>1 DEF Push
<1>6. pc = "collect" /\ pc' = "collect" /\ pattern' = pattern
  BY DEF CollectMatch
<1>7. ASSUME NEW r \in Rules, NEW t \in Spans, Covers(pattern[r], t), Passed(r, t)'
      PROVE  \E v \in queued' : v.rule = r /\ v.start <= t.start /\ t.start < v.end
  <2>1. CASE Passed(r, t)
    BY <2>1, <1>5, <1>7 DEF SweepInv
  <2>2. CASE ~ Passed(r, t)
    <3>1. t.start \in Nat /\ t.end \in Nat /\ t.end <= Size
      BY <1>2 DEF Spans, Offsets
    <3>2. r = cursor.rule /\ cursor.at <= t.start /\ t.start < m.end
      BY <1>2, <1>4, <1>6, <1>7, <2>2, <3>1 DEF Passed, Rules
    <3>3. m.start <= t.start
      BY <1>2, <1>7, <3>1, <3>2, LeftmostIsNoLater DEF FindFrom
    <3>4. ItemFor(cursor.rule, m, 0).rule = r /\ ItemFor(cursor.rule, m, 0).start = m.start
          /\ ItemFor(cursor.rule, m, 0).end = m.end
      BY <3>2 DEF ItemFor
    <3> QED BY <1>5, <3>2, <3>3, <3>4
  <2> QED BY <2>1, <2>2
<1> QED BY <1>6, <1>7 DEF SweepInv

LEMMA CollectNextRuleKeepsSweepInv ==
  ASSUME TypeOK, SweepInv, CollectNextRule
  PROVE  SweepInv'
<1>1. /\ cursor.at \in Nat /\ cursor.rule \in Rules /\ Size \in Nat /\ RuleCount \in Nat
      /\ IsPattern(pattern[cursor.rule]) /\ ~ pattern[cursor.rule].anchored
  BY FragmentAssumption, RulesAssumption DEF TypeOK, Cursors, Offsets, SweepInv, CollectNextRule
<1>2. /\ pc = "collect" /\ pattern' = pattern /\ queued' = queued
      /\ FindFrom(pattern[cursor.rule], cursor.at) = {}
  BY DEF CollectNextRule
<1>3. ASSUME NEW r \in Rules, NEW t \in Spans, Covers(pattern[r], t), r <= cursor.rule
      PROVE  Passed(r, t)
  <2>1. t.start \in Nat /\ t.end \in Nat /\ t.end <= Size
    BY <1>1 DEF Spans, Offsets
  <2>2. r = cursor.rule => t.start < cursor.at
    BY <1>1, <1>2, <1>3, <2>1, LeftmostIsNoLater DEF FindFrom
  <2> QED BY <1>1, <1>2, <1>3, <2>2 DEF Passed, Rules
<1>4. CASE cursor.rule < RuleCount
  <2>1. pc' = "collect" /\ cursor'.rule = cursor.rule + 1 /\ cursor'.at = 0
    BY <1>2, <1>4 DEF CollectNextRule, IdleCursor
  <2>2. ASSUME NEW r \in Rules, NEW t \in Spans, Passed(r, t)'
        PROVE  r <= cursor.rule
    <3>1. t.start \in Nat
      BY <1>1 DEF Spans, Offsets
    <3> QED BY <1>1, <2>1, <2>2, <3>1 DEF Passed, Rules
  <2> QED BY <1>2, <1>3, <2>1, <2>2 DEF SweepInv
<1>5. CASE ~ (cursor.rule < RuleCount)
  <2>1. pc' = "pop"
    BY <1>5 DEF CollectNextRule
  <2>2. \A r \in Rules : r <= cursor.rule
    BY <1>1, <1>5 DEF Rules
  <2> QED BY <1>2, <1>3, <2>1, <2>2 DEF SweepInv
<1> QED BY <1>4, <1>5

LEMMA StepSweepInv ==
  ASSUME TypeOK, SweepInv, [Next]_loopVars
  PROVE  SweepInv'
<1>1. CASE Compile
  <2>1. ASSUME NEW r \in Rules, NEW t \in Spans, Passed(r, t)' PROVE FALSE
    <3>1. pc' \in {"refused", "collect"} /\ cursor' = IdleCursor
      BY <1>1 DEF Compile, SweepInv
    <3>2. t.start \in Nat /\ r \in Nat /\ r >= 1
      BY FragmentAssumption, RulesAssumption DEF Spans, Offsets, Rules
    <3> QED BY <2>1, <3>1, <3>2 DEF Passed, IdleCursor
  <2>2. pc' # "refused" => \A r \in Rules : ~ pattern[r].anchored
    <3>1. \A r \in Rules : IsPattern(pattern[r])
      BY DEF TypeOK
    <3>2. \A r \in Rules : pattern[r].anchored => HaystackDependent(pattern[r])
      BY <3>1 DEF IsPattern, HaystackDependent
    <3> QED BY <1>1, <3>2 DEF Compile
  <2>3. pc' # "compile" /\ pattern' = pattern
    BY <1>1 DEF Compile
  <2> QED BY <2>1, <2>2, <2>3 DEF SweepInv
<1>2. CASE CollectMatch
  BY <1>2, CollectMatchKeepsSweepInv
<1>3. CASE CollectNextRule
  BY <1>3, CollectNextRuleKeepsSweepInv
<1>4. CASE Skip \/ Accept \/ Reject \/ InteriorMatch \/ InteriorDone \/ Drain
  <2>1. pc \in {"pop", "interior"} /\ pc' \in {"pop", "interior", "drained"}
    BY <1>4 DEF Skip, Accept, Reject, Shrink, InteriorMatch, InteriorDone, Drain
  <2>2. \A r \in Rules : \A t \in Spans : Passed(r, t)
    BY <2>1 DEF Passed
  <2> QED BY <2>1, <2>2, QueuedGrows DEF SweepInv
<1>5. CASE UNCHANGED loopVars
  BY <1>5 DEF loopVars, SweepInv, Passed
<1> QED BY <1>1, <1>2, <1>3, <1>4, <1>5 DEF Next

-----------------------------------------------------------------------------
(* Interior: the same for the slice of a rejected span, in rebased offsets. *)

LEMMA FindInIsNoLater ==
  ASSUME NEW pat, IsPattern(pat), ~ pat.anchored, NEW origin \in Offsets, NEW limit \in Offsets,
         NEW at \in Offsets, NEW t \in Spans, Covers(pat, t), origin + at <= t.start, t.end <= limit
  PROVE  /\ FindIn(pat, origin, limit, at) # {}
         /\ \A m \in FindIn(pat, origin, limit, at) : Rebased(m, origin).start <= t.start
<1>1. origin + at \in Nat /\ limit \in Nat /\ origin \in Nat
  BY FragmentAssumption DEF Offsets
<1>2. /\ Leftmost(pat, origin + at, limit) # {}
      /\ \A s \in Leftmost(pat, origin + at, limit) : s.start <= t.start
  BY <1>1, LeftmostIsNoLater
<1>3. \A s \in Leftmost(pat, origin + at, limit) : s.start \in Nat
  BY FragmentAssumption DEF Leftmost, Spans, Offsets
<1>4. ASSUME NEW m \in FindIn(pat, origin, limit, at)
      PROVE  Rebased(m, origin).start <= t.start
  <2>1. PICK s \in Leftmost(pat, origin + at, limit) :
               m = [start |-> s.start - origin, end |-> s.end - origin]
    BY <1>4 DEF FindIn
  <2>2. Rebased(m, origin).start = s.start
    BY <1>1, <1>3, <2>1 DEF Rebased
  <2> QED BY <1>2, <2>2
<1> QED BY <1>2, <1>4 DEF FindIn

LEMMA PreviousBoundaryIsUnique ==
  ASSUME NEW start, NEW end, NEW b \in PreviousBoundary(start, end),
         NEW d \in PreviousBoundary(start, end)
  PROVE  b = d
<1>1. b \in Boundaries /\ d \in Boundaries /\ b <= d /\ d <= b
  BY DEF PreviousBoundary
<1>2. b \in Nat /\ d \in Nat
  BY <1>1, FragmentAssumption
<1> QED BY <1>1, <1>2

LEMMA RejectKeepsInteriorInv ==
  ASSUME TypeOK, InteriorInv, Reject
  PROVE  InteriorInv'
<1>1. pc = "pop" /\ pattern' = pattern /\ queued \subseteq queued' /\ Top \in Items
  BY QueuedGrows, TopIsAnItem DEF Reject, Next
<1>2. SUFFICES ASSUME NEW c \in shrunk', NEW limit \in PreviousBoundary(c.start, c.end),
                      NEW t \in Spans, Covers(pattern[c.rule], t), Inside(t, c.start, limit),
                      Searching(c, limit)' => t.start < cursor'.base + cursor'.at
               PROVE  \E v \in queued' : /\ v.rule = c.rule /\ Inside(v, c.start, limit)
                                         /\ v.start <= t.start /\ t.start < v.end
  BY <1>1 DEF InteriorInv
<1>3. CASE c \in shrunk
  <2>1. ~ Searching(c, limit)
    BY <1>1 DEF Searching
  <2> QED BY <1>1, <1>2, <1>3, <2>1 DEF InteriorInv
<1>4. CASE c \notin shrunk
  <2>1. InteriorLimit(Top) # {}
    BY <1>2, <1>4 DEF Reject, Shrink
  <2>2. PICK l \in InteriorLimit(Top) :
              cursor' = InteriorCursor(Top, l) /\ shrunk' = shrunk \union {CandidateOf(Top)}
              /\ pc' = "interior"
    BY <2>1 DEF Reject, Shrink
  <2>3. c = CandidateOf(Top)
    BY <1>2, <1>4, <2>2
  <2>4. c.rule = Top.rule /\ c.start = Top.start /\ c.end = Top.end /\ Top.start \in Nat
    BY <1>1, <2>3, FragmentAssumption DEF CandidateOf, Items, Offsets
  <2>5. l = limit
    BY <2>1, <2>2, <2>4, PreviousBoundaryIsUnique DEF InteriorLimit
  <2>6. t.start < Top.start + 0
    BY <1>2, <2>2, <2>4, <2>5 DEF Searching, InteriorCursor
  <2>7. Top.start <= t.start /\ t.start \in Nat
    BY <1>2, <2>4, FragmentAssumption DEF Inside, Spans, Offsets
  <2> QED BY <2>4, <2>6, <2>7
<1> QED BY <1>3, <1>4

LEMMA InteriorMatchKeepsInteriorInv ==
  ASSUME TypeOK, SweepInv, InteriorInv, InteriorMatch
  PROVE  InteriorInv'
<1>1. PICK m \in FindIn(pattern[cursor.rule], cursor.base, cursor.limit, cursor.at) :
            /\ Push(queue, ItemFor(cursor.rule, Rebased(m, cursor.base), cursor.retries))
            /\ cursor' = [cursor EXCEPT !.at = After(m)]
  BY DEF InteriorMatch
<1>2. /\ cursor.base \in Offsets /\ cursor.limit \in Offsets /\ cursor.at \in Offsets
      /\ cursor.rule \in Rules
      /\ IsPattern(pattern[cursor.rule]) /\ ~ pattern[cursor.rule].anchored
  BY DEF TypeOK, Cursors, SweepInv, InteriorMatch
<1> DEFINE found == Rebased(m, cursor.base)
<1>3. /\ found \in Spans /\ cursor.base + cursor.at <= found.start /\ found.end <= cursor.limit
      /\ m.end = found.end - cursor.base
  BY <1>2, FindInIsAMatch
<1>4. /\ found.start \in Nat /\ found.end \in Nat /\ cursor.base \in Nat /\ cursor.at \in Nat
  BY <1>2, <1>3, FragmentAssumption DEF Spans, Offsets
<1> HIDE DEF found
<1> DEFINE item == ItemFor(cursor.rule, found, cursor.retries)
<1>5. queued' = queued \union {item}
  BY <1>1 DEF Push, found
<1>6. item.rule = cursor.rule /\ item.start = found.start /\ item.end = found.end
  BY DEF ItemFor
<1>7. /\ cursor'.rule = cursor.rule /\ cursor'.base = cursor.base /\ cursor'.limit = cursor.limit
      /\ cursor'.base + cursor'.at = found.end
  BY <1>1, <1>3, <1>4 DEF TypeOK, Cursors, After
<1>8. pc = "interior" /\ pc' = pc /\ pattern' = pattern /\ shrunk' = shrunk
  BY DEF InteriorMatch
<1> HIDE DEF item
<1>9. SUFFICES ASSUME NEW c \in shrunk, NEW limit \in PreviousBoundary(c.start, c.end),
                      NEW t \in Spans, Covers(pattern[c.rule], t), Inside(t, c.start, limit),
                      Searching(c, limit)' => t.start < cursor'.base + cursor'.at
               PROVE  \E v \in queued' : /\ v.rule = c.rule /\ Inside(v, c.start, limit)
                                         /\ v.start <= t.start /\ t.start < v.end
  BY <1>8 DEF InteriorInv
<1>10. t.start \in Nat /\ t.end \in Nat
  BY FragmentAssumption DEF Spans, Offsets
<1>11. Searching(c, limit) <=> Searching(c, limit)'
  BY <1>7, <1>8 DEF Searching
<1>12. CASE Searching(c, limit) /\ cursor.base + cursor.at <= t.start
  <2>1. cursor.rule = c.rule /\ cursor.base = c.start /\ cursor.limit = limit
    BY <1>12 DEF Searching
  <2>2. t.start < found.end
    BY <1>7, <1>9, <1>11, <1>12
  <2>3. found.start <= t.start
    BY <1>1, <1>2, <1>9, <1>12, <2>1, FindInIsNoLater DEF Inside, found
  <2>4. Inside(item, c.start, limit)
    BY <1>2, <1>3, <1>4, <1>6, <2>1 DEF Inside, Offsets
  <2> QED BY <1>5, <1>6, <2>1, <2>2, <2>3, <2>4
<1>13. CASE ~ (Searching(c, limit) /\ cursor.base + cursor.at <= t.start)
  <2>1. Searching(c, limit) => t.start < cursor.base + cursor.at
    BY <1>4, <1>10, <1>13
  <2> QED BY <1>5, <1>9, <2>1 DEF InteriorInv
<1> QED BY <1>12, <1>13

LEMMA InteriorDoneKeepsInteriorInv ==
  ASSUME TypeOK, SweepInv, InteriorInv, InteriorDone
  PROVE  InteriorInv'
<1>1. /\ cursor.base \in Offsets /\ cursor.limit \in Offsets /\ cursor.at \in Offsets
      /\ cursor.rule \in Rules
      /\ IsPattern(pattern[cursor.rule]) /\ ~ pattern[cursor.rule].anchored
      /\ cursor.base \in Nat /\ cursor.at \in Nat
  BY FragmentAssumption DEF TypeOK, Cursors, SweepInv, InteriorDone, Offsets
<1>2. /\ queued' = queued /\ pattern' = pattern /\ shrunk' = shrunk
      /\ FindIn(pattern[cursor.rule], cursor.base, cursor.limit, cursor.at) = {}
  BY DEF InteriorDone
<1>3. SUFFICES ASSUME NEW c \in shrunk, NEW limit \in PreviousBoundary(c.start, c.end),
                      NEW t \in Spans, Covers(pattern[c.rule], t), Inside(t, c.start, limit)
               PROVE  Searching(c, limit) => t.start < cursor.base + cursor.at
  BY <1>2 DEF InteriorInv
<1>4. t.start \in Nat
  BY FragmentAssumption DEF Spans, Offsets
<1>5. CASE Searching(c, limit) /\ cursor.base + cursor.at <= t.start
  BY <1>1, <1>2, <1>3, <1>5, FindInIsNoLater DEF Inside, Searching
<1> QED BY <1>1, <1>4, <1>5

LEMMA StepInteriorInv ==
  ASSUME TypeOK, SweepInv, InteriorInv, [Next]_loopVars
  PROVE  InteriorInv'
<1>1. CASE Reject
  BY <1>1, RejectKeepsInteriorInv
<1>2. CASE InteriorMatch
  BY <1>2, InteriorMatchKeepsInteriorInv
<1>3. CASE InteriorDone
  BY <1>3, InteriorDoneKeepsInteriorInv
<1>4. CASE Compile \/ CollectMatch \/ CollectNextRule \/ Skip \/ Accept \/ Drain
  <2>1. pc # "interior" /\ shrunk' = shrunk
    BY <1>4 DEF Compile, CollectMatch, CollectNextRule, Skip, Accept, Drain
  <2>2. \A c, limit : ~ Searching(c, limit)
    BY <2>1 DEF Searching
  <2> QED BY <2>1, <2>2, QueuedGrows DEF InteriorInv
<1>5. CASE UNCHANGED loopVars
  BY <1>5 DEF loopVars, InteriorInv, Searching
<1> QED BY <1>1, <1>2, <1>3, <1>4, <1>5 DEF Next

-----------------------------------------------------------------------------
(* Resume: while the budget lasts, the reading past a rejection is queued. *)

LEMMA NextBoundaryIsUnique ==
  ASSUME NEW at, NEW b \in NextBoundary(at), NEW d \in NextBoundary(at)
  PROVE  b = d
<1>1. b \in Boundaries /\ d \in Boundaries /\ b <= d /\ d <= b
  BY DEF NextBoundary
<1>2. b \in Nat /\ d \in Nat
  BY <1>1, FragmentAssumption
<1> QED BY <1>1, <1>2

LEMMA ResumedItemIsTheMatch ==
  ASSUME NEW item \in Items, IsPattern(pattern[item.rule]), MayResume(item),
         NEW from \in NextBoundary(item.start), NEW m \in FindFrom(pattern[item.rule], from)
  PROVE  /\ ResumedItems(item) # {}
         /\ \A x \in ResumedItems(item) :
              CandidateOf(x) = [rule |-> item.rule, start |-> m.start, end |-> m.end]
<1>1. ResumedItems(item) # {}
  BY DEF ResumedItems
<1>2. ASSUME NEW x \in ResumedItems(item)
      PROVE  CandidateOf(x) = [rule |-> item.rule, start |-> m.start, end |-> m.end]
  <2>1. PICK f \in NextBoundary(item.start) : \E n \in FindFrom(pattern[item.rule], f) :
               x = ItemFor(item.rule, n, item.retries)
    BY <1>2 DEF ResumedItems
  <2>2. f = from
    BY NextBoundaryIsUnique
  <2>3. PICK n \in FindFrom(pattern[item.rule], from) : x = ItemFor(item.rule, n, item.retries)
    BY <2>1, <2>2
  <2>4. from \in Nat /\ Size \in Nat
    BY NextBoundaryIsAnOffset, FragmentAssumption DEF Offsets
  <2>5. n = m
    BY <2>4, LeftmostIsUnique DEF FindFrom
  <2> QED BY <2>3, <2>5 DEF ItemFor, CandidateOf
<1> QED BY <1>1, <1>2

LEMMA RejectKeepsResumeInv ==
  ASSUME TypeOK, ResumeInv, Reject
  PROVE  ResumeInv'
<1>1. /\ queue # <<>> /\ Resume(Top) /\ visited' = visited \union {CandidateOf(Top)}
      /\ pattern' = pattern /\ accepted' = accepted /\ Top \in Items
      /\ queued \subseteq queued'
  BY QueuedGrows, TopIsAnItem DEF Reject, Next
<1>2. SUFFICES ASSUME fragmentResumes' < ResumePerFragment, NEW c \in Rejected',
                      c.rule \in Resuming, NEW from \in NextBoundary(c.start),
                      NEW m \in FindFrom(pattern[c.rule], from)
               PROVE  \E item \in queued' :
                        CandidateOf(item) = [rule |-> c.rule, start |-> m.start, end |-> m.end]
  BY <1>1 DEF ResumeInv
<1>3. fragmentResumes < ResumePerFragment
  BY <1>1, <1>2, LoopAssumption DEF Resume, TypeOK
<1>4. CASE c \in visited
  <2>1. c \in Rejected
    BY <1>1, <1>2, <1>4 DEF Rejected, AcceptedCandidates
  <2> QED BY <1>1, <1>2, <1>3, <2>1 DEF ResumeInv
<1>5. CASE c \notin visited
  <2>1. c = CandidateOf(Top)
    BY <1>1, <1>2, <1>5 DEF Rejected
  <2>2. c.rule = Top.rule /\ c.start = Top.start
    BY <2>1 DEF CandidateOf
  <2>3. MayResume(Top) /\ IsPattern(pattern[Top.rule])
    BY <1>1, <1>2, <1>3, <2>2 DEF MayResume, TypeOK, Items
  <2>4. /\ ResumedItems(Top) # {}
        /\ \A x \in ResumedItems(Top) :
             CandidateOf(x) = [rule |-> c.rule, start |-> m.start, end |-> m.end]
    BY <1>1, <1>2, <2>2, <2>3, ResumedItemIsTheMatch
  <2>5. PICK later \in SUBSET ResumedItems(Top) : queued' = queued \union later /\ later # {}
    BY <1>1, <2>4, ResumedMatches
  <2> QED BY <2>4, <2>5
<1> QED BY <1>4, <1>5

(* What is accepted was rejected neither before nor now. *)
LEMMA AcceptRejectsNothing ==
  ASSUME TypeOK, Accept
  PROVE  Rejected' \subseteq Rejected
<1>1. visited' = visited \union {CandidateOf(Top)} /\ queue # <<>>
  BY DEF Accept
<1>2. PICK s \in VerdictSpans(Top) : accepted' = Append(accepted, EntityFrom(Top, s))
  BY DEF Accept
<1>3. EntityFrom(Top, s).candidate = CandidateOf(Top)
  BY DEF EntityFrom, CandidateOf
<1>4. EntityFrom(Top, s) \in AcceptedEntries
  BY <1>1, TopIsAnItem, ItemIsACandidate
  DEF EntityFrom, AcceptedEntries, VerdictSpans, Spans, CandidateOf
<1>5. ItemsOn(accepted') = ItemsOn(accepted) \union {EntityFrom(Top, s)}
  BY <1>2, <1>4, ItemsOnAppend DEF TypeOK
<1>6. AcceptedCandidates' = AcceptedCandidates \union {CandidateOf(Top)}
  <2>1. AcceptedCandidates = {e.candidate : e \in ItemsOn(accepted)}
    BY DEF AcceptedCandidates, ItemsOn
  <2>2. AcceptedCandidates' = {e.candidate : e \in ItemsOn(accepted')}
    BY DEF AcceptedCandidates, ItemsOn
  <2> QED BY <1>3, <1>5, <2>1, <2>2
<1> QED BY <1>1, <1>6 DEF Rejected

LEMMA StepResumeInv ==
  ASSUME TypeOK, ResumeInv, [Next]_loopVars
  PROVE  ResumeInv'
<1>1. CASE Reject
  BY <1>1, RejectKeepsResumeInv
<1>2. CASE Accept
  BY <1>2, AcceptRejectsNothing DEF Accept, ResumeInv
<1>3. CASE UNCHANGED <<pattern, visited, accepted, fragmentResumes>>
  BY <1>3, QueuedGrows DEF ResumeInv, Rejected, AcceptedCandidates
<1>4. ~ Accept /\ ~ Reject => UNCHANGED <<pattern, visited, accepted, fragmentResumes>>
  BY DEF Next, loopVars, Compile, CollectMatch, CollectNextRule, Skip, InteriorMatch, InteriorDone,
         Drain
<1> QED BY <1>1, <1>2, <1>3, <1>4

-----------------------------------------------------------------------------
(* The invariant as a whole. *)

LEMMA InitLoopInv == Init => LoopInv
<1> SUFFICES ASSUME Init PROVE LoopInv
  OBVIOUS
<1>1. TypeOK
  BY InitTypeOK
<1>2. ItemsOn(<<>>) = {}
  BY DEF ItemsOn
<1>3. QueueInv
  BY <1>2 DEF Init, QueueInv
<1>4. VerdictInv /\ Rejected = {}
  BY DEF Init, VerdictInv, AcceptedCandidates, AcceptedOnce, Rejected
<1>5. BudgetInv
  BY FS_EmptySet DEF Init, BudgetInv
<1>6. SweepInv
  BY DEF Init, SweepInv, Passed
<1>7. SlicesOnBoundaries /\ InteriorInv /\ ResumeInv
  BY <1>4 DEF Init, SlicesOnBoundaries, InteriorInv, ResumeInv
<1> QED BY <1>1, <1>3, <1>4, <1>5, <1>6, <1>7 DEF LoopInv

LEMMA StepLoopInv == LoopInv /\ [Next]_loopVars => LoopInv'
BY StepTypeOK, StepQueueInv, StepVerdictInv, StepBudgetInv, StepSlicesOnBoundaries, StepSweepInv,
   StepInteriorInv, StepResumeInv
DEF LoopInv

THEOREM LoopInvariant == Spec => []LoopInv
BY InitLoopInv, StepLoopInv, PTL DEF Spec

-----------------------------------------------------------------------------
(* Consequences: once the queue is empty, queued items have been validated. *)

LEMMA EmptyQueueIsExamined ==
  ASSUME QueueInv, queue = <<>>
  PROVE  \A item \in queued : CandidateOf(item) \in visited
BY DEF QueueInv, ItemsOn

LEMMA EmptyQueueSweeps ==
  ASSUME LoopInv, queue = <<>>, pc \in {"pop", "drained"}
  PROVE  Sweeps(visited, pattern)
<1>1. SUFFICES ASSUME NEW r \in Rules, NEW t \in Spans, Covers(pattern[r], t)
               PROVE  \E v \in visited : v.rule = r /\ v.start <= t.start /\ t.start < v.end
  BY DEF Sweeps
<1>2. PICK item \in queued : item.rule = r /\ item.start <= t.start /\ t.start < item.end
  BY <1>1 DEF LoopInv, SweepInv, Passed
<1>3. CandidateOf(item) \in visited
  BY EmptyQueueIsExamined DEF LoopInv
<1> QED BY <1>2, <1>3 DEF CandidateOf

LEMMA DrainedInteriors == LoopInv => InteriorExamined
<1>1. SUFFICES ASSUME LoopInv, pc = "drained", NEW c \in shrunk,
                      NEW limit \in PreviousBoundary(c.start, c.end), NEW t \in Spans,
                      Covers(pattern[c.rule], t), Inside(t, c.start, limit)
               PROVE  \E v \in visited : /\ v.rule = c.rule /\ Inside(v, c.start, limit)
                                         /\ v.start <= t.start /\ t.start < v.end
  BY DEF InteriorExamined
<1>2. ~ Searching(c, limit)
  BY <1>1 DEF Searching
<1>3. PICK item \in queued : /\ item.rule = c.rule /\ Inside(item, c.start, limit)
                             /\ item.start <= t.start /\ t.start < item.end
  BY <1>1, <1>2 DEF LoopInv, InteriorInv
<1>4. CandidateOf(item) \in visited
  BY <1>1, EmptyQueueIsExamined DEF LoopInv, QueueInv
<1> QED BY <1>3, <1>4 DEF CandidateOf, Inside

LEMMA DrainedResumes == LoopInv => ResumeTried
<1>1. SUFFICES ASSUME LoopInv, pc = "drained", fragmentResumes < ResumePerFragment,
                      NEW c \in Rejected, c.rule \in Resuming,
                      NEW from \in NextBoundary(c.start), NEW m \in FindFrom(pattern[c.rule], from)
               PROVE  [rule |-> c.rule, start |-> m.start, end |-> m.end] \in visited
  BY DEF ResumeTried
<1>2. PICK item \in queued : CandidateOf(item) = [rule |-> c.rule, start |-> m.start, end |-> m.end]
  BY <1>1 DEF LoopInv, ResumeInv
<1> QED BY <1>1, <1>2, EmptyQueueIsExamined DEF LoopInv, QueueInv

(***************************************************************************)
(* Whatever reaches a validator is a match of that rule's own pattern at   *)
(* that place, also when its offsets were rebased from a slice.            *)
(***************************************************************************)
THEOREM ValidatedMatches == Spec => []OnlyMatchesValidated
<1>1. LoopInv => OnlyMatchesValidated
  BY DEF LoopInv, VerdictInv, OnlyMatchesValidated
<1> QED BY <1>1, LoopInvariant, PTL

(* No candidate makes two entities, however many lineages queued it. *)
THEOREM CandidatesAcceptedOnce == Spec => []AcceptedOnce
<1>1. LoopInv => AcceptedOnce
  BY DEF LoopInv, VerdictInv
<1> QED BY <1>1, LoopInvariant, PTL

(* The slice of every interior search starts and ends on a character: it cannot panic. *)
THEOREM SlicingNeverPanics == Spec => []SlicesOnBoundaries
<1>1. LoopInv => SlicesOnBoundaries
  BY DEF LoopInv
<1> QED BY <1>1, LoopInvariant, PTL

(* fragment_retries counts the searched interiors exactly, and never passes the budget. *)
THEOREM SearchBudgetExact ==
  Spec => [](RetriesCountSearches /\ fragmentRetries <= RetryPerFragment)
<1>1. LoopInv => RetriesCountSearches /\ fragmentRetries <= RetryPerFragment
  BY LoopAssumption DEF LoopInv, BudgetInv, RetriesCountSearches, TypeOK
<1> QED BY <1>1, LoopInvariant, PTL

(* The drained loop has validated everything it ever queued. *)
THEOREM NothingProposedIsDropped == Spec => []ProposedIsValidated
<1>1. LoopInv => ProposedIsValidated
  BY EmptyQueueIsExamined DEF LoopInv, QueueInv, ProposedIsValidated
<1> QED BY <1>1, LoopInvariant, PTL

(* Every match of every rule starts inside a validated span of that rule. *)
THEOREM PrefilterCompleteness == Spec => []NoMatchUnexamined
<1>1. LoopInv => NoMatchUnexamined
  BY EmptyQueueSweeps DEF LoopInv, QueueInv, NoMatchUnexamined
<1> QED BY <1>1, LoopInvariant, PTL

(* Every match inside a searched rejection starts inside a validated span inside it. *)
THEOREM RecoveryCompleteness == Spec => []InteriorExamined
BY DrainedInteriors, LoopInvariant, PTL

(* With budget left, the reading past a rejection of a resuming rule has been validated. *)
THEOREM ResumeCompleteness == Spec => []ResumeTried
BY DrainedResumes, LoopInvariant, PTL

-----------------------------------------------------------------------------
(* The loop implements ScanPromise. *)

(* The instance's copies of the operators on constants are the operators themselves. *)
LEMMA PromiseVocabulary ==
  /\ Promise!Rules = Rules
  /\ Promise!Candidates = Candidates
  /\ \A c : Promise!SpanOf(c) = SpanOf(c) /\ Promise!VerdictSpans(c) = VerdictSpans(c)
  /\ \A pat, s : Promise!Covers(pat, s) <=> Covers(pat, s)
  /\ \A c, s : Promise!EntityFrom(c, s) = EntityFrom(c, s)
  /\ \A v, p : Promise!Sweeps(v, p) <=> Sweeps(v, p)
<1>1. Promise!Rules = Rules /\ Promise!Offsets = Offsets
  BY DEF Promise!Rules, Rules, Promise!Offsets, Offsets
<1>2. Promise!Spans = Spans
  BY <1>1 DEF Promise!Spans, Spans
<1>3. Promise!Candidates = Candidates
  BY <1>1 DEF Promise!Candidates, Candidates
<1>4. \A c : Promise!SpanOf(c) = SpanOf(c) /\ Promise!VerdictSpans(c) = VerdictSpans(c)
  BY <1>2 DEF Promise!SpanOf, SpanOf, Promise!VerdictSpans, VerdictSpans
<1>5. \A pat, s : Promise!Covers(pat, s) <=> Covers(pat, s)
  BY DEF Promise!Covers, Covers, Promise!Fits, Fits
<1>6. \A c, s : Promise!EntityFrom(c, s) = EntityFrom(c, s)
  BY DEF Promise!EntityFrom, EntityFrom
<1>7. \A v, p : Promise!Sweeps(v, p) <=> Sweeps(v, p)
  BY <1>1, <1>2, <1>5 DEF Promise!Sweeps, Sweeps
<1> QED BY <1>1, <1>3, <1>4, <1>5, <1>6, <1>7

LEMMA InitPromise == Init => Promise!Init
<1> SUFFICES ASSUME Init PROVE Promise!Init
  OBVIOUS
<1>1. pattern \in PatternSets
  BY DEF Init
<1>2. visited = {} /\ {accepted[i] : i \in DOMAIN accepted} = {}
  BY DEF Init
<1>3. (pc = "drained") = FALSE
  BY DEF Init
<1> QED BY Zenon, <1>1, <1>2, <1>3 DEF Promise!Init

Reported == {accepted[i] : i \in DOMAIN accepted}

LEMMA ExamineStep ==
  ASSUME LoopInv, pc = "pop", queue # <<>>, ~ Seen(Top),
         visited' = visited \union {CandidateOf(Top)}, pattern' = pattern, pc' # "drained",
         \/ Reported' = Reported
         \/ \E s \in VerdictSpans(Top) : Reported' = Reported \union {EntityFrom(Top, s)}
  PROVE  Promise!Next
<1>0. PICK c \in Candidates : c = CandidateOf(Top)
  BY TopIsAnItem, ItemIsACandidate DEF LoopInv
<1>1. c \in Candidates /\ c \notin visited
  BY <1>0 DEF Seen
<1>2. Covers(pattern[c.rule], SpanOf(c))
  BY <1>0, PoppedItems DEF LoopInv, QueueInv, CandidateOf, SpanOf
<1>3. VerdictSpans(c) = VerdictSpans(Top) /\ \A s : EntityFrom(c, s) = EntityFrom(Top, s)
  BY <1>0 DEF VerdictSpans, EntityFrom, CandidateOf
<1>4. \/ Reported' = Reported
      \/ \E s \in VerdictSpans(c) : Reported' = Reported \union {EntityFrom(c, s)}
  BY <1>3
<1>5. ~ (pc = "drained") /\ (pc = "drained")' = (pc = "drained")
  OBVIOUS
<1>6. visited' = visited \union {c}
  BY <1>0
<1>7. UNCHANGED <<pattern, pc = "drained">>
  BY <1>5
<1>8. Promise!Covers(pattern[c.rule], Promise!SpanOf(c))
  BY <1>2, PromiseVocabulary
<1>9. \/ Reported' = Reported
      \/ \E s \in Promise!VerdictSpans(c) : Reported' = Reported \union {Promise!EntityFrom(c, s)}
  BY <1>4, PromiseVocabulary
<1>10. Promise!Examine(c)
  BY Zenon, <1>1, <1>5, <1>6, <1>7, <1>8, <1>9 DEF Promise!Examine, Reported
<1>11. c \in Promise!Candidates
  BY <1>1, PromiseVocabulary
<1> QED BY Zenon, <1>10, <1>11 DEF Promise!Next

LEMMA StepPromise ==
  ASSUME LoopInv, [Next]_loopVars
  PROVE  [Promise!Next]_(Promise!promiseVars)
<1>1. CASE Accept
  <2>1. PICK s \in VerdictSpans(Top) : accepted' = Append(accepted, EntityFrom(Top, s))
    BY <1>1 DEF Accept
  <2>2. EntityFrom(Top, s) \in AcceptedEntries
    BY <1>1, <2>1, TopIsAnItem, ItemIsACandidate
    DEF EntityFrom, AcceptedEntries, VerdictSpans, Spans, CandidateOf, Accept, LoopInv
  <2>3. Reported' = Reported \union {EntityFrom(Top, s)}
    BY <2>1, <2>2, ItemsOnAppend DEF LoopInv, TypeOK, ItemsOn, Reported
  <2>4. Promise!Next
    BY <1>1, <2>3, ExamineStep DEF Accept
  <2> QED BY <2>4
<1>2. CASE Reject
  <2>1. pc' # "drained" /\ Reported' = Reported
    BY <1>2 DEF Reject, Shrink, Reported
  <2>2. Promise!Next
    BY <1>2, <2>1, ExamineStep DEF Reject
  <2> QED BY <2>2
<1>3. CASE Drain
  <2>1. Sweeps(visited, pattern)
    BY <1>3, EmptyQueueSweeps DEF Drain
  <2>2. ~ (pc = "drained") /\ (pc = "drained")' = TRUE
    BY <1>3 DEF Drain
  <2>3. UNCHANGED <<pattern, visited, accepted>>
    BY <1>3 DEF Drain
  <2>4. Promise!Finish
    BY Zenon, <2>1, <2>2, <2>3, PromiseVocabulary DEF Promise!Finish
  <2> QED BY <2>4 DEF Promise!Next
<1>4. CASE Compile \/ CollectMatch \/ CollectNextRule \/ Skip \/ InteriorMatch \/ InteriorDone
  <2>1. pc # "drained" /\ pc' # "drained" /\ UNCHANGED <<pattern, visited, accepted>>
    BY <1>4 DEF Compile, CollectMatch, CollectNextRule, Skip, InteriorMatch, InteriorDone
  <2> QED BY <2>1 DEF Promise!promiseVars
<1>5. CASE UNCHANGED loopVars
  BY <1>5 DEF loopVars, Promise!promiseVars
<1> QED BY <1>1, <1>2, <1>3, <1>4, <1>5 DEF Next

(***************************************************************************)
(* The work list, with its stack, its retries, its resumes and its         *)
(* budgets, does what ScanPromise says and nothing else: it validates      *)
(* matches, each once, reports only what was accepted, and is not done     *)
(* before every match was validated or overlapped by one that was.         *)
(***************************************************************************)
THEOREM LoopKeepsPromise == Spec => KeepsPromise
BY InitPromise, StepPromise, LoopInvariant, PTL DEF Spec, KeepsPromise, Promise!Spec

-----------------------------------------------------------------------------
(* The stack drains rule by rule, from the last to the first. *)

RuleOrderInv ==
  /\ \A i, j \in DOMAIN queue : i < j => queue[i].rule <= queue[j].rule
  /\ LaterRulesFirst
  /\ \A i \in DOMAIN queue : \A j \in DOMAIN accepted : queue[i].rule <= accepted[j].candidate.rule
  /\ pc \in {"collect", "interior"} => \A i \in DOMAIN queue : queue[i].rule <= cursor.rule
  /\ pc = "interior" => \A j \in DOMAIN accepted : cursor.rule <= accepted[j].candidate.rule
  /\ pc \in {"compile", "collect"} => accepted = <<>>
  /\ pc = "compile" => queue = <<>>

LEMMA RulesAreNumbers ==
  ASSUME TypeOK
  PROVE  /\ cursor.rule \in Nat
         /\ \A i \in DOMAIN queue : queue[i] \in Items /\ queue[i].rule \in Nat
         /\ \A j \in DOMAIN accepted : accepted[j].candidate.rule \in Nat
         /\ DOMAIN queue = 1..Len(queue) /\ Len(queue) \in Nat
         /\ DOMAIN accepted = 1..Len(accepted) /\ Len(accepted) \in Nat
<1>1. Rules \subseteq Nat
  BY RulesAssumption DEF Rules
<1>2. cursor.rule \in Rules
  BY DEF TypeOK, Cursors
<1>3. /\ \A i \in DOMAIN queue : queue[i] \in Items
      /\ \A j \in DOMAIN accepted : accepted[j] \in AcceptedEntries
      /\ DOMAIN queue = 1..Len(queue) /\ Len(queue) \in Nat
      /\ DOMAIN accepted = 1..Len(accepted) /\ Len(accepted) \in Nat
  BY LenProperties DEF TypeOK
<1>4. \A i \in DOMAIN queue : queue[i].rule \in Rules
  BY <1>3 DEF Items
<1>5. \A j \in DOMAIN accepted : accepted[j].candidate.rule \in Rules
  BY <1>3 DEF AcceptedEntries, Candidates
<1> QED BY <1>1, <1>2, <1>3, <1>4, <1>5

(* What is pushed on a stack q of at most rule r's items, for rule r, leaves it in order. *)
LEMMA PushKeepsRuleOrder ==
  ASSUME NEW q \in Seq(Items), NEW item \in Items, Push(q, item),
         \A i, j \in DOMAIN q : i < j => q[i].rule <= q[j].rule,
         \A i \in DOMAIN q : q[i].rule <= item.rule
  PROVE  /\ \A i, j \in DOMAIN queue' : i < j => queue'[i].rule <= queue'[j].rule
         /\ \A i \in DOMAIN queue' : queue'[i].rule <= item.rule
<1>1. /\ Len(q) \in Nat /\ DOMAIN q = 1..Len(q)
      /\ Len(queue') = Len(q) + 1 /\ DOMAIN queue' = 1..(Len(q) + 1)
      /\ \A i \in 1..Len(q) : queue'[i] = q[i]
      /\ queue'[Len(q) + 1] = item
  <2>1. queue' = Append(q, item) /\ queue' \in Seq(Items)
    BY StackOps DEF Push
  <2>2. Len(queue') = Len(q) + 1 /\ DOMAIN queue' = 1..Len(queue')
    BY <2>1, StackOps
  <2> QED BY <2>1, <2>2, StackOps
<1>2. item.rule \in Nat
  BY RulesAssumption DEF Items, Rules
<1>3. \A i \in DOMAIN queue' : i \in DOMAIN q \/ i = Len(q) + 1
  BY <1>1
<1> QED BY <1>1, <1>2, <1>3

(* Popping keeps the stack in order, and what is left belongs to no later rule than the top. *)
LEMMA PopKeepsRuleOrder ==
  ASSUME TypeOK, RuleOrderInv, queue # <<>>
  PROVE  /\ Popped \in Seq(Items)
         /\ \A i, j \in DOMAIN Popped : i < j => Popped[i].rule <= Popped[j].rule
         /\ \A i \in DOMAIN Popped : Popped[i].rule <= Top.rule
         /\ \A i \in DOMAIN Popped : \A j \in DOMAIN accepted :
              Popped[i].rule <= accepted[j].candidate.rule
         /\ \A j \in DOMAIN accepted : Top.rule <= accepted[j].candidate.rule
<1>1. /\ Popped \in Seq(Items) /\ Len(Popped) = Len(queue) - 1
      /\ \A i \in 1..(Len(queue) - 1) : Popped[i] = queue[i]
      /\ DOMAIN queue = 1..Len(queue) /\ Len(queue) \in Nat
  BY StackOps DEF TypeOK, Popped
<1>2. DOMAIN Popped = 1..(Len(queue) - 1)
  BY <1>1, LenProperties
<1>3. Len(queue) # 0
  BY EmptySeq DEF TypeOK
<1>4. Top = queue[Len(queue)] /\ Len(queue) \in DOMAIN queue
  BY <1>1, <1>3 DEF Top
<1> QED BY <1>1, <1>2, <1>4 DEF RuleOrderInv

LEMMA RejectKeepsRuleOrder ==
  ASSUME TypeOK, RuleOrderInv, Reject
  PROVE  RuleOrderInv'
<1>1. /\ queue # <<>> /\ pc = "pop" /\ Resume(Top) /\ Shrink(Top) /\ accepted' = accepted
  BY DEF Reject
<1>2. /\ Popped \in Seq(Items)
      /\ \A i, j \in DOMAIN Popped : i < j => Popped[i].rule <= Popped[j].rule
      /\ \A i \in DOMAIN Popped : Popped[i].rule <= Top.rule
      /\ \A j \in DOMAIN accepted : Top.rule <= accepted[j].candidate.rule
  BY <1>1, PopKeepsRuleOrder
<1>3. /\ \A i, j \in DOMAIN queue' : i < j => queue'[i].rule <= queue'[j].rule
      /\ \A i \in DOMAIN queue' : queue'[i].rule <= Top.rule
      /\ queue' \in Seq(Items)
  <2>1. CASE ResumedItems(Top) = {}
    BY <1>1, <1>2, <2>1 DEF Resume
  <2>2. CASE ResumedItems(Top) # {}
    <3>1. PICK item \in ResumedItems(Top) : Push(Popped, item)
      BY <1>1, <2>2 DEF Resume
    <3>2. item \in Items
      BY <1>1, ResumedMatches
    <3>3. item.rule = Top.rule
      BY DEF ResumedItems, ItemFor
    <3>4. queue' \in Seq(Items)
      BY <1>2, <3>1, <3>2, StackOps DEF Push
    <3> QED BY <1>2, <3>1, <3>2, <3>3, <3>4, PushKeepsRuleOrder
  <2> QED BY <2>1, <2>2
<1>4. pc' = "interior" => cursor'.rule = Top.rule
  BY <1>1 DEF Shrink, InteriorCursor
<1>5. pc' \in {"pop", "interior"}
  BY <1>1 DEF Shrink
<1>6. Top.rule \in Nat /\ \A j \in DOMAIN accepted : accepted[j].candidate.rule \in Nat
  BY <1>1, RulesAreNumbers, TopIsAnItem, RulesAssumption DEF Items, Rules
<1>7. \A i \in DOMAIN queue' : queue'[i].rule \in Nat
  BY <1>3, LenProperties, RulesAssumption DEF Items, Rules
<1>8. \A i \in DOMAIN queue' : \A j \in DOMAIN accepted : queue'[i].rule <= accepted[j].candidate.rule
  BY <1>2, <1>3, <1>6, <1>7
<1> QED BY <1>1, <1>2, <1>3, <1>4, <1>5, <1>8 DEF RuleOrderInv, LaterRulesFirst

LEMMA AcceptKeepsRuleOrder ==
  ASSUME TypeOK, RuleOrderInv, Accept
  PROVE  RuleOrderInv'
<1>1. queue # <<>> /\ pc = "pop" /\ pc' = "pop" /\ queue' = Popped
  BY DEF Accept
<1>2. /\ \A i, j \in DOMAIN Popped : i < j => Popped[i].rule <= Popped[j].rule
      /\ \A i \in DOMAIN Popped : Popped[i].rule <= Top.rule
      /\ \A i \in DOMAIN Popped : \A j \in DOMAIN accepted :
           Popped[i].rule <= accepted[j].candidate.rule
      /\ \A j \in DOMAIN accepted : Top.rule <= accepted[j].candidate.rule
  BY <1>1, PopKeepsRuleOrder
<1>3. PICK s \in VerdictSpans(Top) : accepted' = Append(accepted, EntityFrom(Top, s))
  BY DEF Accept
<1>4. EntityFrom(Top, s) \in AcceptedEntries /\ EntityFrom(Top, s).candidate.rule = Top.rule
  BY <1>1, TopIsAnItem, ItemIsACandidate
  DEF EntityFrom, AcceptedEntries, VerdictSpans, Spans, CandidateOf
<1>5. /\ Len(accepted) \in Nat /\ DOMAIN accepted = 1..Len(accepted)
      /\ accepted' \in Seq(AcceptedEntries) /\ Len(accepted') = Len(accepted) + 1
      /\ \A i \in 1..Len(accepted) : accepted'[i] = accepted[i]
      /\ accepted'[Len(accepted) + 1] = EntityFrom(Top, s)
  BY <1>3, <1>4, StackOps DEF TypeOK
<1>6. DOMAIN accepted' = 1..(Len(accepted) + 1)
  BY <1>5, LenProperties
<1>7. \A j \in DOMAIN accepted' : j \in DOMAIN accepted \/ j = Len(accepted) + 1
  BY <1>5, <1>6
<1>8. Top.rule \in Nat /\ \A j \in DOMAIN accepted : accepted[j].candidate.rule \in Nat
  BY <1>1, RulesAreNumbers, TopIsAnItem, RulesAssumption DEF Items, Rules
<1>9. \A i, j \in DOMAIN accepted' :
        i < j => accepted'[i].candidate.rule >= accepted'[j].candidate.rule
  BY <1>2, <1>4, <1>5, <1>7, <1>8 DEF RuleOrderInv, LaterRulesFirst
<1>10. \A i \in DOMAIN Popped : \A j \in DOMAIN accepted' :
         Popped[i].rule <= accepted'[j].candidate.rule
  BY <1>2, <1>4, <1>5, <1>7
<1> QED BY <1>1, <1>2, <1>9, <1>10 DEF RuleOrderInv, LaterRulesFirst

LEMMA StepRuleOrder ==
  ASSUME TypeOK, RuleOrderInv, [Next]_loopVars
  PROVE  RuleOrderInv'
<1>1. CASE Compile
  BY <1>1 DEF Compile, RuleOrderInv, LaterRulesFirst
<1>2. CASE CollectMatch
  <2>1. PICK m \in FindFrom(pattern[cursor.rule], cursor.at) :
              /\ Push(queue, ItemFor(cursor.rule, m, 0))
              /\ cursor' = [cursor EXCEPT !.at = After(m)]
    BY <1>2 DEF CollectMatch
  <2>2. cursor.at \in Nat /\ cursor.rule \in Rules /\ cursor'.rule = cursor.rule
    BY <2>1, FragmentAssumption DEF TypeOK, Cursors, Offsets
  <2>3. ItemFor(cursor.rule, m, 0) \in Items /\ ItemFor(cursor.rule, m, 0).rule = cursor.rule
    BY <2>2, FindFromIsAMatch, SpanMakesItem, LoopAssumption DEF ItemFor
  <2>4. /\ \A i, j \in DOMAIN queue' : i < j => queue'[i].rule <= queue'[j].rule
        /\ \A i \in DOMAIN queue' : queue'[i].rule <= cursor'.rule
    BY <1>2, <2>1, <2>2, <2>3, PushKeepsRuleOrder DEF RuleOrderInv, TypeOK, CollectMatch
  <2>5. accepted = <<>> /\ accepted' = <<>> /\ pc' = "collect"
    BY <1>2 DEF CollectMatch, RuleOrderInv
  <2> QED BY <2>4, <2>5 DEF RuleOrderInv, LaterRulesFirst
<1>3. CASE CollectNextRule
  <2>1. /\ queue' = queue /\ accepted' = accepted /\ accepted = <<>> /\ pc = "collect"
        /\ pc' \in {"collect", "pop"}
    BY <1>3 DEF CollectNextRule, RuleOrderInv
  <2>2. pc' = "collect" => cursor'.rule = cursor.rule + 1
    BY <1>3 DEF CollectNextRule, IdleCursor
  <2>3. pc' = "collect" => \A i \in DOMAIN queue : queue[i].rule <= cursor'.rule
    BY <2>1, <2>2, RulesAreNumbers DEF RuleOrderInv
  <2> QED BY <2>1, <2>3 DEF RuleOrderInv, LaterRulesFirst
<1>4. CASE Skip
  BY <1>4, PopKeepsRuleOrder DEF Skip, RuleOrderInv, LaterRulesFirst
<1>5. CASE Accept
  BY <1>5, AcceptKeepsRuleOrder
<1>6. CASE Reject
  BY <1>6, RejectKeepsRuleOrder
<1>7. CASE InteriorMatch
  <2>1. PICK m \in FindIn(pattern[cursor.rule], cursor.base, cursor.limit, cursor.at) :
              /\ Push(queue, ItemFor(cursor.rule, Rebased(m, cursor.base), cursor.retries))
              /\ cursor' = [cursor EXCEPT !.at = After(m)]
    BY <1>7 DEF InteriorMatch
  <2>2. /\ cursor.base \in Offsets /\ cursor.limit \in Offsets /\ cursor.at \in Offsets
        /\ cursor.rule \in Rules /\ cursor.retries \in 0..RetryPerCandidate
        /\ cursor'.rule = cursor.rule
    BY <2>1 DEF TypeOK, Cursors
  <2> DEFINE item == ItemFor(cursor.rule, Rebased(m, cursor.base), cursor.retries)
  <2>3. item \in Items /\ item.rule = cursor.rule
    BY <2>2, FindInIsAMatch, SpanMakesItem DEF ItemFor
  <2> HIDE DEF item
  <2>4. Push(queue, item)
    BY <2>1 DEF item
  <2>5. /\ \A i, j \in DOMAIN queue' : i < j => queue'[i].rule <= queue'[j].rule
        /\ \A i \in DOMAIN queue' : queue'[i].rule <= cursor'.rule
    BY <1>7, <2>2, <2>3, <2>4, PushKeepsRuleOrder DEF RuleOrderInv, TypeOK, InteriorMatch
  <2>6. \A i \in DOMAIN queue' : queue'[i].rule \in Nat
    <3>1. queue' \in Seq(Items)
      BY <2>3, <2>4, StackOps DEF Push, TypeOK
    <3> QED BY <3>1, LenProperties, RulesAssumption DEF Items, Rules
  <2>7. \A i \in DOMAIN queue' : \A j \in DOMAIN accepted :
          queue'[i].rule <= accepted[j].candidate.rule
    BY <1>7, <2>2, <2>5, <2>6, RulesAreNumbers DEF RuleOrderInv, InteriorMatch
  <2>8. pc = "interior" /\ pc' = "interior" /\ accepted' = accepted
    BY <1>7 DEF InteriorMatch
  <2> QED BY <2>2, <2>5, <2>7, <2>8 DEF RuleOrderInv, LaterRulesFirst
<1>8. CASE InteriorDone
  BY <1>8 DEF InteriorDone, RuleOrderInv, LaterRulesFirst
<1>9. CASE Drain
  BY <1>9 DEF Drain, RuleOrderInv, LaterRulesFirst
<1>10. CASE UNCHANGED loopVars
  BY <1>10 DEF loopVars, RuleOrderInv, LaterRulesFirst
<1> QED BY <1>1, <1>2, <1>3, <1>4, <1>5, <1>6, <1>7, <1>8, <1>9, <1>10 DEF Next

(***************************************************************************)
(* Entities are accepted rule by rule, from the last rule of rules::all()  *)
(* to the first, however their candidates were shrunk and resumed.         *)
(***************************************************************************)
THEOREM StackDrainsInReverse == Spec => []LaterRulesFirst
<1>1. Init => RuleOrderInv
  BY DEF Init, RuleOrderInv, LaterRulesFirst
<1>2. TypeOK /\ RuleOrderInv /\ [Next]_loopVars => RuleOrderInv'
  BY StepRuleOrder
<1>3. RuleOrderInv => LaterRulesFirst
  BY DEF RuleOrderInv
<1> QED BY <1>1, <1>2, <1>3, TypeCorrect, PTL DEF Spec
-----------------------------------------------------------------------------
(***************************************************************************)
(* Shallow rejections are searched.  What makes the retry count of a       *)
(* candidate unique is that the spans of a rule that does not resume nest  *)
(* like brackets: two spans in the queue are apart, and a validated span   *)
(* is apart from a queued one or properly encloses it.                     *)
(***************************************************************************)
Apart(a, b) == a.end <= b.start \/ b.end <= a.start
Encloses(v, low, high) == v.start <= low /\ high <= v.end /\ (v.start < low \/ high < v.end)

QueueApart(q) ==
  \A i, j \in DOMAIN q :
    i # j /\ q[i].rule = q[j].rule /\ q[i].rule \notin Resuming => Apart(q[i], q[j])

VisitedEncloses(q) ==
  \A i \in DOMAIN q : \A v \in visited :
    v.rule = q[i].rule /\ v.rule \notin Resuming =>
      Apart(v, q[i]) \/ Encloses(v, q[i].start, q[i].end)

(* Around the slice being searched: what is queued ends before the search goes on, or is past it. *)
SliceNests ==
  pc = "interior" /\ cursor.rule \notin Resuming =>
    /\ \A i \in DOMAIN queue : queue[i].rule = cursor.rule =>
         queue[i].end <= cursor.base + cursor.at \/ cursor.limit <= queue[i].start
    /\ \A v \in visited : v.rule = cursor.rule =>
         \/ v.end <= cursor.base \/ cursor.limit <= v.start
         \/ Encloses(v, cursor.base, cursor.limit)

SweepNests ==
  pc = "collect" => \A i \in DOMAIN queue :
    \/ queue[i].rule < cursor.rule
    \/ queue[i].rule = cursor.rule /\ queue[i].end <= cursor.at

NestInv ==
  /\ QueueApart(queue)
  /\ VisitedEncloses(queue)
  /\ SliceNests
  /\ SweepNests
  /\ pc \in {"compile", "collect", "refused"} => visited = {}
  /\ pc = "compile" => queue = <<>>

(* So a candidate of such a rule is proposed once, with one retry count. *)
OneLineage ==
  \A x, y \in queued : x.rule \notin Resuming /\ CandidateOf(x) = CandidateOf(y) => x = y

ShallowInv ==
  fragmentRetries < RetryPerFragment =>
    \A item \in queued :
      /\ item.rule \notin Resuming
      /\ CandidateOf(item) \in Rejected
      /\ item.retries < RetryPerCandidate
      /\ HasMatchInside(item)
      => CandidateOf(item) \in shrunk

LineageInv == NestInv /\ OneLineage /\ ShallowInv

LEMMA ItemIsTyped ==
  ASSUME NEW x \in Items
  PROVE  /\ x.rule \in Rules /\ x.start \in Nat /\ x.end \in Nat /\ x.retries \in Nat
         /\ x.start < x.end
         /\ x = [rule |-> x.rule, start |-> x.start, end |-> x.end, retries |-> x.retries]
BY FragmentAssumption, LoopAssumption DEF Items, Offsets

LEMMA QueueIsTyped ==
  ASSUME TypeOK
  PROVE  /\ queue \in Seq(Items)
         /\ \A i \in DOMAIN queue : queue[i] \in Items
         /\ \A v \in visited : v.rule \in Rules /\ v.start \in Nat /\ v.end \in Nat /\ v.start < v.end
<1>1. queue \in Seq(Items) /\ visited \subseteq Candidates
  BY DEF TypeOK
<1> QED BY <1>1, StackOps, FragmentAssumption DEF Candidates, Offsets

LEMMA PushedPositions ==
  ASSUME NEW q \in Seq(Items), NEW item \in Items, Push(q, item)
  PROVE  /\ queue' \in Seq(Items)
         /\ \A i \in DOMAIN queue' :
              \/ i \in DOMAIN q /\ queue'[i] = q[i]
              \/ i = Len(q) + 1 /\ queue'[i] = item
<1>1. queue' = Append(q, item)
  BY DEF Push
<1>2. /\ queue' \in Seq(Items) /\ Len(queue') = Len(q) + 1 /\ DOMAIN queue' = 1..Len(queue')
      /\ Len(q) \in Nat /\ DOMAIN q = 1..Len(q)
      /\ \A i \in 1..Len(q) : queue'[i] = q[i]
      /\ queue'[Len(q) + 1] = item
  BY <1>1, StackOps
<1> QED BY <1>2

LEMMA PoppedPositions ==
  ASSUME TypeOK, queue # <<>>
  PROVE  /\ Popped \in Seq(Items)
         /\ Len(queue) \in DOMAIN queue /\ queue[Len(queue)] = Top
         /\ \A i \in DOMAIN Popped : i \in DOMAIN queue /\ i # Len(queue) /\ Popped[i] = queue[i]
<1>1. /\ Popped \in Seq(Items) /\ Len(Popped) = Len(queue) - 1
      /\ \A i \in 1..(Len(queue) - 1) : Popped[i] = queue[i]
      /\ DOMAIN queue = 1..Len(queue) /\ Len(queue) \in Nat
  BY StackOps DEF TypeOK, Popped
<1>2. DOMAIN Popped = 1..(Len(queue) - 1)
  BY <1>1, LenProperties
<1>3. Len(queue) # 0
  BY EmptySeq DEF TypeOK
<1> QED BY <1>1, <1>2, <1>3 DEF Top

(* A push keeps the queue apart when the item is apart from what its rule has queued. *)
LEMMA PushKeepsApart ==
  ASSUME NEW q \in Seq(Items), NEW item \in Items, Push(q, item), QueueApart(q),
         item.rule \notin Resuming =>
           \A i \in DOMAIN q : q[i].rule = item.rule => Apart(q[i], item)
  PROVE  QueueApart(queue')
<1>1. \A i \in DOMAIN queue' :
        \/ i \in DOMAIN q /\ queue'[i] = q[i]
        \/ i = Len(q) + 1 /\ queue'[i] = item
  BY PushedPositions
<1>2. \A i \in DOMAIN q : q[i].rule = item.rule /\ item.rule \notin Resuming =>
        Apart(q[i], item) /\ Apart(item, q[i])
  BY DEF Apart
<1> QED BY <1>1, <1>2 DEF QueueApart

LEMMA PopNests ==
  ASSUME TypeOK, NestInv, queue # <<>>
  PROVE  /\ QueueApart(Popped)
         /\ \A i \in DOMAIN Popped : \A v \in visited \union {CandidateOf(Top)} :
              v.rule = Popped[i].rule /\ v.rule \notin Resuming =>
                Apart(v, Popped[i]) \/ Encloses(v, Popped[i].start, Popped[i].end)
         /\ \A i \in DOMAIN Popped : Popped[i].rule = Top.rule /\ Top.rule \notin Resuming =>
              Apart(Popped[i], Top)
         /\ \A v \in visited : v.rule = Top.rule /\ Top.rule \notin Resuming =>
              Apart(v, Top) \/ Encloses(v, Top.start, Top.end)
<1>1. /\ Len(queue) \in DOMAIN queue /\ queue[Len(queue)] = Top
      /\ \A i \in DOMAIN Popped : i \in DOMAIN queue /\ i # Len(queue) /\ Popped[i] = queue[i]
  BY PoppedPositions
<1>2. QueueApart(queue) /\ VisitedEncloses(queue)
  BY DEF NestInv
<1>3. QueueApart(Popped)
  BY <1>1, <1>2 DEF QueueApart
<1>4. \A i \in DOMAIN Popped : Popped[i].rule = Top.rule /\ Top.rule \notin Resuming =>
        Apart(Popped[i], Top) /\ Apart(Top, Popped[i])
  BY <1>1, <1>2 DEF QueueApart
<1>5. \A v \in visited : v.rule = Top.rule /\ Top.rule \notin Resuming =>
        Apart(v, Top) \/ Encloses(v, Top.start, Top.end)
  BY <1>1, <1>2 DEF VisitedEncloses
<1>6. \A i \in DOMAIN Popped : \A v \in visited : v.rule = Popped[i].rule /\ v.rule \notin Resuming =>
        Apart(v, Popped[i]) \/ Encloses(v, Popped[i].start, Popped[i].end)
  BY <1>1, <1>2 DEF VisitedEncloses
<1>7. \A i : Apart(CandidateOf(Top), Popped[i]) <=> Apart(Top, Popped[i])
  BY DEF Apart, CandidateOf
<1>8. CandidateOf(Top).rule = Top.rule
  BY DEF CandidateOf
<1> QED BY <1>3, <1>4, <1>5, <1>6, <1>7, <1>8

LEMMA RejectKeepsNests ==
  ASSUME TypeOK, NestInv, Reject
  PROVE  NestInv'
<1>1. /\ queue # <<>> /\ pc = "pop" /\ Resume(Top) /\ Shrink(Top)
      /\ visited' = visited \union {CandidateOf(Top)}
  BY DEF Reject
<1>2. /\ QueueApart(Popped)
      /\ \A i \in DOMAIN Popped : \A v \in visited' :
           v.rule = Popped[i].rule /\ v.rule \notin Resuming =>
             Apart(v, Popped[i]) \/ Encloses(v, Popped[i].start, Popped[i].end)
      /\ \A i \in DOMAIN Popped : Popped[i].rule = Top.rule /\ Top.rule \notin Resuming =>
           Apart(Popped[i], Top)
      /\ \A v \in visited : v.rule = Top.rule /\ Top.rule \notin Resuming =>
           Apart(v, Top) \/ Encloses(v, Top.start, Top.end)
  BY <1>1, PopNests
<1>3. Top \in Items /\ Popped \in Seq(Items)
  BY <1>1, TopIsAnItem
<1>4. /\ QueueApart(queue')
      /\ \A i \in DOMAIN queue' : queue'[i].rule \notin Resuming =>
           i \in DOMAIN Popped /\ queue'[i] = Popped[i]
  <2>1. CASE ResumedItems(Top) = {}
    BY <1>1, <1>2, <2>1 DEF Resume
  <2>2. CASE ResumedItems(Top) # {}
    <3>1. PICK item \in ResumedItems(Top) : Push(Popped, item)
      BY <1>1, <2>2 DEF Resume
    <3>2. item \in Items /\ item.rule \in Resuming
      <4>1. item \in Items
        BY <1>1, ResumedMatches
      <4>2. item.rule = Top.rule
        BY DEF ResumedItems, ItemFor
      <4> QED BY <2>2, <4>1, <4>2 DEF ResumedItems, MayResume
    <3>3. QueueApart(queue')
      BY <1>2, <1>3, <3>1, <3>2, PushKeepsApart
    <3> QED BY <1>3, <3>1, <3>2, <3>3, PushedPositions
  <2> QED BY <2>1, <2>2
<1>5. VisitedEncloses(queue)'
  BY <1>2, <1>4 DEF VisitedEncloses
<1>6. SliceNests'
  <2>1. CASE pc' # "interior" \/ Top.rule \in Resuming
    BY <1>1, <2>1 DEF SliceNests, Shrink, InteriorCursor
  <2>2. CASE pc' = "interior" /\ Top.rule \notin Resuming
    <3>1. PICK limit \in InteriorLimit(Top) : cursor' = InteriorCursor(Top, limit)
      BY <1>1, <2>2 DEF Shrink
    <3>2. /\ cursor'.rule = Top.rule /\ cursor'.base = Top.start /\ cursor'.limit = limit
          /\ cursor'.at = 0
      BY <3>1 DEF InteriorCursor
    <3>3. Top.start < limit /\ limit < Top.end /\ limit \in Nat
      <4>1. limit \in PreviousBoundary(Top.start, Top.end)
        BY <3>1 DEF InteriorLimit
      <4> QED BY <4>1, FragmentAssumption DEF PreviousBoundary
    <3>4. Top.start \in Nat /\ Top.end \in Nat
      BY <1>3, ItemIsTyped
    <3>5. \A i \in DOMAIN Popped : Popped[i].start \in Nat /\ Popped[i].end \in Nat
      BY <1>3, StackOps, ItemIsTyped
    <3>6. \A i \in DOMAIN queue' : queue'[i].rule = Top.rule =>
            queue'[i].end <= Top.start + 0 \/ limit <= queue'[i].start
      BY <1>2, <1>4, <2>2, <3>3, <3>4, <3>5 DEF Apart
    <3>7. ASSUME NEW v \in visited', v.rule = Top.rule
          PROVE  v.end <= Top.start \/ limit <= v.start \/ Encloses(v, Top.start, limit)
      <4>1. CASE v = CandidateOf(Top)
        BY <3>3, <3>4, <4>1 DEF CandidateOf, Encloses
      <4>2. CASE v \in visited
        <5>1. v.start \in Nat /\ v.end \in Nat
          BY <4>2, QueueIsTyped
        <5>2. Apart(v, Top) \/ Encloses(v, Top.start, Top.end)
          BY <1>2, <2>2, <3>7, <4>2
        <5> QED BY <3>3, <3>4, <5>1, <5>2 DEF Apart, Encloses
      <4> QED BY <1>1, <4>1, <4>2
    <3> QED BY <3>2, <3>6, <3>7 DEF SliceNests
  <2> QED BY <2>1, <2>2
<1>7. pc' \in {"pop", "interior"}
  BY <1>1 DEF Shrink
<1> QED BY <1>4, <1>5, <1>6, <1>7 DEF NestInv, SweepNests

(* A candidate is no longer in the queue once it is judged, and nothing else changes. *)
LEMMA PopKeepsNests ==
  ASSUME TypeOK, NestInv, queue # <<>>, pc = "pop", pc' = "pop", queue' = Popped,
         visited' \subseteq visited \union {CandidateOf(Top)}
  PROVE  NestInv'
<1>1. /\ QueueApart(Popped)
      /\ \A i \in DOMAIN Popped : \A v \in visited' :
           v.rule = Popped[i].rule /\ v.rule \notin Resuming =>
             Apart(v, Popped[i]) \/ Encloses(v, Popped[i].start, Popped[i].end)
  BY PopNests
<1>2. QueueApart(queue)'
  BY <1>1 DEF QueueApart
<1>3. VisitedEncloses(queue)'
  BY <1>1 DEF VisitedEncloses
<1> QED BY <1>2, <1>3 DEF NestInv, SliceNests, SweepNests

LEMMA CollectMatchKeepsNests ==
  ASSUME TypeOK, NestInv, CollectMatch
  PROVE  NestInv'
<1>1. PICK m \in FindFrom(pattern[cursor.rule], cursor.at) :
            /\ Push(queue, ItemFor(cursor.rule, m, 0))
            /\ cursor' = [cursor EXCEPT !.at = After(m)]
  BY DEF CollectMatch
<1>2. /\ cursor.at \in Nat /\ cursor.rule \in Rules /\ cursor'.rule = cursor.rule
      /\ cursor'.at = m.end
  BY <1>1, FragmentAssumption DEF TypeOK, Cursors, Offsets, After
<1>3. m \in Spans /\ cursor.at <= m.start
  BY <1>2, FindFromIsAMatch
<1> DEFINE item == ItemFor(cursor.rule, m, 0)
<1>4. item \in Items
  BY <1>2, <1>3, SpanMakesItem, LoopAssumption
<1>5. item.rule = cursor.rule /\ item.start = m.start /\ item.end = m.end
  BY DEF ItemFor
<1>6. Push(queue, item)
  BY <1>1
<1> HIDE DEF item
<1>7. pc = "collect" /\ pc' = "collect" /\ visited = {} /\ visited' = {} /\ SweepNests /\ QueueApart(queue)
  BY DEF CollectMatch, NestInv
<1>8. queue \in Seq(Items) /\ \A i \in DOMAIN queue : queue[i] \in Items
  BY QueueIsTyped
<1>9. \A i \in DOMAIN queue :
        /\ queue[i].rule \in Nat /\ queue[i].end \in Nat /\ queue[i].start \in Nat
        /\ queue[i].start < queue[i].end
  BY <1>8, ItemIsTyped, RulesAssumption DEF Rules
<1>10. item.start \in Nat /\ item.end \in Nat /\ item.start < item.end /\ item.rule \in Nat
  BY <1>4, ItemIsTyped, RulesAssumption DEF Rules
<1>11. \A i \in DOMAIN queue :
         /\ queue[i].rule = item.rule => queue[i].end <= item.start
         /\ queue[i].rule = item.rule => queue[i].end <= item.end
         /\ queue[i].rule < item.rule \/ queue[i].rule = item.rule
  BY <1>2, <1>3, <1>5, <1>7, <1>9, <1>10 DEF SweepNests
<1>12. QueueApart(queue')
  BY <1>4, <1>6, <1>7, <1>8, <1>11, PushKeepsApart DEF Apart
<1>13. \A i \in DOMAIN queue' :
         \/ i \in DOMAIN queue /\ queue'[i] = queue[i]
         \/ i = Len(queue) + 1 /\ queue'[i] = item
  BY <1>4, <1>6, <1>8, PushedPositions
<1>14. SweepNests'
  BY <1>2, <1>5, <1>10, <1>11, <1>13 DEF SweepNests
<1> QED BY <1>7, <1>12, <1>14 DEF NestInv, VisitedEncloses, SliceNests

LEMMA InteriorMatchKeepsNests ==
  ASSUME TypeOK, NestInv, InteriorMatch
  PROVE  NestInv'
<1>1. PICK m \in FindIn(pattern[cursor.rule], cursor.base, cursor.limit, cursor.at) :
            /\ Push(queue, ItemFor(cursor.rule, Rebased(m, cursor.base), cursor.retries))
            /\ cursor' = [cursor EXCEPT !.at = After(m)]
  BY DEF InteriorMatch
<1>2. /\ cursor.base \in Offsets /\ cursor.limit \in Offsets /\ cursor.at \in Offsets
      /\ cursor.rule \in Rules /\ cursor.retries \in 0..RetryPerCandidate
      /\ cursor'.rule = cursor.rule /\ cursor'.base = cursor.base /\ cursor'.limit = cursor.limit
      /\ cursor'.at = m.end
  BY <1>1 DEF TypeOK, Cursors, After
<1> DEFINE s == Rebased(m, cursor.base)
<1>3. /\ s \in Spans /\ cursor.base + cursor.at <= s.start /\ s.end <= cursor.limit
      /\ m.end = s.end - cursor.base
  BY <1>2, FindInIsAMatch
<1> HIDE DEF s
<1> DEFINE item == ItemFor(cursor.rule, s, cursor.retries)
<1>4. item \in Items
  BY <1>2, <1>3, SpanMakesItem
<1>5. item.rule = cursor.rule /\ item.start = s.start /\ item.end = s.end
  BY DEF ItemFor
<1>6. Push(queue, item)
  BY <1>1 DEF s
<1> HIDE DEF item
<1>7. /\ pc = "interior" /\ pc' = "interior" /\ visited' = visited
      /\ SliceNests /\ QueueApart(queue) /\ VisitedEncloses(queue)
  BY DEF InteriorMatch, NestInv
<1>8. /\ queue \in Seq(Items) /\ \A i \in DOMAIN queue : queue[i] \in Items
      /\ \A v \in visited : v.start \in Nat /\ v.end \in Nat /\ v.start < v.end
  BY QueueIsTyped
<1>9. \A i \in DOMAIN queue :
        /\ queue[i].end \in Nat /\ queue[i].start \in Nat /\ queue[i].start < queue[i].end
  BY <1>8, ItemIsTyped
<1>10. /\ item.start \in Nat /\ item.end \in Nat /\ item.start < item.end
       /\ cursor.base \in Nat /\ cursor.at \in Nat /\ cursor.limit \in Nat
       /\ cursor.base + cursor.at <= item.start /\ item.end <= cursor.limit
       /\ cursor'.base + cursor'.at = item.end
  BY <1>2, <1>3, <1>4, <1>5, ItemIsTyped, FragmentAssumption DEF Offsets
<1>11. ASSUME cursor.rule \notin Resuming, NEW i \in DOMAIN queue, queue[i].rule = cursor.rule
       PROVE  /\ Apart(queue[i], item)
              /\ queue[i].end <= cursor'.base + cursor'.at \/ cursor.limit <= queue[i].start
  <2>1. queue[i].end <= cursor.base + cursor.at \/ cursor.limit <= queue[i].start
    BY <1>7, <1>11 DEF SliceNests
  <2> QED BY <1>9, <1>10, <2>1 DEF Apart
<1>12. ASSUME cursor.rule \notin Resuming, NEW v \in visited, v.rule = cursor.rule
       PROVE  /\ Apart(v, item) \/ Encloses(v, item.start, item.end)
              /\ \/ v.end <= cursor.base \/ cursor.limit <= v.start
                 \/ Encloses(v, cursor.base, cursor.limit)
  <2>1. v.end <= cursor.base \/ cursor.limit <= v.start \/ Encloses(v, cursor.base, cursor.limit)
    BY <1>7, <1>12 DEF SliceNests
  <2> QED BY <1>8, <1>10, <2>1 DEF Apart, Encloses
<1>13. QueueApart(queue')
  BY <1>4, <1>5, <1>6, <1>7, <1>8, <1>11, PushKeepsApart
<1>14. \A i \in DOMAIN queue' :
         \/ i \in DOMAIN queue /\ queue'[i] = queue[i]
         \/ i = Len(queue) + 1 /\ queue'[i] = item
  BY <1>4, <1>6, <1>8, PushedPositions
<1>15. VisitedEncloses(queue)'
  BY <1>5, <1>7, <1>12, <1>14 DEF VisitedEncloses
<1>16. SliceNests'
  <2>1. \A i \in DOMAIN queue' : cursor.rule \notin Resuming /\ queue'[i].rule = cursor.rule =>
          queue'[i].end <= cursor'.base + cursor'.at \/ cursor.limit <= queue'[i].start
    BY <1>10, <1>11, <1>14
  <2> QED BY <1>2, <1>7, <1>12, <2>1 DEF SliceNests
<1> QED BY <1>7, <1>13, <1>15, <1>16 DEF NestInv, SweepNests

LEMMA StepNestInv ==
  ASSUME TypeOK, SweepInv, NestInv, [Next]_loopVars
  PROVE  NestInv'
<1>1. CASE Compile
  BY <1>1 DEF Compile, NestInv, QueueApart, VisitedEncloses, SliceNests, SweepNests
<1>2. CASE CollectMatch
  BY <1>2, CollectMatchKeepsNests
<1>3. CASE CollectNextRule
  <2>1. pc = "collect" /\ pc' \in {"collect", "pop"} /\ queue' = queue /\ visited' = visited
    BY <1>3 DEF CollectNextRule
  <2>2. SweepNests'
    <3>1. pc' = "collect" => cursor'.rule = cursor.rule + 1
      BY <1>3 DEF CollectNextRule, IdleCursor
    <3>2. \A i \in DOMAIN queue : queue[i].rule <= cursor.rule
      BY <2>1, RulesAreNumbers DEF NestInv, SweepNests
    <3> QED BY <2>1, <3>1, <3>2, RulesAreNumbers DEF SweepNests
  <2> QED BY <2>1, <2>2 DEF NestInv, QueueApart, VisitedEncloses, SliceNests
<1>4. CASE Skip
  BY <1>4, PopKeepsNests DEF Skip
<1>5. CASE Accept
  BY <1>5, PopKeepsNests DEF Accept
<1>6. CASE Reject
  BY <1>6, RejectKeepsNests
<1>7. CASE InteriorMatch
  BY <1>7, InteriorMatchKeepsNests
<1>8. CASE InteriorDone
  BY <1>8 DEF InteriorDone, NestInv, QueueApart, VisitedEncloses, SliceNests, SweepNests
<1>9. CASE Drain
  BY <1>9 DEF Drain, NestInv, QueueApart, VisitedEncloses, SliceNests, SweepNests
<1>10. CASE UNCHANGED loopVars
  BY <1>10 DEF loopVars, NestInv, QueueApart, VisitedEncloses, SliceNests, SweepNests
<1> QED BY <1>1, <1>2, <1>3, <1>4, <1>5, <1>6, <1>7, <1>8, <1>9, <1>10 DEF Next

(* A match that is queued is a new candidate of its rule: the nesting leaves no room for an old one. *)
LEMMA PushKeepsLineage ==
  ASSUME TypeOK, QueueInv, NestInv', OneLineage, ShallowInv,
         NEW item \in Items, Push(queue, item),
         UNCHANGED <<pattern, visited, accepted, shrunk, fragmentRetries>>
  PROVE  OneLineage' /\ ShallowInv'
<1>1. queue \in Seq(Items) /\ queued \subseteq Items
  BY DEF TypeOK
<1>2. /\ Len(queue) \in Nat /\ DOMAIN queue = 1..Len(queue)
      /\ DOMAIN queue' = 1..(Len(queue) + 1)
      /\ \A i \in 1..Len(queue) : queue'[i] = queue[i]
      /\ queue'[Len(queue) + 1] = item
  <2>1. queue' = Append(queue, item)
    BY DEF Push
  <2>2. Len(queue') = Len(queue) + 1 /\ DOMAIN queue' = 1..Len(queue')
    BY <1>1, <2>1, StackOps
  <2> QED BY <1>1, <2>1, <2>2, StackOps
<1>3. item.start \in Nat /\ item.end \in Nat /\ item.start < item.end
  BY ItemIsTyped
<1>4. ASSUME item.rule \notin Resuming PROVE CandidateOf(item) \notin visited
  <2>1. SUFFICES ASSUME CandidateOf(item) \in visited PROVE FALSE
    OBVIOUS
  <2> DEFINE v == CandidateOf(item)
  <2>2. v.rule = item.rule /\ v.start = item.start /\ v.end = item.end
    BY DEF CandidateOf
  <2>3. v \in visited'
    BY <2>1
  <2> HIDE DEF v
  <2>4. Apart(v, item) \/ Encloses(v, item.start, item.end)
    BY <1>2, <1>4, <2>2, <2>3 DEF NestInv, VisitedEncloses
  <2> QED BY <1>3, <2>2, <2>4 DEF Apart, Encloses
<1>5. ASSUME item.rule \notin Resuming, NEW x \in ItemsOn(queue)
      PROVE  CandidateOf(x) # CandidateOf(item)
  <2>1. SUFFICES ASSUME CandidateOf(x) = CandidateOf(item) PROVE FALSE
    OBVIOUS
  <2>2. x.rule = item.rule /\ x.start = item.start /\ x.end = item.end
    BY <2>1 DEF CandidateOf
  <2>3. PICK i \in 1..Len(queue) : x = queue[i]
    BY <1>2, <1>5 DEF ItemsOn
  <2>4. queue'[i] = x /\ i \in DOMAIN queue' /\ i # Len(queue) + 1
    BY <1>2, <2>3
  <2>5. Apart(x, item)
    BY <1>2, <1>5, <2>2, <2>4 DEF NestInv, QueueApart
  <2> QED BY <1>3, <2>2, <2>5 DEF Apart
<1>6. \A x \in queued : item.rule \notin Resuming => CandidateOf(x) # CandidateOf(item)
  BY <1>4, <1>5 DEF QueueInv
<1>7. queued' = queued \union {item}
  BY DEF Push
<1>8. \A x : x.rule # item.rule => CandidateOf(x) # CandidateOf(item)
  BY DEF CandidateOf
<1>9. OneLineage'
  BY <1>6, <1>7, <1>8 DEF OneLineage
<1>10. Rejected' = Rejected /\ Rejected \subseteq visited
  BY DEF Rejected, AcceptedCandidates
<1>11. \A x : HasMatchInside(x)' <=> HasMatchInside(x)
  BY DEF HasMatchInside
<1>12. ShallowInv'
  BY <1>4, <1>7, <1>10, <1>11 DEF ShallowInv
<1> QED BY <1>9, <1>12

LEMMA RejectKeepsLineage ==
  ASSUME TypeOK, QueueInv, OneLineage, ShallowInv, Reject
  PROVE  OneLineage' /\ ShallowInv'
<1>1. /\ queue # <<>> /\ Resume(Top) /\ Shrink(Top)
      /\ visited' = visited \union {CandidateOf(Top)}
      /\ UNCHANGED <<pattern, accepted>>
  BY DEF Reject
<1>2. PICK later \in SUBSET ResumedItems(Top) : queued' = queued \union later
  BY <1>1, ResumedMatches
<1>3. \A x \in later : x.rule \in Resuming
  BY <1>2 DEF ResumedItems, MayResume, ItemFor
<1>4. \A x, y : CandidateOf(x) = CandidateOf(y) => x.rule = y.rule
  BY DEF CandidateOf
<1>5. OneLineage'
  BY <1>2, <1>3, <1>4 DEF OneLineage
<1>6. Top \in queued
  BY <1>1, PoppedItems DEF QueueInv
<1>7. /\ fragmentRetries' < RetryPerFragment => fragmentRetries < RetryPerFragment
      /\ shrunk \subseteq shrunk'
  BY <1>1, LoopAssumption DEF Shrink, TypeOK
<1>8. ASSUME fragmentRetries' < RetryPerFragment, NEW x \in queued', x.rule \notin Resuming,
             CandidateOf(x) \in Rejected', x.retries < RetryPerCandidate, HasMatchInside(x)
      PROVE  CandidateOf(x) \in shrunk'
  <2>1. x \in queued
    BY <1>2, <1>3, <1>8
  <2>2. CASE CandidateOf(x) \in visited
    <3>1. CandidateOf(x) \in Rejected
      BY <1>1, <1>8, <2>2 DEF Rejected, AcceptedCandidates
    <3> QED BY <1>7, <1>8, <2>1, <3>1 DEF ShallowInv
  <2>3. CASE CandidateOf(x) = CandidateOf(Top)
    <3>1. x = Top
      BY <1>6, <1>8, <2>1, <2>3 DEF OneLineage
    <3>2. PreviousBoundary(Top.start, Top.end) # {}
      BY <1>8, <3>1 DEF HasMatchInside
    <3>3. Top.retries \in Nat /\ fragmentRetries \in Nat
      BY <1>1, TopIsAnItem, ItemIsTyped, LoopAssumption DEF TypeOK
    <3>4. InteriorLimit(Top) # {}
      BY <1>7, <1>8, <3>1, <3>2, <3>3, LoopAssumption DEF InteriorLimit
    <3> QED BY <1>1, <2>3, <3>4 DEF Shrink
  <2> QED BY <1>1, <1>8, <2>2, <2>3 DEF Rejected
<1>9. \A x : HasMatchInside(x)' <=> HasMatchInside(x)
  BY <1>1 DEF HasMatchInside
<1> QED BY <1>5, <1>8, <1>9 DEF ShallowInv

LEMMA StepLineage ==
  ASSUME TypeOK, QueueInv, NestInv', OneLineage, ShallowInv, [Next]_loopVars
  PROVE  OneLineage' /\ ShallowInv'
<1>1. CASE CollectMatch
  <2>1. PICK m \in FindFrom(pattern[cursor.rule], cursor.at) : Push(queue, ItemFor(cursor.rule, m, 0))
    BY <1>1 DEF CollectMatch
  <2>2. cursor.at \in Nat /\ cursor.rule \in Rules
    BY FragmentAssumption DEF TypeOK, Cursors, Offsets
  <2>3. ItemFor(cursor.rule, m, 0) \in Items
    BY <2>2, FindFromIsAMatch, SpanMakesItem, LoopAssumption
  <2> QED BY <1>1, <2>1, <2>3, PushKeepsLineage DEF CollectMatch
<1>2. CASE InteriorMatch
  <2>1. PICK m \in FindIn(pattern[cursor.rule], cursor.base, cursor.limit, cursor.at) :
              Push(queue, ItemFor(cursor.rule, Rebased(m, cursor.base), cursor.retries))
    BY <1>2 DEF InteriorMatch
  <2>2. /\ cursor.base \in Offsets /\ cursor.limit \in Offsets /\ cursor.at \in Offsets
        /\ cursor.rule \in Rules /\ cursor.retries \in 0..RetryPerCandidate
    BY DEF TypeOK, Cursors
  <2>3. ItemFor(cursor.rule, Rebased(m, cursor.base), cursor.retries) \in Items
    BY <2>2, FindInIsAMatch, SpanMakesItem
  <2> QED BY <1>2, <2>1, <2>3, PushKeepsLineage DEF InteriorMatch
<1>3. CASE Reject
  BY <1>3, RejectKeepsLineage
<1>4. ASSUME Rejected' \subseteq Rejected, UNCHANGED <<pattern, queued, shrunk, fragmentRetries>>
      PROVE  OneLineage' /\ ShallowInv'
  <2>1. \A x : HasMatchInside(x)' <=> HasMatchInside(x)
    BY <1>4 DEF HasMatchInside
  <2> QED BY <1>4, <2>1 DEF OneLineage, ShallowInv
<1>5. CASE Accept
  BY <1>4, <1>5, AcceptRejectsNothing DEF Accept
<1>6. CASE UNCHANGED <<visited, accepted, pattern, queued, shrunk, fragmentRetries>>
  BY <1>4, <1>6 DEF Rejected, AcceptedCandidates
<1>7. ~ Accept /\ ~ Reject /\ ~ CollectMatch /\ ~ InteriorMatch =>
        UNCHANGED <<visited, accepted, pattern, queued, shrunk, fragmentRetries>>
  BY DEF Next, loopVars, Compile, CollectNextRule, Skip, InteriorDone, Drain
<1> QED BY <1>1, <1>2, <1>3, <1>5, <1>6, <1>7

(***************************************************************************)
(* While the fragment's budget lasts, a rejected span of a rule that does  *)
(* not resume is searched unless its lineage used up its own budget: a     *)
(* span cannot come by a second, deeper lineage that uses it up first.     *)
(***************************************************************************)
THEOREM ShallowMatchesAreReached == Spec => []ShallowRejectionsSearched
<1>1. Init => LineageInv
  BY DEF Init, LineageInv, NestInv, QueueApart, VisitedEncloses, SliceNests, SweepNests, OneLineage,
         ShallowInv
<1>2. LoopInv /\ LineageInv /\ [Next]_loopVars => LineageInv'
  BY StepNestInv, StepLineage DEF LoopInv, LineageInv
<1>3. LineageInv => ShallowRejectionsSearched
  BY DEF LineageInv, ShallowInv, ShallowRejectionsSearched
<1> QED BY <1>1, <1>2, <1>3, LoopInvariant, PTL DEF Spec

-----------------------------------------------------------------------------
(***************************************************************************)
(* Termination: the height of a state, four naturals in lexicographic      *)
(* order.  While the prefilter runs, the rules and the bytes it has left;  *)
(* after that the spans not validated yet, then the bytes left of an       *)
(* interior, then the length of the queue, so that whatever a rejection    *)
(* pushes is paid for by the span it adds to visited.                      *)
(***************************************************************************)
Stage ==
  CASE pc = "compile" -> 3
    [] pc = "collect" -> 2
    [] pc \in {"pop", "interior"} -> 1
    [] pc \in {"refused", "drained"} -> 0

Unvisited == Candidates \ visited
Ahead == IF pc = "collect" THEN RuleCount - cursor.rule ELSE Cardinality(Unvisited)
BytesLeft ==
  CASE pc = "collect" -> Size - cursor.at
    [] pc = "interior" -> 1 + (Size - cursor.at)
    [] pc \notin {"collect", "interior"} -> 0

Heights == Nat \X (Nat \X (Nat \X Nat))
Height == <<Stage, <<Ahead, <<BytesLeft, Len(queue)>>>>>>

Descent ==
  LexPairOrdering(NatLess, LexPairOrdering(NatLess, LexPairOrdering(NatLess, NatLess, Nat, Nat),
                                           Nat, Nat \X Nat),
                  Nat, Nat \X (Nat \X Nat))

Descends == <<Height', Height>> \in Descent

HeightFalls ==
  \/ Stage' < Stage
  \/ Stage' = Stage /\ Ahead' < Ahead
  \/ Stage' = Stage /\ Ahead' = Ahead /\ BytesLeft' < BytesLeft
  \/ Stage' = Stage /\ Ahead' = Ahead /\ BytesLeft' = BytesLeft /\ Len(queue') < Len(queue)

HeightIsWhole == Stage \in Nat /\ Ahead \in Nat /\ BytesLeft \in Nat /\ Len(queue) \in Nat

(* There is no endless descent. *)
LEMMA DescentsEnd == IsWellFoundedOn(Descent, Heights)
BY NatLessIsWellFounded, WFLexPairOrdering DEF Descent, Heights

LEMMA DescentIsLexicographic ==
  ASSUME NEW h \in Heights, NEW g \in Heights,
         \/ h[1] < g[1]
         \/ /\ h[1] = g[1]
            /\ \/ h[2][1] < g[2][1]
               \/ /\ h[2][1] = g[2][1]
                  /\ \/ h[2][2][1] < g[2][2][1]
                     \/ h[2][2][1] = g[2][2][1] /\ h[2][2][2] < g[2][2][2]
  PROVE  <<h, g>> \in Descent
<1> DEFINE D2 == LexPairOrdering(NatLess, NatLess, Nat, Nat)
           D3 == LexPairOrdering(NatLess, D2, Nat, Nat \X Nat)
<1>1. \A m, n \in Nat : m < n => <<m, n>> \in NatLess
  BY DEF NatLess
<1>2. \A u, v \in Nat \X Nat :
        u[1] < v[1] \/ (u[1] = v[1] /\ u[2] < v[2]) => <<u, v>> \in D2
  BY <1>1 DEF LexPairOrdering
<1> HIDE DEF D2
<1>3. \A u, v \in Nat \X (Nat \X Nat) :
        u[1] < v[1] \/ (u[1] = v[1] /\ <<u[2], v[2]>> \in D2) => <<u, v>> \in D3
  BY <1>1 DEF LexPairOrdering
<1> HIDE DEF D3
<1>4. h[1] < g[1] \/ (h[1] = g[1] /\ <<h[2], g[2]>> \in D3)
        => <<h, g>> \in LexPairOrdering(NatLess, D3, Nat, Nat \X (Nat \X Nat))
  BY <1>1 DEF LexPairOrdering, Heights
<1>5. Descent = LexPairOrdering(NatLess, D3, Nat, Nat \X (Nat \X Nat))
  BY DEF Descent, D3, D2
<1>6. /\ h[2] \in Nat \X (Nat \X Nat) /\ g[2] \in Nat \X (Nat \X Nat)
      /\ h[2][2] \in Nat \X Nat /\ g[2][2] \in Nat \X Nat
  BY DEF Heights
<1>7. CASE h[1] < g[1]
  BY <1>4, <1>5, <1>7
<1>8. CASE h[1] = g[1] /\ h[2][1] < g[2][1]
  BY <1>3, <1>4, <1>5, <1>6, <1>8
<1>9. CASE /\ h[1] = g[1] /\ h[2][1] = g[2][1]
           /\ h[2][2][1] < g[2][2][1] \/ (h[2][2][1] = g[2][2][1] /\ h[2][2][2] < g[2][2][2])
  BY <1>2, <1>3, <1>4, <1>5, <1>6, <1>9
<1> QED BY <1>7, <1>8, <1>9

LEMMA CandidatesAreFinite == IsFiniteSet(Candidates)
<1> DEFINE f == [c \in Candidates |-> <<c.rule, <<c.start, c.end>>>>]
           T == Rules \X (Offsets \X Offsets)
<1>1. IsFiniteSet(Rules) /\ IsFiniteSet(Offsets)
  BY FS_Interval, RulesAssumption, FragmentAssumption DEF Rules, Offsets
<1>2. IsFiniteSet(T)
  BY <1>1, FS_Product
<1>3. f \in Injection(Candidates, T)
  <2>1. f \in [Candidates -> T]
    BY DEF Candidates
  <2>2. ASSUME NEW c \in Candidates, NEW d \in Candidates, f[c] = f[d]
        PROVE  c = d
    BY <2>2 DEF Candidates
  <2> QED BY <2>1, <2>2 DEF Injection, IsInjective
<1> QED BY <1>2, <1>3, FS_Injection

(* Validating a span that was not validated leaves fewer that are not. *)
LEMMA OneFewerUnvisited ==
  ASSUME NEW V, NEW c \in Candidates, c \notin V
  PROVE  /\ Cardinality(Candidates \ V) \in Nat /\ Cardinality(Candidates \ (V \union {c})) \in Nat
         /\ Cardinality(Candidates \ (V \union {c})) < Cardinality(Candidates \ V)
<1>1. IsFiniteSet(Candidates \ V)
  BY CandidatesAreFinite, FS_Subset
<1>2. Candidates \ (V \union {c}) = (Candidates \ V) \ {c} /\ c \in Candidates \ V
  OBVIOUS
<1>3. IsFiniteSet((Candidates \ V) \ {c}) /\ Cardinality((Candidates \ V) \ {c}) = Cardinality(Candidates \ V) - 1
  BY <1>1, <1>2, FS_RemoveElement
<1>4. Cardinality(Candidates \ V) \in Nat /\ Cardinality((Candidates \ V) \ {c}) \in Nat
  BY <1>1, <1>3, FS_CardinalityType
<1> QED BY <1>2, <1>3, <1>4

LEMMA HeightIsTyped ==
  TypeOK => HeightIsWhole
<1> SUFFICES ASSUME TypeOK PROVE HeightIsWhole
  OBVIOUS
<1>1. pc \in {"compile", "refused", "collect", "pop", "interior", "drained"} /\ cursor \in Cursors
  BY DEF TypeOK
<1>2. cursor.rule \in 1..RuleCount /\ cursor.at \in 0..Size /\ RuleCount \in Nat /\ Size \in Nat
  BY <1>1, RulesAssumption, FragmentAssumption DEF Cursors, Rules, Offsets
<1>3. Stage \in Nat
  BY <1>1 DEF Stage
<1>4. Cardinality(Unvisited) \in Nat
  BY CandidatesAreFinite, FS_Subset, FS_CardinalityType DEF Unvisited
<1>5. Ahead \in Nat
  BY <1>2, <1>4 DEF Ahead
<1>6. BytesLeft \in Nat
  BY <1>2 DEF BytesLeft
<1>7. Len(queue) \in Nat
  BY StackOps DEF TypeOK
<1> QED BY <1>3, <1>5, <1>6, <1>7 DEF HeightIsWhole

LEMMA FallIsADescent == HeightIsWhole /\ HeightIsWhole' /\ HeightFalls => Descends
<1> SUFFICES ASSUME HeightIsWhole, HeightIsWhole', HeightFalls PROVE Descends
  OBVIOUS
<1>1. /\ Stage \in Nat /\ Ahead \in Nat /\ BytesLeft \in Nat /\ Len(queue) \in Nat
      /\ Stage' \in Nat /\ Ahead' \in Nat /\ BytesLeft' \in Nat /\ Len(queue') \in Nat
  BY DEF HeightIsWhole
<1>2. \/ Stage' < Stage
      \/ /\ Stage' = Stage
         /\ \/ Ahead' < Ahead
            \/ Ahead' = Ahead /\ (BytesLeft' < BytesLeft \/ (BytesLeft' = BytesLeft /\ Len(queue') < Len(queue)))
  BY DEF HeightFalls
<1>3. /\ Height \in Heights /\ Height[1] = Stage /\ Height[2][1] = Ahead
      /\ Height[2][2][1] = BytesLeft /\ Height[2][2][2] = Len(queue)
  BY <1>1 DEF Height, Heights
<1>4. /\ Height' \in Heights /\ Height'[1] = Stage' /\ Height'[2][1] = Ahead'
      /\ Height'[2][2][1] = BytesLeft' /\ Height'[2][2][2] = Len(queue')
  BY <1>1 DEF Height, Heights
<1> QED BY <1>2, <1>3, <1>4, DescentIsLexicographic DEF Descends

LEMMA StepDescends == TypeOK /\ TypeOK' /\ HeightIsWhole /\ HeightIsWhole' /\ Next => Descends
<1> SUFFICES ASSUME TypeOK, TypeOK', HeightIsWhole, HeightIsWhole', Next PROVE Descends
  OBVIOUS
<1>1. /\ Stage \in Nat /\ Ahead \in Nat /\ BytesLeft \in Nat /\ Len(queue) \in Nat
      /\ Stage' \in Nat /\ Ahead' \in Nat /\ BytesLeft' \in Nat /\ Len(queue') \in Nat
  BY DEF HeightIsWhole
<1>2. SUFFICES HeightFalls
  BY FallIsADescent
<1> USE DEF HeightFalls
<1>3. CASE Compile
  BY <1>3 DEF Compile, Stage
<1>4. CASE CollectMatch
  <2>1. PICK m \in FindFrom(pattern[cursor.rule], cursor.at) : cursor' = [cursor EXCEPT !.at = After(m)]
    BY <1>4 DEF CollectMatch
  <2>2. pc = "collect" /\ pc' = "collect" /\ cursor \in Cursors /\ cursor.at \in Nat /\ Size \in Nat
    BY <1>4, FragmentAssumption DEF CollectMatch, TypeOK, Cursors, Offsets
  <2>3. m \in Spans /\ cursor.at <= m.start
    BY <2>2, FindFromIsAMatch
  <2>4. m.start \in Nat /\ m.end \in Nat /\ m.start < m.end /\ m.end <= Size
    BY <2>2, <2>3 DEF Spans, Offsets
  <2>5. cursor'.rule = cursor.rule /\ cursor'.at = m.end
    BY <2>1, <2>2 DEF Cursors, After
  <2>6. Size - m.end < Size - cursor.at
    BY <2>2, <2>3, <2>4
  <2> QED BY <2>2, <2>5, <2>6 DEF Stage, Ahead, BytesLeft
<1>5. CASE CollectNextRule
  <2>1. pc = "collect" /\ cursor.rule \in Nat /\ RuleCount \in Nat
    BY <1>5, RulesAssumption DEF CollectNextRule, TypeOK, Cursors, Rules
  <2>2. CASE cursor.rule < RuleCount
    <3>1. cursor' = [IdleCursor EXCEPT !.rule = cursor.rule + 1] /\ pc' = pc
      BY <1>5, <2>2 DEF CollectNextRule
    <3>2. cursor'.rule = cursor.rule + 1
      BY <3>1 DEF IdleCursor
    <3>3. RuleCount - (cursor.rule + 1) < RuleCount - cursor.rule
      BY <2>1
    <3> QED BY <2>1, <3>1, <3>2, <3>3 DEF Stage, Ahead
  <2>3. CASE ~ (cursor.rule < RuleCount)
    <3>1. pc' = "pop"
      BY <1>5, <2>3 DEF CollectNextRule
    <3> QED BY <2>1, <3>1 DEF Stage
  <2> QED BY <2>2, <2>3
<1>6. CASE Skip
  <2>1. pc = "pop" /\ pc' = pc /\ visited' = visited /\ queue # <<>> /\ queue' = Popped
    BY <1>6 DEF Skip
  <2>2. Len(queue') = Len(queue) - 1
    BY <2>1, StackOps DEF TypeOK, Popped
  <2> QED BY <1>1, <2>1, <2>2 DEF Stage, Ahead, BytesLeft, Unvisited
<1>7. CASE Accept \/ Reject
  <2>1. /\ pc = "pop" /\ queue # <<>> /\ CandidateOf(Top) \notin visited
        /\ visited' = visited \union {CandidateOf(Top)}
    BY <1>7 DEF Accept, Reject, Seen
  <2>2. CandidateOf(Top) \in Candidates
    BY <2>1, TopIsAnItem, ItemIsACandidate
  <2>3. pc' \in {"pop", "interior"}
    BY <1>7, <2>1, ShrinkKeepsTypes DEF Accept, Reject
  <2>4. Cardinality(Unvisited') < Cardinality(Unvisited)
    BY <2>1, <2>2, OneFewerUnvisited DEF Unvisited
  <2> QED BY <2>1, <2>3, <2>4 DEF Stage, Ahead
<1>8. CASE InteriorMatch
  <2>1. PICK m \in FindIn(pattern[cursor.rule], cursor.base, cursor.limit, cursor.at) :
              cursor' = [cursor EXCEPT !.at = After(m)]
    BY <1>8 DEF InteriorMatch
  <2>2. /\ pc = "interior" /\ pc' = "interior" /\ visited' = visited /\ cursor \in Cursors
        /\ cursor.base \in Offsets /\ cursor.limit \in Offsets /\ cursor.at \in Offsets
    BY <1>8 DEF InteriorMatch, TypeOK, Cursors
  <2>3. /\ Rebased(m, cursor.base) \in Spans /\ cursor.base + cursor.at <= Rebased(m, cursor.base).start
        /\ m.end = Rebased(m, cursor.base).end - cursor.base /\ m.end \in Offsets
    BY <2>2, FindInIsAMatch
  <2>4. cursor.at < m.end
    BY <2>2, <2>3, FragmentAssumption DEF Spans, Offsets
  <2>5. cursor'.at = m.end
    BY <2>1, <2>2 DEF Cursors, After
  <2>6. 1 + (Size - m.end) < 1 + (Size - cursor.at)
    BY <2>2, <2>3, <2>4, FragmentAssumption DEF Offsets
  <2> QED BY <2>2, <2>5, <2>6 DEF Stage, Ahead, BytesLeft, Unvisited
<1>9. CASE InteriorDone
  <2>1. pc = "interior" /\ pc' = "pop" /\ visited' = visited
    BY <1>9 DEF InteriorDone
  <2>2. cursor.at \in Nat /\ cursor.at <= Size /\ Size \in Nat
    BY FragmentAssumption DEF TypeOK, Cursors, Offsets
  <2>3. 0 < 1 + (Size - cursor.at)
    BY <2>2
  <2> QED BY <2>1, <2>3 DEF Stage, Ahead, BytesLeft, Unvisited
<1>10. CASE Drain
  BY <1>10 DEF Drain, Stage
<1> QED BY <1>3, <1>4, <1>5, <1>6, <1>7, <1>8, <1>9, <1>10 DEF Next

(***************************************************************************)
(* Rejections cannot feed the work list for ever, whatever the patterns,   *)
(* verdicts and budgets: every step of the loop descends in a well-founded *)
(* order.  (A resumed span may be longer than the one it was resumed from, *)
(* and it may be queued again; the height still falls.)                    *)
(***************************************************************************)
THEOREM EveryStepDescends == Spec => [][Descends]_loopVars
<1>1. TypeOK /\ TypeOK' /\ HeightIsWhole /\ HeightIsWhole' /\ [Next]_loopVars => [Descends]_loopVars
  BY StepDescends
<1> QED BY <1>1, TypeCorrect, HeightIsTyped, PTL DEF Spec

-----------------------------------------------------------------------------
(* The search of a call is the loop; resolution is invisible to it. *)

LEMMA CallStepsAreLoopSteps == [ScannerNext]_scannerVars => [Next]_loopVars
BY DEF ScannerNext, Search, Resolution, scannerVars, loopVars

(***************************************************************************)
(* A call implements the loop, so everything proved of the loop holds of   *)
(* its search.                                                             *)
(***************************************************************************)
THEOREM CallImplementsLoop == ScannerSpec => Spec
<1>1. ScannerInit => Init
  BY DEF ScannerInit
<1> QED BY <1>1, CallStepsAreLoopSteps, PTL DEF ScannerSpec, Spec

-----------------------------------------------------------------------------
(***************************************************************************)
(* The inductive invariant of resolution inside a call.  Whatever is still *)
(* pending is no stronger than what was kept, which makes a decision to    *)
(* drop final; each entity goes out once, as itself.                       *)
(***************************************************************************)
EdgesInv ==
  \A i \in DOMAIN accepted : {accepted[i].start, accepted[i].end} \subseteq Boundaries

FixedInv == strength \in [Rules -> Nat] /\ base \in Nat

PassInv ==
  /\ pending \subseteq DOMAIN accepted
  /\ kept \subseteq DOMAIN accepted \ pending
  /\ pc # "drained" => pending = {} /\ kept = {} /\ output = <<>>

DecisionInv ==
  pc = "drained" =>
    /\ \A k \in kept : \A p \in pending : Found[k].strength >= Found[p].strength
    /\ \A i \in (DOMAIN accepted \ pending) \ kept :
         \E k \in kept : R!Overlap(i, k) /\ Found[k].strength >= Found[i].strength

ReturnedEntries == [of : DOMAIN accepted, start : Nat, end : Nat]

OutputInv ==
  /\ output \in Seq(ReturnedEntries)
  /\ \A n \in DOMAIN output : output[n] = R!Rebase(output[n].of)
  /\ \A m, n \in DOMAIN output : output[m].of = output[n].of => m = n

CallInv == EdgesInv /\ FixedInv /\ PassInv /\ DecisionInv /\ OutputInv

LEMMA InitCallInv == ScannerInit => CallInv
<1> SUFFICES ASSUME ScannerInit PROVE CallInv
  OBVIOUS
<1>1. accepted = <<>> /\ pending = {} /\ kept = {} /\ output = <<>> /\ pc = "compile"
  BY DEF ScannerInit, Init
<1>2. EdgesInv /\ PassInv /\ DecisionInv
  BY <1>1 DEF EdgesInv, PassInv, DecisionInv
<1>3. FixedInv
  BY ScannerAssumption DEF ScannerInit, FixedInv
<1>4. OutputInv
  BY <1>1 DEF OutputInv, ReturnedEntries
<1> QED BY <1>2, <1>3, <1>4 DEF CallInv

LEMMA FoundIsTyped ==
  ASSUME TypeOK, FixedInv, NEW i \in DOMAIN accepted
  PROVE  /\ i \in Nat
         /\ Found[i].strength \in Nat /\ Found[i].start \in Nat /\ Found[i].end \in Nat
         /\ Found[i].start = accepted[i].start /\ Found[i].end = accepted[i].end
         /\ Found[i].start <= Size /\ Found[i].end <= Size
<1>1. i \in Nat /\ accepted[i] \in AcceptedEntries
  BY LenProperties DEF TypeOK
<1>2. accepted[i].candidate.rule \in Rules /\ accepted[i].start \in Offsets /\ accepted[i].end \in Offsets
  BY <1>1 DEF AcceptedEntries, Candidates
<1>3. strength[accepted[i].candidate.rule] \in Nat
  BY <1>2 DEF FixedInv
<1>4. Found[i] = [strength |-> strength[accepted[i].candidate.rule],
                  start |-> accepted[i].start, end |-> accepted[i].end]
  BY DEF Found
<1> QED BY <1>1, <1>2, <1>3, <1>4, FragmentAssumption DEF Offsets

-----------------------------------------------------------------------------
(* The search: verdicts carry character boundaries, and nothing is decided yet. *)

LEMMA SearchKeepsEdges ==
  ASSUME TypeOK, EdgesInv, Next
  PROVE  EdgesInv'
<1>1. CASE Accept
  <2>1. PICK s \in VerdictSpans(Top) : accepted' = Append(accepted, EntityFrom(Top, s))
    BY <1>1 DEF Accept
  <2>2. {s.start, s.end} \subseteq Boundaries
    BY DEF VerdictSpans
  <2>3. EntityFrom(Top, s).start = s.start /\ EntityFrom(Top, s).end = s.end
    BY DEF EntityFrom
  <2> DEFINE e == EntityFrom(Top, s)
  <2> HIDE DEF e
  <2>4. /\ accepted \in Seq(AcceptedEntries) /\ DOMAIN accepted = 1..Len(accepted)
        /\ Len(accepted) \in Nat
    BY LenProperties DEF TypeOK
  <2>5. /\ DOMAIN accepted' = 1..(Len(accepted) + 1)
        /\ \A i \in 1..Len(accepted) : accepted'[i] = accepted[i]
        /\ accepted'[Len(accepted) + 1] = e
    BY <2>1, <2>4 DEF e
  <2> QED BY <2>2, <2>3, <2>4, <2>5 DEF EdgesInv, e
<1>2. CASE UNCHANGED accepted
  BY <1>2 DEF EdgesInv
<1>3. ~ Accept => UNCHANGED accepted
  BY DEF Next, Compile, CollectMatch, CollectNextRule, Skip, Reject, InteriorMatch, InteriorDone, Drain
<1> QED BY <1>1, <1>2, <1>3

LEMMA SearchKeepsInv ==
  ASSUME LoopInv, CallInv, Search
  PROVE  CallInv'
<1>1. Next /\ pc # "drained" /\ UNCHANGED <<strength, base, kept, output>>
      /\ pending' = IF pc' = "drained" THEN DOMAIN accepted ELSE {}
  <2>1. LoopInv /\ Next => pc # "drained"
    BY DEF LoopInv, QueueInv, Next, Compile, CollectMatch, CollectNextRule, Skip, Accept, Reject,
           InteriorMatch, InteriorDone, Drain
  <2> QED BY <2>1 DEF Search
<1>2. kept = {} /\ output = <<>>
  BY <1>1 DEF CallInv, PassInv
<1>3. pc' = "drained" => accepted' = accepted
  BY <1>1 DEF Next, Compile, CollectMatch, CollectNextRule, Skip, Accept, Reject, Shrink,
              InteriorMatch, InteriorDone, Drain
<1>4. EdgesInv'
  BY <1>1, SearchKeepsEdges DEF CallInv, LoopInv
<1>5. FixedInv'
  BY <1>1 DEF CallInv, FixedInv
<1>6. PassInv'
  BY <1>1, <1>2, <1>3 DEF PassInv
<1>7. DecisionInv'
  BY <1>1, <1>2, <1>3 DEF DecisionInv
<1>8. OutputInv'
  BY <1>1, <1>2 DEF OutputInv, ReturnedEntries
<1> QED BY <1>4, <1>5, <1>6, <1>7, <1>8 DEF CallInv

-----------------------------------------------------------------------------
LEMMA ElementIsInSet ==
  ASSUME NEW S, NEW s \in Seq(S), NEW n \in DOMAIN s
  PROVE  s[n] \in S
BY LenProperties

LEMMA AppendAddsOne ==
  ASSUME NEW S, NEW s \in Seq(S), NEW e \in S
  PROVE  /\ Append(s, e) \in Seq(S)
         /\ \A n \in DOMAIN Append(s, e) :
              \/ n \in DOMAIN s /\ Append(s, e)[n] = s[n]
              \/ n = Len(s) + 1 /\ Append(s, e)[n] = e
BY LenProperties

(* Resolution: the greedy pass and the last loop, over what was accepted. *)

LEMMA FoundStays ==
  ASSUME UNCHANGED <<loopVars, strength>>
  PROVE  UNCHANGED <<pc, accepted, strength, Found>>
BY DEF loopVars, Found

LEMMA ArbitrateKeepsCallInv ==
  ASSUME TypeOK, CallInv, pc = "drained", UNCHANGED <<loopVars, strength>>, R!Arbitrate
  PROVE  CallInv'
<1>1. PICK i \in pending :
        /\ \A j \in pending \ {i} : R!Stronger(i, j)
        /\ pending' = pending \ {i}
        /\ kept' = IF \E k \in kept : R!Overlap(i, k) THEN kept ELSE kept \union {i}
        /\ UNCHANGED <<Found, base, output>>
  BY DEF R!Arbitrate
<1>2. UNCHANGED <<pc, accepted, strength, Found>>
  BY FoundStays
<1>3. PassInv /\ DecisionInv /\ FixedInv /\ i \in DOMAIN accepted
  BY DEF CallInv, PassInv
<1>4. EdgesInv' /\ FixedInv'
  BY <1>1, <1>2 DEF CallInv, EdgesInv, FixedInv
<1>5. kept' \subseteq kept \union {i} /\ kept \subseteq kept'
  BY <1>1
<1>6. PassInv'
  BY <1>1, <1>2, <1>3, <1>5 DEF PassInv
<1>7. \A j \in DOMAIN accepted : Found[j].strength \in Nat
  BY <1>3, FoundIsTyped
<1>8. \A p \in pending' : Found[i].strength >= Found[p].strength
  <2> TAKE p \in pending'
  <2>1. R!Stronger(i, p) /\ p \in DOMAIN accepted
    BY <1>1, <1>3 DEF PassInv
  <2> QED BY <1>3, <1>7, <2>1 DEF R!Stronger
<1>9. \A k \in kept' : \A p \in pending' : Found[k].strength >= Found[p].strength
  BY <1>1, <1>3, <1>5, <1>8 DEF DecisionInv
<1>10. ASSUME NEW d \in (DOMAIN accepted \ pending') \ kept'
       PROVE  \E k \in kept' : R!Overlap(d, k) /\ Found[k].strength >= Found[d].strength
  <2>1. CASE d = i
    <3>1. PICK k \in kept : R!Overlap(i, k)
      BY <1>1, <1>10, <2>1
    <3>2. Found[k].strength >= Found[i].strength
      BY <1>3 DEF DecisionInv
    <3> QED BY <1>5, <2>1, <3>1, <3>2
  <2>2. CASE d # i
    <3>1. d \in (DOMAIN accepted \ pending) \ kept
      BY <1>1, <1>5, <1>10, <2>2
    <3> QED BY <1>3, <1>5, <3>1 DEF DecisionInv
  <2> QED BY <2>1, <2>2
<1>11. \A a, b : R!Overlap(a, b)' <=> R!Overlap(a, b)
  BY <1>2 DEF R!Overlap
<1>12. DecisionInv'
  BY <1>2, <1>9, <1>10, <1>11 DEF DecisionInv
<1>13. OutputInv'
  BY <1>1, <1>2 DEF CallInv, OutputInv, ReturnedEntries, R!Rebase
<1> QED BY <1>4, <1>6, <1>12, <1>13 DEF CallInv

LEMMA ModIsNatural ==
  ASSUME NEW w \in Nat \ {0}, NEW x \in Nat
  PROVE  x % w \in Nat /\ (x < w => x % w = x)
OBVIOUS

LEMMA EmitKeepsCallInv ==
  ASSUME TypeOK, CallInv, pc = "drained", UNCHANGED <<loopVars, strength>>, R!Emit
  PROVE  CallInv'
<1>1. PICK i \in kept \ R!Emitted : output' = Append(output, R!Rebase(i))
  BY DEF R!Emit
<1>2. UNCHANGED <<pc, accepted, strength, Found>> /\ UNCHANGED <<base, pending, kept>>
  BY FoundStays DEF R!Emit
<1>3. PassInv /\ DecisionInv /\ FixedInv /\ OutputInv /\ i \in DOMAIN accepted
  BY DEF CallInv, PassInv
<1>4. EdgesInv' /\ FixedInv'
  BY <1>2 DEF CallInv, EdgesInv, FixedInv
<1>5. PassInv'
  BY <1>2, <1>3 DEF PassInv
<1>6. \A a, b : R!Overlap(a, b)' <=> R!Overlap(a, b)
  BY <1>2 DEF R!Overlap
<1>7. DecisionInv'
  BY <1>2, <1>3, <1>6 DEF DecisionInv
<1>8. R!Rebase(i) \in ReturnedEntries
  <2>1. Found[i].start + base \in Nat /\ Found[i].end + base \in Nat
    BY <1>3, FoundIsTyped DEF FixedInv
  <2> QED BY <1>3, <2>1, ModIsNatural, ScannerAssumption DEF R!Rebase, ReturnedEntries
<1> DEFINE e == R!Rebase(i)
<1>9. e.of = i
  BY DEF R!Rebase
<1> HIDE DEF e
<1>10. output \in Seq(ReturnedEntries) /\ e \in ReturnedEntries /\ output' = Append(output, e)
  BY <1>1, <1>3, <1>8 DEF OutputInv, e
<1>11. \A n \in DOMAIN output : output[n].of # i
  BY <1>1 DEF R!Emitted
<1>12. /\ output' \in Seq(ReturnedEntries)
       /\ \A n \in DOMAIN output' :
            \/ n \in DOMAIN output /\ output'[n] = output[n]
            \/ n = Len(output) + 1 /\ output'[n] = e
  BY <1>10, AppendAddsOne
<1>13. \A n \in DOMAIN output' : output'[n] = R!Rebase(output'[n].of)
  <2> TAKE n \in DOMAIN output'
  <2>1. CASE n \in DOMAIN output /\ output'[n] = output[n]
    BY <1>3, <2>1 DEF OutputInv
  <2>2. CASE output'[n] = e
    BY <1>9, <2>2 DEF e
  <2> QED BY <1>12, <2>1, <2>2
<1>14. \A m, n \in DOMAIN output' : output'[m].of = output'[n].of => m = n
  <2>1. \A m, n \in DOMAIN output : output[m].of = output[n].of => m = n
    BY <1>3 DEF OutputInv
  <2> QED BY <1>9, <1>11, <1>12, <2>1
<1>15. (\A n \in DOMAIN output : output[n] = R!Rebase(output[n].of))'
  BY <1>2, <1>13 DEF R!Rebase
<1>16. OutputInv'
  <2>1. ReturnedEntries' = ReturnedEntries
    BY <1>2 DEF ReturnedEntries
  <2> QED BY <1>12, <1>14, <1>15, <2>1 DEF OutputInv
<1> QED BY <1>4, <1>5, <1>7, <1>16 DEF CallInv

LEMMA StepCallInv == LoopInv /\ CallInv /\ [ScannerNext]_scannerVars => CallInv'
<1> SUFFICES ASSUME LoopInv, CallInv, [ScannerNext]_scannerVars PROVE CallInv'
  OBVIOUS
<1>1. TypeOK
  BY DEF LoopInv
<1>2. CASE Search
  BY <1>2, SearchKeepsInv
<1>3. CASE Resolution
  BY <1>1, <1>3, ArbitrateKeepsCallInv, EmitKeepsCallInv DEF Resolution, R!Next
<1>4. CASE UNCHANGED scannerVars
  <2>1. UNCHANGED <<pc, accepted, strength, base, pending, kept, output, Found>>
    BY <1>4 DEF scannerVars, Found
  <2>2. EdgesInv' /\ FixedInv' /\ PassInv'
    BY <2>1 DEF CallInv, EdgesInv, FixedInv, PassInv
  <2>3. DecisionInv'
    BY <2>1 DEF CallInv, DecisionInv, R!Overlap
  <2>4. OutputInv'
    BY <2>1 DEF CallInv, OutputInv, ReturnedEntries, R!Rebase
  <2> QED BY <2>2, <2>3, <2>4 DEF CallInv
<1> QED BY <1>2, <1>3, <1>4 DEF ScannerNext

(* The decisions of a call follow its invariant from the first candidate to the last entity. *)
THEOREM CallInvariant == ScannerSpec => [](LoopInv /\ CallInv)
<1>1. ScannerSpec => []LoopInv
  BY CallImplementsLoop, LoopInvariant, PTL
<1>2. ScannerInit => CallInv
  BY InitCallInv
<1>3. LoopInv /\ CallInv /\ [ScannerNext]_scannerVars => CallInv'
  BY StepCallInv
<1> QED BY <1>1, <1>2, <1>3, PTL DEF ScannerSpec

-----------------------------------------------------------------------------
(* Consequences. *)

(***************************************************************************)
(* Nothing a rule can match goes unaccounted for in a finished answer: it  *)
(* starts inside a validated span that was rejected, returned, or gave way *)
(* to something returned that is at least as strong.                       *)
(***************************************************************************)
THEOREM AnswerAccountsForMatches == ScannerSpec => []EveryMatchAnswered
<1>1. ASSUME LoopInv, CallInv, Answered, NEW r \in Rules, NEW t \in Spans, Covers(pattern[r], t)
      PROVE  \E v \in visited :
               /\ v.rule = r /\ v.start <= t.start /\ t.start < v.end
               /\ \/ v \in Rejected
                  \/ \E i \in DOMAIN accepted :
                       /\ accepted[i].candidate = v
                       /\ \/ i \in R!Emitted
                          \/ \E k \in R!Emitted :
                               R!Overlap(i, k) /\ Found[k].strength >= Found[i].strength
  <2>1. pc = "drained" /\ queue = <<>> /\ pending = {} /\ R!Emitted = kept
    BY <1>1 DEF Answered, R!Returned, R!Resolved, LoopInv, QueueInv
  <2>2. Sweeps(visited, pattern)
    BY <1>1, <2>1, EmptyQueueSweeps
  <2>3. PICK v \in visited : v.rule = r /\ v.start <= t.start /\ t.start < v.end
    BY <1>1, <2>2 DEF Sweeps
  <2>4. CASE v \in Rejected
    BY <2>3, <2>4
  <2>5. CASE v \notin Rejected
    <3>1. PICK i \in DOMAIN accepted : accepted[i].candidate = v
      BY <2>3, <2>5 DEF Rejected, AcceptedCandidates
    <3>2. i \in kept \/ \E k \in kept : R!Overlap(i, k) /\ Found[k].strength >= Found[i].strength
      BY <1>1, <2>1 DEF CallInv, DecisionInv
    <3> QED BY <2>1, <2>3, <3>1, <3>2
  <2> QED BY <2>4, <2>5
<1>2. LoopInv /\ CallInv => EveryMatchAnswered
  BY <1>1 DEF EveryMatchAnswered
<1> QED BY <1>2, CallInvariant, PTL

(***************************************************************************)
(* Every returned entity is exactly the accepted text, in the document's   *)
(* own offsets and on characters, and no candidate is returned twice.      *)
(***************************************************************************)
THEOREM AnswersAreExact == ScannerSpec => []AnswerIsExact
<1>1. ASSUME LoopInv, CallInv, base + Size < Word, NEW n \in DOMAIN output
      PROVE  LET a == accepted[output[n].of]
             IN  /\ output[n].of \in DOMAIN accepted
                 /\ output[n].start = base + a.start /\ output[n].end = base + a.end
                 /\ {a.start, a.end} \subseteq Boundaries
  <2> DEFINE i == output[n].of
  <2>1. i \in DOMAIN accepted /\ output[n] = R!Rebase(i)
    <3>1. output[n] \in ReturnedEntries
      BY <1>1, ElementIsInSet DEF CallInv, OutputInv
    <3> QED BY <1>1, <3>1 DEF CallInv, OutputInv, ReturnedEntries
  <2>2. /\ Found[i].start \in Nat /\ Found[i].end \in Nat
        /\ Found[i].start = accepted[i].start /\ Found[i].end = accepted[i].end
        /\ Found[i].start <= Size /\ Found[i].end <= Size
    BY <1>1, <2>1, FoundIsTyped DEF LoopInv, CallInv
  <2>3. base \in Nat /\ Size \in Nat /\ Word \in Nat \ {0}
    BY <1>1, ScannerAssumption, FragmentAssumption DEF CallInv, FixedInv
  <2>4. (Found[i].start + base) % Word = base + accepted[i].start
    <3> DEFINE x == Found[i].start + base
    <3>1. x \in Nat /\ x < Word /\ x = base + accepted[i].start
      BY <1>1, <2>2, <2>3
    <3> HIDE DEF x
    <3>2. x % Word = x
      BY <2>3, <3>1, ModIsNatural
    <3> QED BY <3>1, <3>2 DEF x
  <2>5. (Found[i].end + base) % Word = base + accepted[i].end
    <3> DEFINE x == Found[i].end + base
    <3>1. x \in Nat /\ x < Word /\ x = base + accepted[i].end
      BY <1>1, <2>2, <2>3
    <3> HIDE DEF x
    <3>2. x % Word = x
      BY <2>3, <3>1, ModIsNatural
    <3> QED BY <3>1, <3>2 DEF x
  <2>6. output[n].start = base + accepted[i].start /\ output[n].end = base + accepted[i].end
    BY <2>1, <2>4, <2>5 DEF R!Rebase
  <2>7. {accepted[i].start, accepted[i].end} \subseteq Boundaries
    BY <1>1, <2>1 DEF CallInv, EdgesInv
  <2> QED BY <2>1, <2>6, <2>7
<1>2. ASSUME LoopInv, CallInv, base + Size < Word, NEW m \in DOMAIN output, NEW n \in DOMAIN output,
             accepted[output[m].of].candidate = accepted[output[n].of].candidate
      PROVE  m = n
  <2>1. output[m].of \in DOMAIN accepted /\ output[n].of \in DOMAIN accepted
    BY <1>1, <1>2
  <2>2. output[m].of = output[n].of
    BY <1>2, <2>1 DEF LoopInv, VerdictInv, AcceptedOnce
  <2> QED BY <1>2, <2>2 DEF CallInv, OutputInv
<1>3. LoopInv /\ CallInv => AnswerIsExact
  BY <1>1, <1>2 DEF AnswerIsExact
<1> QED BY <1>3, CallInvariant, PTL

-----------------------------------------------------------------------------
(***************************************************************************)
(* Termination of a call: its height is the height of its loop, then how   *)
(* many entities the greedy pass has not reached, then how many of those   *)
(* it kept are not in the answer.                                          *)
(***************************************************************************)
Unsent == kept \ R!Emitted
PassHeights == Nat \X Nat
PassHeight == <<Cardinality(pending), Cardinality(Unsent)>>
PassDescent == LexPairOrdering(NatLess, NatLess, Nat, Nat)

CallHeight == <<Height, PassHeight>>
CallDescent == LexPairOrdering(Descent, PassDescent, Heights, PassHeights)
CallDescends == <<CallHeight', CallHeight>> \in CallDescent

(* No call has an endless descent. *)
LEMMA CallDescentsEnd == IsWellFoundedOn(CallDescent, Heights \X PassHeights)
<1>1. IsWellFoundedOn(PassDescent, PassHeights)
  BY NatLessIsWellFounded, WFLexPairOrdering DEF PassDescent, PassHeights
<1> QED BY <1>1, DescentsEnd, WFLexPairOrdering DEF CallDescent

LEMMA OneFewerElement ==
  ASSUME NEW S, IsFiniteSet(S), NEW e \in S
  PROVE  /\ Cardinality(S) \in Nat /\ Cardinality(S \ {e}) \in Nat
         /\ Cardinality(S \ {e}) < Cardinality(S)
<1>1. IsFiniteSet(S \ {e}) /\ Cardinality(S \ {e}) = Cardinality(S) - 1
  BY FS_RemoveElement
<1>2. Cardinality(S) \in Nat /\ Cardinality(S \ {e}) \in Nat
  BY <1>1, FS_CardinalityType
<1> QED BY <1>1, <1>2

LEMMA PassIsFinite == TypeOK /\ CallInv => IsFiniteSet(pending) /\ IsFiniteSet(Unsent)
<1> SUFFICES ASSUME TypeOK, CallInv PROVE IsFiniteSet(pending) /\ IsFiniteSet(Unsent)
  OBVIOUS
<1>1. DOMAIN accepted = 1..Len(accepted) /\ Len(accepted) \in Nat
  BY LenProperties DEF TypeOK
<1>2. IsFiniteSet(DOMAIN accepted)
  BY <1>1, FS_Interval
<1>3. pending \subseteq DOMAIN accepted /\ Unsent \subseteq DOMAIN accepted
  BY DEF CallInv, PassInv, Unsent
<1> QED BY <1>2, <1>3, FS_Subset

CallHeightIsWhole == HeightIsWhole /\ Cardinality(pending) \in Nat /\ Cardinality(Unsent) \in Nat

LEMMA CallHeightIsTyped == TypeOK /\ CallInv => CallHeightIsWhole
BY HeightIsTyped, PassIsFinite, FS_CardinalityType DEF CallHeightIsWhole

LEMMA PassFallIsADescent ==
  ASSUME CallHeightIsWhole, CallHeightIsWhole', Height' = Height,
         \/ Cardinality(pending)' < Cardinality(pending)
         \/ /\ Cardinality(pending)' = Cardinality(pending)
            /\ Cardinality(Unsent)' < Cardinality(Unsent)
  PROVE  CallDescends
<1>1. /\ Cardinality(pending) \in Nat /\ Cardinality(Unsent) \in Nat
      /\ Cardinality(pending)' \in Nat /\ Cardinality(Unsent)' \in Nat
  BY DEF CallHeightIsWhole
<1>2. <<PassHeight', PassHeight>> \in PassDescent /\ PassHeight \in PassHeights /\ PassHeight' \in PassHeights
  BY <1>1 DEF PassHeight, PassHeights, PassDescent, LexPairOrdering, NatLess
<1>3. Height \in Heights
  BY DEF CallHeightIsWhole, HeightIsWhole, Height, Heights
<1> QED BY <1>2, <1>3 DEF CallDescends, CallHeight, CallDescent, LexPairOrdering

LEMMA CallStepDescends ==
  LoopInv /\ CallInv /\ CallHeightIsWhole /\ (LoopInv /\ CallHeightIsWhole)' /\ ScannerNext
    => CallDescends
<1> SUFFICES ASSUME LoopInv, CallInv, CallHeightIsWhole, LoopInv', CallHeightIsWhole', ScannerNext
             PROVE  CallDescends
  OBVIOUS
<1>1. CASE Search
  <2>1. Descends
    BY <1>1, StepDescends DEF Search, LoopInv, CallHeightIsWhole
  <2>2. Height \in Heights /\ PassHeight \in PassHeights
    BY DEF CallHeightIsWhole, HeightIsWhole, Height, Heights, PassHeight, PassHeights
  <2>3. Height' \in Heights /\ PassHeight' \in PassHeights
    BY DEF CallHeightIsWhole, HeightIsWhole, Height, Heights, PassHeight, PassHeights
  <2> QED BY <2>1, <2>2, <2>3 DEF Descends, CallDescends, CallHeight, CallDescent, LexPairOrdering
<1>2. CASE Resolution
  <2>1. Height' = Height
    BY <1>2 DEF Resolution, loopVars, Height, Stage, Ahead, BytesLeft, Unvisited
  <2>2. IsFiniteSet(pending) /\ IsFiniteSet(Unsent)
    BY PassIsFinite DEF LoopInv
  <2>3. CASE R!Arbitrate
    <3>1. PICK i \in pending : pending' = pending \ {i}
      BY <2>3 DEF R!Arbitrate
    <3>2. Cardinality(pending') < Cardinality(pending)
      BY <2>2, <3>1, OneFewerElement
    <3> QED BY <2>1, <3>2, PassFallIsADescent
  <2>4. CASE R!Emit
    <3>1. PICK i \in kept \ R!Emitted : output' = Append(output, R!Rebase(i))
      BY <2>4 DEF R!Emit
    <3>2. pending' = pending /\ kept' = kept
      BY <2>4 DEF R!Emit
    <3>3. output \in Seq(ReturnedEntries)
      BY DEF CallInv, OutputInv
    <3> DEFINE e == R!Rebase(i)
    <3>4. e.of = i
      BY DEF R!Rebase
    <3> HIDE DEF e
    <3>5. DOMAIN Append(output, e) = DOMAIN output \union {Len(output) + 1}
      BY <3>3, LenProperties
    <3>6. /\ \A n \in DOMAIN output : Append(output, e)[n] = output[n]
          /\ Append(output, e)[Len(output) + 1] = e
      BY <3>3, LenProperties
    <3>7. output' = Append(output, e)
      BY <3>1 DEF e
    <3>8. {output'[n].of : n \in DOMAIN output'} = {output[n].of : n \in DOMAIN output} \union {i}
      <4>1. Len(output) + 1 \notin DOMAIN output
        BY <3>3, LenProperties
      <4> QED BY <3>4, <3>5, <3>6, <3>7, <4>1
    <3>9. Unsent' = Unsent \ {i} /\ i \in Unsent
      BY <3>1, <3>2, <3>8 DEF Unsent, R!Emitted
    <3>10. Cardinality(Unsent') < Cardinality(Unsent)
      BY <2>2, <3>9, OneFewerElement
    <3> QED BY <2>1, <3>2, <3>10, PassFallIsADescent
  <2> QED BY <1>2, <2>3, <2>4 DEF Resolution, R!Next
<1> QED BY <1>1, <1>2 DEF ScannerNext

(***************************************************************************)
(* A call cannot go on for ever: every step of it, from the first pattern  *)
(* compiled to the last entity returned, descends in a well-founded order. *)
(***************************************************************************)
THEOREM EveryCallDescends == ScannerSpec => [][CallDescends]_scannerVars
<1>1. LoopInv /\ CallInv => CallHeightIsWhole
  BY CallHeightIsTyped DEF LoopInv
<1>2. LoopInv /\ CallInv /\ CallHeightIsWhole /\ (LoopInv /\ CallHeightIsWhole)' /\ [ScannerNext]_scannerVars
        => [CallDescends]_scannerVars
  BY CallStepDescends
<1> QED BY <1>1, <1>2, CallInvariant, PTL DEF ScannerSpec

=============================================================================

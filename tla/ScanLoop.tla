------------------------------ MODULE ScanLoop ------------------------------
(***************************************************************************)
(* The work list of Scanner::scan, src/src/scan/mod.rs: every candidate    *)
(* the prefilter proposes is validated, and a rejection looks inside the   *)
(* rejected span (a shrink) and, for the rules that ask for it, past it    *)
(* (a resume), both on a budget.                                           *)
(*                                                                         *)
(* A validator is external to the loop.  It is asked at most once about a  *)
(* span, so letting it answer either way when it is asked covers every     *)
(* function from spans to verdicts.                                        *)
(***************************************************************************)
EXTENDS Verdicts, FiniteSets

CONSTANTS
  Resuming,             \* the rules whose resumes_past_rejection() is true
  RetryPerCandidate,    \* RETRY_PER_CANDIDATE
  RetryPerFragment,     \* RETRY_PER_FRAGMENT
  ResumePerFragment     \* RETRY_RESUME_PER_FRAGMENT

ASSUME LoopAssumption ==
  /\ Resuming \subseteq Rules
  /\ {RetryPerCandidate, RetryPerFragment, ResumePerFragment} \subseteq Nat

VARIABLES
  pattern,          \* per_rule: the compiled pattern of each rule, fixed for the run
  pc,               \* compile -> collect -> pop <-> interior, pop -> drained
  cursor,           \* the find_iter in progress
  queue,            \* the Vec of work items; the last element is popped first
  visited,          \* the HashSet of candidates already validated
  fragmentRetries,  \* fragment_retries
  fragmentResumes,  \* fragment_resumes
  accepted,         \* the Vec of entities the validators accepted
  queued,           \* history: every work item ever pushed
  shrunk            \* history: every rejected candidate whose interior was searched

loopVars == <<pattern, pc, cursor, queue, visited, fragmentRetries, fragmentResumes,
              accepted, queued, shrunk>>

(* A work item is a candidate and how often its lineage was shrunk. *)
Items ==
  {item \in [rule : Rules, start : Offsets, end : Offsets, retries : 0..RetryPerCandidate] :
     item.start < item.end}
CandidateOf(item) == [rule |-> item.rule, start |-> item.start, end |-> item.end]
ItemFor(r, s, n) == [rule |-> r, start |-> s.start, end |-> s.end, retries |-> n]

Top == queue[Len(queue)]

Popped_Peek == queue                          \* Mutant: looked at and left there.
Popped == SubSeq(queue, 1, Len(queue) - 1)

Push_Front(items, item) ==                    \* Mutant: a queue served first in, first out.
  /\ queue' = <<item>> \o items
  /\ queued' = queued \union {item}
Push(items, item) ==
  /\ queue' = Append(items, item)
  /\ queued' = queued \union {item}

(* The visited set is keyed by rule and span, so two rules may propose one span. *)
Seen_BySpan(item) == \E v \in visited : SpanOf(v) = SpanOf(item)      \* Mutant: not by rule.
Seen_Never(item) == FALSE                                             \* Mutant: not consulted.
Seen(item) == CandidateOf(item) \in visited

(* next_boundary and previous_boundary: Option<usize> as a set of at most one offset. *)
NextBoundary(at) ==
  {b \in Boundaries : at < b /\ b < Size /\ \A d \in Boundaries : at < d => b <= d}

PreviousBoundary_OneByte(start, end) == {b \in {end - 1} : start < b} \* Mutant: a byte down.
PreviousBoundary(start, end) ==
  {b \in Boundaries : start < b /\ b < end /\ \A d \in Boundaries : d < end => d <= b}

(* Where find_iter goes on after a match, and where a slice's match is in the fragment. *)
After_SkipsAByte(m) == IF m.end < Size THEN m.end + 1 ELSE Size       \* Mutant: one too far.
After(m) == m.end

Rebased_Not(m, base) == m                                             \* Mutant: not added.
Rebased(m, base) == [start |-> base + m.start, end |-> base + m.end]

IdleCursor == [rule |-> 1, base |-> 0, limit |-> Size, at |-> 0, retries |-> 0]

(* The interior of a rejected item, from its first byte: the shorter match at the same start counts. *)
InteriorCursor_OneIn(item, limit) ==                                  \* Mutant: from the next byte.
  [rule |-> item.rule, base |-> item.start, limit |-> limit, at |-> 1, retries |-> item.retries + 1]
InteriorCursor(item, limit) ==
  [rule |-> item.rule, base |-> item.start, limit |-> limit, at |-> 0, retries |-> item.retries + 1]

Init ==
  /\ pattern \in PatternSets
  /\ pc = "compile"
  /\ cursor = IdleCursor
  /\ queue = <<>>
  /\ visited = {}
  /\ fragmentRetries = 0
  /\ fragmentResumes = 0
  /\ accepted = <<>>
  /\ queued = {}
  /\ shrunk = {}

(***************************************************************************)
(* Prefilter::compile: a pattern that depends on where its haystack ends   *)
(* fails startup, and no fragment is ever scanned.                         *)
(***************************************************************************)
Compile ==
  /\ pc = "compile"
  /\ pc' = IF \E r \in Rules : HaystackDependent(pattern[r]) THEN "refused" ELSE "collect"
  /\ UNCHANGED <<pattern, cursor, queue, visited, fragmentRetries, fragmentResumes,
                 accepted, queued, shrunk>>

(***************************************************************************)
(* Prefilter::candidates: find_iter over the whole fragment, rule by rule. *)
(* The RegexSet pass only skips the rules for which it yields nothing.     *)
(***************************************************************************)
CollectMatch ==
  /\ pc = "collect"
  /\ \E m \in FindFrom(pattern[cursor.rule], cursor.at) :
       /\ Push(queue, ItemFor(cursor.rule, m, 0))
       /\ cursor' = [cursor EXCEPT !.at = After(m)]
  /\ UNCHANGED <<pattern, pc, visited, fragmentRetries, fragmentResumes, accepted, shrunk>>

CollectNextRule ==
  /\ pc = "collect"
  /\ FindFrom(pattern[cursor.rule], cursor.at) = {}
  /\ IF cursor.rule < RuleCount
       THEN /\ cursor' = [IdleCursor EXCEPT !.rule = cursor.rule + 1]
            /\ UNCHANGED pc
       ELSE /\ cursor' = IdleCursor
            /\ pc' = "pop"
  /\ UNCHANGED <<pattern, queue, visited, fragmentRetries, fragmentResumes, accepted,
                 queued, shrunk>>

(* A candidate that was validated already is dropped, whatever lineage it came by. *)
Skip ==
  /\ pc = "pop" /\ queue # <<>>
  /\ Seen(Top)
  /\ queue' = Popped
  /\ UNCHANGED <<pattern, pc, cursor, visited, fragmentRetries, fragmentResumes, accepted,
                 queued, shrunk>>

Accept ==
  /\ pc = "pop" /\ queue # <<>>
  /\ ~ Seen(Top)
  /\ visited' = visited \union {CandidateOf(Top)}
  /\ \E s \in VerdictSpans(Top) :
       accepted' = Append(accepted, EntityFrom(Top, s))
  /\ queue' = Popped
  /\ UNCHANGED <<pattern, pc, cursor, fragmentRetries, fragmentResumes, queued, shrunk>>

(***************************************************************************)
(* What resuming past the rejected item pushes: at most one span, which    *)
(* keeps the retry count of the item it was resumed from.                  *)
(***************************************************************************)
MayResume(item) == item.rule \in Resuming /\ fragmentResumes < ResumePerFragment

ResumedItems_PastTheEnd(item) ==                                      \* Mutant: from its end.
  IF MayResume(item)
    THEN {ItemFor(item.rule, m, item.retries) : m \in FindFrom(pattern[item.rule], item.end)}
    ELSE {}
ResumedItems(item) ==
  IF MayResume(item)
    THEN {ItemFor(item.rule, m, item.retries) :
            m \in UNION {FindFrom(pattern[item.rule], from) : from \in NextBoundary(item.start)}}
    ELSE {}

Resume(item) ==
  /\ fragmentResumes' = IF MayResume(item) THEN fragmentResumes + 1 ELSE fragmentResumes
  /\ IF ResumedItems(item) = {}
       THEN queue' = Popped /\ queued' = queued
       ELSE \E resumed \in ResumedItems(item) : Push(Popped, resumed)

(***************************************************************************)
(* The interior a rejected item is searched in: the limit of the slice, or *)
(* nothing when a budget is spent or the span is a single character.       *)
(***************************************************************************)
InteriorLimit_OneMore(item) ==                                        \* Mutant: > for >=.
  IF item.retries > RetryPerCandidate \/ fragmentRetries >= RetryPerFragment
    THEN {} ELSE PreviousBoundary(item.start, item.end)
InteriorLimit_OneFewer(item) ==                                       \* Mutant: one shrink less.
  IF item.retries + 1 >= RetryPerCandidate \/ fragmentRetries >= RetryPerFragment
    THEN {} ELSE PreviousBoundary(item.start, item.end)
InteriorLimit(item) ==
  IF item.retries >= RetryPerCandidate \/ fragmentRetries >= RetryPerFragment
    THEN {}
    ELSE PreviousBoundary(item.start, item.end)

Shrink(item) ==
  IF InteriorLimit(item) = {}
    THEN UNCHANGED <<pc, cursor, fragmentRetries, shrunk>>
    ELSE \E limit \in InteriorLimit(item) :
           /\ cursor' = InteriorCursor(item, limit)
           /\ fragmentRetries' = fragmentRetries + 1
           /\ shrunk' = shrunk \union {CandidateOf(item)}
           /\ pc' = "interior"

Reject ==
  /\ pc = "pop" /\ queue # <<>>
  /\ ~ Seen(Top)
  /\ visited' = visited \union {CandidateOf(Top)}
  /\ Resume(Top)
  /\ Shrink(Top)
  /\ UNCHANGED <<pattern, accepted>>

(* find_in yields offsets into the slice, and the loop adds the slice's start back. *)
InteriorMatch ==
  /\ pc = "interior"
  /\ \E m \in FindIn(pattern[cursor.rule], cursor.base, cursor.limit, cursor.at) :
       /\ Push(queue, ItemFor(cursor.rule, Rebased(m, cursor.base), cursor.retries))
       /\ cursor' = [cursor EXCEPT !.at = After(m)]
  /\ UNCHANGED <<pattern, pc, visited, fragmentRetries, fragmentResumes, accepted, shrunk>>

InteriorDone ==
  /\ pc = "interior"
  /\ FindIn(pattern[cursor.rule], cursor.base, cursor.limit, cursor.at) = {}
  /\ cursor' = IdleCursor
  /\ pc' = "pop"
  /\ UNCHANGED <<pattern, queue, visited, fragmentRetries, fragmentResumes, accepted,
                 queued, shrunk>>

(* The queue is empty and accepted goes to resolve. *)
Drain ==
  /\ pc = "pop" /\ queue = <<>>
  /\ pc' = "drained"
  /\ UNCHANGED <<pattern, cursor, queue, visited, fragmentRetries, fragmentResumes, accepted,
                 queued, shrunk>>

Next ==
  \/ Compile
  \/ CollectMatch
  \/ CollectNextRule
  \/ Skip
  \/ Accept
  \/ Reject
  \/ InteriorMatch
  \/ InteriorDone
  \/ Drain

Spec == Init /\ [][Next]_loopVars

-----------------------------------------------------------------------------
(* The shape of the loop's state, with every counter inside its budget. *)
Cursors == [rule : Rules, base : Offsets, limit : Offsets, at : Offsets,
            retries : 0..RetryPerCandidate]
AcceptedEntries == [candidate : Candidates, start : Offsets, end : Offsets]

TypeOK ==
  /\ \A r \in Rules : IsPattern(pattern[r])
  /\ pc \in {"compile", "refused", "collect", "pop", "interior", "drained"}
  /\ cursor \in Cursors
  /\ queue \in Seq(Items)
  /\ visited \subseteq Candidates
  /\ fragmentRetries \in 0..RetryPerFragment
  /\ fragmentResumes \in 0..ResumePerFragment
  /\ accepted \in Seq(AcceptedEntries)
  /\ queued \subseteq Items
  /\ shrunk \subseteq visited

AcceptedCandidates == {accepted[i].candidate : i \in DOMAIN accepted}
Rejected == visited \ AcceptedCandidates
Inside(s, low, high) == low <= s.start /\ s.end <= high

(***************************************************************************)
(* Whatever path a span took to a validator (the prefilter, a slice whose  *)
(* offsets were rebased, a resumed search), it is a match of the rule's    *)
(* own pattern at that place in the fragment.                              *)
(***************************************************************************)
OnlyMatchesValidated == \A c \in visited : Covers(pattern[c.rule], SpanOf(c))

(***************************************************************************)
(* One candidate makes at most one entity, although two lineages may both  *)
(* queue it.                                                               *)
(***************************************************************************)
AcceptedOnce ==
  \A i, j \in DOMAIN accepted : accepted[i].candidate = accepted[j].candidate => i = j

(* The slice the interior search takes starts and ends on a character: taking it cannot panic. *)
SlicesOnBoundaries ==
  pc = "interior" => /\ {cursor.base, cursor.limit} \subseteq Boundaries
                     /\ cursor.base < cursor.limit

(***************************************************************************)
(* The fragment budget counts engine passes exactly: every interior that   *)
(* was searched was paid for once, so at most RETRY_PER_FRAGMENT are.      *)
(***************************************************************************)
RetriesCountSearches == Cardinality(shrunk) = fragmentRetries

(* The budgets bound the searching, never the validating: what was proposed is validated. *)
ProposedIsValidated ==
  pc = "drained" => \A item \in queued : CandidateOf(item) \in visited

(***************************************************************************)
(* Prefilter completeness: every match of a rule starts inside a span that *)
(* was validated for that rule and starts no later.                        *)
(***************************************************************************)
NoMatchUnexamined == pc = "drained" => Sweeps(visited, pattern)

(***************************************************************************)
(* Recovery completeness: the same inside every rejected span that was     *)
(* searched.  A match that starts where the rejected span starts gives a   *)
(* validated span with that start: the shorter reading is always tried.    *)
(***************************************************************************)
InteriorExamined ==
  pc = "drained" =>
    \A c \in shrunk : \A limit \in PreviousBoundary(c.start, c.end) : \A t \in Spans :
      Covers(pattern[c.rule], t) /\ Inside(t, c.start, limit) =>
        \E v \in visited : /\ v.rule = c.rule /\ Inside(v, c.start, limit)
                           /\ v.start <= t.start /\ t.start < v.end

(***************************************************************************)
(* A rejection of a rule whose marker may trail leaves the next reading to *)
(* its right validated, as long as the resume budget lasted.               *)
(***************************************************************************)
ResumeTried ==
  pc = "drained" /\ fragmentResumes < ResumePerFragment =>
    \A c \in Rejected : c.rule \in Resuming =>
      \A from \in NextBoundary(c.start) : \A m \in FindFrom(pattern[c.rule], from) :
        [rule |-> c.rule, start |-> m.start, end |-> m.end] \in visited

(***************************************************************************)
(* While the fragment's budget lasts, the only reason not to look for a    *)
(* match inside a rejected span is that its own lineage used up            *)
(* RETRY_PER_CANDIDATE (src/docs/Rules_And_Patterns.md, "Looking inside a  *)
(* rejected candidate": a match nested more deeply than that is lost).     *)
(* A rule that resumes has another: an inherited retry count.              *)
(***************************************************************************)
HasMatchInside(c) ==
  \E limit \in PreviousBoundary(c.start, c.end) : \E t \in Spans :
    Covers(pattern[c.rule], t) /\ Inside(t, c.start, limit)

ShallowRejectionsSearched ==
  pc = "drained" /\ fragmentRetries < RetryPerFragment =>
    \A item \in queued :
      /\ item.rule \notin Resuming
      /\ CandidateOf(item) \in Rejected
      /\ item.retries < RetryPerCandidate
      /\ HasMatchInside(item)
      => CandidateOf(item) \in shrunk

(***************************************************************************)
(* The stack drains the rules from the last to the first: everything a     *)
(* rule's candidates lead to is judged before any candidate of an earlier  *)
(* rule.  It decides who spends the fragment's budgets and, where resolve  *)
(* finds two readings equally strong, which one is returned.               *)
(***************************************************************************)
LaterRulesFirst ==
  \A i, j \in DOMAIN accepted :
    i < j => accepted[i].candidate.rule >= accepted[j].candidate.rule

(***************************************************************************)
(* The loop implements ScanPromise: each of its steps examines one         *)
(* candidate, ends the scan, or is invisible.                              *)
(***************************************************************************)
Promise == INSTANCE ScanPromise WITH
  examined <- visited,
  reported <- {accepted[i] : i \in DOMAIN accepted},
  done <- pc = "drained"

KeepsPromise == Promise!Spec

=============================================================================

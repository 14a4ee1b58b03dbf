------------------------------ MODULE Verdicts ------------------------------
(***************************************************************************)
(* What the scan loop knows of a rule, src/src/rules/mod.rs: a compiled    *)
(* pattern that proposes candidates and a validator that judges them.      *)
(***************************************************************************)
EXTENDS Prefilter

CONSTANTS
  RuleCount,   \* rules::all().len(); rules are numbered in that order
  PatternSets, \* what the rules may have been compiled from: rule |-> pattern
  Slack        \* how far a verdict may move an edge of its candidate

Rules == 1..RuleCount

ASSUME RulesAssumption ==
  /\ RuleCount \in Nat \ {0}
  /\ \A p \in PatternSets : \A r \in Rules : IsPattern(p[r])
  /\ Slack \in Nat

Candidates == {c \in [rule : Rules, start : Offsets, end : Offsets] : c.start < c.end}
SpanOf(c) == [start |-> c.start, end |-> c.end]

(***************************************************************************)
(* The spans a verdict on c may carry.  A validator trims what the pattern *)
(* swallowed, and money.symbol also moves the start left over a currency   *)
(* code; no validator moves the end right.                                 *)
(***************************************************************************)
VerdictSpans(c) ==
  {s \in Spans : /\ {s.start, s.end} \subseteq Boundaries
                 /\ c.start <= s.start + Slack /\ s.start <= c.start + Slack
                 /\ s.start < c.end
                 /\ s.end <= c.end /\ c.end <= s.end + Slack}

(* An entity as the loop collects it: where it is, and the candidate it was read from. *)
EntityFrom(c, s) == [candidate |-> [rule |-> c.rule, start |-> c.start, end |-> c.end],
                     start |-> s.start, end |-> s.end]

(***************************************************************************)
(* Every match of the rule starts inside an examined span of that rule     *)
(* that starts no later: nothing the pattern can match was passed over.    *)
(***************************************************************************)
Sweeps(examined, pattern) ==
  \A r \in Rules : \A t \in Spans :
    Covers(pattern[r], t) =>
      \E v \in examined : v.rule = r /\ v.start <= t.start /\ t.start < v.end

=============================================================================

----------------------------- MODULE ScanPromise -----------------------------
(***************************************************************************)
(* What a scan promises, without saying in which order it works or on what *)
(* budget: it examines matches of the rules' patterns, judges each of them *)
(* at most once, reports only what a validator accepted, and is not done   *)
(* before every match has been examined or overlapped by one that was.     *)
(***************************************************************************)
EXTENDS Verdicts

VARIABLES
  pattern,    \* the compiled patterns
  examined,   \* the candidates a validator has judged
  reported,   \* the entities accepted so far
  done        \* whether the search is over

promiseVars == <<pattern, examined, reported, done>>

Init ==
  /\ pattern \in PatternSets
  /\ examined = {}
  /\ reported = {}
  /\ done = FALSE

Examine(c) ==
  /\ ~done
  /\ c \notin examined
  /\ Covers(pattern[c.rule], SpanOf(c))
  /\ examined' = examined \union {c}
  /\ \/ reported' = reported
     \/ \E s \in VerdictSpans(c) : reported' = reported \union {EntityFrom(c, s)}
  /\ UNCHANGED <<pattern, done>>

Finish ==
  /\ ~done
  /\ Sweeps(examined, pattern)
  /\ done' = TRUE
  /\ UNCHANGED <<pattern, examined, reported>>

Next == Finish \/ \E c \in Candidates : Examine(c)

Spec == Init /\ [][Next]_promiseVars

=============================================================================

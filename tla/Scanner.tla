------------------------------- MODULE Scanner -------------------------------
(***************************************************************************)
(* One call of Scanner::scan, src/src/scan/mod.rs: the work list runs      *)
(* until it is drained, and what was accepted goes through resolve.        *)
(***************************************************************************)
EXTENDS ScanLoop

CONSTANTS
  Ladders,    \* the precedences the entity types of the rules may have
  Bases,      \* the base_offsets a caller sends
  Word        \* 2^w, where w is the width of usize

ASSUME ScannerAssumption ==
  /\ Ladders \subseteq [Rules -> Nat] /\ Bases \subseteq Nat
  /\ Word \in Nat \ {0}

VARIABLES
  strength,   \* precedence() of the entity type each rule reports, fixed for the run
  base,       \* the base_offset of the request
  pending, kept, output

scannerVars == <<pattern, pc, cursor, queue, visited, fragmentRetries, fragmentResumes,
                 accepted, queued, shrunk, strength, base, pending, kept, output>>

(* The accepted entities as resolve ranks them. *)
Found == [i \in DOMAIN accepted |-> [strength |-> strength[accepted[i].candidate.rule],
                                     start |-> accepted[i].start, end |-> accepted[i].end]]

R == INSTANCE Resolve WITH
  found <- Found, Length <- Size, Strengths <- {l[r] : l \in Ladders, r \in Rules},
  MaxFound <- RuleCount * Size * Size

ScannerInit ==
  /\ Init
  /\ strength \in Ladders /\ base \in Bases /\ pending = {} /\ kept = {} /\ output = <<>>

Search ==
  /\ Next
  /\ pending' = IF pc' = "drained" THEN DOMAIN accepted ELSE {}
  /\ UNCHANGED <<strength, base, kept, output>>

Resolution == pc = "drained" /\ UNCHANGED <<loopVars, strength>> /\ R!Next

ScannerNext == Search \/ Resolution

ScannerSpec == ScannerInit /\ [][ScannerNext]_scannerVars

(* One thread runs it straight through: it never pauses while it can step. *)
FairScannerSpec == ScannerSpec /\ WF_scannerVars(ScannerNext)

-----------------------------------------------------------------------------
Answered == pc = "drained" /\ R!Returned

(***************************************************************************)
(* No match is unaccounted for in the answer: each starts inside a span    *)
(* that was validated for its rule and either rejected or accepted as an   *)
(* entity that is returned or gave way to a returned one at least as       *)
(* strong.                                                                 *)
(***************************************************************************)
EveryMatchAnswered ==
  Answered =>
    \A r \in Rules : \A t \in Spans :
      Covers(pattern[r], t) =>
        \E v \in visited :
          /\ v.rule = r /\ v.start <= t.start /\ t.start < v.end
          /\ \/ v \in Rejected
             \/ \E i \in DOMAIN accepted :
                  /\ accepted[i].candidate = v
                  /\ \/ i \in R!Emitted
                     \/ \E k \in R!Emitted : R!Overlap(i, k) /\ Found[k].strength >= Found[i].strength

(***************************************************************************)
(* An answer holds at most one entity for each candidate, and each is the  *)
(* text between its offsets in the caller's document.                      *)
(***************************************************************************)
AnswerIsExact ==
  base + Size < Word =>
    \A m, n \in DOMAIN output :
      LET a == accepted[output[m].of]
          b == accepted[output[n].of]
      IN  /\ output[m].start = base + a.start /\ output[m].end = base + a.end
          /\ {a.start, a.end} \subseteq Boundaries
          /\ a.candidate = b.candidate => m = n

(* Every call returns: rejections cannot feed the work list for ever. *)
EveryCallReturns == <>(pc = "refused" \/ Answered)

=============================================================================

------------------------------ MODULE Windowing ------------------------------
(***************************************************************************)
(* A caller that scans a document too large for one request, as            *)
(* src/docs/Entity_Contract.md tells it to: it splits the document into    *)
(* overlapping windows, sends each with its own offset, and collects the   *)
(* entities of the answers in a set.  Requests are stateless, so answers   *)
(* come in any order and a window sent twice changes nothing.              *)
(*                                                                         *)
(* The rule it scans with is vessel.mmsi, src/src/rules/maritime.rs: a     *)
(* number of fixed length that stands alone and has a cue.                 *)
(***************************************************************************)
EXTENDS Context

CONSTANTS
  Documents,      \* the documents, as sequences of bytes in which characters are whole
  NumberLength,   \* how many digits a number has: the longest matchable entity
  Overlap         \* by how much the caller lets its windows overlap

ASSUME WindowingAssumption ==
  /\ \A d \in Documents : IsText(d)
  /\ NumberLength \in Nat \ {0} /\ Overlap \in Nat

VARIABLES
  document,      \* the document, fixed for the run
  reached,       \* where the last window sent ends
  outstanding,   \* windows sent and not answered
  answered,      \* windows whose answer was collected
  collected      \* the entities collected, in the document's offsets

windowingVars == <<document, reached, outstanding, answered, collected>>

SpansOf(f) == {c \in [start : 0..Len(f), end : 0..Len(f)] : c.start + NumberLength = c.end}

(* is_standalone: neither neighbouring byte is a letter or a digit; a missing one is not. *)
IsStandalone(f, c) ==
  /\ c.start = 0 \/ ~ IsWordByte(Byte(f, c.start - 1))
  /\ c.end = Len(f) \/ ~ IsWordByte(Byte(f, c.end))

(***************************************************************************)
(* What /scan answers for fragment f.  Only a run of exactly NumberLength  *)
(* digits stands alone, and find_iter always proposes such a run.          *)
(***************************************************************************)
Scan(f) ==
  {c \in SpansOf(f) :
     /\ \A at \in c.start..(c.end - 1) : Byte(f, at) \in Digits
     /\ IsStandalone(f, c)
     /\ HasCue(f, c)}

Moved_Not(c, base) == c                              \* Mutant: the offset is not added.
Moved(c, base) == [start |-> c.start + base, end |-> c.end + base]

Answer(w) == {Moved(c, w.start) : c \in Scan(Slice(document, w.start, w.end))}

Init ==
  /\ document \in Documents
  /\ reached = 0
  /\ outstanding = {}
  /\ answered = {}
  /\ collected = {}

(* The next window starts at least Overlap before the last one ended, and splits no character. *)
Send ==
  /\ reached < Len(document)
  /\ \E a \in 0..reached, b \in (reached + 1)..Len(document) :
       /\ IsCharBoundary(document, a) /\ IsCharBoundary(document, b)
       /\ IF reached = 0 THEN a = 0 ELSE a > 0 /\ a + Overlap <= reached
       /\ b = Len(document) \/ a + Overlap < b
       /\ outstanding' = outstanding \union {[start |-> a, end |-> b]}
       /\ reached' = b
  /\ UNCHANGED <<document, answered, collected>>

Collect ==
  \E w \in outstanding :
    /\ outstanding' = outstanding \ {w}
    /\ answered' = answered \union {w}
    /\ collected' = collected \union Answer(w)
    /\ UNCHANGED <<document, reached>>

Next == Send \/ Collect

Spec == Init /\ [][Next]_windowingVars

-----------------------------------------------------------------------------
Finished == reached = Len(document) /\ outstanding = {}

(* How far a verdict looks: the cue window, and the neighbouring byte. *)
Margin == Max({CueWindow, 1})

(* The window sees all of the context a verdict on c may depend on. *)
SeesContext(w, c) ==
  /\ w.start = 0 \/ w.start + Margin <= c.start
  /\ w.end = Len(document) \/ c.end + Margin <= w.end

(***************************************************************************)
(* Away from the edges of its window, an answer is exact: a number with    *)
(* its whole cue window on both sides is returned for the window if and    *)
(* only if it would be for the whole document.                             *)
(***************************************************************************)
InnerEntitiesExact ==
  \A w \in answered : \A c \in SpansOf(document) :
    SeesContext(w, c) => (c \in Answer(w) <=> c \in Scan(document))

(***************************************************************************)
(* With windows that overlap by the longest entity and its context on both *)
(* sides, nothing is lost on a boundary, in whatever order answers come.   *)
(***************************************************************************)
WideOverlapLosesNothing ==
  Finished /\ Overlap >= NumberLength + 2 * Margin => Scan(document) \subseteq collected

=============================================================================

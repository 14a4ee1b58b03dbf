------------------------------- MODULE Context -------------------------------
(***************************************************************************)
(* Cue words, src/src/rules/context.rs: whether a word that vouches for a  *)
(* candidate stands near it, inside the candidate's own field.  A fragment *)
(* is a sequence of bytes; offsets count from 0, as in the code.  A cue    *)
(* stands for its lower-cased letters, so letters here have no case.       *)
(***************************************************************************)
EXTENDS Naturals, Sequences, FiniteSetsExt

CONSTANTS
  Cue,         \* a cue word, as a sequence of bytes
  CueWindow    \* DEFAULT_CUE_WINDOW

Letters == {"c", "x"}
Digits == {"9"}
Lead == "lead"         \* the first byte of a character of several
Continuation == "~"    \* a byte that does not start a character

(* A cue of the rules may have a space or a wide character in it, but begins and ends with a letter. *)
ASSUME ContextAssumption ==
  /\ Cue \in Seq(STRING) \ {<<>>} /\ {Cue[1], Cue[Len(Cue)]} \subseteq Letters
  /\ CueWindow \in Nat

(* A str holds whole characters. *)
IsText(f) ==
  /\ f \in Seq(STRING)
  /\ \A i \in DOMAIN f : f[i] = Continuation => i > 1 /\ f[i - 1] \in {Lead, Continuation}

Byte(f, at) == f[at + 1]
IsCharBoundary(f, at) == at \notin {0, Len(f)} => Byte(f, at) # Continuation
Slice(f, from, to) == SubSeq(f, from + 1, to)

IsWordByte(b) == b \in Letters \union Digits

(* A line break ends a field unless the next line is indented. *)
EndsAField(f, at) ==
  /\ Byte(f, at) = "\n"
  /\ ~ (at + 1 < Len(f) /\ Byte(f, at + 1) \in {" ", "\t"})

(* Just past the last field-ending break in from..to, and the first one: field_start, field_end. *)
FieldStart_AnyBreak(f, from, to) ==                  \* Mutant: folding is not recognised.
  LET breaks == {at \in from..(to - 1) : Byte(f, at) = "\n"}
  IN  IF breaks = {} THEN from ELSE Max(breaks) + 1
FieldStart_Unbounded(f, from, to) == from            \* Mutant: fields are not looked at.
FieldStart(f, from, to) ==
  LET breaks == {at \in from..(to - 1) : EndsAField(f, at)}
  IN  IF breaks = {} THEN from ELSE Max(breaks) + 1
FieldEnd(f, from, to) ==
  LET breaks == {at \in from..(to - 1) : EndsAField(f, at)}
  IN  IF breaks = {} THEN to ELSE Min(breaks)

(* Where the window begins and ends: never inside a character, never beyond the fragment. *)
WindowStart_InsideAChar(f, start) ==                 \* Mutant: the boundary is not looked for.
  IF start > CueWindow THEN start - CueWindow ELSE 0
WindowStart_OneMore(f, start) ==                     \* Mutant: a window one byte too wide.
  LET from == IF start > CueWindow + 1 THEN start - (CueWindow + 1) ELSE 0
  IN  Min({at \in from..start : at = start \/ IsCharBoundary(f, at)})
WindowStart(f, start) ==
  LET from == IF start > CueWindow THEN start - CueWindow ELSE 0
  IN  Min({at \in from..start : at = start \/ IsCharBoundary(f, at)})
WindowEnd(f, end) ==
  LET to == IF end + CueWindow < Len(f) THEN end + CueWindow ELSE Len(f)
  IN  Max({at \in end..to : at = end \/ IsCharBoundary(f, at)})

SliceBefore(f, c) == [from |-> FieldStart(f, WindowStart(f, c.start), c.start), to |-> c.start]
SliceAfter(f, c) == [from |-> c.end, to |-> FieldEnd(f, c.end, WindowEnd(f, c.end))]

(***************************************************************************)
(* The cue in a slice, delimited there: the edges of the slice count as    *)
(* word boundaries.  match_indices leaves out occurrences that overlap an  *)
(* earlier one; for a cue made of letters those follow a letter, so they   *)
(* are not delimited anyway.                                               *)
(***************************************************************************)
Occurs(f, at) == at + Len(Cue) <= Len(f) /\ Slice(f, at, at + Len(Cue)) = Cue

ContainsWord_AnyPlace(f, s) ==                       \* Mutant: inside a longer word, too.
  \E at \in s.from..s.to : at + Len(Cue) <= s.to /\ Occurs(f, at)
ContainsWord(f, s) ==
  \E at \in s.from..s.to :
    /\ at + Len(Cue) <= s.to /\ Occurs(f, at)
    /\ at = s.from \/ ~ IsWordByte(Byte(f, at - 1))
    /\ at + Len(Cue) = s.to \/ ~ IsWordByte(Byte(f, at + Len(Cue)))

HasCue(f, c) == ContainsWord(f, SliceBefore(f, c)) \/ ContainsWord(f, SliceAfter(f, c))

-----------------------------------------------------------------------------
(* What has_cue promises, said without its slices. *)
(* An occurrence of the cue as a word that may touch the candidate. *)
Delimited(f, c, at) ==
  /\ Occurs(f, at)
  /\ at \in {0, c.end} \/ ~ IsWordByte(Byte(f, at - 1))
  /\ at + Len(Cue) \in {c.start, Len(f)} \/ ~ IsWordByte(Byte(f, at + Len(Cue)))

Near(c, at) ==
  \/ at + Len(Cue) <= c.start /\ c.start <= at + CueWindow
  \/ c.end <= at /\ at + Len(Cue) <= c.end + CueWindow

SameField(f, c, at) ==
  /\ \A b \in at..(c.start - 1) : ~ EndsAField(f, b)
  /\ \A b \in c.end..(at + Len(Cue) - 1) : ~ EndsAField(f, b)

=============================================================================

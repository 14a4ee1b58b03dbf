-------------------------------- MODULE Cues --------------------------------
(***************************************************************************)
(* One question about any candidate of a fragment, put to has_cue of       *)
(* src/src/rules/context.rs or to labelled_by_header of extras.rs.         *)
(***************************************************************************)
EXTENDS Headers

CONSTANT Fragments    \* the fragments, as sequences of bytes in which characters are whole

ASSUME CuesAssumption == \A f \in Fragments : IsText(f)

VARIABLES fragment, candidate, answer

cuesVars == <<fragment, candidate, answer>>

(* A candidate is a run of digits, which are characters of one byte. *)
IsCandidate(f, c) ==
  /\ c.start < c.end
  /\ \A at \in c.start..(c.end - 1) : Byte(f, at) \in Digits

CueInit ==
  /\ fragment \in Fragments
  /\ candidate \in {c \in [start : 0..Len(fragment), end : 0..Len(fragment)] : IsCandidate(fragment, c)}
  /\ answer = "pending"

Ask ==
  /\ answer = "pending"
  /\ answer' = IF HasCue(fragment, candidate) THEN "cue" ELSE "none"
  /\ UNCHANGED <<fragment, candidate>>

AskLabel ==
  /\ answer = "pending"
  /\ answer' = LabelledByHeader(fragment, candidate)
  /\ UNCHANGED <<fragment, candidate>>

CueNext == Ask \/ AskLabel

CueSpec == CueInit /\ [][CueNext]_cuesVars

-----------------------------------------------------------------------------
Places == 0..Len(fragment)

(***************************************************************************)
(* Both slices lie on characters, whatever the window's width cuts through *)
(* (slicing a str anywhere else panics), and neither reaches further than  *)
(* the window or into the candidate.                                       *)
(***************************************************************************)
SlicesAreSound ==
  \A s \in {SliceBefore(fragment, candidate), SliceAfter(fragment, candidate)} :
    /\ s.from <= s.to /\ s.to <= Len(fragment)
    /\ IsCharBoundary(fragment, s.from) /\ IsCharBoundary(fragment, s.to)
    /\ s.to <= candidate.start \/ candidate.end <= s.from
    /\ candidate.start <= s.from + CueWindow /\ s.to <= candidate.end + CueWindow

(* A cue vouches for nothing outside its own field: no unfolded line break lies between. *)
CueStaysInItsField ==
  answer = "cue" => \E at \in Places : Occurs(fragment, at) /\ Near(candidate, at)
                                       /\ SameField(fragment, candidate, at)

(* A cue that stands as a word within the window and in the field is always found. *)
WordIsFound ==
  answer = "none" =>
    ~ \E at \in Places : Delimited(fragment, candidate, at) /\ Near(candidate, at)
                         /\ SameField(fragment, candidate, at)

(***************************************************************************)
(* The converse of WordIsFound that the code does keep: what is found is   *)
(* delimited on the side of the candidate, and on the other side unless    *)
(* the word runs through the far edge of the window.                       *)
(***************************************************************************)
OnlyTheWindowCutsWords ==
  answer = "cue" =>
    \E at \in Places :
      /\ Near(candidate, at) /\ Occurs(fragment, at)
      /\ \/ Delimited(fragment, candidate, at)
         \/ at + CueWindow = candidate.start
         \/ at + Len(Cue) = candidate.end + CueWindow

(***************************************************************************)
(* extras.rs 222: a header, and no longer name that ends in it, labels a   *)
(* token across separators and complete groups.  That comment says "only": *)
(* the walk of extras.rs:237 also overruns what stands left of a '>' that  *)
(* closes no group, back to the next '<', be it prose (`c:<>x>9`); across  *)
(* anything else there is no label.                                        *)
(***************************************************************************)
LabelIsItsHeader ==
  answer = "labelled" => \E at \in Places : HeaderAt(fragment, candidate, at)

(* A validator decides; src/src/rules/mod.rs:110 gives it no third outcome. *)
NeverPanics == answer # "panicked"

=============================================================================

------------------------------ MODULE Headers ------------------------------
(***************************************************************************)
(* message.rfc5322, src/src/rules/extras.rs: a token in angle brackets is  *)
(* a message id when a header's name labels it.  Bytes are those of        *)
(* Context, and Cue is the header's name.                                  *)
(***************************************************************************)
EXTENDS Context

Separators == {" ", "\t", "\n", ",", ";"}
Whitespace == {" ", "\t", "\n"}

(* Where the run of such bytes that ends at `at` begins. *)
RunStart(f, at, bytes) == Min({i \in 0..at : \A j \in i..(at - 1) : Byte(f, j) \in bytes})

(***************************************************************************)
(* The walk left from a candidate: over separators and over groups in      *)
(* angle brackets, until something else; 0 where a group never opens.      *)
(***************************************************************************)
LabelEnd_AnyGap(f, start) == RunStart(f, start, Separators \union {"x", ">", "<"})  \* Mutant: over prose, too.
LabelEnd(f, start) ==
  LET walk[at \in 0..Len(f)] ==
        LET next == RunStart(f, at, Separators)
            opens == {i \in 0..(next - 2) : Byte(f, i) = "<"}
        IN  IF next = 0 \/ Byte(f, next - 1) # ">" THEN next
            ELSE IF opens = {} THEN 0 ELSE walk[Max(opens)]
  IN  walk[start]

(* labelled_by_header: the name is compared by slicing as many bytes off the label as it has. *)
LabelledByHeader(f, c) ==
  LET at == LabelEnd(f, c.start)
      to == RunStart(f, at - 1, Whitespace)
      from == to - Len(Cue)
  IN  IF at = 0 \/ Byte(f, at - 1) # ":" \/ to < Len(Cue) THEN "unlabelled"
      ELSE IF ~ IsCharBoundary(f, from) THEN "panicked"
      ELSE IF Occurs(f, from) /\ (from > 0 => ~ IsWordByte(Byte(f, from - 1)) /\ Byte(f, from - 1) # "-")
        THEN "labelled" ELSE "unlabelled"

-----------------------------------------------------------------------------
(***************************************************************************)
(* What a label promises: the header's own line, and nothing but a list of *)
(* complete groups in between.  A '>' that closes no group is a stray one; *)
(* it is taken for the end of a group that begins at the next '<' on its   *)
(* left, so that what stands between the two, prose included, is overrun.  *)
(***************************************************************************)
IsGroup(f, open, close) ==
  /\ open < close /\ Byte(f, open) = "<" /\ Byte(f, close) = ">"
  /\ \A i \in (open + 1)..(close - 1) : Byte(f, i) \notin {"<", ">"}

IsStray(f, from, close) ==
  Byte(f, close) = ">" /\ \A open \in from..(close - 1) : ~ IsGroup(f, open, close)

Overrun(f, from, to, i) ==
  \E close \in i..(to - 1) : IsStray(f, from, close) /\ \A j \in i..close : Byte(f, j) # "<"

Listed(f, from, to) ==
  \A i \in from..(to - 1) :
    \/ Byte(f, i) \in Separators
    \/ \E open \in from..i, close \in i..(to - 1) : IsGroup(f, open, close)
    \/ Overrun(f, from, to, i)

HeaderAt(f, c, at) ==
  /\ Occurs(f, at)
  /\ at > 0 => ~ IsWordByte(Byte(f, at - 1)) /\ Byte(f, at - 1) # "-"
  /\ \E colon \in (at + Len(Cue))..(c.start - 1) :
       /\ Byte(f, colon) = ":" /\ Listed(f, colon + 1, c.start)
       /\ \A i \in (at + Len(Cue))..(colon - 1) : Byte(f, i) \in Whitespace

=============================================================================

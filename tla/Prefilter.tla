------------------------------ MODULE Prefilter ------------------------------
(***************************************************************************)
(* Stage one of the scanner, src/src/scan/prefilter.rs, over one fragment. *)
(*                                                                         *)
(* A fragment is the byte offsets 0..Size together with the offsets that   *)
(* are character boundaries.  What the regex crate does for one compiled   *)
(* pattern is abstracted to a record                                       *)
(*   ends      at each offset, the ends of the matches that start there,   *)
(*             in the order the leftmost-first engine prefers them;        *)
(*   anchored  whether the pattern only matches up to the end of its       *)
(*             haystack, which is what `$` and a trailing `\b` do;         *)
(*   marks     which of the marks the check at startup looks for its text  *)
(*             contains, be it in an anchor or in a class like `[^>]`.     *)
(* A pattern without lookaround is exactly such a table: whether a match   *)
(* exists from p to q does not depend on anything outside [p, q).          *)
(***************************************************************************)
EXTENDS Naturals, Sequences

CONSTANTS
  Size,        \* fragment.len(), in bytes
  Boundaries   \* the offsets at which is_char_boundary holds

ASSUME FragmentAssumption ==
  /\ Size \in Nat \ {0}
  /\ Boundaries \subseteq 0..Size
  /\ {0, Size} \subseteq Boundaries

Offsets == 0..Size
Spans == {s \in [start : Offsets, end : Offsets] : s.start < s.end}

HaystackMarks == {"^", "$", "\\b"}

(***************************************************************************)
(* The regex crate matches whole characters and, for the patterns of the   *)
(* rule set, never the empty string.  None of the rule set's patterns is   *)
(* anchored by a construct without such a mark (`\z`, `\B`).               *)
(***************************************************************************)
IsPattern(pat) ==
  /\ pat.anchored \in BOOLEAN /\ pat.marks \subseteq HaystackMarks
  /\ pat.anchored => pat.marks # {}
  /\ DOMAIN pat.ends = Offsets
  /\ \A p \in Offsets :
       /\ pat.ends[p] \in Seq(Boundaries)
       /\ \A i \in DOMAIN pat.ends[p] : p \in Boundaries /\ p < pat.ends[p][i]

Fits(pat, end, limit) == IF pat.anchored THEN end = limit ELSE end <= limit

(* s is a match of pat in the whole fragment, whatever the engine prefers. *)
Covers(pat, s) ==
  Fits(pat, s.end, Size) /\ \E i \in DOMAIN pat.ends[s.start] : pat.ends[s.start][i] = s.end

(* s is what the engine reports at s.start in a haystack that ends at limit. *)
Preferred(pat, s, limit) ==
  \E i \in DOMAIN pat.ends[s.start] :
     /\ pat.ends[s.start][i] = s.end
     /\ Fits(pat, s.end, limit)
     /\ \A j \in 1..(i - 1) : ~ Fits(pat, pat.ends[s.start][j], limit)

(***************************************************************************)
(* The first match that starts at or after from, in a haystack that ends   *)
(* at limit: a set of at most one span.                                    *)
(***************************************************************************)
Leftmost(pat, from, limit) ==
  {s \in Spans :
     /\ from <= s.start
     /\ Preferred(pat, s, limit)
     /\ \A t \in Spans : from <= t.start /\ Preferred(pat, t, limit) => s.start <= t.start}

(* Prefilter::find_from: one match, searched in the whole fragment. *)
FindFrom(pat, at) == Leftmost(pat, at, Size)

(***************************************************************************)
(* One step of Prefilter::find_in's iterator over the slice                *)
(* fragment[base..limit]: the next match at or after `at`, all offsets     *)
(* relative to the slice.                                                  *)
(***************************************************************************)
FindIn(pat, base, limit, at) ==
  {[start |-> s.start - base, end |-> s.end - base] : s \in Leftmost(pat, base + at, limit)}

(* reject_haystack_dependent: a pattern whose text contains such a mark fails startup. *)
HaystackDependent_NoDollar(pat) == pat.marks \intersect {"^", "\\b"} # {}  \* Mutant: `$` is not looked for.
HaystackDependent(pat) == pat.marks \intersect HaystackMarks # {}

=============================================================================

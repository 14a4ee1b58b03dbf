------------------------------- MODULE Resolve -------------------------------
(***************************************************************************)
(* Stage four of the scanner, src/src/scan/resolve.rs, and the offsets the *)
(* end of Scanner::scan adds: of the accepted entities that cover the same *)
(* bytes the strongest is kept, and what is kept goes out in the order of  *)
(* the fragment.  The sort is a queue that is served strongest first.      *)
(***************************************************************************)
EXTENDS Naturals, Sequences, FiniteSets

CONSTANTS
  Length,      \* fragment.len()
  Strengths,   \* the values of EntityType::precedence
  MaxFound,    \* bound: how many entities a fragment is accepted with
  Bases,       \* the base_offsets a caller sends
  Word         \* 2^w, where w is the width of usize

ASSUME ResolveAssumption ==
  /\ Length \in Nat /\ Strengths \subseteq Nat /\ Bases \subseteq Nat /\ MaxFound \in Nat
  /\ Word \in Nat \ {0}

VARIABLES
  found,      \* the entities the validators accepted, in the order they were accepted
  base,       \* base_offset
  pending,    \* indices into found the greedy pass has not reached
  kept,       \* indices into found that are kept
  output      \* the entities returned, in order

resolveVars == <<found, base, pending, kept, output>>

Entities ==
  {e \in [strength : Strengths, start : 0..Length, end : 0..Length] : e.start < e.end}
Outputs == [of : Nat, start : 0..(Word - 1), end : 0..(Word - 1)]

Extent(i) == found[i].end - found[i].start

(* The first sort_by: strength, then length, then position, and it is stable. *)
Stronger_LongestFirst(i, j) ==                       \* Mutant: length before strength.
  \/ Extent(i) > Extent(j)
  \/ /\ Extent(i) = Extent(j)
     /\ \/ found[i].strength > found[j].strength
        \/ found[i].strength = found[j].strength /\ i < j
Stronger(i, j) ==
  \/ found[i].strength > found[j].strength
  \/ /\ found[i].strength = found[j].strength
     /\ \/ Extent(i) > Extent(j)
        \/ /\ Extent(i) = Extent(j)
           /\ \/ found[i].start < found[j].start
              \/ found[i].start = found[j].start /\ i < j

Overlap_OneSided(i, j) ==                            \* Mutant: only when i starts inside j.
  found[j].start <= found[i].start /\ found[i].start < found[j].end
Overlap(i, j) == found[i].start < found[j].end /\ found[j].start < found[i].end

(* sort_by_key((start, end)); the sort is stable. *)
Precedes(i, j) ==
  \/ found[i].start < found[j].start
  \/ /\ found[i].start = found[j].start
     /\ \/ found[i].end < found[j].end
        \/ found[i].end = found[j].end /\ i < j

Rebase_Widened(i) ==                                 \* Mutant: the sum does not fit usize.
  [of |-> i, start |-> found[i].start + base, end |-> found[i].end + base]
Rebase_EndOnly(i) ==                                 \* Mutant: the start is left alone.
  [of |-> i, start |-> found[i].start % Word, end |-> (found[i].end + base) % Word]
Rebase(i) ==
  [of |-> i, start |-> (found[i].start + base) % Word, end |-> (found[i].end + base) % Word]

Emitted == {output[n].of : n \in DOMAIN output}

Init ==
  /\ found \in UNION {[1..n -> Entities] : n \in 0..MaxFound}
  /\ base \in Bases
  /\ pending = DOMAIN found
  /\ kept = {}
  /\ output = <<>>

(* Mutant: an entity is dropped for one that was dropped itself. *)
Arbitrate_VersusAll ==
  \E i \in pending :
    /\ \A j \in pending \ {i} : Stronger(i, j)
    /\ pending' = pending \ {i}
    /\ kept' = IF \E k \in DOMAIN found \ pending : Overlap(i, k) THEN kept ELSE kept \union {i}
    /\ UNCHANGED <<found, base, output>>

(* One turn of the greedy loop: the strongest entity left is kept unless it overlaps a kept one. *)
Arbitrate ==
  \E i \in pending :
    /\ \A j \in pending \ {i} : Stronger(i, j)
    /\ pending' = pending \ {i}
    /\ kept' = IF \E k \in kept : Overlap(i, k) THEN kept ELSE kept \union {i}
    /\ UNCHANGED <<found, base, output>>

(* One turn of the last loop, over the sorted result; it adds in usize, which wraps. *)
Emit ==
  /\ pending = {}
  /\ \E i \in kept \ Emitted :
       /\ \A j \in (kept \ Emitted) \ {i} : Precedes(i, j)
       /\ output' = Append(output, Rebase(i))
  /\ UNCHANGED <<found, base, pending, kept>>

Next == Arbitrate \/ Emit

Spec == Init /\ [][Next]_resolveVars

-----------------------------------------------------------------------------
Resolved == pending = {}
Returned == Resolved /\ Emitted = kept
Decided == DOMAIN found \ pending

(* The shape of the pass: it decides indices of found and returns what it kept. *)
TypeOK ==
  /\ found \in Seq(Entities)
  /\ base \in Bases
  /\ pending \subseteq DOMAIN found
  /\ kept \subseteq Decided
  /\ output \in Seq(Outputs)
  /\ Emitted \subseteq kept

(* One stretch of text is one entity: nothing kept overlaps anything else kept. *)
KeptDisjoint == \A i, k \in kept : i # k => ~ Overlap(i, k)

(***************************************************************************)
(* Nothing is lost to a weaker reading or to one that was itself dropped:  *)
(* what is dropped overlaps a kept entity that is stronger, of the same    *)
(* strength and longer, or equal in both and earlier.                      *)
(***************************************************************************)
DroppedIsBeaten ==
  \A i \in Decided \ kept : \E k \in kept :
    /\ Overlap(i, k)
    /\ \/ found[k].strength > found[i].strength
       \/ /\ found[k].strength = found[i].strength
          /\ \/ Extent(k) > Extent(i)
             \/ Extent(k) = Extent(i) /\ found[k].start <= found[i].start

(***************************************************************************)
(* The one reading of the rule "kept unless it overlaps something stronger *)
(* that is kept": no other subset of the accepted entities satisfies it.   *)
(***************************************************************************)
IsKernel(K) == \A i \in DOMAIN found : i \in K <=> ~ \E k \in K : Stronger(k, i) /\ Overlap(i, k)
KeptIsTheKernel == Resolved => \A K \in SUBSET DOMAIN found : IsKernel(K) <=> K = kept

(* Of two equally strong readings of the same bytes, the one accepted first is kept. *)
FirstTwinWins ==
  \A i, j \in Decided :
    found[i] = found[j] /\ j \in kept => i >= j

(***************************************************************************)
(* What is returned reads left to right without overlap in the document's  *)
(* own offsets, if the document ends within the reach of usize.            *)
(***************************************************************************)
OutputInDocumentOrder ==
  base + Length < Word =>
    /\ \A n \in DOMAIN output : base <= output[n].start /\ output[n].start < output[n].end
    /\ \A m, n \in DOMAIN output : m < n => output[m].end <= output[n].start

=============================================================================

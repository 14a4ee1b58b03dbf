---------------------------- MODULE Resolve_proofs ----------------------------
(***************************************************************************)
(* Proofs about Resolve for every fragment length, every number of         *)
(* entities, every set of strengths and every base offset.                 *)
(***************************************************************************)
EXTENDS Resolve, TLAPS, SequenceTheorems

LEMMA SmallIsItsOwnResidue ==
  ASSUME NEW w \in Nat \ {0}, NEW x \in Nat, x < w
  PROVE  x % w = x
OBVIOUS

LEMMA ResidueIsSmall ==
  ASSUME NEW w \in Nat \ {0}, NEW x \in Nat
  PROVE  x % w \in 0..(w - 1)
OBVIOUS

LEMMA FoundIsTyped ==
  ASSUME TypeOK, NEW i \in DOMAIN found
  PROVE  /\ found[i] \in Entities /\ i \in Nat
         /\ found[i].strength \in Nat /\ found[i].start \in Nat /\ found[i].end \in Nat
         /\ found[i].start < found[i].end /\ found[i].end <= Length
<1>1. i \in Nat /\ found[i] \in Entities
  BY LenProperties DEF TypeOK
<1>2. /\ found[i].strength \in Strengths /\ found[i].start \in 0..Length /\ found[i].end \in 0..Length
      /\ found[i].start < found[i].end
  BY <1>1 DEF Entities
<1>3. Strengths \subseteq Nat /\ Length \in Nat
  BY ResolveAssumption
<1>4. found[i].strength \in Nat
  BY <1>2, <1>3
<1>5. found[i].start \in Nat /\ found[i].end \in Nat /\ found[i].end <= Length
  BY <1>2, <1>3
<1> QED BY <1>1, <1>2, <1>4, <1>5

(* The order the greedy pass serves is strict and total on the entities found. *)
LEMMA StrongerIsStrictAndTotal ==
  ASSUME TypeOK, NEW i \in DOMAIN found, NEW j \in DOMAIN found
  PROVE  /\ ~ (Stronger(i, j) /\ Stronger(j, i))
         /\ ~ Stronger(i, i)
         /\ i = j \/ Stronger(i, j) \/ Stronger(j, i)
<1>1. /\ found[i].strength \in Nat /\ found[i].start \in Nat /\ Extent(i) \in Int /\ i \in Nat
      /\ found[j].strength \in Nat /\ found[j].start \in Nat /\ Extent(j) \in Int /\ j \in Nat
  BY FoundIsTyped DEF Extent
<1> QED BY <1>1 DEF Stronger

LEMMA OverlapIsSymmetric == \A i, k : Overlap(i, k) <=> Overlap(k, i)
BY DEF Overlap

-----------------------------------------------------------------------------
(***************************************************************************)
(* The inductive invariant.  Every decided entity is stronger than every   *)
(* pending one, which is what makes a decision final.                      *)
(***************************************************************************)
RankInv == \A d \in Decided : \A p \in pending : Stronger(d, p)

DroppedInv == \A i \in Decided \ kept : \E k \in kept : Overlap(i, k) /\ Stronger(k, i)

KernelInv == \A K \in SUBSET DOMAIN found : IsKernel(K) => K \cap Decided = kept

OutputInv ==
  /\ output # <<>> => pending = {}
  /\ \A n \in DOMAIN output : output[n] = Rebase(output[n].of)
  /\ \A m, n \in DOMAIN output : m < n => Precedes(output[m].of, output[n].of)
  /\ \A e \in Emitted : \A j \in kept \ Emitted : Precedes(e, j)

ResolveInv ==
  /\ TypeOK
  /\ RankInv
  /\ KeptDisjoint
  /\ DroppedInv
  /\ KernelInv
  /\ OutputInv

LEMMA InitResolveInv == Init => ResolveInv
<1> SUFFICES ASSUME Init PROVE ResolveInv
  OBVIOUS
<1>1. PICK n \in 0..MaxFound : found \in [1..n -> Entities]
  BY DEF Init
<1>2. found \in Seq(Entities) /\ Emitted = {} /\ Decided = {} /\ output = <<>> /\ kept = {}
  BY <1>1, ResolveAssumption DEF Init, Emitted, Decided
<1>3. output \in Seq(Outputs) /\ DOMAIN output = {}
  BY <1>2
<1>4. TypeOK
  BY <1>2, <1>3 DEF Init, TypeOK
<1>5. RankInv /\ KeptDisjoint /\ DroppedInv /\ KernelInv
  BY <1>2 DEF RankInv, KeptDisjoint, DroppedInv, KernelInv
<1>6. OutputInv
  BY <1>2, <1>3 DEF OutputInv
<1> QED BY <1>4, <1>5, <1>6 DEF ResolveInv

-----------------------------------------------------------------------------
(* A turn of the greedy loop. *)

LEMMA ArbitrateKeepsInv ==
  ASSUME ResolveInv, Arbitrate
  PROVE  ResolveInv'
<1>1. PICK i \in pending :
        /\ \A j \in pending \ {i} : Stronger(i, j)
        /\ pending' = pending \ {i}
        /\ kept' = IF \E k \in kept : Overlap(i, k) THEN kept ELSE kept \union {i}
        /\ UNCHANGED <<found, base, output>>
  BY DEF Arbitrate
<1>2. TypeOK /\ i \in DOMAIN found
  BY DEF ResolveInv, TypeOK
<1>3. Decided' = Decided \union {i} /\ i \notin Decided /\ kept \subseteq Decided
  BY <1>1, <1>2 DEF Decided, TypeOK
<1>4. i \notin kept
  BY <1>3
<1>5. \A d \in Decided : Stronger(d, i)
  BY <1>1 DEF ResolveInv, RankInv
<1>6. output = <<>> /\ Emitted = {} /\ Emitted' = {}
  BY <1>1 DEF ResolveInv, OutputInv, Emitted
<1>7. TypeOK'
  BY <1>1, <1>2, <1>3, <1>6 DEF TypeOK
<1>8. RankInv'
  <2>1. \A d, p : Stronger(d, p)' <=> Stronger(d, p)
    BY <1>1 DEF Stronger, Extent
  <2> QED BY <1>1, <1>3, <2>1 DEF ResolveInv, RankInv
<1>9. \A j, k : Overlap(j, k)' <=> Overlap(j, k)
  BY <1>1 DEF Overlap
<1>10. KeptDisjoint'
  <2>1. CASE \E k \in kept : Overlap(i, k)
    BY <1>1, <1>9, <2>1 DEF ResolveInv, KeptDisjoint
  <2>2. CASE ~ \E k \in kept : Overlap(i, k)
    BY <1>1, <1>9, <2>2, OverlapIsSymmetric DEF ResolveInv, KeptDisjoint
  <2> QED BY <2>1, <2>2
<1>11. DroppedInv'
  <2>1. \A d, p : Stronger(d, p)' <=> Stronger(d, p)
    BY <1>1 DEF Stronger, Extent
  <2>2. CASE \E k \in kept : Overlap(i, k)
    BY <1>1, <1>3, <1>5, <1>9, <2>1, <2>2 DEF ResolveInv, DroppedInv
  <2>3. CASE ~ \E k \in kept : Overlap(i, k)
    BY <1>1, <1>3, <1>9, <2>1, <2>3 DEF ResolveInv, DroppedInv
  <2> QED BY <2>2, <2>3
<1>12. KernelInv'
  <2>1. SUFFICES ASSUME NEW K \in SUBSET DOMAIN found, IsKernel(K)
                 PROVE  K \cap (Decided \union {i}) = kept'
    BY <1>1, <1>3 DEF KernelInv, IsKernel, Stronger, Extent, Overlap
  <2>2. K \cap Decided = kept
    BY <2>1 DEF ResolveInv, KernelInv
  <2>3. i \in K <=> ~ \E k \in K : Stronger(k, i) /\ Overlap(i, k)
    BY <1>2, <2>1 DEF IsKernel
  <2>4. \A k \in K : Stronger(k, i) => k \in kept
    <3> SUFFICES ASSUME NEW k \in K, Stronger(k, i) PROVE k \in Decided
      BY <2>2
    <3>1. k \in DOMAIN found /\ ~ Stronger(i, k) /\ k # i
      BY <1>2, <2>1, StrongerIsStrictAndTotal
    <3> QED BY <1>1, <3>1 DEF Decided
  <2>5. \A k \in kept : k \in K /\ Stronger(k, i)
    BY <1>3, <1>5, <2>2
  <2>6. i \in K <=> ~ \E k \in kept : Overlap(i, k)
    BY <2>3, <2>4, <2>5
  <2> QED BY <1>1, <2>2, <2>6
<1>13. OutputInv'
  BY <1>1, <1>6 DEF OutputInv
<1> QED BY <1>7, <1>8, <1>10, <1>11, <1>12, <1>13 DEF ResolveInv

-----------------------------------------------------------------------------
(* A turn of the last loop. *)

LEMMA RebaseIsTyped ==
  ASSUME TypeOK, NEW i \in DOMAIN found
  PROVE  Rebase(i) \in Outputs /\ Rebase(i).of = i
<1>1. base \in Nat /\ Word \in Nat \ {0}
  BY ResolveAssumption DEF TypeOK
<1>2. found[i].start + base \in Nat /\ found[i].end + base \in Nat /\ i \in Nat
  BY <1>1, FoundIsTyped
<1>3. (found[i].start + base) % Word \in 0..(Word - 1) /\ (found[i].end + base) % Word \in 0..(Word - 1)
  BY <1>1, <1>2, ResidueIsSmall
<1> QED BY <1>2, <1>3 DEF Rebase, Outputs

LEMMA EmitKeepsInv ==
  ASSUME ResolveInv, Emit
  PROVE  ResolveInv'
<1>1. PICK i \in kept \ Emitted :
        /\ \A j \in (kept \ Emitted) \ {i} : Precedes(i, j)
        /\ output' = Append(output, Rebase(i))
  BY DEF Emit
<1>2. pending = {} /\ UNCHANGED <<found, base, pending, kept>>
  BY DEF Emit
<1>3. TypeOK /\ i \in DOMAIN found
  BY <1>1 DEF ResolveInv, TypeOK, Decided
<1>4. Rebase(i) \in Outputs /\ Rebase(i).of = i
  BY <1>3, RebaseIsTyped
<1>5. /\ output \in Seq(Outputs) /\ Len(output) \in Nat /\ DOMAIN output = 1..Len(output)
  BY LenProperties DEF ResolveInv, TypeOK
<1>6. /\ output' \in Seq(Outputs) /\ Len(output') = Len(output) + 1 /\ output' # <<>>
      /\ \A n \in 1..Len(output) : output'[n] = output[n]
      /\ output'[Len(output) + 1] = Rebase(i)
  BY <1>1, <1>4, <1>5, AppendProperties
<1>7. DOMAIN output' = 1..(Len(output) + 1)
  BY <1>6, LenProperties
<1>8. DOMAIN output' = DOMAIN output \union {Len(output) + 1}
  BY <1>5, <1>7
<1>9. Emitted' = Emitted \union {i}
  BY <1>4, <1>5, <1>6, <1>8 DEF Emitted
<1>10. TypeOK'
  BY <1>1, <1>2, <1>3, <1>6, <1>9 DEF TypeOK, Decided
<1>11. RankInv' /\ KeptDisjoint' /\ DroppedInv' /\ KernelInv'
  BY <1>2 DEF ResolveInv, RankInv, KeptDisjoint, DroppedInv, KernelInv, Decided, Overlap, Stronger,
              Extent, IsKernel
<1>13. \A n \in DOMAIN output' : output'[n] = Rebase(output'[n].of)
  BY <1>4, <1>5, <1>6, <1>8 DEF ResolveInv, OutputInv
<1>14. \A m, n \in DOMAIN output' : m < n => Precedes(output'[m].of, output'[n].of)
  <2>1. SUFFICES ASSUME NEW m \in DOMAIN output', NEW n \in DOMAIN output', m < n
                 PROVE  Precedes(output'[m].of, output'[n].of)
    OBVIOUS
  <2>2. CASE n \in DOMAIN output
    BY <1>5, <1>6, <1>8, <2>1, <2>2 DEF ResolveInv, OutputInv
  <2>3. CASE n = Len(output) + 1
    <3>1. m \in DOMAIN output /\ output'[m] = output[m] /\ output[m].of \in Emitted
      BY <1>5, <1>6, <1>8, <2>1, <2>3 DEF Emitted
    <3> QED BY <1>1, <1>4, <1>6, <2>3, <3>1 DEF ResolveInv, OutputInv
  <2> QED BY <1>8, <2>2, <2>3
<1>15. \A e \in Emitted' : \A j \in kept' \ Emitted' : Precedes(e, j)
  BY <1>1, <1>2, <1>9 DEF ResolveInv, OutputInv
<1>16. OutputInv'
  BY <1>2, <1>13, <1>14, <1>15 DEF OutputInv, Rebase, Precedes
<1> QED BY <1>10, <1>11, <1>16 DEF ResolveInv

LEMMA StepResolveInv == ResolveInv /\ [Next]_resolveVars => ResolveInv'
<1> SUFFICES ASSUME ResolveInv, [Next]_resolveVars PROVE ResolveInv'
  OBVIOUS
<1>1. CASE Arbitrate
  BY <1>1, ArbitrateKeepsInv
<1>2. CASE Emit
  BY <1>2, EmitKeepsInv
<1>3. CASE UNCHANGED resolveVars
  <2>1. UNCHANGED <<found, base, pending, kept, output>>
    BY <1>3 DEF resolveVars
  <2>2. TypeOK'
    BY <2>1 DEF ResolveInv, TypeOK, Decided, Emitted
  <2>3. RankInv' /\ KeptDisjoint' /\ DroppedInv' /\ KernelInv'
    BY <2>1 DEF ResolveInv, RankInv, KeptDisjoint, DroppedInv, KernelInv, Decided, Overlap, Stronger,
                Extent, IsKernel
  <2>4. OutputInv'
    BY <2>1 DEF ResolveInv, OutputInv, Emitted, Rebase, Precedes
  <2> QED BY <2>2, <2>3, <2>4 DEF ResolveInv
<1> QED BY <1>1, <1>2, <1>3 DEF Next

THEOREM ResolveInvariant == Spec => []ResolveInv
BY InitResolveInv, StepResolveInv, PTL DEF Spec

-----------------------------------------------------------------------------
(* Consequences. *)

LEMMA KeptIsAKernel ==
  ASSUME ResolveInv, Resolved
  PROVE  IsKernel(kept)
<1>1. Decided = DOMAIN found /\ kept \subseteq DOMAIN found /\ TypeOK
  BY DEF ResolveInv, TypeOK, Resolved, Decided
<1>2. SUFFICES ASSUME NEW i \in DOMAIN found
               PROVE  i \in kept <=> ~ \E k \in kept : Stronger(k, i) /\ Overlap(i, k)
  BY DEF IsKernel
<1>3. CASE i \in kept
  <2>1. ASSUME NEW k \in kept, Stronger(k, i), Overlap(i, k) PROVE FALSE
    <3>1. k # i
      BY <1>1, <2>1, StrongerIsStrictAndTotal
    <3> QED BY <1>3, <2>1, <3>1 DEF ResolveInv, KeptDisjoint
  <2> QED BY <1>3, <2>1
<1>4. CASE i \notin kept
  BY <1>1, <1>4 DEF ResolveInv, DroppedInv
<1> QED BY <1>3, <1>4

LEMMA InvKernel == ResolveInv => KeptIsTheKernel
<1>1. SUFFICES ASSUME ResolveInv, Resolved, NEW K \in SUBSET DOMAIN found
               PROVE  IsKernel(K) <=> K = kept
  BY DEF KeptIsTheKernel
<1>2. IsKernel(K) => K = kept
  BY <1>1 DEF ResolveInv, KernelInv, Resolved, Decided
<1> QED BY <1>1, <1>2, KeptIsAKernel

LEMMA InvDropped == ResolveInv => DroppedIsBeaten
<1>1. SUFFICES ASSUME ResolveInv, NEW i \in Decided \ kept
               PROVE  \E k \in kept :
                        /\ Overlap(i, k)
                        /\ \/ found[k].strength > found[i].strength
                           \/ /\ found[k].strength = found[i].strength
                              /\ \/ Extent(k) > Extent(i)
                                 \/ Extent(k) = Extent(i) /\ found[k].start <= found[i].start
  BY DEF DroppedIsBeaten
<1>2. PICK k \in kept : Overlap(i, k) /\ Stronger(k, i)
  BY <1>1 DEF ResolveInv, DroppedInv
<1>3. k \in DOMAIN found /\ i \in DOMAIN found /\ TypeOK
  BY <1>1, <1>2 DEF ResolveInv, TypeOK, Decided
<1>4. found[k].start \in Nat /\ found[i].start \in Nat
  BY <1>3, FoundIsTyped
<1> QED BY <1>2, <1>4 DEF Stronger

LEMMA InvTwin == ResolveInv => FirstTwinWins
<1>1. SUFFICES ASSUME ResolveInv, NEW i \in Decided, NEW j \in Decided, found[i] = found[j], j \in kept,
                      ~ (i >= j)
               PROVE  FALSE
  BY DEF FirstTwinWins
<1>2. TypeOK /\ i \in DOMAIN found /\ j \in DOMAIN found
  BY <1>1 DEF ResolveInv, Decided
<1>3. i \in Nat /\ j \in Nat /\ i < j /\ found[i].start < found[i].end
      /\ found[i].start \in Nat /\ found[i].end \in Nat /\ Extent(i) = Extent(j)
  BY <1>1, <1>2, FoundIsTyped DEF Extent
<1>4. Overlap(i, j) /\ \A k : Overlap(i, k) <=> Overlap(j, k)
  BY <1>1, <1>3 DEF Overlap
<1>5. i \notin kept
  BY <1>1, <1>3, <1>4 DEF ResolveInv, KeptDisjoint
<1>6. PICK k \in kept : Overlap(i, k) /\ Stronger(k, i)
  BY <1>1, <1>5 DEF ResolveInv, DroppedInv
<1>7. k = j
  BY <1>1, <1>4, <1>6, OverlapIsSymmetric DEF ResolveInv, KeptDisjoint
<1>8. ~ Stronger(j, i)
  BY <1>1, <1>3, <1>2, FoundIsTyped DEF Stronger, Extent
<1> QED BY <1>6, <1>7, <1>8

LEMMA InvOutput == ResolveInv => OutputInDocumentOrder
<1>1. SUFFICES ASSUME ResolveInv, base + Length < Word
               PROVE  /\ \A n \in DOMAIN output : base <= output[n].start /\ output[n].start < output[n].end
                      /\ \A m, n \in DOMAIN output : m < n => output[m].end <= output[n].start
  BY DEF OutputInDocumentOrder
<1>2. TypeOK /\ base \in Nat /\ Length \in Nat
  BY <1>1, ResolveAssumption DEF ResolveInv, TypeOK
<1>3. ASSUME NEW n \in DOMAIN output
      PROVE  /\ output[n].of \in kept /\ output[n].of \in DOMAIN found
             /\ output[n].start = found[output[n].of].start + base
             /\ output[n].end = found[output[n].of].end + base
  <2>1. output[n].of \in kept
    BY <1>2, <1>3 DEF TypeOK, Emitted
  <2> DEFINE i == output[n].of
  <2>2. i \in DOMAIN found
    BY <1>2, <2>1 DEF TypeOK, Decided
  <2>3. /\ found[i].start \in Nat /\ found[i].end \in Nat
        /\ found[i].start < found[i].end /\ found[i].end <= Length
    BY <1>2, <2>2, FoundIsTyped
  <2>4. /\ (found[i].start + base) % Word = found[i].start + base
        /\ (found[i].end + base) % Word = found[i].end + base
    <3>1. /\ found[i].start + base \in Nat /\ found[i].start + base < Word
          /\ found[i].end + base \in Nat /\ found[i].end + base < Word
      BY <1>1, <1>2, <2>3, ResolveAssumption
    <3> QED BY <3>1, SmallIsItsOwnResidue, ResolveAssumption
  <2>5. output[n] = Rebase(i)
    BY <1>1, <1>3 DEF ResolveInv, OutputInv
  <2> QED BY <2>1, <2>2, <2>4, <2>5 DEF Rebase
<1>4. \A n \in DOMAIN output : base <= output[n].start /\ output[n].start < output[n].end
  BY <1>2, <1>3, FoundIsTyped
<1>5. ASSUME NEW m \in DOMAIN output, NEW n \in DOMAIN output, m < n
      PROVE  output[m].end <= output[n].start
  <2> DEFINE i == output[m].of
             k == output[n].of
  <2>1. /\ i \in kept /\ k \in kept /\ i \in DOMAIN found /\ k \in DOMAIN found
        /\ output[m].end = found[i].end + base /\ output[n].start = found[k].start + base
    BY <1>3, <1>5
  <2>2. Precedes(i, k)
    BY <1>1, <1>5 DEF ResolveInv, OutputInv
  <2>3. /\ found[i].start \in Nat /\ found[i].end \in Nat /\ found[i].start < found[i].end /\ i \in Nat
        /\ found[k].start \in Nat /\ found[k].end \in Nat /\ found[k].start < found[k].end /\ k \in Nat
    BY <1>2, <2>1, FoundIsTyped
  <2> HIDE DEF i, k
  <2>4. i # k /\ found[i].start <= found[k].start
    BY <2>2, <2>3 DEF Precedes
  <2>5. ~ Overlap(i, k)
    BY <1>1, <2>1, <2>4 DEF ResolveInv, KeptDisjoint
  <2> QED BY <1>2, <2>1, <2>3, <2>4, <2>5 DEF Overlap
<1> QED BY <1>4, <1>5

(* Pending, kept and returned positions are positions of found entities, and offsets fit usize. *)
THEOREM ResolveTypeCorrect == Spec => []TypeOK
<1>1. ResolveInv => TypeOK
  BY DEF ResolveInv
<1> QED BY <1>1, ResolveInvariant, PTL

(* What is returned of a fragment never claims one byte for two entities. *)
THEOREM NoTwoEntitiesShareText == Spec => []KeptDisjoint
<1>1. ResolveInv => KeptDisjoint
  BY DEF ResolveInv
<1> QED BY <1>1, ResolveInvariant, PTL

(* An entity is only dropped for one that is kept and ranks at least as high. *)
THEOREM DroppedForAStrongerOne == Spec => []DroppedIsBeaten
BY InvDropped, ResolveInvariant, PTL

(***************************************************************************)
(* The greedy pass computes the only set of entities that are in it        *)
(* exactly when nothing stronger in it overlaps them.                      *)
(***************************************************************************)
THEOREM GreedyIsTheKernel == Spec => []KeptIsTheKernel
BY InvKernel, ResolveInvariant, PTL

(* Of two readings with the same span and strength, the first accepted is kept. *)
THEOREM TiesGoToTheFirstAccepted == Spec => []FirstTwinWins
BY InvTwin, ResolveInvariant, PTL

(* The response is in document order and disjoint as long as the document's offsets fit usize. *)
THEOREM ResponseInDocumentOrder == Spec => []OutputInDocumentOrder
BY InvOutput, ResolveInvariant, PTL

=============================================================================

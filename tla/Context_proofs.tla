----------------------------- MODULE Context_proofs -----------------------------
(***************************************************************************)
(* Proofs about what reads the context of a candidate.  First what the     *)
(* slices of has_cue are and what is found in them, and from that the      *)
(* theorems of Cues: for every fragment of whole characters, every         *)
(* candidate in it, every cue and every width of the window.  Then the     *)
(* theorems of Windowing: for every document of whole characters, every    *)
(* length of number and every choice of windows.                           *)
(***************************************************************************)
EXTENDS Cues, Windowing, TLAPS, SequenceTheorems, NaturalsInduction, WellFoundedInduction

-----------------------------------------------------------------------------
(* The least and the greatest of a set of offsets. *)

NatLess == {p \in Nat \X Nat : p[1] < p[2]}

LEMMA NatLessIsWellFounded == IsWellFoundedOn(NatLess, Nat)
BY NatLessThanWellFounded DEF NatLess, OpToRel

LEMMA LeastOffset ==
  ASSUME NEW S \in SUBSET Nat, S # {}
  PROVE  \E x \in S : \A y \in S : x <= y
<1>1. PICK x \in S : \A y \in S : <<y, x>> \notin NatLess
  BY WFMin, NatLessIsWellFounded
<1>2. ASSUME NEW y \in S PROVE x <= y
  <2>1. x \in Nat /\ y \in Nat /\ (y < x => <<y, x>> \in NatLess)
    BY DEF NatLess
  <2> QED BY <1>1, <2>1
<1> QED BY <1>2

LEMMA MinIsLeast ==
  ASSUME NEW S \in SUBSET Nat, S # {}
  PROVE  Min(S) \in S /\ \A y \in S : Min(S) <= y
BY LeastOffset DEF Min

LEMMA MaxIsGreatest ==
  ASSUME NEW n \in Nat, NEW S \in SUBSET (0..n), S # {}
  PROVE  Max(S) \in S /\ \A y \in S : Max(S) >= y
<1> DEFINE T == {n - x : x \in S}
<1>1. T \in SUBSET Nat /\ T # {}
  <2>1. \A x \in S : n - x \in Nat
    OBVIOUS
  <2>2. PICK x \in S : TRUE
    OBVIOUS
  <2>3. n - x \in T
    OBVIOUS
  <2> QED BY <2>1, <2>3
<1> HIDE DEF T
<1>2. PICK t \in T : \A u \in T : t <= u
  BY <1>1, LeastOffset
<1> USE DEF T
<1>3. PICK x \in S : t = n - x
  BY <1>2
<1>4. \A y \in S : x >= y
  <2> TAKE y \in S
  <2>1. n - y \in T /\ x \in 0..n /\ y \in 0..n
    OBVIOUS
  <2> QED BY <1>2, <1>3, <2>1
<1> QED BY <1>3, <1>4 DEF Max

-----------------------------------------------------------------------------
(* The window: it reaches CueWindow bytes, less what would cut a character. *)

From(start) == IF start > CueWindow THEN start - CueWindow ELSE 0
To(f, end) == IF end + CueWindow < Len(f) THEN end + CueWindow ELSE Len(f)

LEMMA WindowStartIsFirst ==
  ASSUME NEW f, NEW start \in Nat
  PROVE  /\ From(start) \in 0..start /\ start <= From(start) + CueWindow
         /\ WindowStart(f, start) \in From(start)..start
         /\ WindowStart(f, start) = start \/ IsCharBoundary(f, WindowStart(f, start))
         /\ \A at \in From(start)..start :
              at = start \/ IsCharBoundary(f, at) => WindowStart(f, start) <= at
<1>1. From(start) \in 0..start /\ start <= From(start) + CueWindow
  BY ContextAssumption DEF From
<1> DEFINE S == {at \in From(start)..start : at = start \/ IsCharBoundary(f, at)}
<1>2. S \in SUBSET Nat /\ start \in S
  BY <1>1
<1>3. WindowStart(f, start) = Min(S)
  BY DEF WindowStart, From
<1>4. Min(S) \in S /\ \A y \in S : Min(S) <= y
  BY <1>2, MinIsLeast
<1> QED BY <1>1, <1>3, <1>4

LEMMA WindowEndIsLast ==
  ASSUME NEW f, NEW end \in Nat, Len(f) \in Nat, end <= Len(f)
  PROVE  /\ To(f, end) \in end..Len(f) /\ To(f, end) <= end + CueWindow
         /\ WindowEnd(f, end) \in end..To(f, end)
         /\ WindowEnd(f, end) = end \/ IsCharBoundary(f, WindowEnd(f, end))
         /\ \A at \in end..To(f, end) :
              at = end \/ IsCharBoundary(f, at) => at <= WindowEnd(f, end)
<1>1. To(f, end) \in end..Len(f) /\ To(f, end) <= end + CueWindow
  BY ContextAssumption DEF To
<1> DEFINE S == {at \in end..To(f, end) : at = end \/ IsCharBoundary(f, at)}
<1>2. S \in SUBSET (0..Len(f)) /\ end \in S
  BY <1>1
<1>3. WindowEnd(f, end) = Max(S)
  BY DEF WindowEnd, To
<1>4. Max(S) \in S /\ \A y \in S : Max(S) >= y
  BY <1>2, MaxIsGreatest
<1>5. \A y \in S : y <= Max(S)
  BY <1>1, <1>2, <1>4
<1> QED BY <1>1, <1>3, <1>4, <1>5

-----------------------------------------------------------------------------
(* The field: what lies between the candidate and the nearest break that ends one. *)

LEMMA FieldStartIsTheLast ==
  ASSUME NEW f, NEW to \in Nat, NEW from \in 0..to
  PROVE  /\ FieldStart(f, from, to) \in from..to
         /\ \/ FieldStart(f, from, to) = from
            \/ FieldStart(f, from, to) > from /\ EndsAField(f, FieldStart(f, from, to) - 1)
         /\ \A b \in FieldStart(f, from, to)..(to - 1) : ~ EndsAField(f, b)
<1> DEFINE breaks == {at \in from..(to - 1) : EndsAField(f, at)}
<1>1. CASE breaks = {}
  BY <1>1 DEF FieldStart
<1>2. CASE breaks # {}
  <2>1. breaks \in SUBSET (0..to)
    OBVIOUS
  <2>2. Max(breaks) \in breaks /\ \A y \in breaks : Max(breaks) >= y
    BY <1>2, <2>1, MaxIsGreatest
  <2>3. FieldStart(f, from, to) = Max(breaks) + 1
    BY <1>2 DEF FieldStart
  <2> DEFINE last == Max(breaks)
  <2>4. last \in from..(to - 1) /\ EndsAField(f, last) /\ \A y \in breaks : last >= y
    BY <2>2
  <2> HIDE DEF last
  <2>5. \A b \in (last + 1)..(to - 1) : ~ EndsAField(f, b)
    <3> SUFFICES ASSUME NEW b \in (last + 1)..(to - 1), EndsAField(f, b) PROVE FALSE
      OBVIOUS
    <3>1. b \in breaks
      BY <2>4
    <3> QED BY <2>4, <3>1
  <2>6. (last + 1) - 1 = last /\ last + 1 > from /\ last + 1 \in from..to
    BY <2>4
  <2>7. FieldStart(f, from, to) = last + 1
    BY <2>3 DEF last
  <2> HIDE DEF breaks
  <2> QED BY <2>4, <2>5, <2>6, <2>7
<1> QED BY <1>1, <1>2

LEMMA FieldEndIsTheFirst ==
  ASSUME NEW f, NEW to \in Nat, NEW from \in 0..to
  PROVE  /\ FieldEnd(f, from, to) \in from..to
         /\ \/ FieldEnd(f, from, to) = to
            \/ FieldEnd(f, from, to) < to /\ EndsAField(f, FieldEnd(f, from, to))
         /\ \A b \in from..(FieldEnd(f, from, to) - 1) : ~ EndsAField(f, b)
<1> DEFINE breaks == {at \in from..(to - 1) : EndsAField(f, at)}
<1>1. CASE breaks = {}
  BY <1>1 DEF FieldEnd
<1>2. CASE breaks # {}
  <2>1. breaks \in SUBSET Nat
    OBVIOUS
  <2>2. Min(breaks) \in breaks /\ \A y \in breaks : Min(breaks) <= y
    BY <1>2, <2>1, MinIsLeast
  <2> DEFINE first == Min(breaks)
  <2>3. first \in from..(to - 1) /\ EndsAField(f, first) /\ \A y \in breaks : first <= y
    BY <2>2
  <2>4. FieldEnd(f, from, to) = first
    BY <1>2 DEF FieldEnd
  <2> HIDE DEF first
  <2>5. \A b \in from..(first - 1) : ~ EndsAField(f, b)
    <3> SUFFICES ASSUME NEW b \in from..(first - 1), EndsAField(f, b) PROVE FALSE
      OBVIOUS
    <3>1. b \in breaks
      BY <2>3
    <3> QED BY <2>3, <3>1
  <2>6. first \in from..to /\ first < to
    BY <2>3
  <2> HIDE DEF breaks
  <2> QED BY <2>3, <2>4, <2>5, <2>6
<1> QED BY <1>1, <1>2

-----------------------------------------------------------------------------
(* Bytes: a slice holds the bytes of the text it was cut from. *)

LEMMA SliceBytes ==
  ASSUME NEW S, NEW f \in Seq(S), NEW from \in 0..Len(f), NEW to \in from..Len(f)
  PROVE  /\ Slice(f, from, to) \in Seq(S) /\ Len(Slice(f, from, to)) = to - from
         /\ \A i \in 1..(to - from) : Slice(f, from, to)[i] = f[from + i]
<1>1. Len(f) \in Nat /\ \A i \in (from + 1)..to : f[i] \in S
  BY LenProperties
<1>2. /\ SubSeq(f, from + 1, to) \in Seq(S)
      /\ Len(SubSeq(f, from + 1, to)) = IF from + 1 <= to THEN to - (from + 1) + 1 ELSE 0
      /\ \A i \in 1..(to - (from + 1) + 1) : SubSeq(f, from + 1, to)[i] = f[(from + 1) + i - 1]
  BY <1>1, SubSeqProperties
<1> QED BY <1>1, <1>2 DEF Slice

LEMMA CueIsTyped ==
  /\ Cue \in Seq(STRING) /\ Len(Cue) \in Nat \ {0}
  /\ DOMAIN Cue = 1..Len(Cue)
  /\ {Cue[1], Cue[Len(Cue)]} \subseteq Letters
BY ContextAssumption, LenProperties, EmptySeq

LEMMA OccursBytewise ==
  ASSUME NEW f \in Seq(STRING), NEW at \in Nat
  PROVE  Occurs(f, at) <=> /\ at + Len(Cue) <= Len(f)
                           /\ \A i \in 1..Len(Cue) : f[at + i] = Cue[i]
<1>1. Len(f) \in Nat /\ Len(Cue) \in Nat
  BY CueIsTyped, LenProperties
<1>2. ASSUME at + Len(Cue) <= Len(f)
      PROVE  Slice(f, at, at + Len(Cue)) = Cue <=> \A i \in 1..Len(Cue) : f[at + i] = Cue[i]
  <2> DEFINE s == Slice(f, at, at + Len(Cue))
  <2>1. at \in 0..Len(f) /\ at + Len(Cue) \in at..Len(f) /\ (at + Len(Cue)) - at = Len(Cue)
    BY <1>1, <1>2
  <2>2. s \in Seq(STRING) /\ Len(s) = Len(Cue) /\ \A i \in 1..Len(Cue) : s[i] = f[at + i]
    BY <2>1, SliceBytes
  <2> HIDE DEF s
  <2>3. s = Cue <=> \A i \in 1..Len(Cue) : s[i] = Cue[i]
    BY <2>2, CueIsTyped, SeqEqual
  <2> QED BY <2>2, <2>3 DEF s
<1> QED BY <1>2 DEF Occurs

-----------------------------------------------------------------------------
(* What has_cue answers. *)

CandidatesIn(f) == {c \in [start : 0..Len(f), end : 0..Len(f)] : IsCandidate(f, c)}

LEMMA TextIsTyped ==
  ASSUME NEW f, IsText(f)
  PROVE  /\ f \in Seq(STRING) /\ Len(f) \in Nat /\ DOMAIN f = 1..Len(f)
         /\ \A i \in 1..Len(f) : f[i] = Continuation => i > 1 /\ f[i - 1] \in {Lead, Continuation}
BY LenProperties DEF IsText

LEMMA CandidateIsTyped ==
  ASSUME NEW f, IsText(f), NEW c \in CandidatesIn(f)
  PROVE  /\ c.start \in Nat /\ c.end \in Nat /\ c.start < c.end /\ c.end <= Len(f)
         /\ \A at \in c.start..(c.end - 1) : Byte(f, at) \in Digits
BY TextIsTyped DEF CandidatesIn, IsCandidate

(* Just behind a byte that begins and ends a character there is a boundary. *)
LEMMA BoundaryBehind ==
  ASSUME NEW f, IsText(f), NEW at \in 0..(Len(f) - 1), Byte(f, at) \notin {Lead, Continuation}
  PROVE  IsCharBoundary(f, at) /\ IsCharBoundary(f, at + 1)
<1>1. Byte(f, at) = f[at + 1] /\ Byte(f, at + 1) = f[at + 2]
  BY TextIsTyped DEF Byte
<1>2. at + 1 # Len(f) => f[at + 2] # Continuation
  <2>1. at + 1 # Len(f) => at + 2 \in 1..Len(f) /\ (at + 2) - 1 = at + 1
    BY TextIsTyped
  <2> QED BY <1>1, <2>1, TextIsTyped
<1> QED BY <1>1, <1>2 DEF IsCharBoundary

LEMMA CandidateOnBoundaries ==
  ASSUME NEW f, IsText(f), NEW c \in CandidatesIn(f)
  PROVE  IsCharBoundary(f, c.start) /\ IsCharBoundary(f, c.end)
<1>1. /\ c.start \in 0..(Len(f) - 1) /\ Byte(f, c.start) \in Digits
      /\ c.end - 1 \in 0..(Len(f) - 1) /\ Byte(f, c.end - 1) \in Digits
      /\ (c.end - 1) + 1 = c.end
  BY CandidateIsTyped, TextIsTyped
<1>2. Digits \cap {Lead, Continuation} = {}
  BY DEF Digits, Lead, Continuation
<1>3. IsCharBoundary(f, c.start)
  BY <1>1, <1>2, BoundaryBehind
<1>4. IsCharBoundary(f, (c.end - 1) + 1)
  BY <1>1, <1>2, BoundaryBehind
<1> QED BY <1>1, <1>3, <1>4

LEMMA BreaksAreCharacters ==
  ASSUME NEW f, IsText(f), NEW at \in 0..(Len(f) - 1), EndsAField(f, at)
  PROVE  IsCharBoundary(f, at) /\ IsCharBoundary(f, at + 1) /\ ~ IsWordByte(Byte(f, at))
BY BoundaryBehind DEF EndsAField, Lead, Continuation, IsWordByte, Letters, Digits

-----------------------------------------------------------------------------
(* The slices lie on characters, within the window and outside the candidate. *)

LEMMA BeforeIsSound ==
  ASSUME NEW f, IsText(f), NEW c \in CandidatesIn(f), NEW s, s = SliceBefore(f, c)
  PROVE  /\ s.from \in WindowStart(f, c.start)..c.start /\ s.to = c.start
         /\ WindowStart(f, c.start) \in From(c.start)..c.start
         /\ c.start <= s.from + CueWindow
         /\ IsCharBoundary(f, s.from) /\ IsCharBoundary(f, s.to)
<1> DEFINE w == WindowStart(f, c.start)
<1>1. /\ c.start \in Nat /\ c.start <= Len(f) /\ c.start < Len(f) /\ Len(f) \in Nat
      /\ IsCharBoundary(f, c.start)
  BY CandidateIsTyped, CandidateOnBoundaries, TextIsTyped
<1>2. /\ From(c.start) \in 0..c.start /\ c.start <= From(c.start) + CueWindow
      /\ w \in From(c.start)..c.start
      /\ IsCharBoundary(f, w)
  BY <1>1, WindowStartIsFirst
<1> HIDE DEF w
<1>3. w \in 0..c.start
  BY <1>1, <1>2
<1>4. /\ FieldStart(f, w, c.start) \in w..c.start
      /\ \/ FieldStart(f, w, c.start) = w
         \/ FieldStart(f, w, c.start) > w /\ EndsAField(f, FieldStart(f, w, c.start) - 1)
  BY <1>1, <1>3, FieldStartIsTheLast
<1>5. s.from = FieldStart(f, w, c.start) /\ s.to = c.start
  BY DEF SliceBefore, w
<1>6. IsCharBoundary(f, s.from)
  <2>1. CASE s.from > w /\ EndsAField(f, s.from - 1)
    <3>1. s.from - 1 \in 0..(Len(f) - 1) /\ (s.from - 1) + 1 = s.from
      BY <1>1, <1>3, <1>4, <1>5, <2>1
    <3>2. IsCharBoundary(f, (s.from - 1) + 1)
      BY <2>1, <3>1, BreaksAreCharacters
    <3> QED BY <3>1, <3>2
  <2> QED BY <1>2, <1>4, <1>5, <2>1
<1>7. c.start <= s.from + CueWindow
  BY <1>1, <1>2, <1>3, <1>4, <1>5, ContextAssumption
<1> QED BY <1>1, <1>2, <1>4, <1>5, <1>6, <1>7 DEF w

LEMMA AfterIsSound ==
  ASSUME NEW f, IsText(f), NEW c \in CandidatesIn(f), NEW s, s = SliceAfter(f, c)
  PROVE  /\ s.from = c.end /\ s.to \in c.end..WindowEnd(f, c.end)
         /\ WindowEnd(f, c.end) \in c.end..To(f, c.end)
         /\ s.to <= Len(f) /\ s.to <= c.end + CueWindow
         /\ IsCharBoundary(f, s.from) /\ IsCharBoundary(f, s.to)
<1> DEFINE w == WindowEnd(f, c.end)
<1>1. c.end \in Nat /\ c.end <= Len(f) /\ Len(f) \in Nat /\ IsCharBoundary(f, c.end)
  BY CandidateIsTyped, CandidateOnBoundaries, TextIsTyped
<1>2. /\ To(f, c.end) \in c.end..Len(f) /\ To(f, c.end) <= c.end + CueWindow
      /\ w \in c.end..To(f, c.end)
      /\ IsCharBoundary(f, w)
  BY <1>1, WindowEndIsLast
<1> HIDE DEF w
<1>3. w \in Nat /\ c.end \in 0..w /\ w <= Len(f) /\ w <= c.end + CueWindow
  BY <1>1, <1>2, ContextAssumption
<1>4. /\ FieldEnd(f, c.end, w) \in c.end..w
      /\ \/ FieldEnd(f, c.end, w) = w
         \/ FieldEnd(f, c.end, w) < w /\ EndsAField(f, FieldEnd(f, c.end, w))
  BY <1>3, FieldEndIsTheFirst
<1>5. s.from = c.end /\ s.to = FieldEnd(f, c.end, w)
  BY DEF SliceAfter, w
<1>6. IsCharBoundary(f, s.to)
  <2>1. CASE s.to < w /\ EndsAField(f, s.to)
    <3>1. s.to \in 0..(Len(f) - 1)
      BY <1>1, <1>3, <1>4, <1>5, <2>1
    <3> QED BY <2>1, <3>1, BreaksAreCharacters
  <2> QED BY <1>2, <1>4, <1>5, <2>1
<1>7. s.to <= Len(f) /\ s.to <= c.end + CueWindow
  BY <1>1, <1>3, <1>4, <1>5, ContextAssumption
<1> QED BY <1>1, <1>2, <1>4, <1>5, <1>6, <1>7 DEF w

-----------------------------------------------------------------------------
(* What is found, and where: between the candidate and the nearest end of its field. *)

Found(f, c, at) ==
  /\ Occurs(f, at) /\ Near(c, at) /\ SameField(f, c, at)
  /\ \/ Delimited(f, c, at)
     \/ at + CueWindow = c.start
     \/ at + Len(Cue) = c.end + CueWindow

LEMMA FoundBefore ==
  ASSUME NEW f, IsText(f), NEW c \in CandidatesIn(f), ContainsWord(f, SliceBefore(f, c))
  PROVE  \E at \in 0..Len(f) : Found(f, c, at)
<1> DEFINE s == SliceBefore(f, c)
<1> DEFINE w == WindowStart(f, c.start)
<1>1. /\ c.start \in Nat /\ c.end \in Nat /\ c.start < c.end /\ c.end <= Len(f)
      /\ Len(f) \in Nat /\ Len(Cue) \in Nat \ {0} /\ CueWindow \in Nat
  BY CandidateIsTyped, TextIsTyped, CueIsTyped, ContextAssumption
<1>2. /\ s.from \in w..c.start /\ s.to = c.start /\ w \in From(c.start)..c.start
      /\ c.start <= s.from + CueWindow /\ From(c.start) \in 0..c.start
  BY <1>1, BeforeIsSound, WindowStartIsFirst
<1>3. \A at \in From(c.start)..c.start : at = c.start \/ IsCharBoundary(f, at) => w <= at
  BY <1>1, WindowStartIsFirst
<1>4. w \in 0..c.start
  BY <1>1, <1>2
<1>5. /\ s.from = w \/ (s.from > w /\ EndsAField(f, s.from - 1))
      /\ \A b \in s.from..(c.start - 1) : ~ EndsAField(f, b)
  <2>1. s.from = FieldStart(f, w, c.start)
    BY DEF SliceBefore
  <2> HIDE DEF s, w
  <2> QED BY <1>1, <1>4, <2>1, FieldStartIsTheLast
<1>6. PICK at \in s.from..s.to :
        /\ at + Len(Cue) <= s.to /\ Occurs(f, at)
        /\ at = s.from \/ ~ IsWordByte(Byte(f, at - 1))
        /\ at + Len(Cue) = s.to \/ ~ IsWordByte(Byte(f, at + Len(Cue)))
  BY DEF ContainsWord
<1> HIDE DEF s, w
<1>7. at \in 0..Len(f) /\ at \in Nat /\ at + Len(Cue) <= c.start /\ c.start <= at + CueWindow
  BY <1>1, <1>2, <1>4, <1>6
<1>8. Near(c, at)
  BY <1>7 DEF Near
<1>9. SameField(f, c, at)
  <2>1. \A b \in at..(c.start - 1) : b \in s.from..(c.start - 1)
    BY <1>1, <1>2, <1>4, <1>6
  <2>2. c.end..(at + Len(Cue) - 1) = {}
    BY <1>1, <1>7
  <2> QED BY <1>5, <2>1, <2>2 DEF SameField
<1>10. at + Len(Cue) \in {c.start, Len(f)} \/ ~ IsWordByte(Byte(f, at + Len(Cue)))
  BY <1>2, <1>6
<1>11. at \in {0, c.end} \/ ~ IsWordByte(Byte(f, at - 1)) \/ at + CueWindow = c.start
  <2>1. CASE at = s.from /\ s.from > w /\ EndsAField(f, s.from - 1)
    <3>1. at - 1 \in 0..(Len(f) - 1)
      BY <1>1, <1>4, <1>7, <2>1
    <3> QED BY <2>1, <3>1, BreaksAreCharacters
  <2>2. CASE at = w /\ w # From(c.start)
    <3>1. at - 1 \in From(c.start)..c.start /\ ~ (at <= at - 1) /\ at - 1 # c.start
      BY <1>1, <1>2, <1>4, <2>2
    <3>2. ~ IsCharBoundary(f, at - 1)
      BY <1>3, <2>2, <3>1
    <3>3. Byte(f, at - 1) = Continuation
      BY <3>2 DEF IsCharBoundary
    <3> QED BY <3>3 DEF IsWordByte, Letters, Digits, Continuation
  <2>3. CASE at = w /\ w = From(c.start)
    BY <1>1, <2>3 DEF From
  <2> QED BY <1>5, <1>6, <2>1, <2>2, <2>3
<1> QED BY <1>6, <1>7, <1>8, <1>9, <1>10, <1>11 DEF Found, Delimited

LEMMA FoundAfter ==
  ASSUME NEW f, IsText(f), NEW c \in CandidatesIn(f), ContainsWord(f, SliceAfter(f, c))
  PROVE  \E at \in 0..Len(f) : Found(f, c, at)
<1> DEFINE s == SliceAfter(f, c)
<1> DEFINE w == WindowEnd(f, c.end)
<1>1. /\ c.start \in Nat /\ c.end \in Nat /\ c.start < c.end /\ c.end <= Len(f)
      /\ Len(f) \in Nat /\ Len(Cue) \in Nat \ {0} /\ CueWindow \in Nat
  BY CandidateIsTyped, TextIsTyped, CueIsTyped, ContextAssumption
<1>2. /\ s.from = c.end /\ s.to \in c.end..w /\ w \in c.end..To(f, c.end)
      /\ s.to <= Len(f) /\ s.to <= c.end + CueWindow
      /\ To(f, c.end) \in c.end..Len(f)
  BY <1>1, AfterIsSound, WindowEndIsLast
<1>3. \A at \in c.end..To(f, c.end) : at = c.end \/ IsCharBoundary(f, at) => at <= w
  BY <1>1, WindowEndIsLast
<1>4. w \in Nat /\ c.end \in 0..w /\ w <= Len(f)
  BY <1>1, <1>2
<1>5. /\ s.to = w \/ (s.to < w /\ EndsAField(f, s.to))
      /\ \A b \in c.end..(s.to - 1) : ~ EndsAField(f, b)
  <2>1. s.to = FieldEnd(f, c.end, w)
    BY DEF SliceAfter
  <2> HIDE DEF s, w
  <2> QED BY <1>4, <2>1, FieldEndIsTheFirst
<1>6. PICK at \in s.from..s.to :
        /\ at + Len(Cue) <= s.to /\ Occurs(f, at)
        /\ at = s.from \/ ~ IsWordByte(Byte(f, at - 1))
        /\ at + Len(Cue) = s.to \/ ~ IsWordByte(Byte(f, at + Len(Cue)))
  BY DEF ContainsWord
<1> HIDE DEF s, w
<1>7. at \in 0..Len(f) /\ at \in Nat /\ c.end <= at /\ at + Len(Cue) <= c.end + CueWindow
  BY <1>1, <1>2, <1>4, <1>6
<1>8. Near(c, at)
  BY <1>7 DEF Near
<1>9. SameField(f, c, at)
  BY <1>1, <1>2, <1>4, <1>5, <1>6, <1>7 DEF SameField
<1>10. at \in {0, c.end} \/ ~ IsWordByte(Byte(f, at - 1))
  BY <1>2, <1>6
<1> DEFINE to == at + Len(Cue)
<1>11. to \in {c.start, Len(f)} \/ ~ IsWordByte(Byte(f, to)) \/ to = c.end + CueWindow
  <2>1. CASE to = s.to /\ s.to < w /\ EndsAField(f, s.to)
    <3>1. to \in 0..(Len(f) - 1)
      BY <1>1, <1>4, <1>7, <2>1
    <3> QED BY <2>1, <3>1, BreaksAreCharacters
  <2>2. CASE to = w /\ w # To(f, c.end)
    <3>1. w + 1 \in c.end..To(f, c.end) /\ ~ (w + 1 <= w) /\ w + 1 # c.end /\ w + 1 <= Len(f)
      BY <1>1, <1>2, <1>4, <2>2
    <3>2. ~ IsCharBoundary(f, w + 1)
      BY <1>3, <3>1
    <3>3. w + 2 \in 1..Len(f) /\ f[w + 2] = Continuation /\ (w + 2) - 1 = w + 1
      <4>1. w + 1 # Len(f) /\ Byte(f, w + 1) = Continuation
        BY <3>2 DEF IsCharBoundary
      <4>2. (w + 1) + 1 = w + 2
        BY <1>4
      <4> QED BY <1>1, <1>4, <3>1, <4>1, <4>2 DEF Byte
    <3>4. f[w + 1] \in {Lead, Continuation}
      BY <3>3, TextIsTyped
    <3> QED BY <2>2, <3>4 DEF Byte, IsWordByte, Letters, Digits, Lead, Continuation
  <2>3. CASE to = w /\ w = To(f, c.end)
    BY <1>1, <2>3 DEF To
  <2> QED BY <1>5, <1>6, <2>1, <2>2, <2>3
<1> QED BY <1>6, <1>7, <1>8, <1>9, <1>10, <1>11 DEF Found, Delimited

-----------------------------------------------------------------------------
(* A cue that stands as a word, near and in the field, lies in a slice. *)

LEMMA CueOnCharacters ==
  ASSUME NEW f, IsText(f), NEW at \in Nat, Occurs(f, at)
  PROVE  /\ at + Len(Cue) <= Len(f)
         /\ IsCharBoundary(f, at) /\ IsCharBoundary(f, at + Len(Cue))
<1>1. /\ at + Len(Cue) <= Len(f) /\ \A i \in 1..Len(Cue) : f[at + i] = Cue[i]
      /\ Len(f) \in Nat /\ Len(Cue) \in Nat \ {0}
  BY OccursBytewise, TextIsTyped, CueIsTyped
<1>2. f[at + 1] = Cue[1] /\ f[at + Len(Cue)] = Cue[Len(Cue)]
  BY <1>1
<1>3. Letters \cap {Lead, Continuation} = {} /\ Cue[1] \in Letters /\ Cue[Len(Cue)] \in Letters
  BY CueIsTyped DEF Letters, Lead, Continuation
<1> DEFINE last == at + Len(Cue) - 1
<1>4. /\ at \in 0..(Len(f) - 1) /\ last \in 0..(Len(f) - 1)
      /\ last + 1 = at + Len(Cue)
  BY <1>1
<1>5. Byte(f, at) = Cue[1] /\ Byte(f, last) = Cue[Len(Cue)]
  BY <1>2, <1>4 DEF Byte
<1> HIDE DEF last
<1>6. IsCharBoundary(f, at) /\ IsCharBoundary(f, last + 1)
  BY <1>3, <1>4, <1>5, BoundaryBehind
<1> QED BY <1>1, <1>4, <1>6

LEMMA WordBefore ==
  ASSUME NEW f, IsText(f), NEW c \in CandidatesIn(f), NEW at \in Nat,
         Delimited(f, c, at), SameField(f, c, at), at + Len(Cue) <= c.start, c.start <= at + CueWindow
  PROVE  ContainsWord(f, SliceBefore(f, c))
<1> DEFINE s == SliceBefore(f, c)
<1> DEFINE w == WindowStart(f, c.start)
<1>1. /\ c.start \in Nat /\ c.end \in Nat /\ c.start < c.end /\ c.end <= Len(f)
      /\ Len(f) \in Nat /\ Len(Cue) \in Nat \ {0} /\ CueWindow \in Nat
  BY CandidateIsTyped, TextIsTyped, CueIsTyped, ContextAssumption
<1>2. s.from \in w..c.start /\ s.to = c.start /\ w \in From(c.start)..c.start
  BY BeforeIsSound
<1>3. From(c.start) \in 0..c.start
  BY <1>1, WindowStartIsFirst
<1>4. s.from = w \/ (s.from > w /\ EndsAField(f, s.from - 1))
  <2>1. w \in 0..c.start /\ s.from = FieldStart(f, w, c.start)
    BY <1>1, <1>2, <1>3 DEF SliceBefore
  <2> HIDE DEF s, w
  <2> QED BY <1>1, <2>1, FieldStartIsTheLast
<1>5. w <= at
  <2>1. Occurs(f, at)
    BY DEF Delimited
  <2>2. IsCharBoundary(f, at)
    BY <2>1, CueOnCharacters
  <2>3. at \in From(c.start)..c.start
    BY <1>1 DEF From
  <2> QED BY <1>1, <2>2, <2>3, WindowStartIsFirst
<1> HIDE DEF s, w
<1>6. s.from <= at
  <2> SUFFICES ASSUME at < s.from PROVE FALSE
    BY <1>1, <1>2, <1>3
  <2>1. EndsAField(f, s.from - 1) /\ s.from - 1 \in at..(c.start - 1)
    BY <1>1, <1>2, <1>3, <1>4, <1>5
  <2> QED BY <2>1 DEF SameField
<1>7. at \in s.from..s.to /\ at + Len(Cue) <= s.to
  BY <1>1, <1>2, <1>3, <1>6
<1>8. at = s.from \/ ~ IsWordByte(Byte(f, at - 1))
  BY <1>1, <1>2, <1>3, <1>6 DEF Delimited
<1>9. at + Len(Cue) = s.to \/ ~ IsWordByte(Byte(f, at + Len(Cue)))
  BY <1>1, <1>2 DEF Delimited
<1> QED BY <1>7, <1>8, <1>9 DEF ContainsWord, Delimited, s

LEMMA WordAfter ==
  ASSUME NEW f, IsText(f), NEW c \in CandidatesIn(f), NEW at \in Nat,
         Delimited(f, c, at), SameField(f, c, at), c.end <= at, at + Len(Cue) <= c.end + CueWindow
  PROVE  ContainsWord(f, SliceAfter(f, c))
<1> DEFINE s == SliceAfter(f, c)
<1> DEFINE w == WindowEnd(f, c.end)
<1> DEFINE to == at + Len(Cue)
<1>1. /\ c.start \in Nat /\ c.end \in Nat /\ c.start < c.end /\ c.end <= Len(f)
      /\ Len(f) \in Nat /\ Len(Cue) \in Nat \ {0} /\ CueWindow \in Nat
  BY CandidateIsTyped, TextIsTyped, CueIsTyped, ContextAssumption
<1>2. /\ s.from = c.end /\ s.to \in c.end..w /\ w \in c.end..To(f, c.end)
      /\ s.to <= Len(f)
  BY AfterIsSound
<1>3. To(f, c.end) \in c.end..Len(f)
  BY <1>1, WindowEndIsLast
<1>4. s.to = w \/ (s.to < w /\ EndsAField(f, s.to))
  <2>1. w \in Nat /\ c.end \in 0..w /\ s.to = FieldEnd(f, c.end, w)
    BY <1>1, <1>2, <1>3 DEF SliceAfter
  <2> HIDE DEF s, w
  <2> QED BY <2>1, FieldEndIsTheFirst
<1>5. to <= w /\ to <= Len(f)
  <2>1. Occurs(f, at)
    BY DEF Delimited
  <2>2. IsCharBoundary(f, to) /\ to <= Len(f)
    BY <2>1, CueOnCharacters
  <2>3. to \in c.end..To(f, c.end)
    BY <1>1, <2>2 DEF To
  <2> QED BY <1>1, <2>2, <2>3, WindowEndIsLast
<1>6. to \in Nat /\ to = at + Len(Cue) /\ c.end < to
  BY <1>1
<1> HIDE DEF s, w, to
<1>7. to <= s.to
  <2> SUFFICES ASSUME s.to < to PROVE FALSE
    BY <1>1, <1>2, <1>3, <1>6
  <2>1. EndsAField(f, s.to) /\ s.to \in c.end..(to - 1)
    BY <1>1, <1>2, <1>3, <1>4, <1>5, <1>6
  <2> QED BY <1>6, <2>1 DEF SameField
<1>8. at \in s.from..s.to
  BY <1>1, <1>2, <1>3, <1>6, <1>7
<1>9. at = s.from \/ ~ IsWordByte(Byte(f, at - 1))
  BY <1>1, <1>2 DEF Delimited
<1>10. to = s.to \/ ~ IsWordByte(Byte(f, to))
  BY <1>1, <1>2, <1>3, <1>5, <1>6, <1>7 DEF Delimited
<1> QED BY <1>6, <1>7, <1>8, <1>9, <1>10 DEF ContainsWord, Delimited, s

-----------------------------------------------------------------------------
(***************************************************************************)
(* The invariant: the question does not change, and the answer is that of  *)
(* the handler that was asked.                                             *)
(***************************************************************************)
AnswerInv ==
  /\ fragment \in Fragments /\ candidate \in CandidatesIn(fragment)
  /\ answer = "cue" => HasCue(fragment, candidate)
  /\ answer = "none" => ~ HasCue(fragment, candidate)
  /\ answer = "labelled" => LabelledByHeader(fragment, candidate) = "labelled"

THEOREM AnswersAreTheirHandlers == CueSpec => []AnswerInv
<1>1. CueInit => AnswerInv
  BY DEF CueInit, AnswerInv, CandidatesIn
<1>2. AnswerInv /\ [CueNext]_cuesVars => AnswerInv'
  <2> SUFFICES ASSUME AnswerInv, [CueNext]_cuesVars PROVE AnswerInv'
    OBVIOUS
  <2>1. CASE Ask
    BY <2>1 DEF Ask, AnswerInv
  <2>2. CASE AskLabel
    <3>1. LabelledByHeader(fragment, candidate) \in {"unlabelled", "panicked", "labelled"}
      BY DEF LabelledByHeader
    <3> QED BY <2>2, <3>1 DEF AskLabel, AnswerInv
  <2>3. CASE UNCHANGED cuesVars
    BY <2>3 DEF cuesVars, AnswerInv
  <2> QED BY <2>1, <2>2, <2>3 DEF CueNext
<1> QED BY <1>1, <1>2, PTL DEF CueSpec

LEMMA QuestionIsText ==
  ASSUME AnswerInv
  PROVE  IsText(fragment) /\ candidate \in CandidatesIn(fragment)
BY CuesAssumption DEF AnswerInv

LEMMA CueIsFound ==
  ASSUME AnswerInv, answer = "cue"
  PROVE  \E at \in Places : Found(fragment, candidate, at)
BY QuestionIsText, FoundBefore, FoundAfter DEF AnswerInv, HasCue, Places

(***************************************************************************)
(* However the window's width falls among the characters of the fragment,  *)
(* slice_before and slice_after cut it between two of them, within the     *)
(* window, and outside the candidate.                                      *)
(***************************************************************************)
THEOREM SlicesNeverSplitCharacters == CueSpec => []SlicesAreSound
<1>1. ASSUME AnswerInv PROVE SlicesAreSound
  <2> DEFINE f == fragment
  <2> DEFINE c == candidate
  <2>1. IsText(f) /\ c \in CandidatesIn(f)
    BY <1>1, QuestionIsText
  <2>2. /\ c.start \in Nat /\ c.end \in Nat /\ c.start < c.end /\ c.end <= Len(f)
        /\ Len(f) \in Nat /\ CueWindow \in Nat
    BY <2>1, CandidateIsTyped, TextIsTyped, ContextAssumption
  <2> HIDE DEF f, c
  <2>3. ASSUME NEW s, s = SliceBefore(f, c)
        PROVE  /\ s.from <= s.to /\ s.to <= Len(f)
               /\ IsCharBoundary(f, s.from) /\ IsCharBoundary(f, s.to)
               /\ s.to <= c.start
               /\ c.start <= s.from + CueWindow /\ s.to <= c.end + CueWindow
    <3>1. /\ s.from \in WindowStart(f, c.start)..c.start /\ s.to = c.start
          /\ c.start <= s.from + CueWindow
          /\ IsCharBoundary(f, s.from) /\ IsCharBoundary(f, s.to)
      BY <2>1, <2>3, BeforeIsSound
    <3>2. s.from <= c.start
      BY <2>2, <3>1
    <3> QED BY <2>2, <3>1, <3>2
  <2>4. ASSUME NEW s, s = SliceAfter(f, c)
        PROVE  /\ s.from <= s.to /\ s.to <= Len(f)
               /\ IsCharBoundary(f, s.from) /\ IsCharBoundary(f, s.to)
               /\ c.end <= s.from
               /\ c.start <= s.from + CueWindow /\ s.to <= c.end + CueWindow
    <3>1. /\ s.from = c.end /\ s.to \in c.end..WindowEnd(f, c.end)
          /\ s.to <= Len(f) /\ s.to <= c.end + CueWindow
          /\ IsCharBoundary(f, s.from) /\ IsCharBoundary(f, s.to)
      BY <2>1, <2>4, AfterIsSound
    <3>2. c.end <= s.to
      BY <2>2, <3>1
    <3> QED BY <2>2, <3>1, <3>2
  <2>5. ASSUME NEW s \in {SliceBefore(f, c), SliceAfter(f, c)}
        PROVE  /\ s.from <= s.to /\ s.to <= Len(f)
               /\ IsCharBoundary(f, s.from) /\ IsCharBoundary(f, s.to)
               /\ s.to <= c.start \/ c.end <= s.from
               /\ c.start <= s.from + CueWindow /\ s.to <= c.end + CueWindow
    BY <2>3, <2>4
  <2> QED BY <2>5 DEF SlicesAreSound, f, c
<1> QED BY <1>1, AnswersAreTheirHandlers, PTL

(* No cue vouches for a candidate across an unfolded line break. *)
THEOREM CuesStayInTheirField == CueSpec => []CueStaysInItsField
<1>1. AnswerInv => CueStaysInItsField
  BY CueIsFound DEF CueStaysInItsField, Found
<1> QED BY <1>1, AnswersAreTheirHandlers, PTL

(* A cue that is a word, within the window and in the field, is never missed. *)
THEOREM NoCueIsMissed == CueSpec => []WordIsFound
<1>1. ASSUME AnswerInv, answer = "none", NEW at \in Places, Delimited(fragment, candidate, at),
             Near(candidate, at), SameField(fragment, candidate, at)
      PROVE  FALSE
  <2>1. at \in Nat
    BY <1>1, QuestionIsText, TextIsTyped DEF Places
  <2> QED BY <1>1, <2>1, QuestionIsText, WordBefore, WordAfter DEF AnswerInv, HasCue, Near
<1>2. AnswerInv => WordIsFound
  BY <1>1 DEF WordIsFound
<1> QED BY <1>2, AnswersAreTheirHandlers, PTL

(* What is taken for a cue is a whole word, unless the window itself cuts a longer one. *)
THEOREM CuesAreWords == CueSpec => []OnlyTheWindowCutsWords
<1>1. AnswerInv => OnlyTheWindowCutsWords
  BY CueIsFound DEF OnlyTheWindowCutsWords, Found
<1> QED BY <1>1, AnswersAreTheirHandlers, PTL

-----------------------------------------------------------------------------
(***************************************************************************)
(* The walk of labelled_by_header.  It is a recursive function; that one   *)
(* exists, and what it returns, follow from the least place where it would *)
(* fail, as each step goes further to the left.                            *)
(***************************************************************************)
StepLeft(f, g, at) ==
  LET next == RunStart(f, at, Separators)
      opens == {i \in 0..(next - 2) : Byte(f, i) = "<"}
  IN  IF next = 0 \/ Byte(f, next - 1) # ">" THEN next
      ELSE IF opens = {} THEN 0 ELSE g[Max(opens)]

IsWalk(f, g, n) == g = [at \in 0..n |-> StepLeft(f, g, at)]
Walk(f) == CHOOSE g : g = [at \in 0..Len(f) |-> StepLeft(f, g, at)]

LEMMA LabelEndIsAWalk ==
  ASSUME NEW f, NEW start
  PROVE  LabelEnd(f, start) = Walk(f)[start]
BY DEF LabelEnd, Walk, StepLeft

LEMMA RunIsABlock ==
  ASSUME NEW f, NEW at \in Nat, NEW bytes
  PROVE  /\ RunStart(f, at, bytes) \in 0..at
         /\ \A j \in RunStart(f, at, bytes)..(at - 1) : Byte(f, j) \in bytes
<1> DEFINE S == {i \in 0..at : \A j \in i..(at - 1) : Byte(f, j) \in bytes}
<1>1. S \in SUBSET Nat /\ at \in S
  OBVIOUS
<1>2. Min(S) \in S
  BY <1>1, MinIsLeast
<1> QED BY <1>2 DEF RunStart

(* A step looks no further than the opening bracket of the group on its left. *)
LEMMA StepIsLocal ==
  ASSUME NEW f, NEW at \in Nat
  PROVE  \/ \A g : StepLeft(f, g, at) = RunStart(f, at, Separators)
         \/ \A g : StepLeft(f, g, at) = 0
         \/ \E m \in 0..(at - 1) :
              /\ m < RunStart(f, at, Separators) - 1 /\ Byte(f, m) = "<"
              /\ Byte(f, RunStart(f, at, Separators) - 1) = ">"
              /\ \A j \in (m + 1)..(RunStart(f, at, Separators) - 2) : Byte(f, j) # "<"
              /\ \A g : StepLeft(f, g, at) = g[m]
<1> DEFINE next == RunStart(f, at, Separators)
<1> DEFINE opens == {i \in 0..(next - 2) : Byte(f, i) = "<"}
<1>1. next \in 0..at
  BY RunIsABlock
<1>2. \A g : StepLeft(f, g, at) = IF next = 0 \/ Byte(f, next - 1) # ">" THEN next
                                  ELSE IF opens = {} THEN 0 ELSE g[Max(opens)]
  BY DEF StepLeft
<1>3. CASE next # 0 /\ Byte(f, next - 1) = ">" /\ opens # {}
  <2> DEFINE m == Max(opens)
  <2>1. opens \in SUBSET (0..at)
    BY <1>1
  <2>2. m \in opens /\ \A i \in opens : i <= m
    BY <1>3, <2>1, MaxIsGreatest
  <2>3. m \in 0..(at - 1) /\ m < next - 1 /\ Byte(f, m) = "<"
    BY <1>1, <2>2
  <2>4. \A g : StepLeft(f, g, at) = g[m]
    BY <1>2, <1>3
  <2>5. ASSUME NEW j \in (m + 1)..(next - 2)
        PROVE  Byte(f, j) # "<"
    <3>1. j \in 0..(next - 2) /\ ~ (j <= m)
      BY <1>1, <2>3
    <3> HIDE DEF m
    <3> QED BY <2>2, <3>1
  <2> HIDE DEF m, opens, next
  <2> QED BY <1>3, <2>3, <2>4, <2>5 DEF next
<1> HIDE DEF opens, next
<1>4. CASE next = 0 \/ Byte(f, next - 1) # ">"
  BY <1>2, <1>4 DEF next
<1>5. CASE next # 0 /\ Byte(f, next - 1) = ">" /\ opens = {}
  BY <1>2, <1>5 DEF next
<1> QED BY <1>3, <1>4, <1>5

LEMMA StepAgrees ==
  ASSUME NEW f, NEW at \in Nat, NEW g, NEW h, \A m \in 0..(at - 1) : g[m] = h[m]
  PROVE  StepLeft(f, g, at) = StepLeft(f, h, at)
BY StepIsLocal

LEMMA WalkExtends ==
  ASSUME NEW f, NEW n \in Nat, NEW h, n > 0 => IsWalk(f, h, n - 1)
  PROVE  \E g : IsWalk(f, g, n)
<1> DEFINE g == [at \in 0..n |-> IF at < n THEN h[at] ELSE StepLeft(f, h, n)]
<1>1. ASSUME NEW at \in 0..n
      PROVE  g[at] = StepLeft(f, g, at)
  <2>1. \A m \in 0..(at - 1) : m \in 0..n /\ m < n /\ g[m] = h[m]
    OBVIOUS
  <2> DEFINE k == g
  <2>2. g[at] = IF at < n THEN h[at] ELSE StepLeft(f, h, n)
    OBVIOUS
  <2> HIDE DEF g
  <2>3. StepLeft(f, g, at) = StepLeft(f, h, at)
    BY <2>1, StepAgrees
  <2>4. CASE at < n
    <3>1. h = [a \in 0..(n - 1) |-> StepLeft(f, h, a)] /\ at \in 0..(n - 1)
      BY <2>4 DEF IsWalk
    <3>2. h[at] = StepLeft(f, h, at)
      BY <3>1
    <3> QED BY <2>2, <2>3, <2>4, <3>2
  <2>5. CASE ~ (at < n)
    <3>1. at = n
      BY <2>5
    <3> QED BY <2>2, <2>3, <2>5, <3>1
  <2> QED BY <2>4, <2>5
<1>2. g = [at \in 0..n |-> g[at]]
  OBVIOUS
<1> HIDE DEF g
<1>3. g = [at \in 0..n |-> StepLeft(f, g, at)]
  BY <1>1, <1>2
<1> QED BY <1>3 DEF IsWalk

LEMMA WalkExists ==
  ASSUME NEW f, Len(f) \in Nat
  PROVE  Walk(f) = [at \in 0..Len(f) |-> StepLeft(f, Walk(f), at)]
<1> DEFINE failing == {n \in Nat : ~ \E g : IsWalk(f, g, n)}
<1>1. failing = {}
  <2> SUFFICES ASSUME failing # {} PROVE FALSE
    OBVIOUS
  <2>1. failing \in SUBSET Nat
    OBVIOUS
  <2> HIDE DEF failing
  <2>2. PICK n \in failing : \A k \in failing : n <= k
    BY <2>1, LeastOffset
  <2>3. n \in Nat /\ ~ \E g : IsWalk(f, g, n)
    BY <2>2 DEF failing
  <2>4. CASE n = 0
    BY <2>3, <2>4, WalkExtends
  <2>5. CASE n # 0
    <3>1. n - 1 \in Nat /\ n > 0 /\ ~ (n <= n - 1)
      BY <2>3, <2>5
    <3>2. n - 1 \notin failing
      BY <2>2, <3>1
    <3>3. PICK h : IsWalk(f, h, n - 1)
      BY <3>1, <3>2 DEF failing
    <3> QED BY <2>3, <3>3, WalkExtends
  <2> QED BY <2>4, <2>5
<1>2. \E g : g = [at \in 0..Len(f) |-> StepLeft(f, g, at)]
  BY <1>1 DEF IsWalk
<1> QED BY <1>2 DEF Walk

(***************************************************************************)
(* What the walk crosses from a '>' back to the nearest '<' on its left:   *)
(* that '<' opens a group, and if another '>' closes it, the last one is   *)
(* stray and overruns the rest.                                            *)
(***************************************************************************)
Crossed(f, from, to, i) ==
  \/ Byte(f, i) \in Separators
  \/ \E open \in from..i, close \in i..(to - 1) : IsGroup(f, open, close)
  \/ Overrun(f, from, to, i)

LEMMA BracketsAreCrossed ==
  ASSUME NEW f, NEW m \in Nat, NEW close \in Nat, m < close,
         Byte(f, m) = "<", Byte(f, close) = ">",
         \A j \in (m + 1)..(close - 1) : Byte(f, j) # "<",
         NEW from \in 0..m, NEW to \in Nat, close < to,
         NEW i \in m..close
  PROVE  Crossed(f, from, to, i)
<1> DEFINE ends == {j \in (m + 1)..close : Byte(f, j) = ">"}
<1>1. ends \in SUBSET Nat /\ ends # {}
  OBVIOUS
<1>2. PICK e \in ends : \A j \in ends : e <= j
  <2> HIDE DEF ends
  <2> QED BY <1>1, LeastOffset
<1>3. e \in (m + 1)..close /\ Byte(f, e) = ">"
  BY <1>2
<1>4. ASSUME NEW j \in (m + 1)..(e - 1)
      PROVE  Byte(f, j) \notin {"<", ">"}
  <2>1. j \in (m + 1)..close /\ j \in (m + 1)..(close - 1) /\ ~ (e <= j)
    BY <1>3
  <2>2. j \notin ends
    BY <1>2, <2>1
  <2> QED BY <2>1, <2>2
<1> HIDE DEF ends
<1>5. IsGroup(f, m, e)
  BY <1>3, <1>4 DEF IsGroup
<1>6. CASE i <= e
  <2>1. m \in from..i /\ e \in i..(to - 1)
    BY <1>3, <1>6
  <2> QED BY <1>5, <2>1 DEF Crossed
<1>7. CASE ~ (i <= e)
  <2>1. e \in (m + 1)..(close - 1) /\ close \in i..(to - 1)
    BY <1>3, <1>7
  <2>2. ASSUME NEW open \in from..(close - 1), IsGroup(f, open, close)
        PROVE  FALSE
    <3>1. Byte(f, open) = "<" /\ \A j \in (open + 1)..(close - 1) : Byte(f, j) \notin {"<", ">"}
      BY <2>2 DEF IsGroup
    <3>2. open \notin (m + 1)..(close - 1)
      BY <3>1
    <3>3. e \in (open + 1)..(close - 1)
      BY <2>1, <3>2
    <3> QED BY <1>3, <3>1, <3>3
  <2>3. IsStray(f, from, close)
    BY <2>2 DEF IsStray
  <2>4. ASSUME NEW j \in i..close
        PROVE  Byte(f, j) # "<"
    <3>1. j \in (m + 1)..(close - 1) \/ j = close
      BY <1>3, <1>7
    <3> QED BY <3>1
  <2>5. Overrun(f, from, to, i)
    BY <2>1, <2>3, <2>4 DEF Overrun
  <2> QED BY <2>5 DEF Crossed
<1> QED BY <1>6, <1>7

(* A list behind r that ends at m stays one when the text behind m goes on. *)
LEMMA CrossedStays ==
  ASSUME NEW f, NEW r \in Nat, NEW m \in Nat, NEW at \in Nat, m <= at,
         NEW i \in r..(m - 1), Crossed(f, r, m, i)
  PROVE  Crossed(f, r, at, i)
<1>1. \A close \in i..(m - 1) : close \in i..(at - 1)
  OBVIOUS
<1> QED BY <1>1 DEF Crossed, Overrun

(* Unless it gives up at 0, the walk has crossed a list as Listed describes it. *)
LEMMA WalkCrossesAList ==
  ASSUME NEW f, IsText(f), NEW start \in 0..Len(f)
  PROVE  /\ LabelEnd(f, start) \in 0..start
         /\ LabelEnd(f, start) # 0 => Listed(f, LabelEnd(f, start), start)
<1> DEFINE g == Walk(f)
<1>1. Len(f) \in Nat /\ \A at \in 0..Len(f) : g[at] = StepLeft(f, g, at)
  BY TextIsTyped, WalkExists
<1> DEFINE Good(at) == g[at] \in 0..at /\ (g[at] # 0 => Listed(f, g[at], at))
<1>2. ASSUME NEW at \in 0..Len(f), \A m \in 0..(at - 1) : Good(m)
      PROVE  Good(at)
  <2> DEFINE next == RunStart(f, at, Separators)
  <2>1. at \in Nat /\ g[at] = StepLeft(f, g, at)
    BY <1>1
  <2>2. next \in 0..at /\ \A j \in next..(at - 1) : Byte(f, j) \in Separators
    BY <2>1, RunIsABlock
  <2> HIDE DEF next
  <2>3. CASE g[at] = next
    BY <2>2, <2>3 DEF Listed
  <2>4. CASE g[at] = 0
    BY <2>1, <2>4
  <2>5. ASSUME NEW m \in 0..(at - 1), m < next - 1, Byte(f, m) = "<", Byte(f, next - 1) = ">",
               \A j \in (m + 1)..(next - 2) : Byte(f, j) # "<",
               g[at] = g[m]
        PROVE  Good(at)
    <3>1. g[m] \in 0..m /\ (g[m] # 0 => Listed(f, g[m], m))
      BY <1>2, <2>5
    <3>2. ASSUME g[m] # 0 PROVE Listed(f, g[m], at)
      <4>1. PICK r : r = g[m]
        OBVIOUS
      <4>2. r \in 0..m /\ Listed(f, r, m)
        BY <3>1, <3>2, <4>1
      <4> HIDE DEF g
      <4>3. /\ m \in Nat /\ at \in Nat /\ r \in Nat /\ m <= at
            /\ next - 1 \in Nat /\ next - 1 < at /\ (next - 1) - 1 = next - 2
        BY <2>1, <2>2, <2>5, <4>2
      <4>4. ASSUME NEW i \in r..(at - 1)
            PROVE  Crossed(f, r, at, i)
        <5>1. CASE i < m
          <6>1. i \in r..(m - 1)
            BY <4>3, <5>1
          <6>2. Crossed(f, r, m, i)
            BY <4>2, <6>1 DEF Listed, Crossed
          <6> QED BY <4>3, <6>1, <6>2, CrossedStays
        <5>2. CASE m <= i /\ i < next
          <6>1. i \in m..(next - 1)
            BY <2>2, <4>3, <5>2
          <6>2. \A j \in (m + 1)..((next - 1) - 1) : Byte(f, j) # "<"
            BY <2>5, <4>3
          <6> QED BY <2>5, <4>2, <4>3, <6>1, <6>2, BracketsAreCrossed
        <5>3. CASE next <= i
          BY <2>2, <4>3, <4>4, <5>3 DEF Crossed
        <5> QED BY <2>2, <4>3, <5>1, <5>2, <5>3
      <4>5. Listed(f, r, at)
        BY <4>4 DEF Listed, Crossed
      <4> QED BY <4>1, <4>5
    <3>3. g[m] \in 0..at
      BY <2>1, <3>1
    <3> QED BY <2>5, <3>2, <3>3
  <2> QED BY <2>1, <2>3, <2>4, <2>5, StepIsLocal DEF next
<1> HIDE DEF g, Good
<1> DEFINE bad == {at \in 0..Len(f) : ~ Good(at)}
<1>3. bad = {}
  <2> SUFFICES ASSUME bad # {} PROVE FALSE
    OBVIOUS
  <2>1. bad \in SUBSET Nat
    OBVIOUS
  <2> HIDE DEF bad
  <2>2. PICK at \in bad : \A k \in bad : at <= k
    BY <2>1, LeastOffset
  <2>3. at \in 0..Len(f) /\ ~ Good(at)
    BY <2>2 DEF bad
  <2>4. \A m \in 0..(at - 1) : m \in 0..Len(f) /\ ~ (at <= m)
    BY <1>1, <2>3
  <2>5. \A m \in 0..(at - 1) : Good(m)
    BY <2>2, <2>4 DEF bad
  <2> QED BY <1>2, <2>3, <2>5
<1>4. Good(start)
  BY <1>3
<1> QED BY <1>4, LabelEndIsAWalk DEF Good, g

(***************************************************************************)
(* A message id is labelled by a header on its left, of no longer name:    *)
(* behind the name and its colon stand only separators, complete groups,   *)
(* and what a '>' that closes no group overruns (see Headers.Listed).      *)
(***************************************************************************)
THEOREM LabelsAreTheirHeaders == CueSpec => []LabelIsItsHeader
<1>1. ASSUME AnswerInv, answer = "labelled"
      PROVE  \E at \in Places : HeaderAt(fragment, candidate, at)
  <2> DEFINE f == fragment
  <2> DEFINE c == candidate
  <2> DEFINE at == LabelEnd(f, c.start)
  <2> DEFINE to == RunStart(f, at - 1, Whitespace)
  <2> DEFINE from == to - Len(Cue)
  <2>1. /\ IsText(f) /\ c \in CandidatesIn(f)
        /\ c.start \in Nat /\ c.end \in Nat /\ c.start < c.end /\ c.end <= Len(f) /\ Len(f) \in Nat
        /\ Len(Cue) \in Nat \ {0}
    BY <1>1, QuestionIsText, CandidateIsTyped, TextIsTyped, CueIsTyped
  <2>2. LabelledByHeader(f, c) = "labelled"
    BY <1>1 DEF AnswerInv
  <2>3. /\ at # 0 /\ Byte(f, at - 1) = ":" /\ ~ (to < Len(Cue))
        /\ Occurs(f, from)
        /\ from > 0 => ~ IsWordByte(Byte(f, from - 1)) /\ Byte(f, from - 1) # "-"
    BY <2>2 DEF LabelledByHeader
  <2> HIDE DEF f, c
  <2>4. at \in 0..c.start /\ Listed(f, at, c.start)
    <3>1. c.start \in 0..Len(f)
      BY <2>1
    <3> QED BY <2>1, <2>3, <3>1, WalkCrossesAList
  <2> HIDE DEF at
  <2>5. at \in Nat /\ at - 1 \in Nat /\ at <= Len(f)
    BY <2>1, <2>3, <2>4
  <2>6. to \in 0..(at - 1) /\ \A j \in to..(at - 2) : Byte(f, j) \in Whitespace
    <3>1. /\ RunStart(f, at - 1, Whitespace) \in 0..(at - 1)
          /\ \A j \in RunStart(f, at - 1, Whitespace)..((at - 1) - 1) : Byte(f, j) \in Whitespace
      BY <2>5, RunIsABlock
    <3>2. (at - 1) - 1 = at - 2
      BY <2>5
    <3> QED BY <3>1, <3>2
  <2> HIDE DEF to
  <2>7. from \in 0..Len(f) /\ from + Len(Cue) = to
    BY <2>1, <2>3, <2>4, <2>5, <2>6
  <2> HIDE DEF from
  <2>8. /\ at - 1 \in (from + Len(Cue))..(c.start - 1) /\ (at - 1) + 1 = at
        /\ \A i \in (from + Len(Cue))..((at - 1) - 1) : Byte(f, i) \in Whitespace
    BY <2>1, <2>4, <2>5, <2>6, <2>7
  <2>9. HeaderAt(f, c, from)
    BY <2>3, <2>4, <2>8 DEF HeaderAt
  <2> QED BY <2>7, <2>9 DEF Places, f, c
<1>2. AnswerInv => LabelIsItsHeader
  BY <1>1 DEF LabelIsItsHeader
<1> QED BY <1>2, AnswersAreTheirHandlers, PTL

-----------------------------------------------------------------------------
(***************************************************************************)
(* A piece g of a text f, cut out between two characters: what the bytes,  *)
(* boundaries, breaks and words of g are in f.                             *)
(***************************************************************************)
IsPiece(g, f, base, limit) ==
  /\ f \in Seq(STRING) /\ base \in 0..Len(f) /\ limit \in base..Len(f)
  /\ IsCharBoundary(f, base) /\ IsCharBoundary(f, limit)
  /\ g = Slice(f, base, limit)

LEMMA PieceIsTyped ==
  ASSUME NEW g, NEW f, NEW base, NEW limit, IsPiece(g, f, base, limit)
  PROVE  /\ g \in Seq(STRING) /\ Len(g) \in Nat /\ Len(g) = limit - base
         /\ base \in Nat /\ limit \in Nat /\ Len(f) \in Nat /\ base + Len(g) = limit /\ limit <= Len(f)
         /\ \A at \in 0..(Len(g) - 1) : Byte(g, at) = Byte(f, at + base)
<1>1. Len(f) \in Nat
  BY LenProperties DEF IsPiece
<1>2. /\ g \in Seq(STRING) /\ Len(g) = limit - base
      /\ \A i \in 1..(limit - base) : g[i] = f[base + i]
  BY SliceBytes DEF IsPiece
<1>3. base \in Nat /\ limit \in Nat /\ base <= limit /\ limit <= Len(f)
  BY <1>1 DEF IsPiece
<1>4. ASSUME NEW at \in 0..(Len(g) - 1)
      PROVE  Byte(g, at) = Byte(f, at + base)
  <2>1. at + 1 \in 1..(limit - base) /\ base + (at + 1) = (at + base) + 1
    BY <1>2, <1>3
  <2> QED BY <1>2, <2>1 DEF Byte
<1> QED BY <1>1, <1>2, <1>3, <1>4

LEMMA PieceBoundaries ==
  ASSUME NEW g, NEW f, NEW base, NEW limit, IsPiece(g, f, base, limit), NEW at \in 0..Len(g)
  PROVE  IsCharBoundary(g, at) <=> IsCharBoundary(f, at + base)
<1>1. /\ Len(g) \in Nat /\ base \in Nat /\ base + Len(g) = limit /\ limit <= Len(f) /\ Len(f) \in Nat
      /\ \A i \in 0..(Len(g) - 1) : Byte(g, i) = Byte(f, i + base)
  BY PieceIsTyped
<1>2. CASE at = 0
  <2>1. at + base = base
    BY <1>1, <1>2
  <2> QED BY <1>2, <2>1 DEF IsPiece, IsCharBoundary
<1>3. CASE at = Len(g)
  <2>1. at + base = limit
    BY <1>1, <1>3
  <2> QED BY <1>3, <2>1 DEF IsPiece, IsCharBoundary
<1>4. CASE at \notin {0, Len(g)}
  <2>1. at \in 0..(Len(g) - 1) /\ at + base \notin {0, Len(f)}
    BY <1>1, <1>4
  <2> QED BY <1>1, <1>4, <2>1 DEF IsCharBoundary
<1> QED BY <1>2, <1>3, <1>4

LEMMA PieceBreaks ==
  ASSUME NEW g, NEW f, NEW base, NEW limit, IsPiece(g, f, base, limit), NEW at \in 0..(Len(g) - 1)
  PROVE  /\ EndsAField(f, at + base) => EndsAField(g, at)
         /\ at + 1 < Len(g) \/ limit = Len(f) => (EndsAField(g, at) <=> EndsAField(f, at + base))
<1>1. /\ Len(g) \in Nat /\ base \in Nat /\ base + Len(g) = limit /\ limit <= Len(f) /\ Len(f) \in Nat
      /\ \A i \in 0..(Len(g) - 1) : Byte(g, i) = Byte(f, i + base)
  BY PieceIsTyped
<1>2. Byte(g, at) = Byte(f, at + base)
  BY <1>1
<1>3. CASE at + 1 < Len(g)
  <2>1. at + 1 \in 0..(Len(g) - 1) /\ (at + 1) + base = (at + base) + 1 /\ (at + base) + 1 < Len(f)
    BY <1>1, <1>3
  <2>2. Byte(g, at + 1) = Byte(f, (at + base) + 1)
    BY <1>1, <2>1
  <2> QED BY <1>2, <1>3, <2>1, <2>2 DEF EndsAField
<1>4. CASE ~ (at + 1 < Len(g))
  <2>1. limit = Len(f) => ~ ((at + base) + 1 < Len(f))
    BY <1>1, <1>4
  <2> QED BY <1>2, <1>4, <2>1 DEF EndsAField
<1> QED BY <1>3, <1>4

LEMMA WindowStartMoves ==
  ASSUME NEW g, NEW f, NEW base, NEW limit, IsPiece(g, f, base, limit),
         NEW start \in 0..Len(g), base = 0 \/ CueWindow <= start
  PROVE  WindowStart(g, start) + base = WindowStart(f, start + base)
<1>1. /\ Len(g) \in Nat /\ base \in Nat /\ base + Len(g) = limit /\ limit <= Len(f)
      /\ CueWindow \in Nat /\ start + base \in Nat
  BY PieceIsTyped, ContextAssumption
<1> DEFINE a == WindowStart(g, start)
<1> DEFINE b == WindowStart(f, start + base)
<1>2. /\ a \in From(start)..start /\ From(start) \in 0..start
      /\ a = start \/ IsCharBoundary(g, a)
      /\ \A at \in From(start)..start : at = start \/ IsCharBoundary(g, at) => a <= at
  BY <1>1, WindowStartIsFirst
<1>3. /\ b \in From(start + base)..(start + base)
      /\ b = start + base \/ IsCharBoundary(f, b)
      /\ \A at \in From(start + base)..(start + base) :
           at = start + base \/ IsCharBoundary(f, at) => b <= at
  BY <1>1, WindowStartIsFirst
<1>4. From(start + base) = From(start) + base
  BY <1>1 DEF From
<1> HIDE DEF a, b
<1>5. a \in Nat /\ a <= start /\ a \in 0..Len(g) /\ From(start) \in Nat
  BY <1>1, <1>2
<1>6. b <= a + base
  <2>1. a + base \in From(start + base)..(start + base)
    BY <1>1, <1>2, <1>4, <1>5
  <2>2. a + base = start + base \/ IsCharBoundary(f, a + base)
    BY <1>2, <1>5, PieceBoundaries
  <2> QED BY <1>3, <2>1, <2>2
<1>7. a <= b - base
  <2>1. b - base \in From(start)..start /\ b - base \in 0..Len(g) /\ (b - base) + base = b
    BY <1>1, <1>3, <1>4, <1>5
  <2>2. b - base = start \/ IsCharBoundary(g, b - base)
    <3>1. IsCharBoundary(g, b - base) <=> IsCharBoundary(f, (b - base) + base)
      BY <2>1, PieceBoundaries
    <3> QED BY <1>1, <1>3, <2>1, <3>1
  <2> QED BY <1>2, <2>1, <2>2
<1>8. b \in Nat
  BY <1>1, <1>3, <1>4, <1>5
<1> QED BY <1>1, <1>5, <1>6, <1>7, <1>8 DEF a, b

LEMMA WindowEndMoves ==
  ASSUME NEW g, NEW f, NEW base, NEW limit, IsPiece(g, f, base, limit),
         NEW end \in 0..Len(g), limit = Len(f) \/ end + CueWindow <= Len(g)
  PROVE  WindowEnd(g, end) + base = WindowEnd(f, end + base)
<1>1. /\ Len(g) \in Nat /\ base \in Nat /\ base + Len(g) = limit /\ limit <= Len(f) /\ Len(f) \in Nat
      /\ CueWindow \in Nat /\ end \in Nat /\ end + base \in Nat /\ end <= Len(g) /\ end + base <= Len(f)
  BY PieceIsTyped, ContextAssumption
<1> DEFINE a == WindowEnd(g, end)
<1> DEFINE b == WindowEnd(f, end + base)
<1>2. /\ a \in end..To(g, end) /\ To(g, end) \in end..Len(g)
      /\ a = end \/ IsCharBoundary(g, a)
      /\ \A at \in end..To(g, end) : at = end \/ IsCharBoundary(g, at) => at <= a
  BY <1>1, WindowEndIsLast
<1>3. /\ b \in (end + base)..To(f, end + base)
      /\ b = end + base \/ IsCharBoundary(f, b)
      /\ \A at \in (end + base)..To(f, end + base) :
           at = end + base \/ IsCharBoundary(f, at) => at <= b
  BY <1>1, WindowEndIsLast
<1>4. To(f, end + base) = To(g, end) + base
  BY <1>1 DEF To
<1> HIDE DEF a, b
<1>5. a \in Nat /\ a \in 0..Len(g) /\ To(g, end) \in Nat /\ To(g, end) <= Len(g)
  BY <1>1, <1>2
<1>6. a + base <= b
  <2>1. a + base \in (end + base)..To(f, end + base)
    BY <1>1, <1>2, <1>4, <1>5
  <2>2. a + base = end + base \/ IsCharBoundary(f, a + base)
    BY <1>2, <1>5, PieceBoundaries
  <2> QED BY <1>3, <2>1, <2>2
<1>7. b - base <= a
  <2>1. b - base \in end..To(g, end) /\ b - base \in 0..Len(g) /\ (b - base) + base = b
    BY <1>1, <1>3, <1>4, <1>5
  <2>2. b - base = end \/ IsCharBoundary(g, b - base)
    <3>1. IsCharBoundary(g, b - base) <=> IsCharBoundary(f, (b - base) + base)
      BY <2>1, PieceBoundaries
    <3> QED BY <1>1, <1>3, <2>1, <3>1
  <2> QED BY <1>2, <2>1, <2>2
<1>8. b \in Nat
  BY <1>1, <1>3, <1>4, <1>5
<1> QED BY <1>1, <1>5, <1>6, <1>7, <1>8 DEF a, b

LEMMA FieldStartMoves ==
  ASSUME NEW g, NEW f, NEW base, NEW limit, IsPiece(g, f, base, limit),
         NEW to \in 0..(Len(g) - 1), NEW from \in 0..to
  PROVE  FieldStart(g, from, to) + base = FieldStart(f, from + base, to + base)
<1>1. /\ Len(g) \in Nat /\ base \in Nat /\ to \in Nat /\ from \in Nat /\ from <= to /\ to < Len(g)
      /\ to + base \in Nat /\ from + base \in 0..(to + base)
  BY PieceIsTyped
<1> DEFINE a == FieldStart(g, from, to)
<1> DEFINE b == FieldStart(f, from + base, to + base)
<1>2. /\ a \in from..to
      /\ a = from \/ (a > from /\ EndsAField(g, a - 1))
      /\ \A x \in a..(to - 1) : ~ EndsAField(g, x)
  BY <1>1, FieldStartIsTheLast
<1>3. /\ b \in (from + base)..(to + base)
      /\ b = from + base \/ (b > from + base /\ EndsAField(f, b - 1))
      /\ \A x \in b..(to + base - 1) : ~ EndsAField(f, x)
  BY <1>1, FieldStartIsTheLast
<1>4. \A x \in 0..(to - 1) : EndsAField(g, x) <=> EndsAField(f, x + base)
  <2>1. \A x \in 0..(to - 1) : x \in 0..(Len(g) - 1) /\ x + 1 < Len(g)
    BY <1>1
  <2> QED BY <2>1, PieceBreaks
<1> HIDE DEF a, b
<1>5. a \in Nat /\ b \in Nat
  BY <1>1, <1>2, <1>3
<1>6. ~ (a + base < b)
  <2> SUFFICES ASSUME a + base < b PROVE FALSE
    OBVIOUS
  <2>1. (b - 1) - base \in 0..(to - 1) /\ (b - 1) - base \in a..(to - 1) /\ ((b - 1) - base) + base = b - 1
    BY <1>1, <1>2, <1>3, <1>5
  <2>2. EndsAField(f, b - 1)
    BY <1>1, <1>2, <1>3, <1>5
  <2> QED BY <1>2, <1>4, <2>1, <2>2
<1>7. ~ (b < a + base)
  <2> SUFFICES ASSUME b < a + base PROVE FALSE
    OBVIOUS
  <2>1. a - 1 \in 0..(to - 1) /\ (a - 1) + base \in b..(to + base - 1)
    BY <1>1, <1>2, <1>3, <1>5
  <2>2. EndsAField(g, a - 1)
    BY <1>1, <1>2, <1>3, <1>5
  <2> QED BY <1>3, <1>4, <2>1, <2>2
<1> QED BY <1>1, <1>5, <1>6, <1>7 DEF a, b

(***************************************************************************)
(* At the very end of a piece a line break counts as the end of the field, *)
(* because the indentation that would fold it is cut off.                  *)
(***************************************************************************)
LEMMA FieldEndMoves ==
  ASSUME NEW g, NEW f, NEW base, NEW limit, IsPiece(g, f, base, limit),
         NEW to \in 0..Len(g), NEW from \in 0..to
  PROVE  \/ FieldEnd(g, from, to) + base = FieldEnd(f, from + base, to + base)
         \/ /\ (FieldEnd(g, from, to) + base) + 1 = FieldEnd(f, from + base, to + base)
            /\ Byte(f, FieldEnd(g, from, to) + base) = "\n"
<1>1. /\ Len(g) \in Nat /\ base \in Nat /\ to \in Nat /\ from \in Nat /\ from <= to /\ to <= Len(g)
      /\ to + base \in Nat /\ from + base \in 0..(to + base)
  BY PieceIsTyped
<1> DEFINE a == FieldEnd(g, from, to)
<1> DEFINE b == FieldEnd(f, from + base, to + base)
<1>2. /\ a \in from..to
      /\ a = to \/ (a < to /\ EndsAField(g, a))
      /\ \A x \in from..(a - 1) : ~ EndsAField(g, x)
  BY <1>1, FieldEndIsTheFirst
<1>3. /\ b \in (from + base)..(to + base)
      /\ b = to + base \/ (b < to + base /\ EndsAField(f, b))
      /\ \A x \in (from + base)..(b - 1) : ~ EndsAField(f, x)
  BY <1>1, FieldEndIsTheFirst
<1>4. /\ \A x \in 0..(Len(g) - 1) : EndsAField(f, x + base) => EndsAField(g, x)
      /\ \A x \in 0..(Len(g) - 2) : EndsAField(g, x) <=> EndsAField(f, x + base)
  <2>1. \A x \in 0..(Len(g) - 2) : x \in 0..(Len(g) - 1) /\ x + 1 < Len(g)
    BY <1>1
  <2> QED BY <2>1, PieceBreaks
<1> HIDE DEF a, b
<1>5. a \in Nat /\ b \in Nat
  BY <1>1, <1>2, <1>3
<1>6. ~ (b < a + base)
  <2> SUFFICES ASSUME b < a + base PROVE FALSE
    OBVIOUS
  <2>1. b - base \in 0..(Len(g) - 1) /\ b - base \in from..(a - 1) /\ (b - base) + base = b
    BY <1>1, <1>2, <1>3, <1>5
  <2>2. EndsAField(f, b)
    BY <1>1, <1>2, <1>3, <1>5
  <2> QED BY <1>2, <1>4, <2>1, <2>2
<1>7. ASSUME a + base < b
      PROVE  (a + base) + 1 = b /\ Byte(f, a + base) = "\n"
  <2>1. a < to /\ EndsAField(g, a)
    BY <1>1, <1>2, <1>3, <1>5, <1>7
  <2>2. a + base \in (from + base)..(b - 1)
    BY <1>1, <1>2, <1>3, <1>5, <1>7
  <2>3. a \notin 0..(Len(g) - 2)
    BY <1>3, <1>4, <2>1, <2>2
  <2>4. a = Len(g) - 1 /\ to = Len(g)
    BY <1>1, <1>5, <2>1, <2>3
  <2>5. a \in 0..(Len(g) - 1)
    BY <1>1, <1>5, <2>4
  <2>6. Byte(g, a) = Byte(f, a + base)
    BY <2>5, PieceIsTyped
  <2>7. Byte(g, a) = "\n"
    BY <2>1 DEF EndsAField
  <2> QED BY <1>1, <1>3, <1>5, <1>7, <2>4, <2>6, <2>7
<1> QED BY <1>1, <1>5, <1>6, <1>7 DEF a, b

-----------------------------------------------------------------------------
(* Words: the cue stands in a slice of the piece exactly when it stands in that slice of the text. *)

WordAt(f, s, at) ==
  /\ at + Len(Cue) <= s.to /\ Occurs(f, at)
  /\ at = s.from \/ ~ IsWordByte(Byte(f, at - 1))
  /\ at + Len(Cue) = s.to \/ ~ IsWordByte(Byte(f, at + Len(Cue)))

LEMMA WordMoves ==
  ASSUME NEW g, NEW f, NEW base, NEW limit, IsPiece(g, f, base, limit),
         NEW to \in 0..Len(g), NEW from \in 0..to, NEW at \in from..to
  PROVE  WordAt(g, [from |-> from, to |-> to], at)
           <=> WordAt(f, [from |-> from + base, to |-> to + base], at + base)
<1>1. /\ Len(g) \in Nat /\ base \in Nat /\ base + Len(g) = limit /\ limit <= Len(f) /\ Len(f) \in Nat
      /\ g \in Seq(STRING) /\ f \in Seq(STRING)
      /\ \A i \in 0..(Len(g) - 1) : Byte(g, i) = Byte(f, i + base)
  <2>1. f \in Seq(STRING)
    BY DEF IsPiece
  <2> QED BY <2>1, PieceIsTyped
<1>2. Len(Cue) \in Nat \ {0} /\ at \in Nat /\ from \in Nat /\ to \in Nat /\ to <= Len(g)
  BY <1>1, CueIsTyped
<1>3. (at + base) + Len(Cue) = (at + Len(Cue)) + base
  BY <1>1, <1>2
<1>4. at + Len(Cue) <= to <=> (at + base) + Len(Cue) <= to + base
  BY <1>1, <1>2
<1>5. SUFFICES ASSUME at + Len(Cue) <= to
               PROVE  WordAt(g, [from |-> from, to |-> to], at)
                        <=> WordAt(f, [from |-> from + base, to |-> to + base], at + base)
  BY <1>4 DEF WordAt
<1>6. Occurs(g, at) <=> Occurs(f, at + base)
  <2>1. at + Len(Cue) <= Len(g) /\ (at + base) + Len(Cue) <= Len(f) /\ at + base \in Nat
    BY <1>1, <1>2, <1>5
  <2>2. ASSUME NEW i \in 1..Len(Cue)
        PROVE  g[at + i] = f[(at + base) + i]
    <3>1. (at + i) - 1 \in 0..(Len(g) - 1) /\ ((at + i) - 1) + 1 = at + i
          /\ (((at + i) - 1) + base) + 1 = (at + base) + i
      BY <1>1, <1>2, <1>5
    <3>2. Byte(g, (at + i) - 1) = Byte(f, ((at + i) - 1) + base)
      BY <1>1, <3>1
    <3> QED BY <3>1, <3>2 DEF Byte
  <2>3. Occurs(g, at) <=> \A i \in 1..Len(Cue) : g[at + i] = Cue[i]
    BY <1>1, <1>2, <2>1, OccursBytewise
  <2>4. Occurs(f, at + base) <=> \A i \in 1..Len(Cue) : f[(at + base) + i] = Cue[i]
    BY <1>1, <2>1, OccursBytewise
  <2> QED BY <2>2, <2>3, <2>4
<1>7. (at = from \/ ~ IsWordByte(Byte(g, at - 1)))
        <=> (at + base = from + base \/ ~ IsWordByte(Byte(f, (at + base) - 1)))
  <2>1. CASE at = from
    BY <2>1
  <2>2. CASE at # from
    <3>1. at - 1 \in 0..(Len(g) - 1) /\ (at - 1) + base = (at + base) - 1 /\ at + base # from + base
      BY <1>1, <1>2, <1>5, <2>2
    <3>2. Byte(g, at - 1) = Byte(f, (at + base) - 1)
      BY <1>1, <3>1
    <3> QED BY <2>2, <3>1, <3>2
  <2> QED BY <2>1, <2>2
<1>8. (at + Len(Cue) = to \/ ~ IsWordByte(Byte(g, at + Len(Cue))))
        <=> ((at + base) + Len(Cue) = to + base \/ ~ IsWordByte(Byte(f, (at + base) + Len(Cue))))
  <2>1. CASE at + Len(Cue) = to
    BY <1>3, <2>1
  <2>2. CASE at + Len(Cue) # to
    <3> DEFINE past == at + Len(Cue)
    <3>1. past \in Nat /\ past <= to /\ past # to /\ Len(g) \in Nat /\ base \in Nat
      BY <1>1, <1>2, <1>5, <2>2
    <3> HIDE DEF past
    <3>2. past \in 0..(Len(g) - 1) /\ past + base # to + base
      BY <1>2, <3>1
    <3>3. at + Len(Cue) \in 0..(Len(g) - 1) /\ (at + Len(Cue)) + base # to + base
      BY <3>2 DEF past
    <3>4. Byte(g, at + Len(Cue)) = Byte(f, (at + base) + Len(Cue))
      BY <1>1, <1>3, <3>3
    <3> QED BY <1>3, <2>2, <3>3, <3>4
  <2> QED BY <2>1, <2>2
<1> QED BY <1>4, <1>6, <1>7, <1>8 DEF WordAt

LEMMA WordsMove ==
  ASSUME NEW g, NEW f, NEW base, NEW limit, IsPiece(g, f, base, limit),
         NEW to \in 0..Len(g), NEW from \in 0..to
  PROVE  ContainsWord(g, [from |-> from, to |-> to])
           <=> ContainsWord(f, [from |-> from + base, to |-> to + base])
<1>1. Len(g) \in Nat /\ base \in Nat /\ from \in Nat /\ to \in Nat
  BY PieceIsTyped
<1>2. \A at \in (from + base)..(to + base) : at - base \in from..to /\ (at - base) + base = at
  BY <1>1
<1>3. \A at \in from..to : at + base \in (from + base)..(to + base)
  BY <1>1
<1>4. ContainsWord(g, [from |-> from, to |-> to])
        <=> \E at \in from..to : WordAt(g, [from |-> from, to |-> to], at)
  BY DEF ContainsWord, WordAt
<1>5. ContainsWord(f, [from |-> from + base, to |-> to + base])
        <=> \E at \in (from + base)..(to + base) :
              WordAt(f, [from |-> from + base, to |-> to + base], at)
  BY DEF ContainsWord, WordAt
<1>6. \A at \in from..to :
        WordAt(g, [from |-> from, to |-> to], at)
          <=> WordAt(f, [from |-> from + base, to |-> to + base], at + base)
  BY WordMoves
<1>7. (\E at \in from..to : WordAt(g, [from |-> from, to |-> to], at))
        <=> \E at \in (from + base)..(to + base) :
              WordAt(f, [from |-> from + base, to |-> to + base], at)
  BY <1>2, <1>3, <1>6
<1> QED BY <1>4, <1>5, <1>7

(* A line break at the end of a slice neither adds a word nor takes one away: a cue ends with a letter. *)
LEMMA TrailingBreak ==
  ASSUME NEW f \in Seq(STRING), NEW to \in 0..(Len(f) - 1), NEW from \in 0..to, Byte(f, to) = "\n"
  PROVE  ContainsWord(f, [from |-> from, to |-> to])
           <=> ContainsWord(f, [from |-> from, to |-> to + 1])
<1>1. /\ Len(f) \in Nat /\ Len(Cue) \in Nat \ {0} /\ to \in Nat /\ from \in Nat /\ from <= to
      /\ Cue[Len(Cue)] \in Letters
  BY CueIsTyped, LenProperties
<1>2. ~ IsWordByte(Byte(f, to)) /\ Byte(f, to) \notin Letters
  BY DEF IsWordByte, Letters, Digits
<1>3. ASSUME NEW at \in from..to, WordAt(f, [from |-> from, to |-> to], at)
      PROVE  at \in from..(to + 1) /\ WordAt(f, [from |-> from, to |-> to + 1], at)
  <2>1. at + Len(Cue) <= to /\ at + Len(Cue) <= to + 1 /\ at \in from..(to + 1)
    BY <1>1, <1>3 DEF WordAt
  <2>2. ~ IsWordByte(Byte(f, at + Len(Cue)))
    BY <1>2, <1>3 DEF WordAt
  <2> QED BY <1>3, <2>1, <2>2 DEF WordAt
<1>4. ASSUME NEW at \in from..(to + 1), WordAt(f, [from |-> from, to |-> to + 1], at)
      PROVE  at \in from..to /\ WordAt(f, [from |-> from, to |-> to], at)
  <2>1. at \in Nat /\ at + Len(Cue) <= to + 1 /\ Occurs(f, at)
    BY <1>1, <1>4 DEF WordAt
  <2>2. f[at + Len(Cue)] = Cue[Len(Cue)]
    <3>1. Len(Cue) \in 1..Len(Cue)
      BY <1>1
    <3> QED BY <2>1, <3>1, OccursBytewise
  <2>3. at + Len(Cue) # to + 1
    <3>1. f[to + 1] \notin Letters
      BY <1>2 DEF Byte
    <3> QED BY <1>1, <2>2, <3>1
  <2>4. at + Len(Cue) <= to /\ at \in from..to
    BY <1>1, <2>1, <2>3
  <2> QED BY <1>4, <2>3, <2>4 DEF WordAt
<1>5. ContainsWord(f, [from |-> from, to |-> to])
        <=> \E at \in from..to : WordAt(f, [from |-> from, to |-> to], at)
  BY DEF ContainsWord, WordAt
<1>6. ContainsWord(f, [from |-> from, to |-> to + 1])
        <=> \E at \in from..(to + 1) : WordAt(f, [from |-> from, to |-> to + 1], at)
  BY DEF ContainsWord, WordAt
<1> QED BY <1>3, <1>4, <1>5, <1>6

(* The verdict's context: has_cue sees the same cues in a piece that holds the whole cue window. *)
LEMMA CueMoves ==
  ASSUME NEW g, NEW f, NEW base, NEW limit, IsPiece(g, f, base, limit),
         NEW c \in [start : 0..Len(g), end : 0..Len(g)], c.start < c.end,
         base = 0 \/ CueWindow <= c.start,
         limit = Len(f) \/ c.end + CueWindow <= Len(g)
  PROVE  HasCue(g, c) <=> HasCue(f, Moved(c, base))
<1>1. /\ Len(g) \in Nat /\ base \in Nat /\ base + Len(g) = limit /\ limit <= Len(f) /\ Len(f) \in Nat
      /\ f \in Seq(STRING) /\ CueWindow \in Nat
      /\ c.start \in 0..(Len(g) - 1) /\ c.end \in 0..Len(g)
  <2>1. /\ Len(g) \in Nat /\ base \in Nat /\ base + Len(g) = limit /\ limit <= Len(f) /\ Len(f) \in Nat
    BY PieceIsTyped, Zenon
  <2>2. f \in Seq(STRING) /\ CueWindow \in Nat
    BY ContextAssumption, Zenon DEF IsPiece
  <2>3. c.start \in 0..Len(g) /\ c.end \in 0..Len(g)
    BY Zenon
  <2>4. c.start \in 0..(Len(g) - 1)
    BY <2>1, <2>3
  <2> QED BY <2>1, <2>2, <2>3, <2>4, Zenon
<1>2. Moved(c, base).start = c.start + base /\ Moved(c, base).end = c.end + base
  BY DEF Moved
<1>3. ContainsWord(g, SliceBefore(g, c)) <=> ContainsWord(f, SliceBefore(f, Moved(c, base)))
  <2> DEFINE from == WindowStart(g, c.start)
  <2> DEFINE left == FieldStart(g, from, c.start)
  <2>1. from \in 0..c.start
    BY <1>1, WindowStartIsFirst
  <2>2. left \in from..c.start
    BY <1>1, <2>1, FieldStartIsTheLast
  <2>3. from + base = WindowStart(f, c.start + base)
    BY <1>1, WindowStartMoves
  <2>4. left + base = FieldStart(f, from + base, c.start + base)
    BY <1>1, <2>1, FieldStartMoves
  <2>5. SliceBefore(f, Moved(c, base)) = [from |-> left + base, to |-> c.start + base]
    BY <1>2, <2>3, <2>4 DEF SliceBefore
  <2>6. SliceBefore(g, c) = [from |-> left, to |-> c.start]
    BY DEF SliceBefore
  <2> HIDE DEF left, from
  <2>7. left \in 0..c.start /\ c.start \in 0..Len(g)
    BY <1>1, <2>1, <2>2
  <2> QED BY <2>5, <2>6, <2>7, WordsMove
<1>4. ContainsWord(g, SliceAfter(g, c)) <=> ContainsWord(f, SliceAfter(f, Moved(c, base)))
  <2> DEFINE to == WindowEnd(g, c.end)
  <2> DEFINE right == FieldEnd(g, c.end, to)
  <2>1. to \in c.end..Len(g)
    BY <1>1, WindowEndIsLast
  <2>2. to \in Nat /\ to \in 0..Len(g) /\ c.end \in 0..to
    BY <1>1, <2>1
  <2>3. right \in c.end..to
    BY <2>2, FieldEndIsTheFirst
  <2>4. to + base = WindowEnd(f, c.end + base)
    BY <1>1, WindowEndMoves
  <2> DEFINE whole == FieldEnd(f, c.end + base, to + base)
  <2>5. \/ right + base = whole
        \/ (right + base) + 1 = whole /\ Byte(f, right + base) = "\n"
    BY <2>2, FieldEndMoves
  <2>6. SliceAfter(f, Moved(c, base)) = [from |-> c.end + base, to |-> whole]
    BY <1>2, <2>4 DEF SliceAfter
  <2>7. SliceAfter(g, c) = [from |-> c.end, to |-> right]
    BY DEF SliceAfter
  <2>8. whole \in (c.end + base)..(to + base)
    <3>1. to + base \in Nat /\ c.end + base \in 0..(to + base)
      BY <1>1, <2>2
    <3> QED BY <3>1, FieldEndIsTheFirst
  <2> HIDE DEF to, right, whole
  <2>9. right \in 0..Len(g) /\ c.end \in 0..right
    BY <1>1, <2>2, <2>3
  <2>10. ContainsWord(g, [from |-> c.end, to |-> right])
           <=> ContainsWord(f, [from |-> c.end + base, to |-> right + base])
    BY <2>9, WordsMove
  <2>11. ASSUME (right + base) + 1 = whole, Byte(f, right + base) = "\n"
         PROVE  ContainsWord(f, [from |-> c.end + base, to |-> right + base])
                  <=> ContainsWord(f, [from |-> c.end + base, to |-> whole])
    <3>1. right + base \in 0..(Len(f) - 1) /\ c.end + base \in 0..(right + base)
      BY <1>1, <2>2, <2>8, <2>9, <2>11
    <3> QED BY <1>1, <2>11, <3>1, TrailingBreak
  <2> QED BY <2>5, <2>6, <2>7, <2>10, <2>11
<1> QED BY <1>3, <1>4 DEF HasCue

-----------------------------------------------------------------------------
(* A window is a piece of its document, and what a verdict depends on moves with it. *)

IsWindow(w) ==
  /\ w.start \in 0..Len(document) /\ w.end \in 0..Len(document) /\ w.start < w.end
  /\ IsCharBoundary(document, w.start) /\ IsCharBoundary(document, w.end)

LEMMA MarginCoversTheWindow ==
  Margin \in Nat /\ Margin >= CueWindow /\ Margin >= 1
<1>1. CueWindow \in Nat
  BY ContextAssumption
<1>2. PICK n \in Nat : CueWindow <= n /\ 1 <= n
  <2>1. CueWindow + 1 \in Nat /\ CueWindow <= CueWindow + 1 /\ 1 <= CueWindow + 1
    BY <1>1
  <2> QED BY <2>1
<1>3. {CueWindow, 1} \in SUBSET (0..n) /\ {CueWindow, 1} # {}
  BY <1>1, <1>2
<1> QED BY <1>1, <1>3, MaxIsGreatest DEF Margin

LEMMA StandingMoves ==
  ASSUME NEW g, NEW f, NEW base, NEW limit, IsPiece(g, f, base, limit),
         NEW c \in [start : 0..Len(g), end : 0..Len(g)], c.start < c.end,
         base = 0 \/ c.start # 0, limit = Len(f) \/ c.end # Len(g)
  PROVE  /\ IsStandalone(g, c) <=> IsStandalone(f, Moved(c, base))
         /\ (\A at \in c.start..(c.end - 1) : Byte(g, at) \in Digits)
              <=> \A at \in (c.start + base)..((c.end + base) - 1) : Byte(f, at) \in Digits
<1>1. /\ Len(g) \in Nat /\ base \in Nat /\ base + Len(g) = limit /\ limit <= Len(f) /\ Len(f) \in Nat
      /\ \A i \in 0..(Len(g) - 1) : Byte(g, i) = Byte(f, i + base)
  BY PieceIsTyped
<1>2. /\ Moved(c, base).start = c.start + base /\ Moved(c, base).end = c.end + base
      /\ c.start \in Nat /\ c.end \in Nat /\ c.start <= Len(g) /\ c.end <= Len(g)
  BY <1>1 DEF Moved
<1>3. (c.start = 0 \/ ~ IsWordByte(Byte(g, c.start - 1)))
        <=> (c.start + base = 0 \/ ~ IsWordByte(Byte(f, (c.start + base) - 1)))
  <2>1. CASE c.start = 0
    BY <1>1, <2>1
  <2>2. CASE c.start # 0
    <3>1. c.start - 1 \in 0..(Len(g) - 1) /\ (c.start - 1) + base = (c.start + base) - 1
          /\ c.start + base # 0
      BY <1>1, <1>2, <2>2
    <3>2. Byte(g, c.start - 1) = Byte(f, (c.start + base) - 1)
      BY <1>1, <3>1
    <3> QED BY <2>2, <3>1, <3>2
  <2> QED BY <2>1, <2>2
<1>4. (c.end = Len(g) \/ ~ IsWordByte(Byte(g, c.end)))
        <=> (c.end + base = Len(f) \/ ~ IsWordByte(Byte(f, c.end + base)))
  <2>1. CASE c.end = Len(g)
    BY <1>1, <2>1
  <2>2. CASE c.end # Len(g)
    <3>1. c.end \in 0..(Len(g) - 1) /\ c.end + base # Len(f)
      BY <1>1, <1>2, <2>2
    <3>2. Byte(g, c.end) = Byte(f, c.end + base)
      BY <1>1, <3>1
    <3> QED BY <2>2, <3>1, <3>2
  <2> QED BY <2>1, <2>2
<1>5. \A at \in c.start..(c.end - 1) :
        at + base \in (c.start + base)..((c.end + base) - 1) /\ Byte(g, at) = Byte(f, at + base)
  <2> TAKE at \in c.start..(c.end - 1)
  <2>1. at \in 0..(Len(g) - 1) /\ at + base \in (c.start + base)..((c.end + base) - 1)
    BY <1>1, <1>2
  <2> QED BY <1>1, <2>1
<1>6. \A at \in (c.start + base)..((c.end + base) - 1) :
        at - base \in c.start..(c.end - 1) /\ (at - base) + base = at
  BY <1>1, <1>2
<1>7. (\A at \in c.start..(c.end - 1) : Byte(g, at) \in Digits)
        <=> \A at \in (c.start + base)..((c.end + base) - 1) : Byte(f, at) \in Digits
  BY <1>5, <1>6
<1> QED BY <1>2, <1>3, <1>4, <1>7 DEF IsStandalone

LEMMA ScanMoves ==
  ASSUME document \in Documents, NEW w, IsWindow(w),
         NEW c \in SpansOf(document), SeesContext(w, c)
  PROVE  c \in Answer(w) <=> c \in Scan(document)
<1> DEFINE g == Slice(document, w.start, w.end)
<1> DEFINE d == [start |-> c.start - w.start, end |-> c.end - w.start]
<1>1. document \in Seq(STRING) /\ NumberLength \in Nat \ {0} /\ Len(document) \in Nat
  BY WindowingAssumption, LenProperties DEF IsText
<1>2. IsPiece(g, document, w.start, w.end)
  BY <1>1 DEF IsPiece, IsWindow
<1>3. /\ Len(g) \in Nat /\ Len(g) = w.end - w.start /\ w.start \in Nat /\ w.end \in Nat
      /\ w.start < w.end /\ w.end <= Len(document)
  BY <1>1, <1>2, PieceIsTyped DEF IsWindow
<1>4. /\ c \in [start : 0..Len(document), end : 0..Len(document)] /\ c.start + NumberLength = c.end
      /\ c.start \in Nat /\ c.end \in Nat /\ c.start < c.end /\ c.end <= Len(document)
  BY <1>1 DEF SpansOf
<1>5. /\ w.start = 0 \/ w.start + Margin <= c.start
      /\ w.end = Len(document) \/ c.end + Margin <= w.end
  BY DEF SeesContext
<1>6. Margin \in Nat /\ Margin >= CueWindow /\ Margin >= 1 /\ CueWindow \in Nat
  BY MarginCoversTheWindow, ContextAssumption
<1> HIDE DEF g
<1>7. /\ d \in [start : 0..Len(g), end : 0..Len(g)] /\ d.start + NumberLength = d.end
      /\ d.start < d.end /\ d.start = c.start - w.start /\ d.end = c.end - w.start
  <2>1. w.start <= c.start
    BY <1>3, <1>4, <1>5, <1>6
  <2>2. c.end <= w.end
    BY <1>3, <1>4, <1>5, <1>6
  <2>3. (c.start - w.start) + NumberLength = c.end - w.start
    BY <1>1, <1>3, <1>4
  <2>4. c.start - w.start \in 0..Len(g) /\ c.end - w.start \in 0..Len(g)
        /\ c.start - w.start < c.end - w.start
    BY <1>3, <1>4, <2>1, <2>2
  <2> QED BY <2>3, <2>4
<1>8. Moved(d, w.start) = c
  <2>1. (c.start - w.start) + w.start = c.start /\ (c.end - w.start) + w.start = c.end
    BY <1>3, <1>4
  <2> QED BY <1>4, <1>7, <2>1 DEF Moved
<1>9. /\ w.start = 0 \/ (CueWindow <= d.start /\ d.start # 0)
      /\ w.end = Len(document) \/ (d.end + CueWindow <= Len(g) /\ d.end # Len(g))
  <2>1. w.start = 0 \/ (CueWindow <= c.start - w.start /\ c.start - w.start # 0)
    BY <1>3, <1>4, <1>5, <1>6
  <2>2. ASSUME c.end + Margin <= w.end
        PROVE  (c.end - w.start) + CueWindow <= w.end - w.start /\ c.end - w.start # w.end - w.start
    BY <1>3, <1>4, <1>6, <2>2
  <2> QED BY <1>3, <1>5, <1>7, <2>1, <2>2
<1>10. d.start + w.start = c.start /\ d.end + w.start = c.end
  BY <1>3, <1>4, <1>7
<1> HIDE DEF d
<1>11. d \in Scan(g) <=> c \in Scan(document)
  <2>1. HasCue(g, d) <=> HasCue(document, c)
    BY <1>2, <1>7, <1>8, <1>9, CueMoves
  <2>2. /\ IsStandalone(g, d) <=> IsStandalone(document, c)
        /\ (\A at \in d.start..(d.end - 1) : Byte(g, at) \in Digits)
             <=> \A at \in c.start..(c.end - 1) : Byte(document, at) \in Digits
    BY <1>2, <1>7, <1>8, <1>9, <1>10, StandingMoves
  <2>3. d \in SpansOf(g)
    BY <1>7 DEF SpansOf
  <2> QED BY <2>1, <2>2, <2>3 DEF Scan
<1>12. ASSUME NEW e \in Scan(g), Moved(e, w.start) = c
       PROVE  e = d
  <2>1. e \in [start : 0..Len(g), end : 0..Len(g)]
    BY DEF Scan, SpansOf
  <2>2. e.start + w.start = c.start /\ e.end + w.start = c.end
    BY <1>12 DEF Moved
  <2>3. e.start = c.start - w.start /\ e.end = c.end - w.start
    BY <1>3, <1>4, <2>1, <2>2
  <2> QED BY <1>7, <2>1, <2>3
<1>13. Answer(w) = {Moved(e, w.start) : e \in Scan(g)}
  BY DEF Answer, g
<1> QED BY <1>8, <1>11, <1>12, <1>13

-----------------------------------------------------------------------------
(***************************************************************************)
(* The inductive invariant: the windows sent are pieces of the document,   *)
(* and every number that ends far enough before the point reached has a    *)
(* window of its own with all its context.                                 *)
(***************************************************************************)
Sent == outstanding \union answered

Covered ==
  Overlap >= NumberLength + 2 * Margin =>
    \A c \in SpansOf(document) :
      c.end + Margin <= reached \/ reached = Len(document) => \E w \in Sent : SeesContext(w, c)

WindowsInv ==
  /\ document \in Documents /\ reached \in 0..Len(document)
  /\ \A w \in Sent : IsWindow(w)
  /\ Covered
  /\ \A w \in answered : Answer(w) \subseteq collected

LEMMA WindowsInvHolds == Spec => []WindowsInv
<1>1. ASSUME document \in Documents
      PROVE  Len(document) \in Nat /\ NumberLength \in Nat \ {0} /\ Overlap \in Nat
             /\ Margin \in Nat /\ Margin >= 1
  BY <1>1, WindowingAssumption, LenProperties, MarginCoversTheWindow DEF IsText
<1>2. Init => WindowsInv
  <2> SUFFICES ASSUME Init PROVE WindowsInv
    OBVIOUS
  <2>1. document \in Documents /\ reached = 0 /\ Sent = {} /\ answered = {}
    BY DEF Init, Sent
  <2>2. ASSUME NEW c \in SpansOf(document)
        PROVE  ~ (c.end + Margin <= reached \/ reached = Len(document))
    <3>1. c.start \in 0..Len(document) /\ c.end \in 0..Len(document) /\ c.start + NumberLength = c.end
      BY DEF SpansOf
    <3> QED BY <1>1, <2>1, <3>1
  <2> QED BY <1>1, <2>1, <2>2 DEF WindowsInv, Covered
<1>3. ASSUME WindowsInv, [Next]_windowingVars
      PROVE  WindowsInv'
  <2>1. /\ Len(document) \in Nat /\ NumberLength \in Nat \ {0} /\ Overlap \in Nat
        /\ Margin \in Nat /\ Margin >= 1 /\ reached \in Nat
    BY <1>1, <1>3 DEF WindowsInv
  <2>2. ASSUME UNCHANGED document
        PROVE  /\ \A w : IsWindow(w)' <=> IsWindow(w)
               /\ \A w, c : SeesContext(w, c)' <=> SeesContext(w, c)
               /\ \A w : Answer(w)' = Answer(w)
    BY <2>2 DEF IsWindow, SeesContext, Answer
  <2>3. CASE Send
    <3>1. PICK a \in 0..reached, b \in (reached + 1)..Len(document) :
            /\ IsCharBoundary(document, a) /\ IsCharBoundary(document, b)
            /\ IF reached = 0 THEN a = 0 ELSE a > 0 /\ a + Overlap <= reached
            /\ outstanding' = outstanding \union {[start |-> a, end |-> b]}
            /\ reached' = b
      BY <2>3 DEF Send
    <3> DEFINE new == [start |-> a, end |-> b]
    <3>2. UNCHANGED <<document, answered, collected>> /\ reached < Len(document)
      BY <2>3 DEF Send
    <3>3. Sent' = Sent \union {new}
      BY <3>1, <3>2 DEF Sent
    <3>4. IsWindow(new) /\ b \in 0..Len(document) /\ a \in Nat /\ b \in Nat
      <4>1. a \in 0..Len(document) /\ b \in 0..Len(document) /\ a < b
        BY <2>1, <3>1, <3>2
      <4> QED BY <2>1, <3>1, <4>1 DEF IsWindow
    <3>5. ASSUME Overlap >= NumberLength + 2 * Margin, NEW c \in SpansOf(document),
                 c.end + Margin <= b \/ b = Len(document)
          PROVE  \E w \in Sent' : SeesContext(w, c)
      <4>1. c.start \in Nat /\ c.end \in Nat /\ c.start + NumberLength = c.end
        BY <2>1 DEF SpansOf
      <4>2. CASE c.end + Margin <= reached
        BY <1>3, <3>3, <3>5, <4>2 DEF WindowsInv, Covered
      <4>3. CASE ~ (c.end + Margin <= reached)
        <5>1. a = 0 \/ a + Margin <= c.start
          <6>1. CASE reached = 0
            BY <3>1, <6>1
          <6>2. CASE reached # 0
            <7>1. a + Overlap <= reached
              BY <3>1, <6>2
            <7>2. a + (NumberLength + 2 * Margin) <= reached /\ reached < (c.start + NumberLength) + Margin
              BY <2>1, <3>4, <3>5, <4>1, <4>3, <7>1
            <7> QED BY <2>1, <3>4, <4>1, <7>2
          <6> QED BY <6>1, <6>2
        <5>2. SeesContext(new, c)
          BY <3>5, <5>1 DEF SeesContext
        <5> QED BY <3>3, <5>2
      <4> QED BY <4>2, <4>3
    <3>6. Covered'
      <4>1. SpansOf(document)' = SpansOf(document) /\ Len(document)' = Len(document) /\ Margin' = Margin
        BY <3>2
      <4> QED BY <2>2, <3>1, <3>2, <3>5, <4>1 DEF Covered
    <3>7. \A w \in Sent' : IsWindow(w)'
      BY <1>3, <2>2, <3>2, <3>3, <3>4 DEF WindowsInv
    <3>8. \A w \in answered' : Answer(w)' \subseteq collected'
      BY <1>3, <2>2, <3>2 DEF WindowsInv
    <3> QED BY <1>3, <3>1, <3>2, <3>4, <3>6, <3>7, <3>8 DEF WindowsInv
  <2>4. CASE Collect
    <3>1. PICK w \in outstanding :
            /\ outstanding' = outstanding \ {w}
            /\ answered' = answered \union {w}
            /\ collected' = collected \union Answer(w)
            /\ UNCHANGED <<document, reached>>
      BY <2>4 DEF Collect
    <3>2. Sent' = Sent
      BY <3>1 DEF Sent
    <3>3. Covered'
      BY <1>3, <2>2, <3>1, <3>2 DEF WindowsInv, Covered
    <3>4. \A v \in answered' : Answer(v)' \subseteq collected'
      BY <1>3, <2>2, <3>1 DEF WindowsInv
    <3>5. \A v \in Sent' : IsWindow(v)'
      BY <1>3, <2>2, <3>1, <3>2 DEF WindowsInv
    <3> QED BY <1>3, <3>1, <3>3, <3>4, <3>5 DEF WindowsInv
  <2>5. CASE UNCHANGED windowingVars
    <3>1. UNCHANGED <<document, reached, outstanding, answered, collected>>
      BY <2>5 DEF windowingVars
    <3> QED BY <1>3, <2>2, <3>1 DEF WindowsInv, Covered, Sent
  <2> QED BY <1>3, <2>3, <2>4, <2>5 DEF Next
<1> QED BY <1>2, <1>3, PTL DEF Spec

(***************************************************************************)
(* Away from the edges of its window an answer is exact, for every         *)
(* document: has_cue, is_standalone and the digits see the same bytes in   *)
(* the window as in the document, so the offsets differ by the window's    *)
(* start and nothing else does.                                            *)
(***************************************************************************)
THEOREM AnswersAreExactInside == Spec => []InnerEntitiesExact
<1>1. WindowsInv => InnerEntitiesExact
  <2> SUFFICES ASSUME WindowsInv, NEW w \in answered, NEW c \in SpansOf(document), SeesContext(w, c)
               PROVE  c \in Answer(w) <=> c \in Scan(document)
    BY DEF InnerEntitiesExact
  <2>1. document \in Documents /\ IsWindow(w)
    BY DEF WindowsInv, Sent
  <2> QED BY <2>1, ScanMoves
<1> QED BY <1>1, WindowsInvHolds, PTL

(***************************************************************************)
(* The overlap the contract asks for suffices: with windows that overlap   *)
(* by the longest entity and its context on both sides, a caller that has  *)
(* collected every answer has every entity of the whole document, however  *)
(* it chose its windows and in whatever order the answers came.            *)
(***************************************************************************)
THEOREM OverlapSuffices == Spec => []WideOverlapLosesNothing
<1>1. WindowsInv => WideOverlapLosesNothing
  <2> SUFFICES ASSUME WindowsInv, Finished, Overlap >= NumberLength + 2 * Margin,
                      NEW c \in Scan(document)
               PROVE  c \in collected
    BY DEF WideOverlapLosesNothing
  <2>1. c \in SpansOf(document) /\ reached = Len(document) /\ Sent = answered
    BY DEF Scan, Finished, Sent
  <2>2. PICK w \in answered : SeesContext(w, c)
    BY <2>1 DEF WindowsInv, Covered
  <2>3. document \in Documents /\ IsWindow(w) /\ Answer(w) \subseteq collected
    BY DEF WindowsInv, Sent
  <2>4. c \in Answer(w)
    BY <2>1, <2>2, <2>3, ScanMoves
  <2> QED BY <2>3, <2>4
<1> QED BY <1>1, WindowsInvHolds, PTL

=============================================================================

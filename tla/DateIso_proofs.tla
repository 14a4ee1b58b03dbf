----------------------------- MODULE DateIso_proofs -----------------------------
(***************************************************************************)
(* Proofs about date.iso8601 for every number of fraction digits, every    *)
(* number of wide digits and every budget of retries.                      *)
(***************************************************************************)
EXTENDS DateIso, FiniteSetTheorems, TLAPS

-----------------------------------------------------------------------------
(* A reading and how many times it can be shrunk. *)

Readings(t) ==
  {r \in [fields : 0..t.fields, zone : BOOLEAN] :
     r.zone => t.zone # "none" /\ r.fields = t.fields}

Left(r) == r.fields + (IF r.zone THEN 1 ELSE 0)

LEMMA TextIsTyped ==
  ASSUME NEW t \in Texts
  PROVE  /\ t.fields \in Nat
         /\ Whole(t) \in Readings(t)
<1>1. t.fields \in Nat
  BY DateAssumption DEF Texts, Fields
<1>2. Whole(t).fields = t.fields /\ (Whole(t).zone <=> t.zone # "none") /\ Whole(t).zone \in BOOLEAN
  BY DEF Whole
<1>3. Whole(t) \in [fields : 0..t.fields, zone : BOOLEAN]
  <2>1. t.fields \in 0..t.fields /\ (t.zone # "none") \in BOOLEAN
    BY <1>1
  <2> QED BY <2>1 DEF Whole
<1> QED BY <1>1, <1>2, <1>3 DEF Readings

(* One shrink leaves a reading of the same text, with one shrink less to go. *)
LEMMA ShorterIsShorter ==
  ASSUME NEW t \in Texts, NEW r \in Readings(t), HasShorter(r)
  PROVE  Shorter(r) \in Readings(t) /\ Left(Shorter(r)) + 1 = Left(r) /\ Left(r) \in Nat
<1>1. t.fields \in Nat /\ r.fields \in 0..t.fields /\ r.zone \in BOOLEAN /\ r.fields \in Nat
  BY TextIsTyped DEF Readings
<1>2. r = [fields |-> r.fields, zone |-> r.zone]
  BY DEF Readings
<1>3. CASE r.zone
  <2>1. Shorter(r) = [fields |-> r.fields, zone |-> FALSE]
    BY <1>2, <1>3 DEF Shorter
  <2> QED BY <1>1, <1>3, <2>1 DEF Readings, Left
<1>4. CASE ~ r.zone
  <2>1. Shorter(r) = [fields |-> r.fields - 1, zone |-> r.zone] /\ r.fields > 0
    BY <1>2, <1>4 DEF Shorter, HasShorter
  <2>2. r.fields - 1 \in 0..t.fields /\ (r.fields - 1) + 1 = r.fields
    BY <1>1, <2>1
  <2> QED BY <1>1, <1>4, <2>1, <2>2 DEF Readings, Left
<1> QED BY <1>1, <1>3, <1>4

(* Where a reading that was shrunk can end without the text continuing it. *)
LEMMA CutsThatEndCleanly ==
  ASSUME NEW t \in Texts, NEW r \in Readings(t), r # Whole(t)
  PROVE  /\ Following(t, r) # "wide"
         /\ \/ ContinuesRight(t, r)
            \/ r.fields = 0 /\ t.fields > 0 /\ t.clock = "unreal"
            \/ r.fields = t.fields /\ t.zone = "Z"
<1>1. t.fields \in Nat /\ r.fields \in Nat /\ r.fields <= t.fields /\ r.zone \in BOOLEAN
      /\ t.clock \in {"real", "unreal"}
  BY TextIsTyped DEF Readings, Texts
<1>2. CASE r.fields = t.fields
  <2>1. Following(t, r) = IF t.zone = "Z" THEN "letter" ELSE "sep_digit"
    BY <1>1, <1>2 DEF Following
  <2> QED BY <1>2, <2>1 DEF ContinuesRight
<1>3. CASE r.fields < t.fields /\ r.fields = 0
  <2>1. Following(t, r) = IF t.clock = "real" THEN "clock" ELSE "no_clock"
    BY <1>1, <1>3 DEF Following
  <2> QED BY <1>1, <1>3, <2>1 DEF ContinuesRight
<1>4. CASE r.fields < t.fields /\ r.fields \in {1, 2}
  <2>1. Following(t, r) = "sep_digit"
    BY <1>1, <1>4 DEF Following
  <2> QED BY <2>1 DEF ContinuesRight
<1>5. CASE r.fields < t.fields /\ r.fields > 2
  <2>1. Following(t, r) = "digit"
    BY <1>1, <1>5 DEF Following
  <2> QED BY <2>1 DEF ContinuesRight
<1> QED BY <1>1, <1>2, <1>3, <1>4, <1>5

(* Ten ASCII characters are cut where the validator cuts them. *)
LEMMA NarrowDatesAreRead ==
  ASSUME NEW t, t.wide = {}
  PROVE  DateFields(t) = "ok"
<1>1. \A n \in 0..10 : ByteOffset(t, n) = n
  <2>1. \A n : {d \in t.wide : DigitAt[d] <= n} = {}
    OBVIOUS
  <2>2. Cardinality({}) = 0
    BY FS_EmptySet
  <2> QED BY <2>1, <2>2 DEF ByteOffset
<1>2. \A n \in 0..10 : OnBoundary(t, n)
  BY <1>1 DEF OnBoundary
<1>3. OnBoundary(t, 0) /\ OnBoundary(t, 4) /\ OnBoundary(t, 5) /\ OnBoundary(t, 7)
      /\ OnBoundary(t, 8) /\ OnBoundary(t, 10)
  BY <1>2
<1>4. \A from, to : AsciiFrom(t, from, to)
  BY DEF AsciiFrom
<1>5. Field(t, 0, 4) = "ok" /\ Field(t, 5, 7) = "ok" /\ Field(t, 8, 10) = "ok"
  BY <1>3, <1>4 DEF Field
<1> QED BY <1>3, <1>5 DEF DateFields

-----------------------------------------------------------------------------
(***************************************************************************)
(* The inductive invariant: the retries spent are the fields, fraction     *)
(* digits and zone given up, and an outcome says what the validator said   *)
(* of the reading it was given for.                                        *)
(***************************************************************************)
DateInv ==
  /\ text \in Texts /\ reading \in Readings(text)
  /\ retries \in 0..RetryPerCandidate
  /\ retries + Left(reading) = Left(Whole(text))
  /\ outcome = "accepted" => Accepts(text, reading)
  /\ outcome = "given_up" =>
       ~ Accepts(text, reading) /\ ~ (retries < RetryPerCandidate /\ HasShorter(reading))
  /\ outcome = "panicked" => Panics(text, reading)

LEMMA DateInvHolds == Spec => []DateInv
<1>1. Init => DateInv
  <2> SUFFICES ASSUME Init PROVE DateInv
    OBVIOUS
  <2>1. text \in Texts /\ reading = Whole(text) /\ retries = 0 /\ outcome = "pending"
    BY DEF Init
  <2>2. Whole(text) \in Readings(text) /\ text.fields \in Nat
    BY <2>1, TextIsTyped
  <2>3. Left(Whole(text)) \in Nat
    BY <2>2 DEF Left, Whole
  <2>4. RetryPerCandidate \in Nat
    BY DateAssumption
  <2> QED BY <2>1, <2>2, <2>3, <2>4 DEF DateInv
<1>2. ASSUME DateInv, [Next]_dateVars
      PROVE  DateInv'
  <2>1. RetryPerCandidate \in Nat /\ retries \in Nat
    BY <1>2, DateAssumption DEF DateInv
  <2>2. CASE Panic
    <3>1. outcome' = "panicked" /\ Panics(text, reading) /\ UNCHANGED <<text, reading, retries>>
      BY <2>2 DEF Panic
    <3> QED BY <1>2, <3>1 DEF DateInv
  <2>3. CASE Accept
    <3>1. outcome' = "accepted" /\ Accepts(text, reading) /\ UNCHANGED <<text, reading, retries>>
      BY <2>3 DEF Accept
    <3> QED BY <1>2, <3>1 DEF DateInv
  <2>4. CASE Reject /\ retries < RetryPerCandidate /\ HasShorter(reading)
    <3>1. /\ reading' = Shorter(reading) /\ retries' = retries + 1 /\ outcome = "pending"
          /\ UNCHANGED <<text, outcome>>
      BY <2>4 DEF Reject
    <3>2. /\ Shorter(reading) \in Readings(text)
          /\ Left(Shorter(reading)) + 1 = Left(reading) /\ Left(reading) \in Nat
      BY <1>2, <2>4, ShorterIsShorter DEF DateInv
    <3>3. Left(Shorter(reading)) \in Nat
      BY <1>2, <3>2, TextIsTyped DEF DateInv, Left, Readings
    <3>4. (retries + 1) + Left(Shorter(reading)) = retries + Left(reading)
      BY <2>1, <3>2, <3>3
    <3>5. retries + 1 \in 0..RetryPerCandidate
      BY <2>1, <2>4
    <3> QED BY <1>2, <3>1, <3>2, <3>4, <3>5 DEF DateInv
  <2>5. CASE Reject /\ ~ (retries < RetryPerCandidate /\ HasShorter(reading))
    <3>1. outcome' = "given_up" /\ ~ Accepts(text, reading) /\ UNCHANGED <<text, reading, retries>>
      BY <2>5 DEF Reject
    <3> QED BY <1>2, <2>5, <3>1 DEF DateInv
  <2>6. CASE UNCHANGED dateVars
    BY <1>2, <2>6 DEF DateInv, dateVars
  <2> QED BY <1>2, <2>2, <2>3, <2>4, <2>5, <2>6 DEF Next
<1> QED BY <1>1, <1>2, PTL DEF Spec

(***************************************************************************)
(* Retries never make a date out of part of one, but for the two cuts that *)
(* are known: a shrunk reading is accepted only as the day before a clock  *)
(* that is no time of day, or as a timestamp without its Z.                *)
(***************************************************************************)
THEOREM CutDatesAreKnown == Spec => []CutsAreKnown
<1>1. DateInv => CutsAreKnown
  <2> SUFFICES ASSUME DateInv, outcome = "accepted", Cut
               PROVE  \/ reading.fields = 0 /\ text.clock = "unreal"
                      \/ reading.fields = text.fields /\ text.zone = "Z"
    BY DEF CutsAreKnown
  <2>1. text \in Texts /\ reading \in Readings(text) /\ reading # Whole(text)
    BY DEF DateInv, Cut
  <2>2. ~ ContinuesRight(text, reading)
    BY DEF DateInv, Accepts
  <2> QED BY <2>1, <2>2, CutsThatEndCleanly
<1> QED BY <1>1, DateInvHolds, PTL

(***************************************************************************)
(* The salvage the retries exist for, for every budget: a candidate whose  *)
(* day is real and whose clock is not is given up only when it has more    *)
(* fields to give up than RETRY_PER_CANDIDATE allows shrinks.              *)
(***************************************************************************)
THEOREM DaysAreSalvaged == Spec => []DayIsSalvaged
<1>1. DateInv => DayIsSalvaged
  <2> SUFFICES ASSUME DateInv, outcome = "given_up", text.before = "clear", text.wide = {},
                      text.date = "real", text.fields >= 1, text.clock = "unreal"
               PROVE  text.fields + (IF text.zone = "none" THEN 0 ELSE 1) > RetryPerCandidate
    BY DEF DayIsSalvaged
  <2>1. /\ text \in Texts /\ reading \in Readings(text) /\ text.fields \in Nat
        /\ reading.fields \in Nat /\ reading.zone \in BOOLEAN
        /\ RetryPerCandidate \in Nat /\ retries \in 0..RetryPerCandidate
    BY TextIsTyped, DateAssumption DEF DateInv, Readings
  <2>2. HasShorter(reading)
    <3> SUFFICES ASSUME ~ HasShorter(reading) PROVE Accepts(text, reading)
      BY DEF DateInv
    <3>1. reading.fields = 0 /\ ~ reading.zone
      BY <2>1 DEF HasShorter
    <3>2. Following(text, reading) = "no_clock"
      <4>1. reading # Whole(text) /\ reading.fields # text.fields /\ text.fields > 0
        BY <2>1, <3>1 DEF Whole
      <4> QED BY <3>1, <4>1 DEF Following
    <3>3. ~ ContinuesRight(text, reading)
      BY <3>2 DEF ContinuesRight
    <3> QED BY <3>1, <3>3, NarrowDatesAreRead DEF Accepts
  <2>3. retries = RetryPerCandidate
    <3>1. ~ (retries < RetryPerCandidate)
      BY <2>2 DEF DateInv
    <3> QED BY <2>1, <3>1
  <2>4. Left(reading) \in Nat \ {0}
    BY <2>1, <2>2 DEF Left, HasShorter
  <2>5. Left(Whole(text)) = text.fields + (IF text.zone = "none" THEN 0 ELSE 1)
    BY DEF Left, Whole
  <2>6. retries + Left(reading) = Left(Whole(text))
    BY DEF DateInv
  <2>7. Left(Whole(text)) > RetryPerCandidate
    BY <2>1, <2>3, <2>4, <2>6
  <2> QED BY <2>5, <2>7
<1> QED BY <1>1, DateInvHolds, PTL

(***************************************************************************)
(* What the panic of date.iso8601 needs, whatever the retries: a character *)
(* of several bytes right behind the timestamp, or a wide digit in its     *)
(* date.  ASCII text is always decided.                                    *)
(***************************************************************************)
PanicsAreWide == outcome = "panicked" => text.after = "wide" \/ text.wide # {}

THEOREM AsciiNeverPanics == Spec => []PanicsAreWide
<1>1. DateInv => PanicsAreWide
  <2> SUFFICES ASSUME DateInv, Panics(text, reading), text.after # "wide", text.wide = {}
               PROVE  FALSE
    BY DEF DateInv, PanicsAreWide
  <2>1. text \in Texts /\ reading \in Readings(text)
    BY DEF DateInv
  <2>2. DateFields(text) = "ok"
    BY NarrowDatesAreRead
  <2>3. Following(text, reading) = "wide"
    BY <2>2 DEF Panics, SliceAfterPanics
  <2>4. reading = Whole(text)
    BY <2>1, <2>3, CutsThatEndCleanly
  <2> QED BY <2>3, <2>4 DEF Following
<1> QED BY <1>1, DateInvHolds, PTL

=============================================================================

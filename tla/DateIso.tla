------------------------------- MODULE DateIso -------------------------------
(***************************************************************************)
(* The rule date.iso8601, src/src/rules/date_iso.rs, on one timestamp of a *)
(* fragment, together with the retries of the scan loop: a reading that is *)
(* rejected is tried again one character shorter.                          *)
(*                                                                         *)
(* A timestamp is its fields and what stands around it.  The pattern reads *)
(* the date, then the clock, the seconds and a fraction, then a zone; a    *)
(* shorter reading ends where a field or a fraction digit ends.            *)
(***************************************************************************)
EXTENDS Naturals, FiniteSets

CONSTANTS
  MaxFraction,        \* bound: how many digits a fraction has at most (nine in the pattern)
  MaxWide,            \* bound: how many of the date's digits are wide
  RetryPerCandidate   \* RETRY_PER_CANDIDATE of the scan loop

ASSUME DateAssumption == {MaxFraction, MaxWide, RetryPerCandidate} \subseteq Nat

VARIABLES
  text,      \* the timestamp as written, fixed for the run
  reading,   \* the candidate: how much of the text the pattern has read
  retries,   \* how often the candidate's lineage was shrunk
  outcome    \* pending, accepted, given_up, or panicked

dateVars == <<text, reading, retries, outcome>>

(* How many fields a text has: 0 a date, 1 a clock, 2 seconds, and one for each fraction digit. *)
Fields == 0..(2 + MaxFraction)

(***************************************************************************)
(* The date's eight digits are ASCII or wide, as `\d` admits the digits of *)
(* other scripts; "clock" and "no_clock" after a text are a space and what *)
(* follows it, "sep_digit" a separator with a digit behind it, and "wide"  *)
(* a character of several bytes.                                           *)
(***************************************************************************)
Texts ==
  {t \in [before : {"word", "clear"},
          wide : {w \in SUBSET (1..8) : Cardinality(w) <= MaxWide},
          date : {"real", "unreal", "implausible"},
          fields : Fields,
          clock : {"real", "unreal"},
          second : {"real", "unreal"},
          zone : {"none", "Z", "offset", "bad_offset"},
          after : {"none", "digit", "letter", "sep_digit", "other", "wide", "clock", "no_clock"}] :
     /\ t.fields = 0 => t.zone = "none" /\ t.clock = "real"
     /\ t.fields < 2 => t.second = "real"
     /\ t.fields \in 3..(1 + MaxFraction) /\ t.zone = "none" => t.after # "digit"}

Whole(t) == [fields |-> t.fields, zone |-> t.zone # "none"]

(* The longest match of the pattern in all but the last character of a reading. *)
Shorter(r) ==
  IF r.zone THEN [r EXCEPT !.zone = FALSE] ELSE [r EXCEPT !.fields = @ - 1]
HasShorter(r) == r.zone \/ r.fields > 0

(* byte_after, and as much of the rest as the validator looks at. *)
Following(t, r) ==
  CASE r = Whole(t) -> t.after
    [] r # Whole(t) /\ r.fields = t.fields -> IF t.zone = "Z" THEN "letter" ELSE "sep_digit"
    [] r.fields = 0 /\ t.fields > 0 -> IF t.clock = "real" THEN "clock" ELSE "no_clock"
    [] r.fields \in {1, 2} /\ r.fields < t.fields -> "sep_digit"
    [] r.fields > 2 /\ r.fields < t.fields -> "digit"

ContinuesRight_DigitOnly(t, r) ==                    \* Mutant: only a digit continues it.
  Following(t, r) = "digit"
ContinuesRight_AnyClock(t, r) ==                     \* Mutant: whatever follows a T is a clock.
  Following(t, r) \in {"digit", "sep_digit", "clock", "no_clock"}
ContinuesRight(t, r) == Following(t, r) \in {"digit", "sep_digit", "clock"}

(* continues_right slices one byte past the candidate, wherever that is. *)
SliceAfterPanics(t, r) == Following(t, r) = "wide"

(***************************************************************************)
(* split_at(10) and the fields the date is cut into.  The date's ten       *)
(* characters are yyyy-mm-dd; a wide digit takes two bytes.                *)
(***************************************************************************)
DigitAt == <<1, 2, 3, 4, 6, 7, 9, 10>>
ByteOffset(t, n) == n + Cardinality({d \in t.wide : DigitAt[d] <= n})
OnBoundary(t, byte) == \E n \in 0..10 : ByteOffset(t, n) = byte
AsciiFrom(t, from, to) == \A d \in t.wide : ByteOffset(t, DigitAt[d]) <= from \/ to < ByteOffset(t, DigitAt[d])

(* parse().ok()? of one field: "ok", or what becomes of the validator. *)
Field(t, from, to) ==
  IF ~ OnBoundary(t, from) \/ ~ OnBoundary(t, to) THEN "panics"
  ELSE IF AsciiFrom(t, from, to) THEN "ok" ELSE "fails"

DateFields(t) ==
  IF ~ OnBoundary(t, 10) THEN "panics"
  ELSE IF Field(t, 0, 4) # "ok" THEN Field(t, 0, 4)
  ELSE IF Field(t, 5, 7) # "ok" THEN Field(t, 5, 7)
  ELSE Field(t, 8, 10)

Panics(t, r) ==
  /\ t.before = "clear"
  /\ \/ SliceAfterPanics(t, r)
     \/ ~ ContinuesRight(t, r) /\ DateFields(t) = "panics"

Accepts(t, r) ==
  /\ t.before = "clear" /\ ~ ContinuesRight(t, r)
  /\ DateFields(t) = "ok" /\ t.date = "real"
  /\ r.fields >= 1 => t.clock = "real"
  /\ r.fields >= 2 => t.second = "real"
  /\ r.zone => t.zone # "bad_offset"

Init ==
  /\ text \in Texts
  /\ reading = Whole(text)
  /\ retries = 0
  /\ outcome = "pending"

Panic ==
  /\ outcome = "pending" /\ Panics(text, reading)
  /\ outcome' = "panicked"
  /\ UNCHANGED <<text, reading, retries>>

Accept ==
  /\ outcome = "pending" /\ ~ Panics(text, reading) /\ Accepts(text, reading)
  /\ outcome' = "accepted"
  /\ UNCHANGED <<text, reading, retries>>

Reject ==
  /\ outcome = "pending" /\ ~ Panics(text, reading) /\ ~ Accepts(text, reading)
  /\ IF retries < RetryPerCandidate /\ HasShorter(reading)
       THEN /\ reading' = Shorter(reading)
            /\ retries' = retries + 1
            /\ UNCHANGED <<text, outcome>>
       ELSE /\ outcome' = "given_up"
            /\ UNCHANGED <<text, reading, retries>>

Next == Panic \/ Accept \/ Reject

Spec == Init /\ [][Next]_dateVars

-----------------------------------------------------------------------------
Cut == reading # Whole(text)

(***************************************************************************)
(* A date that is reported is all of what was written, but for two cuts:   *)
(* the day of a timestamp whose clock is no time of day, and a timestamp   *)
(* without its Z.                                                          *)
(***************************************************************************)
CutsAreKnown ==
  outcome = "accepted" /\ Cut =>
    \/ reading.fields = 0 /\ text.clock = "unreal"
    \/ reading.fields = text.fields /\ text.zone = "Z"

(***************************************************************************)
(* The salvage the retries exist for: the day is reported where the clock  *)
(* behind it is no time of day, if the lineage's budget reaches it.        *)
(***************************************************************************)
DayIsSalvaged ==
  /\ outcome = "given_up"
  /\ text.before = "clear" /\ text.wide = {} /\ text.date = "real"
  /\ text.fields >= 1 /\ text.clock = "unreal"
  => text.fields + (IF text.zone = "none" THEN 0 ELSE 1) > RetryPerCandidate

(* A validator decides; src/src/rules/mod.rs:110 gives it no third outcome. *)
NeverPanics == outcome # "panicked"

=============================================================================

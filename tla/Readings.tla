------------------------------ MODULE Readings ------------------------------
(***************************************************************************)
(* One number in one text: a rule's pattern proposes spans, its validator  *)
(* judges them, and the loop of src/src/scan/mod.rs looks inside and       *)
(* behind what was refused.  Here the texts and the validators are real;   *)
(* ScanLoop has the loop for any validator.                                *)
(***************************************************************************)
EXTENDS Addresses, Money, Phone

CONSTANTS
  Written,              \* numbers as documents write them: [rule, body, skip, tail, key]
  Contexts,             \* what stands around them: [left, right]
  RetryPerCandidate,    \* RETRY_PER_CANDIDATE
  RetryPerFragment,     \* RETRY_PER_FRAGMENT
  ResumePerFragment     \* RETRY_RESUME_PER_FRAGMENT

(* Characters are numbers, and amounts have a whole number of decimals. *)
ASSUME ReadingsAssumption ==
  /\ \A w \in Written : w.body \in Seq(Nat)
  /\ \A c \in Contexts : c.left \in Seq(Nat) /\ c.right \in Seq(Nat)
  /\ \A code \in DOMAIN Exponents : Exponents[code] \in Nat

VARIABLES
  sample,      \* the number as it was written, and its place: [rule, key, start, end]
  text,        \* the fragment it stands in
  ends,        \* the pattern on it: start |-> the ends of its matches there
  queue,       \* spans and their retries; the last is judged first
  visited, retries, resumes,
  found        \* the verdicts

readingsVars == <<sample, text, ends, queue, visited, retries, resumes, found>>

MoneyRules == {"iso_code", "symbol"}            \* the rules with resumes_past_rejection

Patterned == Recogniser @@ Dated @@ Addressed
EndsAt(rule, t, p) ==
  CASE rule = "iso_code" -> IsoCodeEnds(t, p)
    [] rule = "symbol" -> SymbolEnds(t, p)
    [] rule = "phone" -> Ends(t, PhonePattern, p)
    [] rule = "email" -> EmailEnds(t, p)
    [] OTHER -> Ends(t, Patterned[rule].pattern, p)

(* Every text stands behind a label, so a rule that wants one has it; no release is spoken of. *)
Verdicts(rule, t, s, e) ==
  CASE rule = "iso_code" -> ValidateIsoCode(t, s, e, TRUE)
    [] rule = "symbol" -> ValidateSymbol(t, s, e)
    [] rule = "phone" -> ValidatePhone(t, s, e)
    [] rule \in DOMAIN Dated -> ValidateDate(rule, t, s, e)
    [] rule \in DOMAIN Addressed -> ValidateAddress(rule, t, s, e, FALSE)
    [] OTHER -> Validate(rule, t, s, e, TRUE)

(* find_iter between from and limit: leftmost, longest, not overlapping. *)
Longest(table, p, limit) == {q \in table[p] : q <= limit /\ \A r \in table[p] : r <= limit => r <= q}
FindIter(table, from, limit, n) ==
  FoldLeft(LAMBDA acc, p :
             IF p < acc.at \/ Longest(table, p, limit) = {} THEN acc
             ELSE LET q == CHOOSE q \in Longest(table, p, limit) : TRUE
                  IN  [at |-> q, items |-> Append(acc.items, [start |-> p, end |-> q, retries |-> n])],
           [at |-> from, items |-> <<>>], [i \in 1..(limit - from) |-> from + i - 1]).items

Init ==
  \E w \in Written, c \in Contexts :
    /\ sample = [rule |-> w.rule, key |-> w.key,
                 start |-> Len(c.left) + w.skip, end |-> Len(c.left) + Len(w.body) - w.tail]
    /\ text = c.left \o w.body \o c.right
    /\ ends = <<>> /\ queue = <<>> /\ visited = {} /\ retries = 0 /\ resumes = 0 /\ found = {}

(* Prefilter::candidates. *)
Propose ==
  /\ ends = <<>>
  /\ ends' = [p \in 0..Len(text) |-> EndsAt(sample.rule, text, p)]
  /\ queue' = FindIter(ends', 0, Len(text), 0)
  /\ UNCHANGED <<sample, text, visited, retries, resumes, found>>

Top == Last(queue)
SpanOf(item) == <<item.start, item.end>>
VerdictsOn(item) == Verdicts(sample.rule, text, item.start, item.end)

Skip ==
  /\ queue # <<>> /\ SpanOf(Top) \in visited
  /\ queue' = Front(queue)
  /\ UNCHANGED <<sample, text, ends, visited, retries, resumes, found>>

Accept ==
  /\ queue # <<>> /\ SpanOf(Top) \notin visited /\ VerdictsOn(Top) # {}
  /\ found' = found \union VerdictsOn(Top)
  /\ visited' = visited \union {SpanOf(Top)}
  /\ queue' = Front(queue)
  /\ UNCHANGED <<sample, text, ends, retries, resumes>>

(* The first match behind the start of a refused span, and the matches inside it. *)
MayResume == sample.rule \in MoneyRules /\ resumes < ResumePerFragment
Behind(item) ==
  LET later == FindIter(ends, item.start + 1, Len(text), item.retries)
  IN  IF MayResume /\ later # <<>> THEN <<Head(later)>> ELSE <<>>
MayShrink(item) ==
  item.retries < RetryPerCandidate /\ retries < RetryPerFragment /\ item.start < item.end - 1
Inside(item) ==
  IF MayShrink(item) THEN FindIter(ends, item.start, item.end - 1, item.retries + 1) ELSE <<>>

Reject ==
  /\ queue # <<>> /\ SpanOf(Top) \notin visited /\ VerdictsOn(Top) = {}
  /\ visited' = visited \union {SpanOf(Top)}
  /\ queue' = Front(queue) \o Behind(Top) \o Inside(Top)
  /\ resumes' = IF MayResume THEN resumes + 1 ELSE resumes
  /\ retries' = IF MayShrink(Top) THEN retries + 1 ELSE retries
  /\ UNCHANGED <<sample, text, ends, found>>

Next == Propose \/ Skip \/ Accept \/ Reject

Spec == Init /\ [][Next]_readingsVars

-----------------------------------------------------------------------------
Done == ends # <<>> /\ queue = <<>>
IsMoney == sample.rule \in MoneyRules
TheNumber == [start |-> sample.start, end |-> sample.end, key |-> sample.key]

LeftOf(i) == ByteBefore(text, sample.start - i)
RightOf(i) == ByteAfter(text, sample.end + i)

(* What joins a number to the characters beside it. *)
GluedPhone ==
  \/ LeftOf(0) \in Alnum \union {Percent, Slash, Plus} \union Signs
  \/ RightOf(0) \in Alnum \union {Percent, Plus} \union Signs /\ ~ (RightOf(0) = Letter("X") /\ RightOf(1) \in Digits)
  \/ RightOf(0) \in {Hyphen, Dot, Slash, Open, Close} /\ RightOf(1) \in Digits
  \/ RightOf(0) = Colon /\ text[sample.end - 2] = Space       \* the hour of a time of day
Glued ==
  IF sample.rule = "phone" THEN GluedPhone
  ELSE \/ LeftOf(0) \in Patterned[sample.rule].before
       \/ RightOf(0) \in Patterned[sample.rule].after
       \/ sample.rule = "mac" /\ RightOf(0) = Dot /\ RightOf(1) \in Hex
       \/ sample.rule = "ip" /\ RightOf(0) = Dot /\ RightOf(1) \in Digits

OpensWithDigit == text[sample.start + 1] \in Digits \union Marks
GluedMoney ==
  \/ LeftOf(0) \in Alnum \union Separators
  \/ LeftOf(0) \in Blanks /\ LeftOf(1) \in Separators
  \/ LeftOf(0) \in Blanks /\ LeftOf(1) \in Digits /\ OpensWithDigit
  \/ RightOf(0) \in Alnum
  \/ RightOf(0) \in Separators \union Blanks /\ RightOf(1) \in Digits
  \/ RightOf(0) \in Separators /\ RightOf(1) \in Blanks /\ RightOf(2) \in Digits

(* Another number that starts before it, or at it and ends later. *)
Instead(f) == f.start < sample.start \/ (f.start = sample.start /\ f.end > sample.end)
RunInto == \E p \in 0..(sample.start - 1) : \E q \in ends[p] : q > sample.start
Hidden == Cardinality({q \in ends[sample.start] : q > sample.end}) > RetryPerCandidate

(***************************************************************************)
(* A number that stands alone is read, with its own span and key, unless   *)
(* an earlier match runs into it or more than eight longer ones hide it.   *)
(***************************************************************************)
StandingAloneIsRead ==
  /\ Done /\ sample.key # <<>>
  /\ IF IsMoney THEN ~ GluedMoney ELSE ~ (Glued \/ RunInto \/ Hidden)
  => TheNumber \in found \/ \E f \in found : Instead(f)

(***************************************************************************)
(* The other half, the guards of every validator and what the retries do   *)
(* to them (src/src/rules/mod.rs 113, device.rs 145, phone.rs 188): no     *)
(* identifier is cut out of a longer token by reading a shorter or a later *)
(* part of it.  A phone number may be cut, but only in front of a blank,   *)
(* and a mail address in front of a dot.                                   *)
(***************************************************************************)
CutBefore == ("phone" :> Space) @@ ("email" :> Dot)
MayBeCut(f) ==
  /\ sample.rule \in DOMAIN CutBefore /\ ByteAfter(text, f.end) = CutBefore[sample.rule]
  /\ f.start = sample.start /\ f.end < sample.end
NothingIsCutOut ==
  ~ IsMoney => \A f \in found : Instead(f) \/ (f = TheNumber /\ ~ Glued) \/ MayBeCut(f)

(* Money: the amount as written, and the numbers a reader could take it for. *)
AmountOf(f) == Drop(TextOf(text, f.start, f.end), Capitals \union Signs \union Grouping)

(* a is written with group separator g and decimal mark d. *)
IsWrittenWith(a, g, d, exponent) ==
  LET decimal == {i \in MarksIn(a) : a[i] = d}
      groups == MarksIn(a) \ decimal
      end == IF decimal = {} THEN Len(a) + 1 ELSE Min(decimal)
  IN  /\ Cardinality(decimal) <= 1
      /\ \A i \in groups : a[i] = g /\ i < end
      /\ groups # {} => {i \in 2..(end - 1) : (end - i) % 4 = 0} = groups
      /\ Len(a) - end <= exponent

Interpretations(a, exponent) ==
  {LET end == IF d \in ToSet(a) THEN SelectInSeq(a, LAMBDA v : v = d) ELSE Len(a) + 1
   IN  Minor(SubSeq(a, 1, end - 1), SubSeq(a, end + 1, Len(a)), exponent) :
     d \in {d \in Marks : \E g \in Marks \ {d} : IsWrittenWith(a, g, d, exponent)}}

(***************************************************************************)
(* money.rs 385: the minor units are those of a convention the amount can  *)
(* be written in, and where more than one gives another number the entity  *)
(* says that its separator was inferred.                                   *)
(***************************************************************************)
CertainOrFlagged ==
  IsMoney => \A f \in found :
    LET readings == Interpretations(AmountOf(f), Exponents[f.key.code])
    IN  f.key.minor \in readings /\ (~ f.key.inferred => readings = {f.key.minor})

(* Where it begins, with the code or the capitals its sign stands behind. *)
Outset(f) == Min({i \in 0..f.start : f.start - i <= 2 /\ \A j \in (i + 1)..f.start : text[j] \in Capitals})
(***************************************************************************)
(* money.rs 309 to 377: on both sides of an amount, its code or its sign,  *)
(* no digit and no minus touches it, and no separator that has a digit on  *)
(* its other side.  What a blank sets off is not asked for: see            *)
(* MinusRefusesTheAmount.                                                  *)
(***************************************************************************)
NoDigitCutOff ==
  IsMoney => \A f \in found :
    /\ ByteBefore(text, Outset(f)) \notin Digits \union {Hyphen}
    /\ ByteBefore(text, Outset(f)) \in Separators => ByteBefore(text, Outset(f) - 1) \notin Digits
    /\ ByteAfter(text, f.end) \notin Alnum
    /\ text[f.end] \in Digits /\ ByteAfter(text, f.end) \in Separators => ByteAfter(text, f.end + 1) \notin Digits

(***************************************************************************)
(* money.rs 309: behind a minus no amount is reported, "the wrong money    *)
(* rather than none": neither the amount nor a part of it.                 *)
(***************************************************************************)
MinusRefusesTheAmount ==
  IsMoney /\ LeftOf(0) = Hyphen =>
    \A f \in found : ~ (sample.start <= f.start /\ f.end <= sample.end)

=============================================================================

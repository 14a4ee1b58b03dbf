--------------------------- MODULE IssuedNumbers ---------------------------
(***************************************************************************)
(* The numbers institutions issue: src/src/rules/security.rs, bank.rs,     *)
(* maritime.rs, device.rs and the ORCID of extras.rs.  What each validator *)
(* asks of the characters; cues and neighbours are in Cues and Readings.   *)
(***************************************************************************)
EXTENDS CheckDigits

CONSTANTS
  CountryCodes,     \* the ISO 3166-1 codes of the vendored table, as pairs of letters
  IbanRegistry      \* country |-> [length, structure], structure a sequence of <<count, class>>

Pair(a, b) == <<Letter(a), Letter(b)>>
NonCountryPrefixes ==
  {Pair("E", "U"), Pair("Q", "S"), Pair("Q", "T"), Pair("X", "A"), Pair("X", "B"), Pair("X", "C"),
   Pair("X", "D"), Pair("X", "F"), Pair("X", "S")}

(* A letter becomes the two digits of its value. *)
expand_letters(d) ==
  FlattenSeq([i \in DOMAIN d |-> IF IsDigit(d[i]) THEN <<d[i]>> ELSE <<d[i] \div 10, d[i] % 10>>])

isin(d) ==
  /\ Len(d) = 12 /\ IsLetter(d[1]) /\ IsLetter(d[2]) /\ IsDigit(d[12])
  /\ Slice(d, 0, 2) \in CountryCodes \union NonCountryPrefixes
  /\ Luhn(expand_letters(d))

cusip_check_digit(d) ==
  (10 - (SumFunction([i \in 1..8 |-> DigitSum(d[i] * (IF i % 2 = 1 THEN 1 ELSE 2))]) % 10)) % 10
cusip(d) == Len(d) = 9 /\ IsDigit(d[9]) /\ d[9] = cusip_check_digit(d)

Vowels == {Letter("A"), Letter("E"), Letter("I"), Letter("O"), Letter("U")}
sedol(d) ==
  /\ Len(d) = 7 /\ IsDigit(d[7]) /\ \A i \in 1..6 : d[i] \notin Vowels
  /\ IsDigit(d[1]) => AllDigits(d)
  /\ d[7] = (10 - WeightedMod(Slice(d, 0, 6), <<1, 3, 1, 7, 3, 9>>, 10)) % 10

(***************************************************************************)
(* IBAN: length and positional alphabet by country, then modulo 97 over    *)
(* the number with its first four characters moved to the end.  The        *)
(* pattern takes no more than 46 characters, separators included.          *)
(***************************************************************************)
InClass(v, class) ==
  CASE class = "n" -> IsDigit(v) [] class = "a" -> IsLetter(v) [] class = "c" -> v \in 0..35

matches_structure(bban, structure) ==
  LET before(g) == SumFunction([h \in 1..(g - 1) |-> structure[h][1]]) IN
  /\ Len(bban) = before(Len(structure) + 1)
  /\ \A g \in DOMAIN structure : \A i \in 1..structure[g][1] : InClass(bban[before(g) + i], structure[g][2])

iban(d) ==
  /\ Len(d) \in 4..46 /\ Slice(d, 0, 2) \in DOMAIN IbanRegistry /\ AllDigits(Slice(d, 2, 4))
  /\ LET country == IbanRegistry[Slice(d, 0, 2)]
         bban == Slice(d, 4, Len(d))
     IN  /\ Len(d) = country.length
         /\ matches_structure(bban, country.structure)
         /\ Mod97_10(bban \o Slice(d, 0, 4))

(***************************************************************************)
(* Payment cards: an issuer is a set of ranges of leading digits and the   *)
(* lengths of its cards.  A range is compared on its own number of digits. *)
(***************************************************************************)
From(low, high) == [low |-> low, high |-> high]
Issuers == {
  [ranges |-> {From(<<4>>, <<4>>)}, lengths |-> {13, 16, 19}],
  [ranges |-> {From(<<5, 1>>, <<5, 5>>), From(<<2, 2, 2, 1>>, <<2, 7, 2, 0>>)}, lengths |-> {16}],
  [ranges |-> {From(<<3, 4>>, <<3, 4>>), From(<<3, 7>>, <<3, 7>>)}, lengths |-> {15}],
  [ranges |-> {From(<<3, 0, 0>>, <<3, 0, 5>>), From(<<3, 0, 9, 5>>, <<3, 0, 9, 5>>),
               From(<<3, 6>>, <<3, 6>>), From(<<3, 8>>, <<3, 9>>)}, lengths |-> {14, 16, 19}],
  [ranges |-> {From(<<3, 5, 2, 8>>, <<3, 5, 8, 9>>)}, lengths |-> {16, 19}],
  [ranges |-> {From(<<6, 0, 1, 1>>, <<6, 0, 1, 1>>), From(<<6, 4, 4>>, <<6, 4, 9>>),
               From(<<6, 5>>, <<6, 5>>), From(<<6, 2, 2, 1, 2, 6>>, <<6, 2, 2, 9, 2, 5>>)}, lengths |-> {16, 19}],
  [ranges |-> {From(<<6, 2>>, <<6, 2>>), From(<<6, 3, 6>>, <<6, 3, 6>>)}, lengths |-> 16..19],
  [ranges |-> {From(p, p) : p \in {<<5, 0, 1, 8>>, <<5, 0, 2, 0>>, <<5, 0, 3, 8>>, <<5, 8, 9, 3>>,
                                     <<6, 3, 0, 4>>, <<6, 7, 5, 9>>}}
              \union {From(<<6, 7, 6, 1>>, <<6, 7, 6, 3>>)}, lengths |-> 12..19],
  [ranges |-> {From(<<5, 0, 1, 9>>, <<5, 0, 1, 9>>), From(<<6, 3, 7>>, <<6, 3, 9>>)}, lengths |-> {16}] }

issuer_of(d) ==
  {x \in Issuers : /\ Len(d) \in x.lengths
                   /\ \E r \in x.ranges : LET head == AsInteger(Slice(d, 0, Len(r.low)))
                                          IN  AsInteger(r.low) <= head /\ head <= AsInteger(r.high)}
payment_card(d) == AllDigits(d) /\ Luhn(d) /\ issuer_of(d) # {}

RoutingSymbols == (0..12) \union (21..32) \union (61..72) \union {80}
aba_routing(d) ==
  Len(d) = 9 /\ AllDigits(d) /\ 10 * d[1] + d[2] \in RoutingSymbols /\ WeightedMod(d, <<3, 7, 1>>, 10) = 0

imo(d) == Len(d) = 7 /\ AllDigits(d) /\ WeightedMod(Slice(d, 0, 6), <<7, 6, 5, 4, 3, 2>>, 10) = d[7]

(* Container letters skip every multiple of eleven. *)
ContainerValue(v) == IF v <= 10 THEN v ELSE IF v <= 20 THEN v + 1 ELSE IF v <= 30 THEN v + 2 ELSE v + 3
ContainerCategories == {Letter("U"), Letter("J"), Letter("Z"), Letter("R")}
iso6346_check_digit(d) == (SumFunction([i \in 1..10 |-> ContainerValue(d[i]) * 2 ^ (i - 1)]) % 11) % 10
iso6346(d) ==
  /\ Len(d) = 11 /\ \A i \in 1..3 : IsLetter(d[i])
  /\ d[4] \in ContainerCategories /\ AllDigits(Slice(d, 4, 11))
  /\ d[11] = iso6346_check_digit(d)

imei(d) == Len(d) = 15 /\ AllDigits(d) /\ Luhn(d)
orcid(d) == Len(d) = 16 /\ AllDigits(Slice(d, 0, 15)) /\ Mod11_2(d)

bic(d) == Len(d) \in {8, 11} /\ Slice(d, 4, 6) \in CountryCodes
mac(d) == Len(d) = 12
cve(d) == AsInteger(SelectSeq(SubSeq(d, 5, 8), IsDigit)) \in 1999..2100
doi(d) == \E i \in DOMAIN d : d[i] = Slash /\ i < Len(d)

=============================================================================

-------------------------- MODULE PersonalNumbers --------------------------
(***************************************************************************)
(* src/src/rules/national_id.rs: what each validator asks of the           *)
(* characters of a number, its pattern's alphabet included.  Cues and      *)
(* neighbours are in Cues and Readings.                                    *)
(***************************************************************************)
EXTENDS CheckDigits

Names(letters) == ToSet(Alphabet(letters))
Spells(d, from, to, set) == \A i \in (from + 1)..to : d[i] \in set
AnyLetter == 10..35
AnyDigit == 0..9

(***************************************************************************)
(* Italy.  Digits may be written as letters (omocodia); the check letter   *)
(* is summed over the characters as they stand.                            *)
(***************************************************************************)
Omocodia == AnyDigit \union Names(<<"L", "M", "N", "P", "Q", "R", "S", "T", "U", "V">>)
MonthLetters == Names(<<"A", "B", "C", "D", "E", "H", "L", "M", "P", "R", "S", "T">>)
OddPlaces == <<1, 0, 5, 7, 9, 13, 15, 17, 19, 21, 2, 4, 18, 20, 11, 3, 6, 8, 12, 14, 16, 10, 22, 25, 24, 23>>

cin_check_character(d) ==
  LET ordinal(v) == IF IsDigit(v) THEN v ELSE v - 10
  IN  10 + (SumFunction([i \in 1..15 |-> IF i % 2 = 1 THEN OddPlaces[ordinal(d[i]) + 1] ELSE ordinal(d[i])]) % 26)

it_codice_fiscale(d) ==
  /\ Len(d) = 16
  /\ Spells(d, 0, 6, AnyLetter) /\ Spells(d, 6, 8, Omocodia) /\ d[9] \in MonthLetters
  /\ Spells(d, 9, 11, Omocodia) /\ IsLetter(d[12]) /\ Spells(d, 12, 15, Omocodia)
  /\ d[16] = cin_check_character(d)

(***************************************************************************)
(* Spain.  X, Y and Z stand for 0, 1 and 2; K, L and M for nothing.        *)
(***************************************************************************)
NifCheckLetters == Alphabet(<<"T", "R", "W", "A", "G", "M", "Y", "F", "P", "D", "X", "B",
                              "N", "J", "Z", "S", "Q", "V", "H", "L", "C", "K", "E">>)
NifNumber(d) ==
  LET body == Slice(d, 1, 8) IN
  IF IsDigit(d[1]) THEN AsInteger(Slice(d, 0, 8))
  ELSE AsInteger((IF d[1] \in Names(<<"K", "L", "M">>) THEN <<>> ELSE <<d[1] - Letter("X")>>) \o body)

es_nif_nie_LeadDropped(d) ==                 \* Mutant: Y and Z count as X does.
  /\ Len(d) = 9 /\ Spells(d, 1, 8, AnyDigit)
  /\ d[1] \in AnyDigit \union Names(<<"X", "Y", "Z", "K", "L", "M">>)
  /\ d[9] = NifCheckLetters[(AsInteger(Slice(d, IF IsDigit(d[1]) THEN 0 ELSE 1, 8)) % 23) + 1]
es_nif_nie(d) ==
  /\ Len(d) = 9 /\ Spells(d, 1, 8, AnyDigit)
  /\ d[1] \in AnyDigit \union Names(<<"X", "Y", "Z", "K", "L", "M">>)
  /\ d[9] = NifCheckLetters[(NifNumber(d) % 23) + 1]

(***************************************************************************)
(* Mexico.  The alphabet of the check digit has an extra sign after N.     *)
(***************************************************************************)
CurpStates == {<<Letter(p[1]), Letter(p[2])>> : p \in {
  <<"A", "S">>, <<"B", "C">>, <<"B", "S">>, <<"C", "C">>, <<"C", "H">>, <<"C", "L">>, <<"C", "M">>,
  <<"C", "S">>, <<"D", "F">>, <<"D", "G">>, <<"G", "R">>, <<"G", "T">>, <<"H", "G">>, <<"J", "C">>,
  <<"M", "C">>, <<"M", "N">>, <<"M", "S">>, <<"N", "E">>, <<"N", "L">>, <<"N", "T">>, <<"O", "C">>,
  <<"P", "L">>, <<"Q", "R">>, <<"Q", "T">>, <<"S", "L">>, <<"S", "P">>, <<"S", "R">>, <<"T", "C">>,
  <<"T", "L">>, <<"T", "S">>, <<"V", "Z">>, <<"Y", "N">>, <<"Z", "S">>}}

curp_check_digit(d) ==
  LET value(v) == IF v > Letter("N") THEN v + 1 ELSE v
  IN  (10 - (SumFunction([i \in 1..17 |-> value(d[i]) * (19 - i)]) % 10)) % 10

mx_curp(d) ==
  /\ Len(d) = 18
  /\ Spells(d, 0, 4, AnyLetter) /\ Spells(d, 4, 10, AnyDigit) /\ Spells(d, 10, 16, AnyLetter)
  /\ IsDigit(d[18]) /\ <<d[12], d[13]>> \in CurpStates
  /\ d[18] = curp_check_digit(d)

(* India: the holder's type and a serial that is not all zeros; no check digit. *)
PanHolders == Names(<<"A", "B", "C", "F", "G", "H", "J", "K", "L", "P", "T">>)
in_pan(d) ==
  /\ Len(d) = 10 /\ Spells(d, 0, 5, AnyLetter) /\ Spells(d, 5, 9, AnyDigit) /\ IsLetter(d[10])
  /\ d[4] \in PanHolders /\ \E i \in 6..9 : d[i] # 0

(* Poland: the month field names the century in twenties. *)
pesel_date_exists(d) ==
  LET field == 10 * d[3] + d[4] IN
  IsRealDate(<<1900, 2000, 2100, 2200, 1800>>[(field \div 20) + 1] + 10 * d[1] + d[2], field % 20, 10 * d[5] + d[6])

pl_pesel(d) ==
  /\ Len(d) = 11 /\ AllDigits(d)
  /\ d[11] = (10 - WeightedMod(Slice(d, 0, 10), <<1, 3, 7, 9>>, 10)) % 10
  /\ pesel_date_exists(d)

(***************************************************************************)
(* Sweden.  A coordination number adds sixty to the day; the ten-digit     *)
(* form has no century, so its day need not fit its month.                 *)
(***************************************************************************)
personnummer_date_exists(d) ==
  LET day(written) == IF written >= 61 THEN written - 60 ELSE written IN
  \/ /\ Len(d) = 12
     /\ IsRealDate(AsInteger(Slice(d, 0, 4)), 10 * d[5] + d[6], day(10 * d[7] + d[8]))
  \/ /\ Len(d) = 10
     /\ 10 * d[3] + d[4] \in 1..12 /\ day(10 * d[5] + d[6]) \in 1..31

LastTen(d) == Slice(d, Len(d) - 10, Len(d))
se_personnummer(d) ==
  Len(d) \in {10, 12} /\ AllDigits(d) /\ personnummer_date_exists(d) /\ Luhn(LastTen(d))

(* The index key keeps the sign, which is the century of the ten-digit form. *)
PersonnummerKey(d, sign) == [digits |-> d, sign |-> sign]

=============================================================================

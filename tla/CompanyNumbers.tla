-------------------------- MODULE CompanyNumbers --------------------------
(***************************************************************************)
(* The arithmetic of src/src/rules/company.rs: one predicate per tax       *)
(* administration.  n is what follows the country prefix; the markers a    *)
(* pattern spells out (ATU, CHE...MWST, NO...MVA, GBGD8888) are left out   *)
(* of n, but for the Dutch B, which takes part in the arithmetic.          *)
(***************************************************************************)
EXTENDS CheckDigits

OfLength(n, lengths) == Len(n) \in lengths /\ AllDigits(n)

Descending(from) == [i \in 1..(from - 1) |-> from + 1 - i]      \* from, ..., 3, 2

(* The digit that brings a sum to a multiple of eleven, ten written as zero. *)
Complement11(sum) == ((11 - (sum % 11)) % 11) % 10

at_uid(n) == OfLength(n, {8}) /\ (16 - LuhnSum(Slice(n, 0, 7))) % 10 = n[8]

be_ondernemingsnummer(n) ==
  OfLength(n, {10}) /\ n[1] <= 1 /\ (IntegerMod(Slice(n, 0, 8), 97) + AsInteger(Slice(n, 8, 10))) % 97 = 0

bg_ddn(n) ==
  \/ /\ OfLength(n, {9})
     /\ LET first == WeightedSum(n, [i \in 1..8 |-> i]) % 11
            check == IF first = 10 THEN WeightedSum(n, [i \in 1..8 |-> i + 2]) % 11 ELSE first
        IN  check % 10 = n[9]
  \/ /\ OfLength(n, {10})
     /\ LET field == 10 * n[3] + n[4]
            month == IF field > 40 THEN field - 40 ELSE IF field > 20 THEN field - 20 ELSE field
            year == 1900 + 10 * n[1] + n[2] + (IF field > 40 THEN 100 ELSE IF field > 20 THEN -100 ELSE 0)
        IN  \/ /\ IsRealDate(year, month, 10 * n[5] + n[6])                                \* EGN
               /\ (WeightedSum(n, <<2, 4, 8, 5, 10, 9, 7, 3, 6>>) % 11) % 10 = n[10]
            \/ WeightedSum(n, <<21, 19, 17, 13, 11, 9, 7, 3, 1>>) % 10 = n[10]             \* PNF
            \/ (11 - (WeightedSum(n, <<4, 3, 2, 7, 6, 5, 4, 3, 2>>) % 11)) % 11 = n[10]    \* the rest

cy_tic(n) ==
  LET even == <<1, 0, 5, 7, 9, 13, 15, 17, 19, 21>> IN
  /\ Len(n) = 9 /\ AllDigits(Slice(n, 0, 8)) /\ ~ (n[1] = 1 /\ n[2] = 2)
  /\ n[9] = 10 + (SumFunction([i \in 1..8 |-> IF i % 2 = 1 THEN even[n[i] + 1] ELSE n[i]]) % 26)

(* The birth number Czechia and Slovakia share. *)
cz_rodne_cislo(n) ==
  LET written == 1900 + 10 * n[1] + n[2]
      month == ((10 * n[3] + n[4]) % 50) % 20
      nine == Len(n) = 9
      year == IF nine THEN (IF written >= 1980 THEN written - 100 ELSE written)
              ELSE IF written < 1954 THEN written + 100 ELSE written
  IN  /\ nine => year <= 1953
      /\ IsRealDate(year, month, 10 * n[5] + n[6])
      /\ nine \/ IntegerMod(Slice(n, 0, 9), 11) % 10 = n[10]

cz_dic(n) ==
  \/ /\ OfLength(n, {8}) /\ n[1] # 9
     /\ LET check == (11 - (WeightedSum(n, Descending(8)) % 11)) % 11
        IN  (IF check = 0 THEN 1 ELSE check) % 10 = n[8]
  \/ /\ OfLength(n, {9}) /\ n[1] = 6
     /\ (8 - ((10 - (WeightedSum(Slice(n, 1, 8), Descending(8)) % 11)) % 11)) % 10 = n[9]
  \/ OfLength(n, {9, 10}) /\ ~ (Len(n) = 9 /\ n[1] = 6) /\ cz_rodne_cislo(n)

de_ustid(n) == OfLength(n, {9}) /\ n[1] # 0 /\ Mod11_10(n)
dk_cvr(n) == OfLength(n, {8}) /\ n[1] # 0 /\ WeightedMod(n, <<2, 7, 6, 5, 4, 3, 2, 1>>, 11) = 0
ee_kmkr(n) == OfLength(n, {9}) /\ WeightedMod(n, <<3, 7, 1>>, 10) = 0

el_afm(n) ==
  OfLength(n, {9}) /\ ((FoldLeft(LAMBDA sum, v : 2 * sum + v, 0, Slice(n, 0, 8)) * 2) % 11) % 10 = n[9]

CheckLetters == Alphabet(<<"T", "R", "W", "A", "G", "M", "Y", "F", "P", "D", "X", "B",
                           "N", "J", "Z", "S", "Q", "V", "H", "L", "C", "K", "E">>)
EntityTypes == ToSet(Alphabet(<<"A", "B", "C", "D", "E", "F", "G", "H", "J", "N", "P",
                                "Q", "R", "S", "U", "V", "W">>))

(* X, Y and Z stand for 0, 1 and 2; K, L and M run the older algorithm over the digits alone. *)
NifCheck(n) ==
  LET lead == IF n[1] >= Letter("X") THEN n[1] - Letter("X") ELSE IF IsDigit(n[1]) THEN n[1] ELSE 0
  IN  CheckLetters[(AsInteger(<<lead>> \o Slice(n, 1, 8)) % 23) + 1]
NifLeads == {Letter("K"), Letter("L"), Letter("M"), Letter("X"), Letter("Y"), Letter("Z")}

es_nif(n) ==
  /\ Len(n) = 9 /\ AllDigits(Slice(n, 1, 8))
  /\ \/ (IsDigit(n[1]) \/ n[1] \in NifLeads) /\ n[9] = NifCheck(n)
     \/ /\ n[1] \in EntityTypes
        /\ LET digit == LuhnCheckDigit(Slice(n, 1, 8))
           IN  n[9] \in {digit, IF digit = 0 THEN Letter("J") ELSE 9 + digit}

fi_alv(n) == OfLength(n, {8}) /\ WeightedMod(n, <<7, 9, 10, 5, 8, 4, 2, 1>>, 11) = 0

KeyAlphabet == [i \in 1..10 |-> i - 1] \o Alphabet(<<"A", "B", "C", "D", "E", "F", "G", "H", "J", "K", "L", "M",
                 "N", "P", "Q", "R", "S", "T", "U", "V", "W", "X", "Y", "Z">>)
fr_tva(n) ==
  LET siren == Slice(n, 2, 11)
      place(v) == (CHOOSE i \in DOMAIN KeyAlphabet : KeyAlphabet[i] = v) - 1
      key == IF IsDigit(n[1]) THEN 24 * place(n[1]) + place(n[2]) - 10 ELSE 34 * place(n[1]) + place(n[2]) - 100
  IN  /\ Len(n) = 11 /\ {n[1], n[2]} \subseteq ToSet(KeyAlphabet) /\ AllDigits(siren)
      /\ (n[3] = 0 /\ n[4] = 0 /\ n[5] = 0) \/ Luhn(siren)
      /\ IF IsDigit(n[1]) /\ IsDigit(n[2]) THEN 10 * n[1] + n[2] = IntegerMod(siren \o <<1, 2>>, 97)
         ELSE (IntegerMod(siren, 11) + 1 + (key \div 11)) % 11 = key % 11

hr_oib(n) == OfLength(n, {11}) /\ Mod11_10(n)
hu_anum(n) == OfLength(n, {8}) /\ WeightedMod(n, <<9, 7, 3, 1>>, 10) = 0

IeAlphabet == Alphabet(<<"W", "A", "B", "C", "D", "E", "F", "G", "H", "I", "J", "K", "L", "M",
                         "N", "O", "P", "Q", "R", "S", "T", "U", "V">>)
ie_check_letter(head, extra) == IeAlphabet[((WeightedSum(head, Descending(8)) + 9 * extra) % 23) + 1]

(* In the old form the first digit belongs at the end, and a letter, + or * stands second. *)
OldFormMarks == 10..37
ie_vat(n) ==
  /\ Len(n) \in {8, 9} /\ IsDigit(n[1]) /\ AllDigits(Slice(n, 2, 7))
  /\ \A i \in 8..Len(n) : n[i] \in ToSet(IeAlphabet)
  /\ \/ /\ IsDigit(n[2])
        /\ LET extra == IF Len(n) = 8 THEN 0 ELSE (CHOOSE i \in DOMAIN IeAlphabet : IeAlphabet[i] = n[9]) - 1
           IN  ie_check_letter(Slice(n, 0, 7), extra) = n[8]
     \/ n[2] \in OldFormMarks /\ ie_check_letter(<<0>> \o Slice(n, 2, 7) \o <<n[1]>>, 0) = n[8]

it_iva(n) ==
  /\ OfLength(n, {11}) /\ \E i \in 1..7 : n[i] # 0
  /\ AsInteger(Slice(n, 7, 10)) \in (1..100) \union {120, 121, 888, 999}
  /\ Luhn(n)

lt_pvm(n) ==
  LET Pass(shift) == WeightedSum(n, [i \in 1..(Len(n) - 1) |-> 1 + ((i - 1 + shift) % 9)])
      sum == IF Pass(0) % 11 = 10 THEN Pass(2) ELSE Pass(0)
  IN  OfLength(n, {9, 12}) /\ n[Len(n) - 1] = 1 /\ (sum % 11) % 10 = n[Len(n)]

lu_tva(n) == OfLength(n, {8}) /\ AsInteger(Slice(n, 0, 6)) % 89 = AsInteger(Slice(n, 6, 8))

lv_pvn(n) ==
  /\ OfLength(n, {11})
  /\ IF n[1] > 3 THEN WeightedMod(n, <<9, 1, 4, 8, 3, 10, 2, 5, 7, 6, 1>>, 11) = 3
     ELSE /\ \/ n[1] = 3 /\ n[2] = 2
             \/ IsRealDate(1800 + 100 * n[7] + 10 * n[5] + n[6], 10 * n[3] + n[4], 10 * n[1] + n[2])
          /\ ((1 + WeightedSum(n, <<10, 5, 8, 4, 2, 1, 6, 3, 7, 9>>)) % 11) % 10 = n[11]

mt_vat(n) == OfLength(n, {8}) /\ n[1] # 0 /\ WeightedMod(n, <<3, 4, 6, 7, 8, 9, 10, 1>>, 37) = 0

nl_bsn(n) == (WeightedSum(n, Descending(9)) - n[9]) % 11 = 0
nl_btw(n) ==
  /\ Len(n) = 12 /\ n[10] = Letter("B") /\ AllDigits(Slice(n, 0, 9)) /\ AllDigits(Slice(n, 10, 12))
  /\ \E i \in 1..9 : n[i] # 0
  /\ n[11] # 0 \/ n[12] # 0
  /\ nl_bsn(n) \/ Mod97_10(<<Letter("N"), Letter("L")>> \o n)

pl_nip(n) == OfLength(n, {10}) /\ WeightedMod(n, <<6, 5, 7, 2, 3, 4, 5, 6, 7, 10>>, 11) = 0
pt_nif(n) == OfLength(n, {9}) /\ n[1] # 0 /\ Complement11(WeightedSum(n, Descending(9))) = n[9]

RomanianCounties == (1..48) \union {51, 52, 70} \union (80..83)
ro_cnp(n) ==
  LET century == IF n[1] \in {3, 4} THEN 1800 ELSE IF n[1] \in {5, 6} THEN 2000 ELSE 1900
      check == WeightedSum(n, <<2, 7, 9, 1, 4, 6, 3, 5, 8, 2, 7, 9>>) % 11
  IN  /\ n[1] # 0
      /\ IsRealDate(century + 10 * n[2] + n[3], 10 * n[4] + n[5], 10 * n[6] + n[7])
      /\ 10 * n[8] + n[9] \in RomanianCounties
      /\ (IF check = 10 THEN 1 ELSE check) = n[13]

(* The weights are right-aligned against nine positions. *)
ro_cf(n) ==
  \/ OfLength(n, {13}) /\ ro_cnp(n)
  \/ /\ OfLength(n, 4..10) /\ n[1] # 0
     /\ LET weights == Slice(<<7, 5, 3, 2, 1, 7, 5, 3, 2>>, 10 - Len(n), 9)
        IN  ((10 * WeightedSum(n, weights)) % 11) % 10 = n[Len(n)]

se_momsnr(n) == OfLength(n, {12}) /\ n[11] = 0 /\ n[12] = 1 /\ Luhn(Slice(n, 0, 10))

(* Eleven would need two characters and names no number; ten is written as zero. *)
si_ddv(n) ==
  LET check == 11 - (WeightedSum(n, Descending(8)) % 11)
  IN  OfLength(n, {8}) /\ n[1] # 0 /\ check # 11 /\ n[8] = (IF check = 10 THEN 0 ELSE check)

sk_dph(n) ==
  /\ OfLength(n, {10})
  /\ cz_rodne_cislo(n) \/ (n[1] # 0 /\ n[3] \in {2, 3, 4, 7, 8, 9} /\ IntegerMod(n, 11) = 0)

ch_mwst(n) ==
  LET check == (11 - (WeightedSum(n, <<5, 4, 3, 2, 7, 6, 5, 4>>) % 11)) % 11
  IN  OfLength(n, {9}) /\ check < 10 /\ check = n[9]

gb_vat(n) ==
  /\ OfLength(n, {9, 12})
  /\ WeightedSum(n, <<8, 7, 6, 5, 4, 3, 2, 10, 1>>) % 97 \in
       (IF AsInteger(Slice(n, 0, 3)) >= 100 THEN {0, 42, 55} ELSE {0})

(* A government department's serial is below 500, a health authority's is not; the short form    *)
(* is all serial, the branch-registered one adds two check digits.                               *)
gb_department(kind, n) ==
  LET serial == AsInteger(Slice(n, 0, 3)) IN
  /\ OfLength(n, {3, 5}) /\ (kind = "GD" <=> serial < 500)
  /\ Len(n) = 5 => serial % 97 = AsInteger(Slice(n, 3, 5))

me_pib(n) == OfLength(n, {8}) /\ Complement11(WeightedSum(n, Descending(8))) = n[8]
mk_edb(n) == OfLength(n, {13}) /\ Complement11(WeightedSum(n, Descending(7) \o Descending(7))) = n[13]
no_mva(n) == OfLength(n, {9}) /\ WeightedSum(n, <<3, 2, 7, 6, 5, 4, 3, 2, 1>>) % 11 = 0
rs_pib(n) == OfLength(n, {9}) /\ Mod11_10(n)

ru_inn(n) ==
  \/ OfLength(n, {10}) /\ (WeightedSum(n, <<2, 4, 10, 3, 5, 9, 4, 6, 8>>) % 11) % 10 = n[10]
  \/ /\ OfLength(n, {12})
     /\ (WeightedSum(n, <<7, 2, 4, 10, 3, 5, 9, 4, 6, 8>>) % 11) % 10 = n[11]
     /\ (WeightedSum(n, <<3, 7, 2, 4, 10, 3, 5, 9, 4, 6, 8>>) % 11) % 10 = n[12]

(* Each of the first nine digits is shifted by its place from the right and doubled that often. *)
tr_vkn(n) ==
  LET Part(i) == LET place == 10 - i
                     shifted == (n[i] + place) % 10
                     part == (shifted * 2 ^ place) % 9
                 IN  IF shifted # 0 /\ part = 0 THEN 9 ELSE part
  IN  OfLength(n, {10}) /\ (10 - (SumFunction([i \in 1..9 |-> Part(i)]) % 10)) % 10 = n[10]

(* Ten digits of an organisationsnummer, the century marker 16 taken off. *)
LegalForms == {1, 2, 3, 5, 6, 7, 8, 9}
se_organisationsnummer_AnyThirdDigit(n) ==      \* Mutant: the third digit is not looked at.
  OfLength(n, {10}) /\ n[1] \in LegalForms /\ Luhn(n)
se_organisationsnummer(n) == OfLength(n, {10}) /\ n[1] \in LegalForms /\ n[3] >= 2 /\ Luhn(n)

company_lei(n) == Len(n) = 20 /\ AllDigits(Slice(n, 18, 20)) /\ Mod97_10(n)

=============================================================================

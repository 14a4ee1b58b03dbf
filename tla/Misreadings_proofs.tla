-------------------------- MODULE Misreadings_proofs --------------------------
(***************************************************************************)
(* Theorems of Misreadings, for every number a scheme accepts and not only *)
(* for samples: which misreadings and which swaps are caught.  Each scheme *)
(* has a lemma for either error, from its own table, weights or modulus    *)
(* and the sums of CheckDigits_proofs.                                     *)
(***************************************************************************)
EXTENDS Misreadings, CheckDigits_proofs

-----------------------------------------------------------------------------
(* One lemma per scheme and error: the numbers written and read are not    *)
(* both right.  First the schemes that ask one fold of all their digits.   *)

LEMMA FoldSchemesDiffer ==
  ASSUME NEW w, NEW r, NEW i, Differs(w, r, i)
  PROVE  /\ ~ (de_ustid(w) /\ de_ustid(r))
         /\ ~ (hr_oib(w) /\ hr_oib(r))
         /\ ~ (rs_pib(w) /\ rs_pib(r))
         /\ ~ (orcid(w) /\ orcid(r))
         /\ ~ (imei(w) /\ imei(r))
         /\ ~ (payment_card(w) /\ payment_card(r))
         /\ ~ (it_iva(w) /\ it_iva(r))
         /\ ~ (se_organisationsnummer(w) /\ se_organisationsnummer(r))
<1>1. ~ (Mod11_10(w) /\ Mod11_10(r))
  BY Mod11_10Differs
<1>2. ~ (Mod11_2(w) /\ Mod11_2(r))
  BY Mod11_2Differs
<1>3. ~ (Luhn(w) /\ Luhn(r))
  BY LuhnDiffers
<1>4. ~ (de_ustid(w) /\ de_ustid(r)) /\ ~ (hr_oib(w) /\ hr_oib(r)) /\ ~ (rs_pib(w) /\ rs_pib(r))
  BY <1>1 DEF de_ustid, hr_oib, rs_pib
<1>5. ~ (orcid(w) /\ orcid(r))
  BY <1>2 DEF orcid
<1>6. ~ (imei(w) /\ imei(r)) /\ ~ (payment_card(w) /\ payment_card(r))
  BY <1>3 DEF imei, payment_card
<1>7. ~ (it_iva(w) /\ it_iva(r)) /\ ~ (se_organisationsnummer(w) /\ se_organisationsnummer(r))
  BY <1>3 DEF it_iva, se_organisationsnummer
<1> QED BY <1>4, <1>5, <1>6, <1>7

LEMMA LeiDiffers ==
  ASSUME NEW w, NEW r, NEW i, Differs(w, r, i), IsDigit(w[i]) <=> IsDigit(r[i])
  PROVE  ~ (company_lei(w) /\ company_lei(r))
<1>1. ~ (Mod97_10(w) /\ Mod97_10(r))
  BY Mod97Differs
<1> QED BY <1>1 DEF company_lei

LEMMA FoldSchemesExchanged ==
  ASSUME NEW w, NEW r, NEW i, Exchanged(w, r, i)
  PROVE  /\ ~ (orcid(w) /\ orcid(r))
         /\ ~ Near1(w[i], w[i + 1]) => /\ ~ (de_ustid(w) /\ de_ustid(r))
                                       /\ ~ (hr_oib(w) /\ hr_oib(r))
                                       /\ ~ (rs_pib(w) /\ rs_pib(r))
         /\ ~ Near9(w[i], w[i + 1]) => /\ ~ (imei(w) /\ imei(r))
                                       /\ ~ (payment_card(w) /\ payment_card(r))
                                       /\ ~ (it_iva(w) /\ it_iva(r))
                                       /\ ~ (se_organisationsnummer(w) /\ se_organisationsnummer(r))
         /\ ~ Eleven(w[i], w[i + 1]) => ~ (company_lei(w) /\ company_lei(r))
<1>1. ~ Near1(w[i], w[i + 1]) => ~ (Mod11_10(w) /\ Mod11_10(r))
  BY Mod11_10Exchanged DEF Near1
<1>2. ~ (Mod11_2(w) /\ Mod11_2(r))
  BY Mod11_2Exchanged
<1>3. ~ Near9(w[i], w[i + 1]) => ~ (Luhn(w) /\ Luhn(r))
  BY LuhnExchanged DEF Near9
<1>4. ~ Eleven(w[i], w[i + 1]) => ~ (Mod97_10(w) /\ Mod97_10(r))
  BY Mod97Exchanged DEF Eleven
<1>5. ~ Near1(w[i], w[i + 1]) => ~ (de_ustid(w) /\ de_ustid(r)) /\ ~ (hr_oib(w) /\ hr_oib(r)) /\ ~ (rs_pib(w) /\ rs_pib(r))
  BY <1>1 DEF de_ustid, hr_oib, rs_pib
<1>6. ~ (orcid(w) /\ orcid(r))
  BY <1>2 DEF orcid
<1>7. ~ Near9(w[i], w[i + 1]) => ~ (imei(w) /\ imei(r)) /\ ~ (payment_card(w) /\ payment_card(r))
  BY <1>3 DEF imei, payment_card
<1>8. ~ Near9(w[i], w[i + 1]) => ~ (it_iva(w) /\ it_iva(r)) /\ ~ (se_organisationsnummer(w) /\ se_organisationsnummer(r))
  BY <1>3 DEF it_iva, se_organisationsnummer
<1>9. ~ Eleven(w[i], w[i + 1]) => ~ (company_lei(w) /\ company_lei(r))
  BY <1>4 DEF company_lei
<1> QED BY <1>5, <1>6, <1>7, <1>8, <1>9

-----------------------------------------------------------------------------
(* Luhn over a part of the number. *)

LEMMA LastTenDiffers ==
  ASSUME NEW w, NEW r, NEW i, Differs(w, r, i), se_personnummer(w), se_personnummer(r)
  PROVE  Len(w) = 12 /\ i \in {1, 2}
<1>1. /\ Len(w) \in {10, 12} /\ Luhn(LastTen(w)) /\ Luhn(LastTen(r)) /\ Len(r) = Len(w) /\ i \in 1..Len(w)
  BY DEF se_personnummer, Differs
<1>2. CASE Len(w) = 10
  <2>1. Luhn(Slice(w, 0, 10)) /\ Luhn(Slice(r, 0, 10)) /\ 0 \in Nat /\ 10 \in Nat /\ 0 < i /\ i <= 10 /\ 10 <= Len(w)
    BY <1>1, <1>2 DEF LastTen
  <2> QED BY <2>1, LuhnOfSliceDiffers
<1>3. CASE Len(w) = 12
  <2>1. Luhn(Slice(w, 2, 12)) /\ Luhn(Slice(r, 2, 12)) /\ 2 \in Nat /\ 12 \in Nat /\ i <= 12 /\ 12 <= Len(w)
    BY <1>1, <1>3 DEF LastTen
  <2>2. ~ (2 < i)
    BY <2>1, LuhnOfSliceDiffers
  <2> QED BY <1>1, <1>3, <2>2
<1> QED BY <1>1, <1>2, <1>3

LEMMA LastTenExchanged ==
  ASSUME NEW w, NEW r, NEW i, Exchanged(w, r, i), se_personnummer(w), se_personnummer(r)
  PROVE  Near9(w[i], w[i + 1]) \/ (Len(w) = 12 /\ i \in {1, 2})
<1>1. /\ Len(w) \in {10, 12} /\ Luhn(LastTen(w)) /\ Luhn(LastTen(r)) /\ Len(r) = Len(w) /\ i \in 1..(Len(w) - 1)
  BY DEF se_personnummer, Exchanged
<1>2. CASE Len(w) = 10
  <2>1. Luhn(Slice(w, 0, 10)) /\ Luhn(Slice(r, 0, 10)) /\ 0 \in Nat /\ 10 \in Nat /\ 0 < i /\ i < 10 /\ 10 <= Len(w)
    BY <1>1, <1>2 DEF LastTen
  <2> QED BY <2>1, LuhnOfSliceExchanged
<1>3. CASE Len(w) = 12
  <2>1. Luhn(Slice(w, 2, 12)) /\ Luhn(Slice(r, 2, 12)) /\ 2 \in Nat /\ 12 \in Nat /\ i < 12 /\ 12 <= Len(w)
    BY <1>1, <1>3 DEF LastTen
  <2>2. ~ Near9(w[i], w[i + 1]) => ~ (2 < i)
    BY <2>1, LuhnOfSliceExchanged
  <2>3. i \in 1..11
    BY <1>1, <1>3
  <2> QED BY <1>3, <2>2, <2>3
<1> QED BY <1>1, <1>2, <1>3

LEMMA FirstTenDiffers ==
  ASSUME NEW w, NEW r, NEW i, Differs(w, r, i), se_momsnr(w), se_momsnr(r)
  PROVE  FALSE
<1>1. /\ Len(w) = 12 /\ i \in 1..12 /\ w[i] # r[i] /\ w[11] = 0 /\ r[11] = 0 /\ w[12] = 1 /\ r[12] = 1
      /\ Luhn(Slice(w, 0, 10)) /\ Luhn(Slice(r, 0, 10))
  BY DEF se_momsnr, OfLength, Differs
<1>2. i # 11 /\ i # 12
  BY <1>1
<1>3. 0 \in Nat /\ 10 \in Nat /\ 0 <= 10 /\ 10 <= Len(w) /\ 0 < i /\ i <= 10
  BY <1>1, <1>2
<1>4. Differs(Slice(w, 0, 10), Slice(r, 0, 10), i - 0)
  BY <1>3, SliceOfDiffers
<1> QED BY <1>1, <1>4, LuhnDiffers

LEMMA FirstTenExchanged ==
  ASSUME NEW w, NEW r, NEW i, Exchanged(w, r, i), se_momsnr(w), se_momsnr(r)
  PROVE  Near9(w[i], w[i + 1])
<1>0. SUFFICES ASSUME ~ Near9(w[i], w[i + 1]) PROVE FALSE
  OBVIOUS
<1>1. /\ Len(w) = 12 /\ w[11] = 0 /\ r[11] = 0 /\ w[12] = 1 /\ r[12] = 1
      /\ Luhn(Slice(w, 0, 10)) /\ Luhn(Slice(r, 0, 10))
  BY DEF se_momsnr, OfLength
<1>2. i \in 1..11 /\ w[i] # w[i + 1] /\ r[i] = w[i + 1] /\ r[i + 1] = w[i] /\ w \in Seq(Characters)
      /\ \A x \in 1..12 : x # i /\ x # i + 1 => r[x] = w[x]
  BY <1>1 DEF Exchanged
<1>3. i # 11 /\ i # 10
  BY <1>1, <1>2
<1>4. 0 \in Nat /\ 10 \in Nat /\ 10 <= Len(w) /\ 0 < i /\ i < 10
  BY <1>1, <1>2, <1>3
<1> QED BY <1>0, <1>1, <1>4, LuhnOfSliceExchanged

(* The sum of the first seven fixes the eighth. *)
LEMMA AustrianSum ==
  ASSUME NEW n, at_uid(n), n \in Seq(Characters)
  PROVE  /\ Len(n) = 8 /\ AllDigits(n) /\ AllDigits(Slice(n, 0, 7)) /\ Slice(n, 0, 7) \in Seq(Characters)
         /\ (16 - LuhnSum(Slice(n, 0, 7))) % 10 = n[8]
<1>1. Len(n) = 8 /\ AllDigits(n) /\ (16 - LuhnSum(Slice(n, 0, 7))) % 10 = n[8]
  BY DEF at_uid, OfLength
<1>2. 0 \in Nat /\ 7 \in Nat /\ 0 <= 7 /\ 7 <= Len(n)
  BY <1>1
<1>3. Slice(n, 0, 7) \in Seq(Characters) /\ Len(Slice(n, 0, 7)) = 7 - 0 /\ \A x \in 1..(7 - 0) : Slice(n, 0, 7)[x] = n[0 + x]
  BY <1>2, SliceIs
<1>4. \A x \in 1..7 : IsDigit(n[0 + x])
  BY <1>1 DEF AllDigits
<1>5. AllDigits(Slice(n, 0, 7))
  <2>1. \A x \in 1..7 : IsDigit(Slice(n, 0, 7)[x])
    BY <1>3, <1>4
  <2> QED BY <1>3, <2>1, SMT DEF AllDigits
<1> QED BY <1>1, <1>3, <1>5

LEMMA AustriaDiffers ==
  ASSUME NEW w, NEW r, NEW i, Differs(w, r, i), at_uid(w), at_uid(r)
  PROVE  FALSE
<1>1. /\ w \in Seq(Characters) /\ r \in Seq(Characters) /\ i \in 1..Len(w) /\ w[i] # r[i]
      /\ \A x \in 1..Len(w) : x # i => r[x] = w[x]
  BY DEF Differs
<1>2. /\ Len(w) = 8 /\ AllDigits(Slice(w, 0, 7)) /\ AllDigits(Slice(r, 0, 7))
      /\ (16 - LuhnSum(Slice(w, 0, 7))) % 10 = w[8] /\ (16 - LuhnSum(Slice(r, 0, 7))) % 10 = r[8]
  BY <1>1, AustrianSum
<1>3. 0 \in Nat /\ 7 \in Nat /\ 0 <= 7 /\ 7 <= Len(w) /\ 0 < i /\ i \in 1..8
  BY <1>1, <1>2
<1>4. CASE i = 8
  <2>1. Slice(r, 0, 7) = Slice(w, 0, 7)
    BY <1>3, <1>4, SliceOfDiffers
  <2> QED BY <1>1, <1>2, <1>4, <2>1
<1>5. CASE i # 8
  <2>1. i <= 7 /\ w[8] = r[8]
    BY <1>1, <1>2, <1>3, <1>5
  <2>2. Differs(Slice(w, 0, 7), Slice(r, 0, 7), i - 0)
    BY <1>3, <2>1, SliceOfDiffers
  <2>3. LuhnSum(Slice(w, 0, 7)) # LuhnSum(Slice(r, 0, 7)) /\ LuhnSum(Slice(w, 0, 7)) \in 0..9 /\ LuhnSum(Slice(r, 0, 7)) \in 0..9
    BY <1>2, <2>2, LuhnSumDiffers
  <2> QED BY <1>2, <2>1, <2>3
<1> QED BY <1>4, <1>5

LEMMA AustriaExchanged ==
  ASSUME NEW w, NEW r, NEW i, Exchanged(w, r, i), at_uid(w), at_uid(r)
  PROVE  Near9(w[i], w[i + 1]) \/ i = 7
<1>0. SUFFICES ASSUME ~ Near9(w[i], w[i + 1]), i # 7 PROVE FALSE
  OBVIOUS
<1>1. /\ w \in Seq(Characters) /\ r \in Seq(Characters) /\ i \in 1..(Len(w) - 1)
      /\ \A x \in 1..Len(w) : x # i /\ x # i + 1 => r[x] = w[x]
  BY DEF Exchanged
<1>2. /\ Len(w) = 8 /\ AllDigits(Slice(w, 0, 7)) /\ AllDigits(Slice(r, 0, 7)) /\ Slice(w, 0, 7) \in Seq(Characters)
      /\ (16 - LuhnSum(Slice(w, 0, 7))) % 10 = w[8] /\ (16 - LuhnSum(Slice(r, 0, 7))) % 10 = r[8]
  BY <1>1, AustrianSum
<1>3. 0 \in Nat /\ 7 \in Nat /\ 0 <= 7 /\ 7 <= Len(w) /\ 0 < i /\ i < 7 /\ w[8] = r[8]
  BY <1>0, <1>1, <1>2
<1>4. Exchanged(Slice(w, 0, 7), Slice(r, 0, 7), i - 0)
  BY <1>3, SliceOfExchanged
<1>5. \A x \in 1..(7 - 0) : Slice(w, 0, 7)[x] = w[0 + x]
  BY <1>1, <1>3, SliceIs
<1>6. Slice(w, 0, 7)[i - 0] = w[i] /\ Slice(w, 0, 7)[(i - 0) + 1] = w[i + 1]
  BY <1>1, <1>3, <1>5, SMT
<1>7. Slice(w, 0, 7)[i - 0] - Slice(w, 0, 7)[(i - 0) + 1] \notin {9, -9}
  BY <1>0, <1>6 DEF Near9
<1>8. LuhnSum(Slice(w, 0, 7)) # LuhnSum(Slice(r, 0, 7)) /\ LuhnSum(Slice(w, 0, 7)) \in 0..9 /\ LuhnSum(Slice(r, 0, 7)) \in 0..9
  BY <1>2, <1>4, <1>7, LuhnSumExchanged
<1> QED BY <1>2, <1>3, <1>8, SMT

-----------------------------------------------------------------------------
(* Weighted sums.  A weight, or the difference of two neighbouring ones,   *)
(* that is prime to the modulus lets the sum see the error.                *)

DanishWeights == <<2, 7, 6, 5, 4, 3, 2, 1>>

LEMMA DanishWeightsAre ==
  /\ IsWeights(DanishWeights)
  /\ \A x \in 1..8 : WeightAt(DanishWeights, x) \in Mild
  /\ \A x \in 1..7 : WeightAt(DanishWeights, x) - WeightAt(DanishWeights, x + 1) \in Mild
<1>1. IsWeights(DanishWeights) /\ Len(DanishWeights) = 8
  BY DEF DanishWeights, IsWeights
<1>2. /\ WeightAt(DanishWeights, 1) = 2 /\ WeightAt(DanishWeights, 2) = 7 /\ WeightAt(DanishWeights, 3) = 6
      /\ WeightAt(DanishWeights, 4) = 5 /\ WeightAt(DanishWeights, 5) = 4 /\ WeightAt(DanishWeights, 6) = 3
      /\ WeightAt(DanishWeights, 7) = 2 /\ WeightAt(DanishWeights, 8) = 1
  BY <1>1 DEF DanishWeights, WeightAt
<1>3. \A x \in 1..8 : x = 1 \/ x = 2 \/ x = 3 \/ x = 4 \/ x = 5 \/ x = 6 \/ x = 7 \/ x = 8
  OBVIOUS
<1>4. \A x \in 1..8 : WeightAt(DanishWeights, x) \in Mild
  BY <1>2, <1>3 DEF Mild
<1>5. \A x \in 1..7 : WeightAt(DanishWeights, x) - WeightAt(DanishWeights, x + 1) \in Mild
  <2> TAKE x \in 1..7
  <2>1. x = 1 \/ x = 2 \/ x = 3 \/ x = 4 \/ x = 5 \/ x = 6 \/ x = 7
    OBVIOUS
  <2> QED BY <1>2, <2>1 DEF Mild
<1> QED BY <1>1, <1>4, <1>5

FinnishWeights == <<7, 9, 10, 5, 8, 4, 2, 1>>

LEMMA FinnishWeightsAre ==
  /\ IsWeights(FinnishWeights)
  /\ \A x \in 1..8 : WeightAt(FinnishWeights, x) \in Mild
  /\ \A x \in 1..7 : WeightAt(FinnishWeights, x) - WeightAt(FinnishWeights, x + 1) \in Mild
<1>1. IsWeights(FinnishWeights) /\ Len(FinnishWeights) = 8
  BY DEF FinnishWeights, IsWeights
<1>2. /\ WeightAt(FinnishWeights, 1) = 7 /\ WeightAt(FinnishWeights, 2) = 9 /\ WeightAt(FinnishWeights, 3) = 10
      /\ WeightAt(FinnishWeights, 4) = 5 /\ WeightAt(FinnishWeights, 5) = 8 /\ WeightAt(FinnishWeights, 6) = 4
      /\ WeightAt(FinnishWeights, 7) = 2 /\ WeightAt(FinnishWeights, 8) = 1
  BY <1>1 DEF FinnishWeights, WeightAt
<1>3. \A x \in 1..8 : x = 1 \/ x = 2 \/ x = 3 \/ x = 4 \/ x = 5 \/ x = 6 \/ x = 7 \/ x = 8
  OBVIOUS
<1>4. \A x \in 1..8 : WeightAt(FinnishWeights, x) \in Mild
  BY <1>2, <1>3 DEF Mild
<1>5. \A x \in 1..7 : WeightAt(FinnishWeights, x) - WeightAt(FinnishWeights, x + 1) \in Mild
  <2> TAKE x \in 1..7
  <2>1. x = 1 \/ x = 2 \/ x = 3 \/ x = 4 \/ x = 5 \/ x = 6 \/ x = 7
    OBVIOUS
  <2> QED BY <1>2, <2>1 DEF Mild
<1> QED BY <1>1, <1>4, <1>5

PolishWeights == <<6, 5, 7, 2, 3, 4, 5, 6, 7, 10>>

LEMMA PolishWeightsAre ==
  /\ IsWeights(PolishWeights)
  /\ \A x \in 1..10 : WeightAt(PolishWeights, x) \in Mild
  /\ \A x \in 1..9 : WeightAt(PolishWeights, x) - WeightAt(PolishWeights, x + 1) \in Mild
<1>1. IsWeights(PolishWeights) /\ Len(PolishWeights) = 10
  BY DEF PolishWeights, IsWeights
<1>2. /\ WeightAt(PolishWeights, 1) = 6 /\ WeightAt(PolishWeights, 2) = 5 /\ WeightAt(PolishWeights, 3) = 7
      /\ WeightAt(PolishWeights, 4) = 2 /\ WeightAt(PolishWeights, 5) = 3 /\ WeightAt(PolishWeights, 6) = 4
      /\ WeightAt(PolishWeights, 7) = 5 /\ WeightAt(PolishWeights, 8) = 6 /\ WeightAt(PolishWeights, 9) = 7
      /\ WeightAt(PolishWeights, 10) = 10
  BY <1>1 DEF PolishWeights, WeightAt
<1>3. \A x \in 1..10 : x = 1 \/ x = 2 \/ x = 3 \/ x = 4 \/ x = 5 \/ x = 6 \/ x = 7 \/ x = 8 \/ x = 9 \/ x = 10
  OBVIOUS
<1>4. \A x \in 1..10 : WeightAt(PolishWeights, x) \in Mild
  BY <1>2, <1>3 DEF Mild
<1>5. \A x \in 1..9 : WeightAt(PolishWeights, x) - WeightAt(PolishWeights, x + 1) \in Mild
  <2> TAKE x \in 1..9
  <2>1. x = 1 \/ x = 2 \/ x = 3 \/ x = 4 \/ x = 5 \/ x = 6 \/ x = 7 \/ x = 8 \/ x = 9
    OBVIOUS
  <2> QED BY <1>2, <2>1 DEF Mild
<1> QED BY <1>1, <1>4, <1>5

MalteseWeights == <<3, 4, 6, 7, 8, 9, 10, 1>>

LEMMA MalteseWeightsAre ==
  /\ IsWeights(MalteseWeights)
  /\ \A x \in 1..8 : WeightAt(MalteseWeights, x) \in Mild
  /\ \A x \in 1..7 : WeightAt(MalteseWeights, x) - WeightAt(MalteseWeights, x + 1) \in Mild
<1>1. IsWeights(MalteseWeights) /\ Len(MalteseWeights) = 8
  BY DEF MalteseWeights, IsWeights
<1>2. /\ WeightAt(MalteseWeights, 1) = 3 /\ WeightAt(MalteseWeights, 2) = 4 /\ WeightAt(MalteseWeights, 3) = 6
      /\ WeightAt(MalteseWeights, 4) = 7 /\ WeightAt(MalteseWeights, 5) = 8 /\ WeightAt(MalteseWeights, 6) = 9
      /\ WeightAt(MalteseWeights, 7) = 10 /\ WeightAt(MalteseWeights, 8) = 1
  BY <1>1 DEF MalteseWeights, WeightAt
<1>3. \A x \in 1..8 : x = 1 \/ x = 2 \/ x = 3 \/ x = 4 \/ x = 5 \/ x = 6 \/ x = 7 \/ x = 8
  OBVIOUS
<1>4. \A x \in 1..8 : WeightAt(MalteseWeights, x) \in Mild
  BY <1>2, <1>3 DEF Mild
<1>5. \A x \in 1..7 : WeightAt(MalteseWeights, x) - WeightAt(MalteseWeights, x + 1) \in Mild
  <2> TAKE x \in 1..7
  <2>1. x = 1 \/ x = 2 \/ x = 3 \/ x = 4 \/ x = 5 \/ x = 6 \/ x = 7
    OBVIOUS
  <2> QED BY <1>2, <2>1 DEF Mild
<1> QED BY <1>1, <1>4, <1>5

CycleOfThree == <<3, 7, 1>>

LEMMA CycleOfThreeAre ==
  /\ IsWeights(CycleOfThree)
  /\ \A x \in 1..9 : WeightAt(CycleOfThree, x) \in Odd
  /\ \A x \in 1..8 : WeightAt(CycleOfThree, x) - WeightAt(CycleOfThree, x + 1) \in Even
<1>1. IsWeights(CycleOfThree) /\ Len(CycleOfThree) = 3
  BY DEF CycleOfThree, IsWeights
<1>2. /\ WeightAt(CycleOfThree, 1) = 3 /\ WeightAt(CycleOfThree, 2) = 7 /\ WeightAt(CycleOfThree, 3) = 1
      /\ WeightAt(CycleOfThree, 4) = 3 /\ WeightAt(CycleOfThree, 5) = 7 /\ WeightAt(CycleOfThree, 6) = 1
      /\ WeightAt(CycleOfThree, 7) = 3 /\ WeightAt(CycleOfThree, 8) = 7 /\ WeightAt(CycleOfThree, 9) = 1
  BY <1>1 DEF CycleOfThree, WeightAt
<1>3. \A x \in 1..9 : x = 1 \/ x = 2 \/ x = 3 \/ x = 4 \/ x = 5 \/ x = 6 \/ x = 7 \/ x = 8 \/ x = 9
  OBVIOUS
<1>4. \A x \in 1..9 : WeightAt(CycleOfThree, x) \in Odd
  BY <1>2, <1>3 DEF Odd
<1>5. \A x \in 1..8 : WeightAt(CycleOfThree, x) - WeightAt(CycleOfThree, x + 1) \in Even
  <2> TAKE x \in 1..8
  <2>1. x = 1 \/ x = 2 \/ x = 3 \/ x = 4 \/ x = 5 \/ x = 6 \/ x = 7 \/ x = 8
    OBVIOUS
  <2> QED BY <1>2, <2>1 DEF Even
<1> QED BY <1>1, <1>4, <1>5

CycleOfFour == <<9, 7, 3, 1>>

LEMMA CycleOfFourAre ==
  /\ IsWeights(CycleOfFour)
  /\ \A x \in 1..8 : WeightAt(CycleOfFour, x) \in Odd
  /\ \A x \in 1..7 : WeightAt(CycleOfFour, x) - WeightAt(CycleOfFour, x + 1) \in Even
<1>1. IsWeights(CycleOfFour) /\ Len(CycleOfFour) = 4
  BY DEF CycleOfFour, IsWeights
<1>2. /\ WeightAt(CycleOfFour, 1) = 9 /\ WeightAt(CycleOfFour, 2) = 7 /\ WeightAt(CycleOfFour, 3) = 3
      /\ WeightAt(CycleOfFour, 4) = 1 /\ WeightAt(CycleOfFour, 5) = 9 /\ WeightAt(CycleOfFour, 6) = 7
      /\ WeightAt(CycleOfFour, 7) = 3 /\ WeightAt(CycleOfFour, 8) = 1
  BY <1>1 DEF CycleOfFour, WeightAt
<1>3. \A x \in 1..8 : x = 1 \/ x = 2 \/ x = 3 \/ x = 4 \/ x = 5 \/ x = 6 \/ x = 7 \/ x = 8
  OBVIOUS
<1>4. \A x \in 1..8 : WeightAt(CycleOfFour, x) \in Odd
  BY <1>2, <1>3 DEF Odd
<1>5. \A x \in 1..7 : WeightAt(CycleOfFour, x) - WeightAt(CycleOfFour, x + 1) \in Even
  <2> TAKE x \in 1..7
  <2>1. x = 1 \/ x = 2 \/ x = 3 \/ x = 4 \/ x = 5 \/ x = 6 \/ x = 7
    OBVIOUS
  <2> QED BY <1>2, <2>1 DEF Even
<1> QED BY <1>1, <1>4, <1>5

LEMMA DigitsOf ==
  ASSUME NEW d, NEW lengths, OfLength(d, lengths)
  PROVE  Len(d) \in lengths /\ AllDigits(d) /\ \A x \in DOMAIN d : d[x] \in 0..9
BY DEF OfLength, AllDigits, IsDigit

LEMMA dk_cvr_Differs ==
  ASSUME NEW w, NEW r, NEW i, Differs(w, r, i)
  PROVE  ~ (dk_cvr(w) /\ dk_cvr(r))
<1>0. SUFFICES ASSUME dk_cvr(w), dk_cvr(r) PROVE FALSE
  OBVIOUS
<1>1. /\ WeightedMod(w, DanishWeights, 11) = 0 /\ WeightedMod(r, DanishWeights, 11) = 0 /\ Len(w) = 8 /\ Len(r) = 8
      /\ \A x \in DOMAIN w : w[x] \in 0..9
      /\ \A x \in DOMAIN r : r[x] \in 0..9
  BY <1>0 DEF dk_cvr, DanishWeights, OfLength, AllDigits, IsDigit
<1>2. i \in 1..8 /\ w[i] \in 0..9 /\ r[i] \in 0..9
  BY <1>1 DEF Differs
<1> QED BY <1>1, <1>2, DanishWeightsAre, PrimeDiffers DEF Primes

LEMMA dk_cvr_Exchanged ==
  ASSUME NEW w, NEW r, NEW i, Exchanged(w, r, i), dk_cvr(w), dk_cvr(r)
  PROVE  FALSE
<1>1. /\ WeightedMod(w, DanishWeights, 11) = 0 /\ WeightedMod(r, DanishWeights, 11) = 0 /\ Len(w) = 8
      /\ \A x \in DOMAIN w : w[x] \in 0..9
  BY DEF dk_cvr, DanishWeights, OfLength, AllDigits, IsDigit
<1>2. i \in 1..7 /\ w[i] \in 0..9 /\ w[i + 1] \in 0..9
  BY <1>1 DEF Exchanged
<1> QED BY <1>1, <1>2, DanishWeightsAre, PrimeExchanged DEF Primes

LEMMA fi_alv_Differs ==
  ASSUME NEW w, NEW r, NEW i, Differs(w, r, i)
  PROVE  ~ (fi_alv(w) /\ fi_alv(r))
<1>0. SUFFICES ASSUME fi_alv(w), fi_alv(r) PROVE FALSE
  OBVIOUS
<1>1. /\ WeightedMod(w, FinnishWeights, 11) = 0 /\ WeightedMod(r, FinnishWeights, 11) = 0 /\ Len(w) = 8 /\ Len(r) = 8
      /\ \A x \in DOMAIN w : w[x] \in 0..9
      /\ \A x \in DOMAIN r : r[x] \in 0..9
  BY <1>0 DEF fi_alv, FinnishWeights, OfLength, AllDigits, IsDigit
<1>2. i \in 1..8 /\ w[i] \in 0..9 /\ r[i] \in 0..9
  BY <1>1 DEF Differs
<1> QED BY <1>1, <1>2, FinnishWeightsAre, PrimeDiffers DEF Primes

LEMMA fi_alv_Exchanged ==
  ASSUME NEW w, NEW r, NEW i, Exchanged(w, r, i), fi_alv(w), fi_alv(r)
  PROVE  FALSE
<1>1. /\ WeightedMod(w, FinnishWeights, 11) = 0 /\ WeightedMod(r, FinnishWeights, 11) = 0 /\ Len(w) = 8
      /\ \A x \in DOMAIN w : w[x] \in 0..9
  BY DEF fi_alv, FinnishWeights, OfLength, AllDigits, IsDigit
<1>2. i \in 1..7 /\ w[i] \in 0..9 /\ w[i + 1] \in 0..9
  BY <1>1 DEF Exchanged
<1> QED BY <1>1, <1>2, FinnishWeightsAre, PrimeExchanged DEF Primes

LEMMA pl_nip_Differs ==
  ASSUME NEW w, NEW r, NEW i, Differs(w, r, i)
  PROVE  ~ (pl_nip(w) /\ pl_nip(r))
<1>0. SUFFICES ASSUME pl_nip(w), pl_nip(r) PROVE FALSE
  OBVIOUS
<1>1. /\ WeightedMod(w, PolishWeights, 11) = 0 /\ WeightedMod(r, PolishWeights, 11) = 0 /\ Len(w) = 10 /\ Len(r) = 10
      /\ \A x \in DOMAIN w : w[x] \in 0..9
      /\ \A x \in DOMAIN r : r[x] \in 0..9
  BY <1>0 DEF pl_nip, PolishWeights, OfLength, AllDigits, IsDigit
<1>2. i \in 1..10 /\ w[i] \in 0..9 /\ r[i] \in 0..9
  BY <1>1 DEF Differs
<1> QED BY <1>1, <1>2, PolishWeightsAre, PrimeDiffers DEF Primes

LEMMA pl_nip_Exchanged ==
  ASSUME NEW w, NEW r, NEW i, Exchanged(w, r, i), pl_nip(w), pl_nip(r)
  PROVE  FALSE
<1>1. /\ WeightedMod(w, PolishWeights, 11) = 0 /\ WeightedMod(r, PolishWeights, 11) = 0 /\ Len(w) = 10
      /\ \A x \in DOMAIN w : w[x] \in 0..9
  BY DEF pl_nip, PolishWeights, OfLength, AllDigits, IsDigit
<1>2. i \in 1..9 /\ w[i] \in 0..9 /\ w[i + 1] \in 0..9
  BY <1>1, SMT DEF Exchanged
<1> QED BY <1>1, <1>2, PolishWeightsAre, PrimeExchanged DEF Primes

LEMMA mt_vat_Differs ==
  ASSUME NEW w, NEW r, NEW i, Differs(w, r, i)
  PROVE  ~ (mt_vat(w) /\ mt_vat(r))
<1>0. SUFFICES ASSUME mt_vat(w), mt_vat(r) PROVE FALSE
  OBVIOUS
<1>1. /\ WeightedMod(w, MalteseWeights, 37) = 0 /\ WeightedMod(r, MalteseWeights, 37) = 0 /\ Len(w) = 8 /\ Len(r) = 8
      /\ \A x \in DOMAIN w : w[x] \in 0..9
      /\ \A x \in DOMAIN r : r[x] \in 0..9
  BY <1>0 DEF mt_vat, MalteseWeights, OfLength, AllDigits, IsDigit
<1>2. i \in 1..8 /\ w[i] \in 0..9 /\ r[i] \in 0..9
  BY <1>1 DEF Differs
<1> QED BY <1>1, <1>2, MalteseWeightsAre, PrimeDiffers DEF Primes

LEMMA mt_vat_Exchanged ==
  ASSUME NEW w, NEW r, NEW i, Exchanged(w, r, i), mt_vat(w), mt_vat(r)
  PROVE  FALSE
<1>1. /\ WeightedMod(w, MalteseWeights, 37) = 0 /\ WeightedMod(r, MalteseWeights, 37) = 0 /\ Len(w) = 8
      /\ \A x \in DOMAIN w : w[x] \in 0..9
  BY DEF mt_vat, MalteseWeights, OfLength, AllDigits, IsDigit
<1>2. i \in 1..7 /\ w[i] \in 0..9 /\ w[i + 1] \in 0..9
  BY <1>1 DEF Exchanged
<1> QED BY <1>1, <1>2, MalteseWeightsAre, PrimeExchanged DEF Primes

LEMMA ee_kmkr_Differs ==
  ASSUME NEW w, NEW r, NEW i, Differs(w, r, i)
  PROVE  ~ (ee_kmkr(w) /\ ee_kmkr(r))
<1>0. SUFFICES ASSUME ee_kmkr(w), ee_kmkr(r) PROVE FALSE
  OBVIOUS
<1>1. /\ WeightedMod(w, CycleOfThree, 10) = 0 /\ WeightedMod(r, CycleOfThree, 10) = 0 /\ Len(w) = 9 /\ Len(r) = 9
      /\ \A x \in DOMAIN w : w[x] \in 0..9
      /\ \A x \in DOMAIN r : r[x] \in 0..9
  BY <1>0 DEF ee_kmkr, CycleOfThree, OfLength, AllDigits, IsDigit
<1>2. i \in 1..9 /\ w[i] \in 0..9 /\ r[i] \in 0..9
  BY <1>1 DEF Differs
<1> QED BY <1>1, <1>2, CycleOfThreeAre, TenDiffers

LEMMA ee_kmkr_Exchanged ==
  ASSUME NEW w, NEW r, NEW i, Exchanged(w, r, i), ee_kmkr(w), ee_kmkr(r)
  PROVE  Fives(w[i], w[i + 1])
<1>1. /\ WeightedMod(w, CycleOfThree, 10) = 0 /\ WeightedMod(r, CycleOfThree, 10) = 0 /\ Len(w) = 9
      /\ \A x \in DOMAIN w : w[x] \in 0..9
  BY DEF ee_kmkr, CycleOfThree, OfLength, AllDigits, IsDigit
<1>2. i \in 1..8 /\ w[i] \in 0..9 /\ w[i + 1] \in 0..9
  BY <1>1 DEF Exchanged
<1> QED BY <1>1, <1>2, CycleOfThreeAre, TenExchanged

LEMMA hu_anum_Differs ==
  ASSUME NEW w, NEW r, NEW i, Differs(w, r, i)
  PROVE  ~ (hu_anum(w) /\ hu_anum(r))
<1>0. SUFFICES ASSUME hu_anum(w), hu_anum(r) PROVE FALSE
  OBVIOUS
<1>1. /\ WeightedMod(w, CycleOfFour, 10) = 0 /\ WeightedMod(r, CycleOfFour, 10) = 0 /\ Len(w) = 8 /\ Len(r) = 8
      /\ \A x \in DOMAIN w : w[x] \in 0..9
      /\ \A x \in DOMAIN r : r[x] \in 0..9
  BY <1>0 DEF hu_anum, CycleOfFour, OfLength, AllDigits, IsDigit
<1>2. i \in 1..8 /\ w[i] \in 0..9 /\ r[i] \in 0..9
  BY <1>1 DEF Differs
<1> QED BY <1>1, <1>2, CycleOfFourAre, TenDiffers

LEMMA hu_anum_Exchanged ==
  ASSUME NEW w, NEW r, NEW i, Exchanged(w, r, i), hu_anum(w), hu_anum(r)
  PROVE  Fives(w[i], w[i + 1])
<1>1. /\ WeightedMod(w, CycleOfFour, 10) = 0 /\ WeightedMod(r, CycleOfFour, 10) = 0 /\ Len(w) = 8
      /\ \A x \in DOMAIN w : w[x] \in 0..9
  BY DEF hu_anum, CycleOfFour, OfLength, AllDigits, IsDigit
<1>2. i \in 1..7 /\ w[i] \in 0..9 /\ w[i + 1] \in 0..9
  BY <1>1 DEF Exchanged
<1> QED BY <1>1, <1>2, CycleOfFourAre, TenExchanged

LEMMA aba_routing_Differs ==
  ASSUME NEW w, NEW r, NEW i, Differs(w, r, i)
  PROVE  ~ (aba_routing(w) /\ aba_routing(r))
<1>0. SUFFICES ASSUME aba_routing(w), aba_routing(r) PROVE FALSE
  OBVIOUS
<1>1. /\ WeightedMod(w, CycleOfThree, 10) = 0 /\ WeightedMod(r, CycleOfThree, 10) = 0 /\ Len(w) = 9 /\ Len(r) = 9
      /\ \A x \in DOMAIN w : w[x] \in 0..9
      /\ \A x \in DOMAIN r : r[x] \in 0..9
  BY <1>0 DEF aba_routing, CycleOfThree, AllDigits, IsDigit
<1>2. i \in 1..9 /\ w[i] \in 0..9 /\ r[i] \in 0..9
  BY <1>1 DEF Differs
<1> QED BY <1>1, <1>2, CycleOfThreeAre, TenDiffers

LEMMA aba_routing_Exchanged ==
  ASSUME NEW w, NEW r, NEW i, Exchanged(w, r, i), aba_routing(w), aba_routing(r)
  PROVE  Fives(w[i], w[i + 1])
<1>1. /\ WeightedMod(w, CycleOfThree, 10) = 0 /\ WeightedMod(r, CycleOfThree, 10) = 0 /\ Len(w) = 9
      /\ \A x \in DOMAIN w : w[x] \in 0..9
  BY DEF aba_routing, CycleOfThree, AllDigits, IsDigit
<1>2. i \in 1..8 /\ w[i] \in 0..9 /\ w[i + 1] \in 0..9
  BY <1>1 DEF Exchanged
<1> QED BY <1>1, <1>2, CycleOfThreeAre, TenExchanged

-----------------------------------------------------------------------------
(* A check digit beside the sum of the others. *)

PeselWeights == <<1, 3, 7, 9>>
SedolWeights == <<1, 3, 1, 7, 3, 9>>

LEMMA PeselWeightsAre ==
  /\ IsWeights(PeselWeights)
  /\ \A x \in 1..10 : WeightAt(PeselWeights, x) \in Odd
  /\ \A x \in 1..9 : WeightAt(PeselWeights, x) - WeightAt(PeselWeights, x + 1) \in Even
  /\ WeightAt(PeselWeights, 10) - 1 \in Even
<1>1. IsWeights(PeselWeights) /\ Len(PeselWeights) = 4
  BY DEF PeselWeights, IsWeights
<1>2. /\ WeightAt(PeselWeights, 1) = 1 /\ WeightAt(PeselWeights, 2) = 3 /\ WeightAt(PeselWeights, 3) = 7
      /\ WeightAt(PeselWeights, 4) = 9 /\ WeightAt(PeselWeights, 5) = 1 /\ WeightAt(PeselWeights, 6) = 3
      /\ WeightAt(PeselWeights, 7) = 7 /\ WeightAt(PeselWeights, 8) = 9 /\ WeightAt(PeselWeights, 9) = 1
      /\ WeightAt(PeselWeights, 10) = 3
  BY <1>1 DEF PeselWeights, WeightAt
<1>3. \A x \in 1..10 : x = 1 \/ x = 2 \/ x = 3 \/ x = 4 \/ x = 5 \/ x = 6 \/ x = 7 \/ x = 8 \/ x = 9 \/ x = 10
  OBVIOUS
<1>4. \A x \in 1..10 : WeightAt(PeselWeights, x) \in Odd
  BY <1>2, <1>3 DEF Odd
<1>5. \A x \in 1..9 : WeightAt(PeselWeights, x) - WeightAt(PeselWeights, x + 1) \in Even
  <2> TAKE x \in 1..9
  <2>1. x = 1 \/ x = 2 \/ x = 3 \/ x = 4 \/ x = 5 \/ x = 6 \/ x = 7 \/ x = 8 \/ x = 9
    OBVIOUS
  <2> QED BY <1>2, <2>1 DEF Even
<1>6. WeightAt(PeselWeights, 10) - 1 \in Even
  BY <1>2 DEF Even
<1> QED BY <1>1, <1>4, <1>5, <1>6

LEMMA SedolWeightsAre ==
  /\ IsWeights(SedolWeights)
  /\ \A x \in 1..6 : WeightAt(SedolWeights, x) \in Odd
  /\ \A x \in 1..5 : WeightAt(SedolWeights, x) - WeightAt(SedolWeights, x + 1) \in Even
  /\ WeightAt(SedolWeights, 6) - 1 \in Even
<1>1. IsWeights(SedolWeights) /\ Len(SedolWeights) = 6
  BY DEF SedolWeights, IsWeights
<1>2. /\ WeightAt(SedolWeights, 1) = 1 /\ WeightAt(SedolWeights, 2) = 3 /\ WeightAt(SedolWeights, 3) = 1
      /\ WeightAt(SedolWeights, 4) = 7 /\ WeightAt(SedolWeights, 5) = 3 /\ WeightAt(SedolWeights, 6) = 9
  BY <1>1 DEF SedolWeights, WeightAt
<1>3. \A x \in 1..6 : x = 1 \/ x = 2 \/ x = 3 \/ x = 4 \/ x = 5 \/ x = 6
  OBVIOUS
<1>4. \A x \in 1..6 : WeightAt(SedolWeights, x) \in Odd
  BY <1>2, <1>3 DEF Odd
<1>5. \A x \in 1..5 : WeightAt(SedolWeights, x) - WeightAt(SedolWeights, x + 1) \in Even
  <2> TAKE x \in 1..5
  <2>1. x = 1 \/ x = 2 \/ x = 3 \/ x = 4 \/ x = 5
    OBVIOUS
  <2> QED BY <1>2, <2>1 DEF Even
<1>6. WeightAt(SedolWeights, 6) - 1 \in Even
  BY <1>2 DEF Even
<1> QED BY <1>1, <1>4, <1>5, <1>6

LEMMA PeselIsCompleted ==
  ASSUME NEW d, pl_pesel(d)
  PROVE  Completed(d, 10, PeselWeights) /\ \A x \in 1..11 : d[x] \in 0..9
BY DEF pl_pesel, Completed, PeselWeights, AllDigits, IsDigit

LEMMA SedolIsCompleted ==
  ASSUME NEW d, sedol(d)
  PROVE  Completed(d, 6, SedolWeights)
BY DEF sedol, Completed, SedolWeights, IsDigit

LEMMA pl_pesel_Differs ==
  ASSUME NEW w, NEW r, NEW i, Differs(w, r, i)
  PROVE  ~ (pl_pesel(w) /\ pl_pesel(r))
<1>0. SUFFICES ASSUME pl_pesel(w), pl_pesel(r) PROVE FALSE
  OBVIOUS
<1>1. Completed(w, 10, PeselWeights) /\ Completed(r, 10, PeselWeights)
  BY <1>0, PeselIsCompleted
<1>2. i \in 1..11
  BY <1>1 DEF Differs, Completed
<1>3. w[i] \in 0..9 /\ r[i] \in 0..9
  BY <1>0, <1>2, PeselIsCompleted
<1>4. IsWeights(PeselWeights) /\ 10 \in Nat
  BY PeselWeightsAre
<1>5. i <= 10 => WeightAt(PeselWeights, i) \in Odd /\ w[i] \in 0..9 /\ r[i] \in 0..9
  BY <1>2, <1>3, PeselWeightsAre
<1> QED BY <1>1, <1>4, <1>5, CompletedDiffers

LEMMA pl_pesel_Exchanged ==
  ASSUME NEW w, NEW r, NEW i, Exchanged(w, r, i), pl_pesel(w), pl_pesel(r)
  PROVE  Fives(w[i], w[i + 1])
<1>1. Completed(w, 10, PeselWeights) /\ Completed(r, 10, PeselWeights)
  BY PeselIsCompleted
<1>2. i \in 1..10
  BY <1>1 DEF Exchanged, Completed
<1>3. IsWeights(PeselWeights) /\ 10 \in Nat
  BY PeselWeightsAre
<1>4. i < 10 => WeightAt(PeselWeights, i) - WeightAt(PeselWeights, i + 1) \in Even
  BY <1>2, PeselWeightsAre
<1>5. i = 10 => WeightAt(PeselWeights, i) - 1 \in Even
  BY PeselWeightsAre
<1> QED BY <1>1, <1>3, <1>4, <1>5, CompletedExchanged

LEMMA sedol_Differs ==
  ASSUME NEW w, NEW r, NEW i, Differs(w, r, i), sedol(w), sedol(r), w[i] \in 0..9, r[i] \in 0..9
  PROVE  FALSE
<1>1. Completed(w, 6, SedolWeights) /\ Completed(r, 6, SedolWeights)
  BY SedolIsCompleted
<1>2. i \in 1..7
  BY <1>1 DEF Differs, Completed
<1>3. IsWeights(SedolWeights) /\ 6 \in Nat
  BY SedolWeightsAre
<1>4. i <= 6 => WeightAt(SedolWeights, i) \in Odd /\ w[i] \in 0..9 /\ r[i] \in 0..9
  BY <1>2, SedolWeightsAre
<1> QED BY <1>1, <1>3, <1>4, CompletedDiffers

LEMMA sedol_Exchanged ==
  ASSUME NEW w, NEW r, NEW i, Exchanged(w, r, i), sedol(w), sedol(r)
  PROVE  Fives(w[i], w[i + 1])
<1>1. Completed(w, 6, SedolWeights) /\ Completed(r, 6, SedolWeights)
  BY SedolIsCompleted
<1>2. i \in 1..6
  BY <1>1 DEF Exchanged, Completed
<1>3. IsWeights(SedolWeights) /\ 6 \in Nat
  BY SedolWeightsAre
<1>4. i < 6 => WeightAt(SedolWeights, i) - WeightAt(SedolWeights, i + 1) \in Even
  BY <1>2, SedolWeightsAre
<1>5. i = 6 => WeightAt(SedolWeights, i) - 1 \in Even
  BY SedolWeightsAre
<1> QED BY <1>1, <1>3, <1>4, <1>5, CompletedExchanged

-----------------------------------------------------------------------------
(* Sums that stop where the weights do. *)

LEMMA DescendingIs ==
  ASSUME NEW from \in Nat, from > 1
  PROVE  /\ IsWeights(Descending(from)) /\ Len(Descending(from)) = from - 1
         /\ \A x \in 1..(from - 1) : Descending(from)[x] = (from + 1) - x
BY DEF Descending, IsWeights

NorwegianWeights == <<3, 2, 7, 6, 5, 4, 3, 2, 1>>
SwissWeights == <<5, 4, 3, 2, 7, 6, 5, 4>>
BritishWeights == <<8, 7, 6, 5, 4, 3, 2, 10, 1>>

LEMMA NorwegianWeightsAre ==
  /\ IsWeights(NorwegianWeights) /\ Len(NorwegianWeights) = 9
  /\ \A x \in 1..9 : NorwegianWeights[x] \in Mild /\ NorwegianWeights[x] \in Int
  /\ \A x \in 1..8 : NorwegianWeights[x] - NorwegianWeights[x + 1] \in Mild
BY DEF NorwegianWeights, IsWeights, Mild

LEMMA SwissWeightsAre ==
  /\ IsWeights(SwissWeights) /\ Len(SwissWeights) = 8
  /\ \A x \in 1..8 : SwissWeights[x] \in Mild /\ SwissWeights[x] \in Int
  /\ \A x \in 1..7 : SwissWeights[x] - SwissWeights[x + 1] \in Mild
  /\ SwissWeights[8] = 4
BY DEF SwissWeights, IsWeights, Mild

LEMMA no_mva_Differs ==
  ASSUME NEW w, NEW r, NEW i, Differs(w, r, i)
  PROVE  ~ (no_mva(w) /\ no_mva(r))
<1>0. SUFFICES ASSUME no_mva(w), no_mva(r) PROVE FALSE
  OBVIOUS
<1>1. /\ WeightedSum(w, NorwegianWeights) % 11 = 0 /\ WeightedSum(r, NorwegianWeights) % 11 = 0
      /\ Len(w) = 9 /\ Len(r) = 9
      /\ \A x \in DOMAIN w : w[x] \in 0..9
      /\ \A x \in DOMAIN r : r[x] \in 0..9
  BY <1>0 DEF no_mva, NorwegianWeights, OfLength, AllDigits, IsDigit
<1>2. i \in 1..9 /\ r[i] - w[i] \in Mild
  <2>1. i \in 1..9 /\ w[i] \in 0..9 /\ r[i] \in 0..9 /\ w[i] # r[i]
    BY <1>1 DEF Differs
  <2> QED BY <2>1, DigitsApart
<1>3. IsWeights(NorwegianWeights) /\ i <= Len(NorwegianWeights) /\ NorwegianWeights[i] \in Mild
  BY <1>2, NorwegianWeightsAre
<1>4. Grows(WeightedSum(w, NorwegianWeights), WeightedSum(r, NorwegianWeights), NorwegianWeights[i] * (r[i] - w[i]))
  BY <1>3, SumGrows
<1> QED BY <1>1, <1>2, <1>3, <1>4, MildGrowth

LEMMA no_mva_Exchanged ==
  ASSUME NEW w, NEW r, NEW i, Exchanged(w, r, i)
  PROVE  ~ (no_mva(w) /\ no_mva(r))
<1>0. SUFFICES ASSUME no_mva(w), no_mva(r) PROVE FALSE
  OBVIOUS
<1>1. /\ WeightedSum(w, NorwegianWeights) % 11 = 0 /\ WeightedSum(r, NorwegianWeights) % 11 = 0
      /\ Len(w) = 9
      /\ \A x \in DOMAIN w : w[x] \in 0..9
  BY <1>0 DEF no_mva, NorwegianWeights, OfLength, AllDigits, IsDigit
<1>2. i \in 1..8 /\ w[i + 1] - w[i] \in Mild
  <2>1. i \in 1..8 /\ w[i] \in 0..9 /\ w[i + 1] \in 0..9 /\ w[i] # w[i + 1]
    BY <1>1 DEF Exchanged
  <2> QED BY <2>1, DigitsApart
<1> DEFINE k == NorwegianWeights[i]
           l == NorwegianWeights[i + 1]
<1>3. IsWeights(NorwegianWeights) /\ i <= Len(NorwegianWeights) /\ i + 1 <= Len(NorwegianWeights) /\ k - l \in Mild /\ k \in Int /\ l \in Int
  BY <1>2, NorwegianWeightsAre
<1>4. Grows(WeightedSum(w, NorwegianWeights), WeightedSum(r, NorwegianWeights), (k - l) * (w[i + 1] - w[i]))
  BY <1>3, SumTurns
<1> HIDE DEF k, l
<1> QED BY <1>1, <1>2, <1>3, <1>4, MildGrowth

LEMMA SwissTurn ==
  ASSUME NEW a \in Int, NEW x \in 0..9, NEW y \in 0..9,
         (11 - (a % 11)) % 11 = y, (11 - ((a + 4 * (y - x)) % 11)) % 11 = x
  PROVE  x = y
<1>1. TenDigits(x) /\ TenDigits(y)
  BY DigitIsOneOfTen
<1>2. (a + y) % 11 = 0 /\ (a + 4 * (y - x) + x) % 11 = 0
  OBVIOUS
<1>3. (3 * y - 3 * x) % 11 = 0
  BY <1>2
<1> QED BY <1>1, <1>3 DEF TenDigits

(* Switzerland: the ninth digit is the complement of the sum of eight. *)
LEMMA ch_mwst_Differs ==
  ASSUME NEW w, NEW r, NEW i, Differs(w, r, i)
  PROVE  ~ (ch_mwst(w) /\ ch_mwst(r))
<1>0. SUFFICES ASSUME ch_mwst(w), ch_mwst(r) PROVE FALSE
  OBVIOUS
<1> DEFINE a == WeightedSum(w, SwissWeights)
           b == WeightedSum(r, SwissWeights)
<1>1. /\ (11 - (a % 11)) % 11 = w[9] /\ (11 - (b % 11)) % 11 = r[9]
      /\ Len(w) = 9 /\ Len(r) = 9
      /\ \A x \in DOMAIN w : w[x] \in 0..9
      /\ \A x \in DOMAIN r : r[x] \in 0..9
  BY <1>0 DEF ch_mwst, SwissWeights, OfLength, AllDigits, IsDigit
<1>2. /\ i \in 1..9 /\ w[i] \in 0..9 /\ r[i] \in 0..9 /\ w[i] # r[i]
      /\ i # 9 => r[9] = w[9]
  BY <1>1 DEF Differs
<1>3. CASE i = 9
  <2>1. IsWeights(SwissWeights) /\ ~ (i <= Len(SwissWeights))
    BY <1>3, SwissWeightsAre
  <2>2. a = b /\ a \in Int
    BY <2>1, SumStays
  <2> QED BY <1>1, <1>2, <1>3, <2>2
<1>4. CASE i # 9
  <2>1. i \in 1..8 /\ r[i] - w[i] \in Mild
    BY <1>2, <1>4, DigitsApart
  <2>2. IsWeights(SwissWeights) /\ i <= Len(SwissWeights) /\ SwissWeights[i] \in Mild
    BY <2>1, SwissWeightsAre
  <2>3. Grows(a, b, SwissWeights[i] * (r[i] - w[i]))
    BY <2>2, SumGrows
  <2> HIDE DEF a, b
  <2>4. a \in Int /\ b \in Int /\ a % 11 # b % 11
    BY <2>1, <2>2, <2>3, MildGrowth
  <2>5. w[9] = r[9]
    BY <1>2, <1>4
  <2> QED BY <1>1, <2>4, <2>5
<1> QED BY <1>3, <1>4

LEMMA ch_mwst_Exchanged ==
  ASSUME NEW w, NEW r, NEW i, Exchanged(w, r, i)
  PROVE  ~ (ch_mwst(w) /\ ch_mwst(r))
<1>0. SUFFICES ASSUME ch_mwst(w), ch_mwst(r) PROVE FALSE
  OBVIOUS
<1> DEFINE a == WeightedSum(w, SwissWeights)
           b == WeightedSum(r, SwissWeights)
<1>1. /\ (11 - (a % 11)) % 11 = w[9] /\ (11 - (b % 11)) % 11 = r[9]
      /\ Len(w) = 9 /\ Len(r) = 9
      /\ \A x \in DOMAIN w : w[x] \in 0..9
  BY <1>0 DEF ch_mwst, SwissWeights, OfLength, AllDigits, IsDigit
<1>2. /\ i \in 1..8 /\ w[i] \in 0..9 /\ w[i + 1] \in 0..9 /\ w[i] # w[i + 1] /\ r[i] = w[i + 1] /\ r[i + 1] = w[i]
      /\ i # 8 => r[9] = w[9]
  BY <1>1 DEF Exchanged
<1>3. CASE i = 8
  <2>0. /\ IsWeights(SwissWeights) /\ 4 = (IF i <= Len(SwissWeights) THEN SwissWeights[i] ELSE 0)
        /\ 0 = (IF i + 1 <= Len(SwissWeights) THEN SwissWeights[i + 1] ELSE 0) /\ 4 \in Int /\ 0 \in Int
    BY <1>3, SwissWeightsAre
  <2>1. Grows(a, b, (4 - 0) * (w[i + 1] - w[i]))
    BY <2>0, SumTurns
  <2>2. a \in Int /\ b = a + 4 * (w[9] - w[8])
    BY <1>3, <2>1 DEF Grows
  <2>3. w[8] \in 0..9 /\ w[9] \in 0..9 /\ w[8] # w[9] /\ r[9] = w[8]
    BY <1>2, <1>3
  <2> HIDE DEF a, b
  <2>4. (11 - (a % 11)) % 11 = w[9] /\ (11 - ((a + 4 * (w[9] - w[8])) % 11)) % 11 = w[8]
    BY <1>1, <2>2, <2>3
  <2> QED BY <2>2, <2>3, <2>4, SwissTurn
<1>4. CASE i # 8
  <2> DEFINE k == SwissWeights[i]
             l == SwissWeights[i + 1]
  <2>1. i \in 1..7 /\ w[i + 1] - w[i] \in Mild
    BY <1>2, <1>4, DigitsApart
  <2>2. IsWeights(SwissWeights) /\ i <= Len(SwissWeights) /\ i + 1 <= Len(SwissWeights) /\ k - l \in Mild /\ k \in Int /\ l \in Int
    BY <2>1, SwissWeightsAre
  <2>3. Grows(a, b, (k - l) * (w[i + 1] - w[i]))
    BY <2>2, SumTurns
  <2> HIDE DEF a, b, k, l
  <2>4. a \in Int /\ b \in Int /\ a % 11 # b % 11
    BY <2>1, <2>2, <2>3, MildGrowth
  <2>5. w[9] = r[9]
    BY <1>2, <1>4
  <2> QED BY <1>1, <2>4, <2>5
<1> QED BY <1>3, <1>4

(* Slovenia: eleven less the remainder, ten written as zero. *)
SlovenianCheck(n, a) == (a % 11) # 0 /\ n[8] = (IF 11 - (a % 11) = 10 THEN 0 ELSE 11 - (a % 11))

LEMMA SlovenianTurn ==
  ASSUME NEW a \in Int, NEW x \in 0..9, NEW y \in 0..9, x # y,
         a % 11 # 0, y = (IF 11 - (a % 11) = 10 THEN 0 ELSE 11 - (a % 11)),
         (a + 2 * (y - x)) % 11 # 0,
         x = (IF 11 - ((a + 2 * (y - x)) % 11) = 10 THEN 0 ELSE 11 - ((a + 2 * (y - x)) % 11))
  PROVE  x - y \in {1, -1}
<1>1. TenDigits(x) /\ TenDigits(y)
  BY DigitIsOneOfTen
<1>2. a % 11 = (IF y = 0 THEN 1 ELSE 11 - y)
  OBVIOUS
<1>3. (a + 2 * (y - x)) % 11 = (IF x = 0 THEN 1 ELSE 11 - x)
  OBVIOUS
<1>4. ((IF y = 0 THEN 1 ELSE 11 - y) + 2 * (y - x)) % 11 = (IF x = 0 THEN 1 ELSE 11 - x)
  BY <1>2, <1>3
<1> QED BY <1>1, <1>4 DEF TenDigits

LEMMA SlovenianChecks ==
  ASSUME NEW n, si_ddv(n), n \in Seq(Characters)
  PROVE  /\ Len(n) = 8 /\ \A x \in DOMAIN n : n[x] \in 0..9
         /\ WeightedSum(n, Descending(8)) \in Int => SlovenianCheck(n, WeightedSum(n, Descending(8)))
<1> DEFINE a == WeightedSum(n, Descending(8))
<1>1. Len(n) = 8 /\ \A x \in DOMAIN n : n[x] \in 0..9
  BY DEF si_ddv, OfLength, AllDigits, IsDigit
<1>2. 11 - (a % 11) # 11 /\ n[8] = (IF 11 - (a % 11) = 10 THEN 0 ELSE 11 - (a % 11))
  BY DEF si_ddv
<1> HIDE DEF a
<1>3. a \in Int => SlovenianCheck(n, a)
  BY <1>2 DEF SlovenianCheck
<1> QED BY <1>1, <1>3 DEF a

LEMMA si_ddv_Differs ==
  ASSUME NEW w, NEW r, NEW i, Differs(w, r, i)
  PROVE  ~ (si_ddv(w) /\ si_ddv(r))
<1>0. SUFFICES ASSUME si_ddv(w), si_ddv(r) PROVE FALSE
  OBVIOUS
<1> DEFINE ws == Descending(8)
           a == WeightedSum(w, ws)
           b == WeightedSum(r, ws)
<1>1. /\ Len(w) = 8 /\ Len(r) = 8 /\ \A x \in DOMAIN w : w[x] \in 0..9
      /\ \A x \in DOMAIN r : r[x] \in 0..9
      /\ a \in Int => SlovenianCheck(w, a)
      /\ b \in Int => SlovenianCheck(r, b)
  BY <1>0, SlovenianChecks DEF Differs
<1>2. IsWeights(ws) /\ Len(ws) = 7 /\ \A x \in 1..7 : ws[x] = 9 - x
  <2>1. 8 \in Nat /\ 8 > 1
    OBVIOUS
  <2>2. IsWeights(ws) /\ Len(ws) = 8 - 1 /\ \A x \in 1..(8 - 1) : ws[x] = (8 + 1) - x
    BY <2>1, DescendingIs
  <2> QED BY <2>2
<1> HIDE DEF ws
<1>3. /\ i \in 1..8 /\ w[i] \in 0..9 /\ r[i] \in 0..9 /\ w[i] # r[i]
      /\ i # 8 => r[8] = w[8]
  BY <1>1 DEF Differs
<1>4. CASE i = 8
  <2>0. ~ (i <= Len(ws))
    BY <1>2, <1>4
  <2>1. a = b /\ a \in Int
    BY <1>2, <2>0, SumStays
  <2> QED BY <1>1, <1>3, <1>4, <2>1 DEF SlovenianCheck
<1>5. CASE i # 8
  <2>1. i \in 1..7 /\ r[i] - w[i] \in Mild
    BY <1>3, <1>5, DigitsApart
  <2>2. i <= Len(ws) /\ ws[i] \in Mild
    BY <1>2, <2>1 DEF Mild
  <2>3. Grows(a, b, ws[i] * (r[i] - w[i]))
    BY <1>2, <2>2, SumGrows
  <2> HIDE DEF a, b
  <2>4. a \in Int /\ b \in Int /\ a % 11 # b % 11
    BY <2>1, <2>2, <2>3, MildGrowth
  <2>5. w[8] = r[8]
    BY <1>3, <1>5
  <2> QED BY <1>1, <2>4, <2>5 DEF SlovenianCheck
<1> QED BY <1>4, <1>5

LEMMA si_ddv_Exchanged ==
  ASSUME NEW w, NEW r, NEW i, Exchanged(w, r, i), si_ddv(w), si_ddv(r)
  PROVE  i = 7 /\ w[i] - w[i + 1] \in {1, -1}
<1> DEFINE ws == Descending(8)
           a == WeightedSum(w, ws)
           b == WeightedSum(r, ws)
<1>1. /\ Len(w) = 8 /\ Len(r) = 8 /\ \A x \in DOMAIN w : w[x] \in 0..9
      /\ a \in Int => SlovenianCheck(w, a)
      /\ b \in Int => SlovenianCheck(r, b)
  BY SlovenianChecks DEF Exchanged
<1>2. IsWeights(ws) /\ Len(ws) = 7 /\ \A x \in 1..7 : ws[x] = 9 - x
  <2>1. 8 \in Nat /\ 8 > 1
    OBVIOUS
  <2>2. IsWeights(ws) /\ Len(ws) = 8 - 1 /\ \A x \in 1..(8 - 1) : ws[x] = (8 + 1) - x
    BY <2>1, DescendingIs
  <2> QED BY <2>2
<1> HIDE DEF ws
<1>3. /\ i \in 1..7 /\ w[i] \in 0..9 /\ w[i + 1] \in 0..9 /\ w[i] # w[i + 1] /\ r[i] = w[i + 1] /\ r[i + 1] = w[i]
      /\ i # 7 => r[8] = w[8]
  BY <1>1 DEF Exchanged
<1>4. CASE i = 7
  <2>0. /\ 2 = (IF i <= Len(ws) THEN ws[i] ELSE 0) /\ 2 \in Int
        /\ 0 = (IF i + 1 <= Len(ws) THEN ws[i + 1] ELSE 0) /\ 0 \in Int
    BY <1>2, <1>4
  <2>1. Grows(a, b, (2 - 0) * (w[i + 1] - w[i]))
    BY <1>2, <2>0, SumTurns
  <2>2. a \in Int /\ b \in Int /\ b = a + 2 * (w[8] - w[7])
    BY <1>3, <1>4, <2>1 DEF Grows
  <2> HIDE DEF a, b
  <2>3. SlovenianCheck(w, a) /\ SlovenianCheck(r, b)
    BY <1>1, <2>2
  <2>4. w[7] \in 0..9 /\ w[8] \in 0..9 /\ w[7] # w[8] /\ r[8] = w[7]
    BY <1>3, <1>4
  <2>5. /\ a % 11 # 0 /\ w[8] = (IF 11 - (a % 11) = 10 THEN 0 ELSE 11 - (a % 11))
        /\ (a + 2 * (w[8] - w[7])) % 11 # 0
        /\ w[7] = (IF 11 - ((a + 2 * (w[8] - w[7])) % 11) = 10 THEN 0 ELSE 11 - ((a + 2 * (w[8] - w[7])) % 11))
    BY <2>2, <2>3, <2>4 DEF SlovenianCheck
  <2>6. w[7] - w[8] \in {1, -1}
    BY <2>2, <2>4, <2>5, SlovenianTurn
  <2> QED BY <1>4, <2>6
<1>5. CASE i # 7
  <2>1. i \in 1..6 /\ w[i + 1] - w[i] \in Mild
    BY <1>3, <1>5, DigitsApart
  <2>2. i <= Len(ws) /\ i + 1 <= Len(ws) /\ ws[i] - ws[i + 1] \in Mild /\ ws[i] \in Int /\ ws[i + 1] \in Int
    BY <1>2, <2>1 DEF Mild
  <2>3. Grows(a, b, (ws[i] - ws[i + 1]) * (w[i + 1] - w[i]))
    BY <1>2, <2>2, SumTurns
  <2> HIDE DEF a, b
  <2>4. a \in Int /\ b \in Int /\ a % 11 # b % 11
    BY <2>1, <2>2, <2>3, MildGrowth
  <2>5. w[8] = r[8]
    BY <1>3, <1>5
  <2> QED BY <1>1, <2>4, <2>5 DEF SlovenianCheck
<1> QED BY <1>4, <1>5

-----------------------------------------------------------------------------
(* A remainder of the leading digits beside two check digits. *)

(* Belgium: the first eight digits and the last two make a multiple of 97. *)
LEMMA BelgianChecks ==
  ASSUME NEW n \in Seq(Characters), be_ondernemingsnummer(n)
  PROVE  Len(n) = 8 + 2 /\ AllDigits(n) /\ Sums97(LeadingMod(n, 8, 97), n[9], n[10])
<1>1. Len(n) = 10 /\ AllDigits(n) /\ (IntegerMod(Slice(n, 0, 8), 97) + AsInteger(Slice(n, 8, 10))) % 97 = 0
  BY DEF be_ondernemingsnummer, OfLength
<1>2. AsInteger(Slice(n, 8, 8 + 2)) = 10 * n[8 + 1] + n[8 + 2]
  <2>1. 8 \in Nat /\ 8 + 2 <= Len(n)
    BY <1>1
  <2> QED BY <1>1, <2>1, TwoDigits, Zenon
<1>3. AsInteger(Slice(n, 8, 10)) = 10 * n[9] + n[10]
  BY <1>2
<1> QED BY <1>1, <1>3 DEF Sums97, LeadingMod

LEMMA BelgianTurn ==
  ASSUME NEW a, NEW b, NEW x \in Residues(97), NEW p \in 0..9, NEW q \in 0..9, NEW t \in 0..9,
         EndsWith(a, b, x, p, q, 97), Sums97(a, q, t), Sums97(b, p, t)
  PROVE  p = q
<1> DEFINE A == 10 * x + p + 10 * q + t
           B == 10 * x + q + 10 * p + t
<1>1. x \in 0..96
  BY DEF Residues
<1>2. A \in Int /\ B \in Int /\ B - A = 9 * (p - q)
  BY <1>1
<1>3. A % 97 = 0 /\ B % 97 = 0
  BY <1>1 DEF EndsWith, Sums97
<1> HIDE DEF A, B
<1>4. (B - A) % 97 = 0
  BY <1>2, <1>3
<1>5. (9 * (p - q)) % 97 = 0
  BY <1>2, <1>4
<1> QED BY <1>5

LEMMA be_Differs ==
  ASSUME NEW w, NEW r, NEW i, Differs(w, r, i)
  PROVE  ~ (be_ondernemingsnummer(w) /\ be_ondernemingsnummer(r))
<1>0. SUFFICES ASSUME be_ondernemingsnummer(w), be_ondernemingsnummer(r) PROVE FALSE
  OBVIOUS
<1> DEFINE a == LeadingMod(w, 8, 97)
           b == LeadingMod(r, 8, 97)
<1>1. Len(w) = 8 + 2 /\ AllDigits(w) /\ AllDigits(r) /\ Sums97(a, w[9], w[10]) /\ Sums97(b, r[9], r[10])
  BY <1>0, BelgianChecks DEF Differs
<1>2. 97 \in Moduli /\ 8 \in Nat \ {0}
  BY DEF Moduli
<1>3. MisreadHead(w, r, i, 8, 97)
  BY <1>1, <1>2, HeadDiffers
<1>4. a \in 0..96 /\ b \in 0..96 /\ w[9] \in 0..9 /\ w[10] \in 0..9 /\ r[9] \in 0..9 /\ r[10] \in 0..9
  BY <1>3 DEF MisreadHead, CheckTail, Residues
<1>5. \/ a # b /\ r[9] = w[9] /\ r[10] = w[10]
      \/ a = b /\ r[9] # w[9] /\ r[10] = w[10]
      \/ a = b /\ r[9] = w[9] /\ r[10] # w[10]
  BY <1>3 DEF MisreadHead, HeadMisread
<1> HIDE DEF a, b
<1>6. CASE a # b /\ r[9] = w[9] /\ r[10] = w[10]
  <2>1. Sums97(b, w[9], w[10])
    BY <1>1, <1>6
  <2> QED BY <1>1, <1>4, <1>6, <2>1, OneMultiple, Zenon
<1>7. CASE a = b /\ (r[9] # w[9] \/ r[10] # w[10]) /\ (r[9] = w[9] \/ r[10] = w[10])
  <2>1. Sums97(a, r[9], r[10])
    BY <1>1, <1>7
  <2>2. w[9] = r[9] \/ w[10] = r[10] \/ (w[9] = r[10] /\ w[10] = r[9])
    BY <1>7
  <2>3. Sums97(a, w[9], w[10])
    BY <1>1
  <2>4. w[9] = r[9] /\ w[10] = r[10]
    <3>1. ASSUME NEW p \in 0..9, NEW q \in 0..9, NEW x \in 0..9, NEW y \in 0..9, Sums97(a, p, q), Sums97(a, x, y),
                 p = x \/ q = y \/ (p = y /\ q = x)
          PROVE  p = x /\ q = y
      BY <1>4, <3>1, OneTail, Zenon
    <3>2. w[9] \in 0..9 /\ w[10] \in 0..9 /\ r[9] \in 0..9 /\ r[10] \in 0..9
      BY <1>4
    <3> QED BY <2>1, <2>2, <2>3, <3>1, <3>2, Zenon
  <2> QED BY <1>7, <2>4
<1> QED BY <1>5, <1>6, <1>7

LEMMA be_Exchanged ==
  ASSUME NEW w, NEW r, NEW i, Exchanged(w, r, i)
  PROVE  ~ (be_ondernemingsnummer(w) /\ be_ondernemingsnummer(r))
<1>0. SUFFICES ASSUME be_ondernemingsnummer(w), be_ondernemingsnummer(r) PROVE FALSE
  OBVIOUS
<1> DEFINE a == LeadingMod(w, 8, 97)
           b == LeadingMod(r, 8, 97)
<1>1. Len(w) = 8 + 2 /\ AllDigits(w) /\ AllDigits(r) /\ Sums97(a, w[9], w[10]) /\ Sums97(b, r[9], r[10])
  BY <1>0, BelgianChecks DEF Exchanged
<1>2. 97 \in Moduli /\ 8 \in Nat \ {0}
  BY DEF Moduli
<1>3. SwappedHead(w, r, i, 8, 97)
  BY <1>1, <1>2, HeadExchanged
<1>4. a \in 0..96 /\ b \in 0..96 /\ w[8] \in 0..9 /\ w[9] \in 0..9 /\ w[10] \in 0..9 /\ r[9] \in 0..9 /\ r[10] \in 0..9
  BY <1>3 DEF SwappedHead, CheckTail, Residues
<1>5. \/ a # b /\ r[9] = w[9] /\ r[10] = w[10]
      \/ /\ r[9] = w[8] /\ r[10] = w[10] /\ w[8] # w[9]
         /\ \E x \in Residues(97) : EndsWith(a, b, x, w[8], w[9], 97)
      \/ a = b /\ r[9] = w[10] /\ r[10] = w[9] /\ w[9] # w[10]
  BY <1>3 DEF SwappedHead, HeadSwapped
<1> HIDE DEF a, b
<1>6. CASE a # b /\ r[9] = w[9] /\ r[10] = w[10]
  <2>1. Sums97(b, w[9], w[10])
    BY <1>1, <1>6
  <2> QED BY <1>1, <1>4, <1>6, <2>1, OneMultiple, Zenon
<1>7. CASE a = b /\ r[9] = w[10] /\ r[10] = w[9] /\ w[9] # w[10]
  <2>1. Sums97(a, w[9], w[10]) /\ Sums97(a, w[10], w[9])
    BY <1>1, <1>7
  <2>2. w[9] = w[10]
    BY <1>4, <2>1, TurnedDigits, Zenon
  <2> QED BY <1>7, <2>2
<1>8. ASSUME r[9] = w[8], r[10] = w[10], w[8] # w[9], NEW x \in Residues(97), EndsWith(a, b, x, w[8], w[9], 97)
      PROVE FALSE
  <2>1. Sums97(b, w[8], w[10])
    BY <1>1, <1>8
  <2> QED BY <1>1, <1>4, <1>8, <2>1, BelgianTurn
<1> QED BY <1>5, <1>6, <1>7, <1>8

-----------------------------------------------------------------------------
(* Luxembourg and the British departments: the two digits are the remainder. *)
WrittenModuli == {89, 97}

LEMMA WrittenOutDiffers ==
  ASSUME NEW w, NEW r, NEW i, Differs(w, r, i), NEW k \in Nat \ {0}, Len(w) = k + 2, AllDigits(w), AllDigits(r),
         NEW modulus \in WrittenModuli,
         ReadAs(LeadingMod(w, k, modulus), w[k + 1], w[k + 2]), ReadAs(LeadingMod(r, k, modulus), r[k + 1], r[k + 2])
  PROVE  FALSE
<1>0. modulus \in Moduli
  BY DEF Moduli, WrittenModuli
<1> DEFINE a == LeadingMod(w, k, modulus)
           b == LeadingMod(r, k, modulus)
<1>1. MisreadHead(w, r, i, k, modulus)
  BY <1>0, HeadDiffers
<1>2. ReadAs(a, w[k + 1], w[k + 2]) /\ ReadAs(b, r[k + 1], r[k + 2])
  OBVIOUS
<1>3. w[k + 1] \in 0..9 /\ w[k + 2] \in 0..9 /\ r[k + 1] \in 0..9 /\ r[k + 2] \in 0..9
  BY <1>1 DEF MisreadHead, CheckTail
<1>4. \/ a # b /\ r[k + 1] = w[k + 1] /\ r[k + 2] = w[k + 2]
      \/ a = b /\ r[k + 1] # w[k + 1] /\ r[k + 2] = w[k + 2]
      \/ a = b /\ r[k + 1] = w[k + 1] /\ r[k + 2] # w[k + 2]
  BY <1>1 DEF MisreadHead, HeadMisread
<1> HIDE DEF a, b
<1>5. CASE a = b
  <2>1. ReadAs(a, r[k + 1], r[k + 2])
    BY <1>2, <1>5
  <2>2. r[k + 1] = w[k + 1] /\ r[k + 2] = w[k + 2]
    <3>1. Twins(w[k + 1], w[k + 2], r[k + 1], r[k + 2])
      BY <1>2, <1>3, <2>1, DigitsAreRead, Zenon
    <3> QED BY <3>1 DEF Twins
  <2> QED BY <1>4, <1>5, <2>2
<1>6. r[k + 1] = w[k + 1] /\ r[k + 2] = w[k + 2] => a = b
  BY <1>2 DEF ReadAs
<1> QED BY <1>4, <1>5, <1>6

LEMMA WrittenOutTurn ==
  ASSUME NEW a, NEW b, NEW modulus \in WrittenModuli, NEW x \in Residues(modulus),
         NEW p \in 0..9, NEW q \in 0..9, NEW t \in 0..9,
         EndsWith(a, b, x, p, q, modulus), ReadAs(a, q, t), ReadAs(b, p, t)
  PROVE  p = q
<1>1. x \in Nat /\ (10 * x + p) % modulus = 10 * q + t /\ (10 * x + q) % modulus = 10 * p + t
  BY DEF EndsWith, ReadAs, Residues, WrittenModuli
<1> DEFINE A == 10 * x + p - 10 * q - t
           B == 10 * x + q - 10 * p - t
<1>2. A \in Int /\ B \in Int /\ A - B = 11 * (p - q)
  BY <1>1
<1>3. CASE modulus = 89
  <2>1. A % 89 = 0 /\ B % 89 = 0
    BY <1>1, <1>3
  <2> HIDE DEF A, B
  <2>2. (A - B) % 89 = 0
    BY <1>2, <2>1
  <2>3. (11 * (p - q)) % 89 = 0
    BY <1>2, <2>2
  <2> QED BY <2>3
<1>4. CASE modulus = 97
  <2>1. A % 97 = 0 /\ B % 97 = 0
    BY <1>1, <1>4
  <2> HIDE DEF A, B
  <2>2. (A - B) % 97 = 0
    BY <1>2, <2>1
  <2>3. (11 * (p - q)) % 97 = 0
    BY <1>2, <2>2
  <2> QED BY <2>3
<1> QED BY <1>3, <1>4 DEF WrittenModuli

LEMMA WrittenOutExchanged ==
  ASSUME NEW w, NEW r, NEW i, Exchanged(w, r, i), NEW k \in Nat \ {0}, Len(w) = k + 2, AllDigits(w), AllDigits(r),
         NEW modulus \in WrittenModuli,
         ReadAs(LeadingMod(w, k, modulus), w[k + 1], w[k + 2]), ReadAs(LeadingMod(r, k, modulus), r[k + 1], r[k + 2])
  PROVE  FALSE
<1>0. modulus \in Moduli
  BY DEF Moduli, WrittenModuli
<1> DEFINE a == LeadingMod(w, k, modulus)
           b == LeadingMod(r, k, modulus)
<1>1. SwappedHead(w, r, i, k, modulus)
  BY <1>0, HeadExchanged
<1>2. ReadAs(a, w[k + 1], w[k + 2]) /\ ReadAs(b, r[k + 1], r[k + 2])
  OBVIOUS
<1>3. w[k + 1] \in 0..9 /\ w[k + 2] \in 0..9 /\ r[k + 1] \in 0..9 /\ r[k + 2] \in 0..9 /\ w[k] \in 0..9
  BY <1>1 DEF SwappedHead, CheckTail
<1>4. \/ a # b /\ r[k + 1] = w[k + 1] /\ r[k + 2] = w[k + 2]
      \/ /\ r[k + 1] = w[k] /\ r[k + 2] = w[k + 2] /\ w[k] # w[k + 1]
         /\ \E x \in Residues(modulus) : EndsWith(a, b, x, w[k], w[k + 1], modulus)
      \/ a = b /\ r[k + 1] = w[k + 2] /\ r[k + 2] = w[k + 1] /\ w[k + 1] # w[k + 2]
  BY <1>1 DEF SwappedHead, HeadSwapped
<1> HIDE DEF a, b
<1>5. CASE a # b /\ r[k + 1] = w[k + 1] /\ r[k + 2] = w[k + 2]
  BY <1>2, <1>5 DEF ReadAs
<1>6. CASE a = b /\ r[k + 1] = w[k + 2] /\ r[k + 2] = w[k + 1] /\ w[k + 1] # w[k + 2]
  <2>1. ReadAs(a, r[k + 1], r[k + 2])
    BY <1>2, <1>6
  <2>2. r[k + 1] = w[k + 1]
    <3>1. Twins(w[k + 1], w[k + 2], r[k + 1], r[k + 2])
      BY <1>2, <1>3, <2>1, DigitsAreRead, Zenon
    <3> QED BY <3>1 DEF Twins
  <2> QED BY <1>6, <2>2
<1>7. ASSUME r[k + 1] = w[k], r[k + 2] = w[k + 2], w[k] # w[k + 1],
             NEW x \in Residues(modulus), EndsWith(a, b, x, w[k], w[k + 1], modulus)
      PROVE FALSE
  <2>1. ReadAs(b, w[k], w[k + 2])
    BY <1>2, <1>7
  <2> QED BY <1>2, <1>3, <1>7, <2>1, WrittenOutTurn
<1> QED BY <1>4, <1>5, <1>6, <1>7

LEMMA LuxembourgIsWrittenOut ==
  ASSUME NEW n \in Seq(Characters), lu_tva(n)
  PROVE  Len(n) = 6 + 2 /\ AllDigits(n) /\ ReadAs(LeadingMod(n, 6, 89), n[6 + 1], n[6 + 2])
<1>1. Len(n) = 8 /\ AllDigits(n) /\ AsInteger(Slice(n, 0, 6)) % 89 = AsInteger(Slice(n, 6, 8))
  BY DEF lu_tva, OfLength
<1>2. AsInteger(Slice(n, 6, 6 + 2)) = 10 * n[6 + 1] + n[6 + 2]
  <2>1. 6 \in Nat /\ 6 + 2 <= Len(n)
    BY <1>1
  <2> QED BY <1>1, <2>1, TwoDigits, Zenon
<1>3. AsInteger(Slice(n, 6, 8)) = 10 * n[6 + 1] + n[6 + 2]
  BY <1>2
<1>4. Slice(n, 0, 6) \in Seq(0..9)
  <2>1. 0 \in Nat /\ 6 \in Nat /\ 0 <= 6 /\ 6 <= Len(n)
    BY <1>1
  <2> QED BY <1>1, <2>1, SliceOfDigits
<1>5. 89 \in Moduli
  BY DEF Moduli
<1>6. AsInteger(Slice(n, 0, 6)) % 89 = IntegerMod(Slice(n, 0, 6), 89)
  BY <1>4, <1>5, AsIntegerMod
<1> QED BY <1>1, <1>3, <1>6 DEF ReadAs, LeadingMod

LEMMA DepartmentIsWrittenOut ==
  ASSUME NEW n \in Seq(Characters), NEW kind, gb_department(kind, n), Len(n) # 3
  PROVE  Len(n) = 3 + 2 /\ AllDigits(n) /\ ReadAs(LeadingMod(n, 3, 97), n[3 + 1], n[3 + 2])
<1>1. Len(n) = 5 /\ AllDigits(n) /\ AsInteger(Slice(n, 0, 3)) % 97 = AsInteger(Slice(n, 3, 5))
  BY DEF gb_department, OfLength
<1>2. AsInteger(Slice(n, 3, 3 + 2)) = 10 * n[3 + 1] + n[3 + 2]
  <2>1. 3 \in Nat /\ 3 + 2 <= Len(n)
    BY <1>1
  <2> QED BY <1>1, <2>1, TwoDigits, Zenon
<1>3. AsInteger(Slice(n, 3, 5)) = 10 * n[3 + 1] + n[3 + 2]
  BY <1>2
<1>4. Slice(n, 0, 3) \in Seq(0..9)
  <2>1. 0 \in Nat /\ 3 \in Nat /\ 0 <= 3 /\ 3 <= Len(n)
    BY <1>1
  <2> QED BY <1>1, <2>1, SliceOfDigits
<1>5. 97 \in Moduli
  BY DEF Moduli
<1>6. AsInteger(Slice(n, 0, 3)) % 97 = IntegerMod(Slice(n, 0, 3), 97)
  BY <1>4, <1>5, AsIntegerMod
<1> QED BY <1>1, <1>3, <1>6 DEF ReadAs, LeadingMod

LEMMA lu_tva_Differs ==
  ASSUME NEW w, NEW r, NEW i, Differs(w, r, i)
  PROVE  ~ (lu_tva(w) /\ lu_tva(r))
<1>0. SUFFICES ASSUME lu_tva(w), lu_tva(r) PROVE FALSE
  OBVIOUS
<1>1. /\ Len(w) = 6 + 2 /\ AllDigits(w) /\ ReadAs(LeadingMod(w, 6, 89), w[6 + 1], w[6 + 2])
      /\ AllDigits(r) /\ ReadAs(LeadingMod(r, 6, 89), r[6 + 1], r[6 + 2])
  BY <1>0, LuxembourgIsWrittenOut DEF Differs
<1>2. 89 \in WrittenModuli /\ 6 \in Nat \ {0}
  BY DEF WrittenModuli
<1> QED BY <1>1, <1>2, WrittenOutDiffers

LEMMA lu_tva_Exchanged ==
  ASSUME NEW w, NEW r, NEW i, Exchanged(w, r, i)
  PROVE  ~ (lu_tva(w) /\ lu_tva(r))
<1>0. SUFFICES ASSUME lu_tva(w), lu_tva(r) PROVE FALSE
  OBVIOUS
<1>1. /\ Len(w) = 6 + 2 /\ AllDigits(w) /\ ReadAs(LeadingMod(w, 6, 89), w[6 + 1], w[6 + 2])
      /\ AllDigits(r) /\ ReadAs(LeadingMod(r, 6, 89), r[6 + 1], r[6 + 2])
  BY <1>0, LuxembourgIsWrittenOut DEF Exchanged
<1>2. 89 \in WrittenModuli /\ 6 \in Nat \ {0}
  BY DEF WrittenModuli
<1> QED BY <1>1, <1>2, WrittenOutExchanged

LEMMA gb_department_Differs ==
  ASSUME NEW w, NEW r, NEW i, Differs(w, r, i), NEW kind, gb_department(kind, w), gb_department(kind, r)
  PROVE  Len(w) = 3
<1>0. SUFFICES ASSUME Len(w) # 3 PROVE FALSE
  OBVIOUS
<1>1. w \in Seq(Characters) /\ r \in Seq(Characters) /\ Len(r) # 3
  BY <1>0 DEF Differs
<1>2. /\ Len(w) = 3 + 2 /\ AllDigits(w) /\ ReadAs(LeadingMod(w, 3, 97), w[3 + 1], w[3 + 2])
      /\ AllDigits(r) /\ ReadAs(LeadingMod(r, 3, 97), r[3 + 1], r[3 + 2])
  BY <1>0, <1>1, DepartmentIsWrittenOut
<1>3. 97 \in WrittenModuli /\ 3 \in Nat \ {0}
  BY DEF WrittenModuli
<1> QED BY <1>2, <1>3, WrittenOutDiffers

LEMMA gb_department_Exchanged ==
  ASSUME NEW w, NEW r, NEW i, Exchanged(w, r, i), NEW kind, gb_department(kind, w), gb_department(kind, r)
  PROVE  Len(w) = 3
<1>0. SUFFICES ASSUME Len(w) # 3 PROVE FALSE
  OBVIOUS
<1>1. w \in Seq(Characters) /\ r \in Seq(Characters) /\ Len(r) # 3
  BY <1>0 DEF Exchanged
<1>2. /\ Len(w) = 3 + 2 /\ AllDigits(w) /\ ReadAs(LeadingMod(w, 3, 97), w[3 + 1], w[3 + 2])
      /\ AllDigits(r) /\ ReadAs(LeadingMod(r, 3, 97), r[3 + 1], r[3 + 2])
  BY <1>0, <1>1, DepartmentIsWrittenOut
<1>3. 97 \in WrittenModuli /\ 3 \in Nat \ {0}
  BY DEF WrittenModuli
<1> QED BY <1>2, <1>3, WrittenOutExchanged

-----------------------------------------------------------------------------
(* Great Britain: three remainders modulo 97 are right, and no error but in *)
(* the digits that weigh seven and six leads from one to another.           *)
BritishSteps == {8, 5, 4, 3, 2, 10, 1, -8, 9}
BritishRemainders == {0, 42, 55}

LEMMA BritishGap ==
  ASSUME NEW k \in BritishSteps, NEW x \in (-9..9) \ {0}
  PROVE  k * x \in Int /\ (k * x) % 97 \notin {0, 13, 42, 55, 84}
<1>1. k = 8 \/ k = 5 \/ k = 4 \/ k = 3 \/ k = 2 \/ k = 10 \/ k = 1 \/ k = -8 \/ k = 9
  BY DEF BritishSteps
<1>2. x \in -9..9 /\ x # 0
  OBVIOUS
<1> QED BY <1>1, <1>2

LEMMA BritishGrowth ==
  ASSUME NEW a, NEW b, NEW k \in BritishSteps, NEW x \in (-9..9) \ {0}, Grows(a, b, k * x),
         a % 97 \in BritishRemainders, b % 97 \in BritishRemainders
  PROVE  FALSE
<1> DEFINE delta == k * x
<1>1. delta \in Int /\ delta % 97 \notin {0, 13, 42, 55, 84}
  BY BritishGap
<1>2. a \in Int /\ b = a + delta
  BY DEF Grows
<1> HIDE DEF delta
<1>3. (a % 97 = 0 \/ a % 97 = 42 \/ a % 97 = 55) /\ ((a + delta) % 97 = 0 \/ (a + delta) % 97 = 42 \/ (a + delta) % 97 = 55)
  BY <1>2 DEF BritishRemainders
<1>4. delta % 97 \in {0, 13, 42, 55, 84}
  BY <1>1, <1>2, <1>3
<1> QED BY <1>1, <1>4

LEMMA BritishWeightsAre ==
  /\ IsWeights(BritishWeights) /\ Len(BritishWeights) = 9
  /\ \A x \in 1..9 : BritishWeights[x] \in Int
  /\ \A x \in {1} \union 4..9 : BritishWeights[x] \in BritishSteps
  /\ \A x \in {1} \union 4..8 : BritishWeights[x] - BritishWeights[x + 1] \in BritishSteps
  /\ BritishWeights[9] - 0 \in BritishSteps
BY DEF BritishWeights, IsWeights, BritishSteps

LEMMA BritishChecks ==
  ASSUME NEW n, n \in Seq(Characters), gb_vat(n)
  PROVE  /\ Len(n) \in {9, 12} /\ (\A x \in DOMAIN n : n[x] \in 0..9)
         /\ WeightedSum(n, BritishWeights) % 97 \in BritishRemainders
<1>1. OfLength(n, {9, 12})
  BY DEF gb_vat
<1>2. WeightedSum(n, BritishWeights) % 97 \in (IF AsInteger(Slice(n, 0, 3)) >= 100 THEN {0, 42, 55} ELSE {0})
  BY DEF gb_vat, BritishWeights
<1>3. WeightedSum(n, BritishWeights) % 97 \in BritishRemainders
  BY <1>2 DEF BritishRemainders
<1> QED BY <1>1, <1>3, DigitsOf

LEMMA gb_vat_Differs ==
  ASSUME NEW w, NEW r, NEW i, Differs(w, r, i), gb_vat(w), gb_vat(r)
  PROVE  i \in {2, 3} \union 10..12
<1>0. SUFFICES ASSUME i \notin {2, 3} \union 10..12 PROVE FALSE
  OBVIOUS
<1> DEFINE a == WeightedSum(w, BritishWeights)
           b == WeightedSum(r, BritishWeights)
<1>1. /\ Len(w) \in {9, 12} /\ Len(r) = Len(w) /\ (\A x \in DOMAIN w : w[x] \in 0..9)
      /\ (\A x \in DOMAIN r : r[x] \in 0..9) /\ a % 97 \in BritishRemainders /\ b % 97 \in BritishRemainders
  BY BritishChecks DEF Differs
<1>2. i \in {1} \union 4..9 /\ r[i] - w[i] \in (-9..9) \ {0}
  <2>1. i \in 1..Len(w) /\ w[i] \in 0..9 /\ r[i] \in 0..9 /\ w[i] # r[i]
    BY <1>1 DEF Differs
  <2>2. Len(w) = 9 \/ Len(w) = 12
    BY <1>1
  <2>3. i \in {1} \union 4..9
    <3>1. i \in Int /\ 1 <= i /\ i <= 12
      BY <2>1, <2>2, SMT
    <3>2. i # 2 /\ i # 3 /\ i # 10 /\ i # 11 /\ i # 12
      BY <1>0
    <3>3. i = 1 \/ i \in 4..9
      BY <3>1, <3>2
    <3> QED BY <3>3
  <2>4. r[i] - w[i] \in (-9..9) \ {0}
    BY <2>1, DigitsApartNine
  <2> QED BY <2>3, <2>4
<1>3. IsWeights(BritishWeights) /\ i <= Len(BritishWeights) /\ BritishWeights[i] \in BritishSteps
  BY <1>2, BritishWeightsAre
<1>4. Grows(a, b, BritishWeights[i] * (r[i] - w[i]))
  BY <1>3, SumGrows
<1> HIDE DEF a, b
<1> QED BY <1>1, <1>2, <1>3, <1>4, BritishGrowth

LEMMA gb_vat_Exchanged ==
  ASSUME NEW w, NEW r, NEW i, Exchanged(w, r, i), gb_vat(w), gb_vat(r)
  PROVE  i \in {2, 3} \union 10..12
<1>0. SUFFICES ASSUME i \notin {2, 3} \union 10..12 PROVE FALSE
  OBVIOUS
<1> DEFINE a == WeightedSum(w, BritishWeights)
           b == WeightedSum(r, BritishWeights)
           k == BritishWeights[i]
           l == IF i + 1 <= Len(BritishWeights) THEN BritishWeights[i + 1] ELSE 0
<1>1. /\ Len(w) \in {9, 12} /\ Len(r) = Len(w) /\ (\A x \in DOMAIN w : w[x] \in 0..9)
      /\ a % 97 \in BritishRemainders /\ b % 97 \in BritishRemainders
  BY BritishChecks DEF Exchanged
<1>2. i \in {1} \union 4..9 /\ w[i + 1] - w[i] \in (-9..9) \ {0}
  <2>1. i \in 1..(Len(w) - 1) /\ w[i] \in 0..9 /\ w[i + 1] \in 0..9 /\ w[i] # w[i + 1]
    BY <1>1, SMT DEF Exchanged
  <2>2. Len(w) = 9 \/ Len(w) = 12
    BY <1>1
  <2>3. i \in {1} \union 4..9
    <3>1. i \in Int /\ 1 <= i /\ i <= 12
      BY <2>1, <2>2, SMT
    <3>2. i # 2 /\ i # 3 /\ i # 10 /\ i # 11 /\ i # 12
      BY <1>0
    <3>3. i = 1 \/ i \in 4..9
      BY <3>1, <3>2
    <3> QED BY <3>3
  <2>4. w[i + 1] - w[i] \in (-9..9) \ {0}
    BY <2>1, DigitsApartNine
  <2> QED BY <2>3, <2>4
<1>3. IsWeights(BritishWeights) /\ i <= Len(BritishWeights) /\ k \in Int /\ l \in Int /\ k - l \in BritishSteps
  <2>1. CASE i = 9
    BY <2>1, BritishWeightsAre
  <2>2. CASE i # 9
    <3>1. i \in {1} \union 4..8 /\ i \in 1..9 /\ i + 1 \in 1..9 /\ i + 1 <= 9
      BY <1>2, <2>2
    <3> QED BY <3>1, BritishWeightsAre
  <2> QED BY <2>1, <2>2
<1>4. k = (IF i <= Len(BritishWeights) THEN BritishWeights[i] ELSE 0)
  BY <1>3
<1>5. Grows(a, b, (k - l) * (w[i + 1] - w[i]))
  BY <1>3, <1>4, SumTurns
<1> HIDE DEF a, b, k, l
<1> QED BY <1>1, <1>2, <1>3, <1>5, BritishGrowth

-----------------------------------------------------------------------------
(* The folding schemes: the last character is computed from the others, so *)
(* another one there is refused.                                           *)
GreekSum(s) == FoldLeft(LAMBDA sum, v : 2 * sum + v, 0, s)

LEMMA GreekSumIs == \A n : el_afm(n) => Len(n) = 9 /\ ((GreekSum(Slice(n, 0, 8)) * 2) % 11) % 10 = n[9]
BY DEF el_afm, OfLength, GreekSum, FoldLeft, MapThenFoldSet

LEMMA el_afm_Last ==
  ASSUME NEW w, NEW r, NEW n, DiffersLast(w, r, n), el_afm(w), el_afm(r)
  PROVE  FALSE
<1>1. n = 9 /\ w[9] # r[9] /\ 8 = n - 1
  BY GreekSumIs, LastDiffers, SMT
<1>2. Slice(w, 0, 8) = Slice(r, 0, 8)
  BY <1>1, LastSliceStays
<1> QED BY <1>1, <1>2, GreekSumIs

LEMMA imo_Last ==
  ASSUME NEW w, NEW r, NEW n, DiffersLast(w, r, n), imo(w), imo(r)
  PROVE  FALSE
<1>0. /\ n \in Nat \ {0} /\ Len(w) = n /\ Len(r) = n /\ w[n] # r[n] /\ w \in Seq(Characters) /\ r \in Seq(Characters)
  BY LastDiffers
<1>1. n = 7 /\ w[7] # r[7] /\ 6 = n - 1
  <2>1. Len(w) = 7
    BY Zenon DEF imo
  <2> QED BY <1>0, <2>1
<1>2. Slice(w, 0, 6) = Slice(r, 0, 6)
  BY <1>1, LastSliceStays
<1> QED BY <1>1, <1>2 DEF imo

LEMMA me_pib_Last ==
  ASSUME NEW w, NEW r, NEW n, DiffersLast(w, r, n), me_pib(w), me_pib(r)
  PROVE  FALSE
<1>0. /\ n \in Nat \ {0} /\ Len(w) = n /\ Len(r) = n /\ w[n] # r[n] /\ w \in Seq(Characters) /\ r \in Seq(Characters)
  BY LastDiffers
<1>1. n = 8 /\ w[8] # r[8]
  BY <1>0 DEF me_pib, OfLength
<1>2. IsWeights(Descending(8)) /\ Len(Descending(8)) = n - 1
  <2>1. 8 \in Nat /\ 8 > 1
    OBVIOUS
  <2> QED BY <1>1, <2>1, DescendingIs
<1>3. WeightedSum(w, Descending(8)) = WeightedSum(r, Descending(8))
  BY <1>2, LastSumStays
<1> QED BY <1>1, <1>3 DEF me_pib

LEMMA pt_nif_Last ==
  ASSUME NEW w, NEW r, NEW n, DiffersLast(w, r, n), pt_nif(w), pt_nif(r)
  PROVE  FALSE
<1>0. /\ n \in Nat \ {0} /\ Len(w) = n /\ Len(r) = n /\ w[n] # r[n] /\ w \in Seq(Characters) /\ r \in Seq(Characters)
  BY LastDiffers
<1>1. n = 9 /\ w[9] # r[9]
  BY <1>0 DEF pt_nif, OfLength
<1>2. IsWeights(Descending(9)) /\ Len(Descending(9)) = n - 1
  <2>1. 9 \in Nat /\ 9 > 1
    OBVIOUS
  <2> QED BY <1>1, <2>1, DescendingIs
<1>3. WeightedSum(w, Descending(9)) = WeightedSum(r, Descending(9))
  BY <1>2, LastSumStays
<1> QED BY <1>1, <1>3 DEF pt_nif

LEMMA mk_edb_Last ==
  ASSUME NEW w, NEW r, NEW n, DiffersLast(w, r, n), mk_edb(w), mk_edb(r)
  PROVE  FALSE
<1> DEFINE ws == Descending(7) \o Descending(7)
<1>0. /\ n \in Nat \ {0} /\ Len(w) = n /\ Len(r) = n /\ w[n] # r[n] /\ w \in Seq(Characters) /\ r \in Seq(Characters)
  BY LastDiffers
<1>1. n = 13 /\ w[13] # r[13]
  BY <1>0 DEF mk_edb, OfLength
<1>2. IsWeights(ws) /\ Len(ws) = n - 1
  <2>1. 7 \in Nat /\ 7 > 1
    OBVIOUS
  <2>2. IsWeights(Descending(7)) /\ Len(Descending(7)) = 7 - 1
    BY <2>1, DescendingIs
  <2>3. Descending(7) \in Seq(Int) /\ Len(Descending(7)) = 6
    BY <2>2 DEF IsWeights
  <2>4. ws \in Seq(Int) /\ Len(ws) = 12
    <3> HIDE DEF ws
    <3>1. ASSUME NEW s \in Seq(Int), Len(s) = 6 PROVE s \o s \in Seq(Int) /\ Len(s \o s) = 12
      <4>1. s \o s \in Seq(Int) /\ Len(s \o s) = Len(s) + Len(s)
        BY <3>1, ConcatProperties, Zenon
      <4> QED BY <3>1, <4>1
    <3> QED BY <2>3, <3>1, Zenon DEF ws
  <2> QED BY <1>1, <2>4 DEF IsWeights
<1> HIDE DEF ws
<1>3. WeightedSum(w, ws) = WeightedSum(r, ws)
  BY <1>2, LastSumStays
<1> QED BY <1>1, <1>3 DEF mk_edb, ws

LEMMA ru_inn_Last ==
  ASSUME NEW w, NEW r, NEW n, DiffersLast(w, r, n), ru_inn(w), ru_inn(r)
  PROVE  FALSE
<1>1. Len(w) = n /\ Len(r) = n /\ w[n] # r[n]
  BY LastDiffers
<1>2. CASE n = 10
  <2> DEFINE ws == <<2, 4, 10, 3, 5, 9, 4, 6, 8>>
  <2>1. (WeightedSum(w, ws) % 11) % 10 = w[10] /\ (WeightedSum(r, ws) % 11) % 10 = r[10]
    BY <1>1, <1>2 DEF ru_inn, OfLength
  <2>2. IsWeights(ws) /\ Len(ws) = n - 1
    BY <1>2 DEF IsWeights
  <2> HIDE DEF ws
  <2>3. WeightedSum(w, ws) = WeightedSum(r, ws)
    BY <2>2, LastSumStays
  <2> QED BY <1>1, <1>2, <2>1, <2>3
<1>3. CASE n # 10
  <2> DEFINE ws == <<3, 7, 2, 4, 10, 3, 5, 9, 4, 6, 8>>
  <2>1. n = 12 /\ (WeightedSum(w, ws) % 11) % 10 = w[12] /\ (WeightedSum(r, ws) % 11) % 10 = r[12]
    BY <1>1, <1>3 DEF ru_inn, OfLength
  <2>2. IsWeights(ws) /\ Len(ws) = n - 1
    BY <2>1 DEF IsWeights
  <2> HIDE DEF ws
  <2>3. WeightedSum(w, ws) = WeightedSum(r, ws)
    BY <2>2, LastSumStays
  <2> QED BY <1>1, <2>1, <2>3
<1> QED BY <1>2, <1>3

LithuanianWeights(n, shift) == [i \in 1..(n - 1) |-> 1 + ((i - 1 + shift) % 9)]

LEMMA lt_pvm_Last ==
  ASSUME NEW w, NEW r, NEW n, DiffersLast(w, r, n), lt_pvm(w), lt_pvm(r)
  PROVE  FALSE
<1>1. Len(w) = n /\ Len(r) = n /\ w[n] # r[n] /\ n \in {9, 12}
  <2>1. Len(w) \in {9, 12}
    BY Zenon DEF lt_pvm, OfLength
  <2> QED BY <2>1, LastDiffers, Zenon
<1> DEFINE a(shift) == WeightedSum(w, LithuanianWeights(n, shift))
           b(shift) == WeightedSum(r, LithuanianWeights(n, shift))
<1>2. /\ ((IF a(0) % 11 = 10 THEN a(2) ELSE a(0)) % 11) % 10 = w[n]
      /\ ((IF b(0) % 11 = 10 THEN b(2) ELSE b(0)) % 11) % 10 = r[n]
  BY <1>1 DEF lt_pvm, LithuanianWeights
<1>3. \A shift \in {0, 2} : IsWeights(LithuanianWeights(n, shift)) /\ Len(LithuanianWeights(n, shift)) = n - 1
  BY <1>1 DEF LithuanianWeights, IsWeights
<1>4. a(0) = b(0) /\ a(2) = b(2)
  BY <1>3, LastSumStays
<1> HIDE DEF a, b
<1> QED BY <1>1, <1>2, <1>4

(* Turkey. *)
TurkishPart(v, i) ==
  LET place == 10 - i
      shifted == (v + place) % 10
      part == (shifted * 2 ^ place) % 9
  IN  IF shifted # 0 /\ part = 0 THEN 9 ELSE part

TurkishSum(n) == SumFunction([i \in 1..9 |-> TurkishPart(n[i], i)])

LEMMA TurkishSumIs == \A n : tr_vkn(n) => Len(n) = 10 /\ (10 - (TurkishSum(n) % 10)) % 10 = n[10]
<1> TAKE n
<1>1. tr_vkn(n) => Len(n) = 10
  BY Zenon DEF tr_vkn, OfLength
<1>2. tr_vkn(n) => (10 - (TurkishSum(n) % 10)) % 10 = n[10]
  BY Zenon DEF tr_vkn, TurkishSum, TurkishPart
<1> QED BY <1>1, <1>2

LEMMA tr_vkn_Last ==
  ASSUME NEW w, NEW r, NEW n, DiffersLast(w, r, n), tr_vkn(w), tr_vkn(r)
  PROVE  FALSE
<1>1. n = 10 /\ w[10] # r[10] /\ (\A x \in 1..9 : r[x] = w[x])
  <2>1. Len(w) = 10
    BY TurkishSumIs
  <2>2. Len(w) = n /\ Len(r) = n /\ w[n] # r[n] /\ n - 1 \in Nat /\ (\A x \in 1..(n - 1) : r[x] = w[x])
    BY LastDiffers
  <2>3. n = 10
    BY <2>1, <2>2
  <2>4. w[10] # r[10] /\ (\A x \in 1..(10 - 1) : r[x] = w[x])
    BY <2>2, <2>3, Zenon
  <2> QED BY <2>1, <2>2, <2>3, <2>4
<1>2. [i \in 1..9 |-> TurkishPart(w[i], i)] = [i \in 1..9 |-> TurkishPart(r[i], i)]
  BY <1>1
<1>3. TurkishSum(w) = TurkishSum(r)
  BY <1>2, Zenon DEF TurkishSum
<1> QED BY <1>1, <1>3, TurkishSumIs

(* Containers. *)
LEMMA iso6346_Last ==
  ASSUME NEW w, NEW r, NEW n, DiffersLast(w, r, n), iso6346(w), iso6346(r)
  PROVE  FALSE
<1>1. n = 11 /\ w[11] # r[11] /\ (\A x \in 1..10 : r[x] = w[x])
  <2>1. Len(w) = 11
    BY Zenon DEF iso6346
  <2>2. Len(w) = n /\ Len(r) = n /\ w[n] # r[n] /\ n - 1 \in Nat /\ (\A x \in 1..(n - 1) : r[x] = w[x])
    BY LastDiffers
  <2>3. n = 11
    BY <2>1, <2>2
  <2>4. w[11] # r[11] /\ (\A x \in 1..(11 - 1) : r[x] = w[x])
    BY <2>2, <2>3, Zenon
  <2> QED BY <2>1, <2>2, <2>3, <2>4
<1>2. [i \in 1..10 |-> ContainerValue(w[i]) * 2 ^ (i - 1)] = [i \in 1..10 |-> ContainerValue(r[i]) * 2 ^ (i - 1)]
  BY <1>1
<1>3. iso6346_check_digit(w) = iso6346_check_digit(r)
  BY <1>2, Zenon DEF iso6346_check_digit
<1>4. w[11] = iso6346_check_digit(w) /\ r[11] = iso6346_check_digit(r)
  BY Zenon DEF iso6346
<1> QED BY <1>1, <1>3, <1>4

(* Mexico. *)
CurpValue(v) == IF v > Letter("N") THEN v + 1 ELSE v
CurpSum(d) == SumFunction([i \in 1..17 |-> CurpValue(d[i]) * (19 - i)])

LEMMA CurpSumIs == \A d : mx_curp(d) => Len(d) = 18 /\ d[18] = (10 - (CurpSum(d) % 10)) % 10
<1> TAKE d
<1>1. mx_curp(d) => Len(d) = 18 /\ d[18] = curp_check_digit(d)
  BY Zenon DEF mx_curp
<1>2. curp_check_digit(d) = (10 - (CurpSum(d) % 10)) % 10
  BY Zenon DEF curp_check_digit, CurpSum, CurpValue
<1> QED BY <1>1, <1>2

LEMMA mx_curp_Last ==
  ASSUME NEW w, NEW r, NEW n, DiffersLast(w, r, n), mx_curp(w), mx_curp(r)
  PROVE  FALSE
<1>1. n = 18 /\ w[18] # r[18] /\ (\A x \in 1..17 : r[x] = w[x])
  <2>1. Len(w) = 18
    BY CurpSumIs
  <2>2. Len(w) = n /\ Len(r) = n /\ w[n] # r[n] /\ n - 1 \in Nat /\ (\A x \in 1..(n - 1) : r[x] = w[x])
    BY LastDiffers
  <2>3. n = 18
    BY <2>1, <2>2
  <2>4. w[18] # r[18] /\ (\A x \in 1..(18 - 1) : r[x] = w[x])
    BY <2>2, <2>3, Zenon
  <2> QED BY <2>1, <2>2, <2>3, <2>4
<1>2. [i \in 1..17 |-> CurpValue(w[i]) * (19 - i)] = [i \in 1..17 |-> CurpValue(r[i]) * (19 - i)]
  BY <1>1
<1>3. CurpSum(w) = CurpSum(r)
  BY <1>2, Zenon DEF CurpSum
<1> QED BY <1>1, <1>3, CurpSumIs

(* Latvia: a company's check digit weighs one, a person's is computed. *)
LatvianCompany == <<9, 1, 4, 8, 3, 10, 2, 5, 7, 6, 1>>
LatvianPerson == <<10, 5, 8, 4, 2, 1, 6, 3, 7, 9>>

LEMMA LatvianWeightsAre ==
  /\ IsWeights(LatvianCompany) /\ WeightAt(LatvianCompany, 11) = 1
  /\ IsWeights(LatvianPerson) /\ Len(LatvianPerson) = 10
<1>1. Len(LatvianCompany) = 11 /\ LatvianCompany[11] = 1
  BY DEF LatvianCompany
<1>2. WeightAt(LatvianCompany, 11) = 1
  <2>1. ((11 - 1) % 11) + 1 = 11
    OBVIOUS
  <2> QED BY <1>1, <2>1 DEF WeightAt
<1>3. IsWeights(LatvianCompany)
  BY DEF LatvianCompany, IsWeights
<1> QED BY <1>2, <1>3 DEF LatvianPerson, IsWeights

LEMMA LatvianChecks ==
  \A n : lv_pvn(n) =>
    /\ Len(n) = 11 /\ AllDigits(n)
    /\ n[1] > 3 => WeightedMod(n, LatvianCompany, 11) = 3
    /\ ~ (n[1] > 3) => ((1 + WeightedSum(n, LatvianPerson)) % 11) % 10 = n[11]
<1> TAKE n
<1>1. lv_pvn(n) => Len(n) = 11 /\ AllDigits(n)
  BY Zenon DEF lv_pvn, OfLength
<1>2. lv_pvn(n) /\ n[1] > 3 => WeightedMod(n, LatvianCompany, 11) = 3
  BY Zenon DEF lv_pvn, LatvianCompany
<1>3. lv_pvn(n) /\ ~ (n[1] > 3) => ((1 + WeightedSum(n, LatvianPerson)) % 11) % 10 = n[11]
  BY Zenon DEF lv_pvn, LatvianPerson
<1> QED BY <1>1, <1>2, <1>3

LEMMA lv_pvn_Last ==
  ASSUME NEW w, NEW r, NEW n, DiffersLast(w, r, n), lv_pvn(w), lv_pvn(r)
  PROVE  FALSE
<1>1. n = 11 /\ w[11] # r[11] /\ r[1] = w[1] /\ Len(w) = 11 /\ Len(r) = 11
  <2>1. Len(w) = 11
    BY LatvianChecks
  <2>2. Len(w) = n /\ Len(r) = n /\ w[n] # r[n] /\ n - 1 \in Nat /\ (\A x \in 1..(n - 1) : r[x] = w[x])
    BY LastDiffers
  <2>3. n = 11
    BY <2>1, <2>2
  <2>4. w[11] # r[11] /\ (\A x \in 1..(11 - 1) : r[x] = w[x])
    BY <2>2, <2>3, Zenon
  <2> QED BY <2>1, <2>2, <2>3, <2>4
<1>2. w[11] \in 0..9 /\ r[11] \in 0..9
  BY <1>1, LatvianChecks, LastDiffers DEF AllDigits, IsDigit
<1>3. CASE w[1] > 3
  <2>1. WeightedMod(w, LatvianCompany, 11) = 3 /\ WeightedMod(r, LatvianCompany, 11) = 3
    BY <1>1, <1>3, LatvianChecks
  <2>2. IsWeights(LatvianCompany) /\ WeightAt(LatvianCompany, n) \in Mild /\ 11 \in Primes
    BY <1>1, LatvianWeightsAre DEF Mild, Primes
  <2>3. Differs(w, r, n) /\ w[n] \in 0..9 /\ r[n] \in 0..9
    BY <1>1, <1>2 DEF DiffersLast
  <2>4. WeightedMod(w, LatvianCompany, 11) # WeightedMod(r, LatvianCompany, 11)
    BY <2>2, <2>3, PrimeDiffers
  <2> QED BY <2>1, <2>4
<1>4. CASE ~ (w[1] > 3)
  <2>1. ((1 + WeightedSum(w, LatvianPerson)) % 11) % 10 = w[11] /\ ((1 + WeightedSum(r, LatvianPerson)) % 11) % 10 = r[11]
    BY <1>1, <1>4, LatvianChecks
  <2>2. IsWeights(LatvianPerson) /\ Len(LatvianPerson) = n - 1
    BY <1>1, LatvianWeightsAre
  <2>3. WeightedSum(w, LatvianPerson) = WeightedSum(r, LatvianPerson)
    BY <2>2, LastSumStays
  <2> QED BY <1>1, <2>1, <2>3
<1> QED BY <1>3, <1>4

(* Romania. *)
RomanianPerson == <<2, 7, 9, 1, 4, 6, 3, 5, 8, 2, 7, 9>>
RomanianCompany == <<7, 5, 3, 2, 1, 7, 5, 3, 2>>
RomanianWeights(length) == Slice(RomanianCompany, 10 - length, 9)

LEMMA RomanianWeightsAre ==
  /\ IsWeights(RomanianPerson) /\ Len(RomanianPerson) = 12
  /\ \A k \in 4..10 : IsWeights(RomanianWeights(k)) /\ Len(RomanianWeights(k)) = k - 1
<1>1. IsWeights(RomanianPerson) /\ Len(RomanianPerson) = 12
  BY DEF RomanianPerson, IsWeights
<1>2. RomanianCompany \in Seq(Characters) /\ Len(RomanianCompany) = 9
  BY DEF RomanianCompany, Characters
<1>3. ASSUME NEW k \in 4..10 PROVE IsWeights(RomanianWeights(k)) /\ Len(RomanianWeights(k)) = k - 1
  <2>1. 10 - k \in Nat /\ 9 \in Nat /\ 10 - k <= 9 /\ 9 <= Len(RomanianCompany)
    BY <1>2
  <2>2. RomanianWeights(k) \in Seq(Characters) /\ Len(RomanianWeights(k)) = 9 - (10 - k)
    BY <1>2, <2>1, SliceIs DEF RomanianWeights
  <2>3. 9 - (10 - k) = k - 1 /\ k - 1 \in Nat \ {0}
    OBVIOUS
  <2>4. RomanianWeights(k) \in Seq(Int)
    BY <2>2, CharactersAreNumbers
  <2> QED BY <2>2, <2>3, <2>4 DEF IsWeights
<1> QED BY <1>1, <1>3

LEMMA RomanianChecks ==
  \A n : ro_cf(n) =>
    \/ /\ Len(n) = 13
       /\ LET check == WeightedSum(n, RomanianPerson) % 11 IN (IF check = 10 THEN 1 ELSE check) = n[13]
    \/ Len(n) \in 4..10 /\ ((10 * WeightedSum(n, RomanianWeights(Len(n)))) % 11) % 10 = n[Len(n)]
<1> TAKE n
<1>1. ro_cnp(n) => LET check == WeightedSum(n, RomanianPerson) % 11 IN (IF check = 10 THEN 1 ELSE check) = n[13]
  BY Zenon DEF ro_cnp, RomanianPerson
<1>2. ro_cf(n) => \/ Len(n) \in {13} /\ ro_cnp(n)
                  \/ Len(n) \in 4..10 /\ ((10 * WeightedSum(n, RomanianWeights(Len(n)))) % 11) % 10 = n[Len(n)]
  BY Zenon DEF ro_cf, OfLength, RomanianWeights, RomanianCompany
<1> QED BY <1>1, <1>2

LEMMA ro_cf_Last ==
  ASSUME NEW w, NEW r, NEW n, DiffersLast(w, r, n), ro_cf(w), ro_cf(r)
  PROVE  FALSE
<1>1. Len(w) = n /\ Len(r) = n /\ w[n] # r[n]
  BY LastDiffers
<1>2. CASE n = 13
  <2> DEFINE a == WeightedSum(w, RomanianPerson)
             b == WeightedSum(r, RomanianPerson)
  <2>1. (IF a % 11 = 10 THEN 1 ELSE a % 11) = w[13] /\ (IF b % 11 = 10 THEN 1 ELSE b % 11) = r[13]
    <3>1. 13 \notin 4..10 /\ Len(w) = 13 /\ Len(r) = 13
      BY <1>1, <1>2
    <3>2. LET check == a % 11 IN (IF check = 10 THEN 1 ELSE check) = w[13]
      BY <3>1, RomanianChecks, Zenon
    <3>3. LET check == b % 11 IN (IF check = 10 THEN 1 ELSE check) = r[13]
      BY <3>1, RomanianChecks, Zenon
    <3> QED BY <3>2, <3>3
  <2>2. IsWeights(RomanianPerson) /\ Len(RomanianPerson) = n - 1
    BY <1>2, RomanianWeightsAre
  <2>3. a = b
    BY <2>2, LastSumStays
  <2> QED BY <1>1, <1>2, <2>1, <2>3
<1>3. CASE n # 13
  <2> DEFINE ws == RomanianWeights(n)
  <2>1. /\ n \in 4..10
        /\ ((10 * WeightedSum(w, ws)) % 11) % 10 = w[n] /\ ((10 * WeightedSum(r, ws)) % 11) % 10 = r[n]
    BY <1>1, <1>3, RomanianChecks
  <2>2. IsWeights(ws) /\ Len(ws) = n - 1
    BY <2>1, RomanianWeightsAre
  <2> HIDE DEF ws
  <2>3. WeightedSum(w, ws) = WeightedSum(r, ws)
    BY <2>2, LastSumStays
  <2> QED BY <1>1, <2>1, <2>3
<1> QED BY <1>2, <1>3

(* Slovakia: a birth number's last digit, or a multiple of eleven. *)
SlovakCheck(m, p) == m % 10 = p \/ (10 * m + p) % 11 = 0

LEMMA SlovakTurn ==
  ASSUME NEW m \in 0..10, NEW p \in 0..9, NEW q \in 0..9, SlovakCheck(m, p), SlovakCheck(m, q)
  PROVE  p = q
BY DEF SlovakCheck

LEMMA SlovakChecks ==
  ASSUME NEW n, n \in Seq(Characters), sk_dph(n)
  PROVE  Len(n) = 10 /\ AllDigits(n) /\ IntegerMod(Slice(n, 0, 9), 11) \in 0..10 /\ SlovakCheck(IntegerMod(Slice(n, 0, 9), 11), n[10])
<1>1. Len(n) = 10 /\ AllDigits(n)
  BY Zenon DEF sk_dph, OfLength
<1> DEFINE m == IntegerMod(Slice(n, 0, 9), 11)
<1>2. cz_rodne_cislo(n) \/ IntegerMod(n, 11) = 0
  BY Zenon DEF sk_dph
<1>3. cz_rodne_cislo(n) => m % 10 = n[10]
  <2>1. Len(n) # 9
    BY <1>1
  <2> QED BY <2>1, Zenon DEF cz_rodne_cislo
<1>4. IntegerMod(n, 11) = (10 * m + n[10]) % 11 /\ m \in Residues(11)
  <2>1. 10 \in Nat \ {0} /\ 9 = 10 - 1 /\ 11 \in Moduli
    BY DEF Moduli
  <2> QED BY <1>1, <2>1, IntegerModOneMore
<1> HIDE DEF m
<1>5. SlovakCheck(m, n[10])
  BY <1>2, <1>3, <1>4 DEF SlovakCheck
<1>6. m \in 0..10
  BY <1>4 DEF Residues
<1> QED BY <1>1, <1>5, <1>6 DEF m

LEMMA sk_dph_Last ==
  ASSUME NEW w, NEW r, NEW n, DiffersLast(w, r, n), sk_dph(w), sk_dph(r)
  PROVE  FALSE
<1> DEFINE m == IntegerMod(Slice(w, 0, 9), 11)
<1>1. /\ Len(w) = 10 /\ AllDigits(w) /\ AllDigits(r) /\ Len(r) = 10 /\ m \in 0..10
      /\ SlovakCheck(m, w[10]) /\ SlovakCheck(IntegerMod(Slice(r, 0, 9), 11), r[10])
  BY LastDiffers, SlovakChecks
<1>2. n = 10 /\ 9 = n - 1
  <2>1. Len(w) = n
    BY LastDiffers
  <2>2. n = 10
    BY <1>1, <2>1, Zenon
  <2> QED BY <2>2
<1>3. Slice(w, 0, 9) = Slice(r, 0, 9) /\ w[10] # r[10]
  BY <1>2, LastSliceStays, LastDiffers
<1>4. SlovakCheck(m, r[10])
  BY <1>1, <1>3
<1>5. w[10] \in 0..9 /\ r[10] \in 0..9
  BY <1>1 DEF AllDigits, IsDigit
<1> HIDE DEF m
<1> QED BY <1>1, <1>3, <1>4, <1>5, SlovakTurn

(* Every folding scheme with a check digit computes it. *)
ComputesItsLast(s) == s \in Folding \ {"BG", "CZ", "NL", "pan"}

LEMMA LastIsComputed ==
  ASSUME NEW w, NEW r, NEW n, DiffersLast(w, r, n), NEW s, ComputesItsLast(s), Agrees(s, w), Agrees(s, r)
  PROVE  FALSE
<1>1. \/ s = "EL" \/ s = "LT" \/ s = "LV" \/ s = "PT" \/ s = "RO" \/ s = "SK" \/ s = "ME" \/ s = "MK" \/ s = "RU"
      \/ s = "TR" \/ s = "imo" \/ s = "iso6346" \/ s = "curp"
  BY DEF ComputesItsLast, Folding
<1>2. \A d : /\ Agrees("EL", d) <=> el_afm(d)
             /\ Agrees("LT", d) <=> lt_pvm(d)
             /\ Agrees("LV", d) <=> lv_pvn(d)
             /\ Agrees("PT", d) <=> pt_nif(d)
             /\ Agrees("RO", d) <=> ro_cf(d)
  BY DEF Agrees
<1>3. \A d : /\ Agrees("SK", d) <=> sk_dph(d)
             /\ Agrees("ME", d) <=> me_pib(d)
             /\ Agrees("MK", d) <=> mk_edb(d)
             /\ Agrees("RU", d) <=> ru_inn(d)
             /\ Agrees("TR", d) <=> tr_vkn(d)
  BY DEF Agrees
<1>4. \A d : /\ Agrees("imo", d) <=> imo(d)
             /\ Agrees("iso6346", d) <=> iso6346(d)
             /\ Agrees("curp", d) <=> mx_curp(d)
  BY DEF Agrees
<1> QED BY <1>1, <1>2, <1>3, <1>4, el_afm_Last, lt_pvm_Last, lv_pvn_Last, pt_nif_Last, ro_cf_Last, sk_dph_Last,
           me_pib_Last, mk_edb_Last, ru_inn_Last, tr_vkn_Last, imo_Last, iso6346_Last, mx_curp_Last

-----------------------------------------------------------------------------
(* Cyprus. *)
CypriotEven == <<1, 0, 5, 7, 9, 13, 15, 17, 19, 21>>
CypriotValue(x, v) == IF v \in 0..9 THEN (IF x % 2 = 1 THEN CypriotEven[v + 1] ELSE v) ELSE 0
CypriotTerm == [p \in (1..8) \X Characters |-> CypriotValue(p[1], p[2])]

LEMMA CypriotEvenIs ==
  ASSUME NEW a \in 0..9
  PROVE  CypriotEven[a + 1] \in 0..21
<1>1. TenDigits(a)
  BY DigitIsOneOfTen
<1> QED BY <1>1 DEF TenDigits, CypriotEven

LEMMA CypriotEvenTells ==
  ASSUME NEW a \in 0..9, NEW b \in 0..9, a # b
  PROVE  /\ (CypriotEven[b + 1] - CypriotEven[a + 1]) % 26 # 0
         /\ ((CypriotEven[b + 1] - b) - (CypriotEven[a + 1] - a)) % 26 # 0
<1>1. TenDigits(a) /\ TenDigits(b)
  BY DigitIsOneOfTen
<1> QED BY <1>1 DEF TenDigits, CypriotEven

LEMMA CypriotTermIs ==
  ASSUME NEW term, term = CypriotTerm
  PROVE  IsTerm(term, 8, Characters) /\ \A x \in 1..8 : \A v \in 0..9 : term[<<x, v>>] = CypriotValue(x, v)
<1>1. \A x \in 1..8 : \A v \in Characters : term[<<x, v>>] = CypriotValue(x, v)
  BY DEF CypriotTerm
<1>2. \A x \in 1..8 : \A v \in Characters : CypriotValue(x, v) \in Int
  BY CypriotEvenIs DEF CypriotValue
<1>3. 0..9 \subseteq Characters
  BY DEF Characters
<1> QED BY <1>1, <1>2, <1>3 DEF IsTerm

LEMMA CypriotChecks ==
  ASSUME NEW n, n \in Seq(Characters), cy_tic(n), NEW term, term = CypriotTerm
  PROVE  /\ Len(n) = 9 /\ \A x \in 1..8 : n[x] \in 0..9
         /\ n[9] = 10 + (SumOver(term, n, 8) % 26)
<1>1. Len(n) = 9 /\ AllDigits(Slice(n, 0, 8))
  BY Zenon DEF cy_tic
<1>2. \A x \in 1..8 : n[x] \in 0..9
  <2>1. 0 \in Nat /\ 8 \in Nat /\ 0 <= 8 /\ 8 <= Len(n)
    BY <1>1
  <2>2. Len(Slice(n, 0, 8)) = 8 - 0 /\ \A x \in 1..(8 - 0) : Slice(n, 0, 8)[x] = n[0 + x]
    BY <2>1, SliceIs
  <2>3. Slice(n, 0, 8) \in Seq(Characters)
    BY <2>1, SliceIs
  <2>4. \A x \in 1..8 : IsDigit(Slice(n, 0, 8)[x])
    BY <1>1, <2>2, <2>3 DEF AllDigits
  <2> QED BY <2>2, <2>4 DEF IsDigit
<1>3. n[9] = 10 + (SumFunction([x \in 1..8 |-> IF x % 2 = 1 THEN CypriotEven[n[x] + 1] ELSE n[x]]) % 26)
  BY Zenon DEF cy_tic, CypriotEven
<1>4. [x \in 1..8 |-> IF x % 2 = 1 THEN CypriotEven[n[x] + 1] ELSE n[x]] = [x \in 1..8 |-> term[<<x, n[x]>>]]
  <2>1. \A x \in 1..8 : term[<<x, n[x]>>] = CypriotValue(x, n[x])
    BY <1>2, CypriotTermIs
  <2>2. \A x \in 1..8 : CypriotValue(x, n[x]) = IF x % 2 = 1 THEN CypriotEven[n[x] + 1] ELSE n[x]
    BY <1>2 DEF CypriotValue
  <2> QED BY <2>1, <2>2
<1> QED BY <1>1, <1>2, <1>3, <1>4 DEF SumOver

LEMMA cy_tic_Differs ==
  ASSUME NEW w, NEW r, NEW i, Differs(w, r, i)
  PROVE  ~ (cy_tic(w) /\ cy_tic(r))
<1>0. SUFFICES ASSUME cy_tic(w), cy_tic(r) PROVE FALSE
  OBVIOUS
<1>1. PICK term : term = CypriotTerm
  OBVIOUS
<1> DEFINE a == SumOver(term, w, 8)
           b == SumOver(term, r, 8)
<1>2. /\ Len(w) = 9 /\ (\A x \in 1..8 : w[x] \in 0..9) /\ w[9] = 10 + (a % 26)
      /\ (\A x \in 1..8 : r[x] \in 0..9) /\ r[9] = 10 + (b % 26)
  BY <1>0, <1>1, CypriotChecks DEF Differs
<1>3. i \in 1..9 /\ r[i] # w[i] /\ (i # 9 => r[9] = w[9])
  BY <1>2 DEF Differs
<1>4. Grows(a, b, Misread1(term, w, r, i, 8))
  <2>1. w \in Seq(Characters) /\ r \in Seq(Characters) /\ 8 <= Len(w) /\ IsTerm(term, 8, Characters)
    BY <1>1, <1>2, CypriotTermIs DEF Differs
  <2> QED BY <2>1, SumOverDiffers
<1> HIDE DEF a, b
<1>5. CASE i = 9
  <2>1. Misread1(term, w, r, i, 8) = 0
    BY <1>5 DEF Misread1
  <2>2. a = b
    BY <1>4, <2>1 DEF Grows
  <2> QED BY <1>2, <1>3, <1>5, <2>2
<1>6. CASE i # 9
  <2>1. i \in 1..8 /\ w[i] \in 0..9 /\ r[i] \in 0..9 /\ w[i] # r[i]
    BY <1>2, <1>3, <1>6
  <2>2. term[<<i, r[i]>>] = CypriotValue(i, r[i]) /\ term[<<i, w[i]>>] = CypriotValue(i, w[i])
    BY <1>1, <2>1, CypriotTermIs
  <2>3. Misread1(term, w, r, i, 8) = CypriotValue(i, r[i]) - CypriotValue(i, w[i])
    BY <2>1, <2>2 DEF Misread1
  <2>4. (CypriotValue(i, r[i]) - CypriotValue(i, w[i])) % 26 # 0
    <3>1. CASE i % 2 = 1
      <4>1. (CypriotEven[r[i] + 1] - CypriotEven[w[i] + 1]) % 26 # 0
        BY <2>1, CypriotEvenTells
      <4> QED BY <2>1, <3>1, <4>1 DEF CypriotValue
    <3>2. CASE i % 2 # 1
      <4>1. CypriotValue(i, r[i]) = r[i] /\ CypriotValue(i, w[i]) = w[i]
        BY <2>1, <3>2 DEF CypriotValue
      <4> QED BY <2>1, <4>1
    <3> QED BY <3>1, <3>2
  <2>5. a % 26 # b % 26 /\ a \in Int /\ b \in Int
    BY <1>4, <2>3, <2>4, Sees26
  <2> QED BY <1>2, <1>3, <1>6, <2>5
<1> QED BY <1>5, <1>6

LEMMA cy_tic_Exchanged ==
  ASSUME NEW w, NEW r, NEW i, Exchanged(w, r, i)
  PROVE  ~ (cy_tic(w) /\ cy_tic(r))
<1>0. SUFFICES ASSUME cy_tic(w), cy_tic(r) PROVE FALSE
  OBVIOUS
<1>1. PICK term : term = CypriotTerm
  OBVIOUS
<1> DEFINE a == SumOver(term, w, 8)
           b == SumOver(term, r, 8)
<1>2. /\ Len(w) = 9 /\ (\A x \in 1..8 : w[x] \in 0..9) /\ w[9] = 10 + (a % 26)
      /\ (\A x \in 1..8 : r[x] \in 0..9) /\ r[9] = 10 + (b % 26)
  BY <1>0, <1>1, CypriotChecks, Zenon DEF Exchanged
<1>3. i \in 1..8 /\ r[i] = w[i + 1] /\ r[i + 1] = w[i] /\ w[i] # w[i + 1] /\ (i # 8 => r[9] = w[9])
  BY <1>2 DEF Exchanged
<1>4. Grows(a, b, Swapped1(term, w, i, 8))
  <2>1. w \in Seq(Characters) /\ r \in Seq(Characters) /\ 8 <= Len(w) /\ IsTerm(term, 8, Characters)
    BY <1>1, <1>2, CypriotTermIs DEF Exchanged
  <2> QED BY <2>1, SumOverExchanged
<1> HIDE DEF a, b
<1>5. CASE i = 8
  <2>1. r[8] \in 0..9 /\ r[8] = w[9] /\ a \in Int /\ w[9] = 10 + (a % 26)
    BY <1>2, <1>3, <1>4, <1>5 DEF Grows
  <2> QED BY <2>1
<1>6. CASE i # 8
  <2>1. i \in 1..7 /\ i + 1 \in 1..8 /\ w[i] \in 0..9 /\ w[i + 1] \in 0..9 /\ w[i] # w[i + 1]
    <3>1. i \in 1..7 /\ i \in 1..8 /\ i + 1 \in 1..8
      BY <1>3, <1>6
    <3> QED BY <1>2, <1>3, <3>1
  <2> DEFINE p == w[i]
             q == w[i + 1]
  <2>2. /\ term[<<i, p>>] = CypriotValue(i, p) /\ term[<<i, q>>] = CypriotValue(i, q)
        /\ term[<<i + 1, p>>] = CypriotValue(i + 1, p) /\ term[<<i + 1, q>>] = CypriotValue(i + 1, q)
    <3>1. \A x \in 1..8 : \A v \in 0..9 : term[<<x, v>>] = CypriotValue(x, v)
      BY <1>1, CypriotTermIs
    <3>2. i \in 1..8 /\ i + 1 \in 1..8
      BY <2>1
    <3> QED BY <2>1, <3>1, <3>2, Zenon
  <2>3. Swapped1(term, w, i, 8) = (CypriotValue(i, q) - CypriotValue(i, p)) + (CypriotValue(i + 1, p) - CypriotValue(i + 1, q))
    BY <2>1, <2>2 DEF Swapped1
  <2> HIDE DEF p, q
  <2>4. p \in 0..9 /\ q \in 0..9 /\ p # q
    BY <2>1 DEF p, q
  <2>5. ((CypriotValue(i, q) - CypriotValue(i, p)) + (CypriotValue(i + 1, p) - CypriotValue(i + 1, q))) % 26 # 0
    <3>0. /\ ((CypriotEven[q + 1] - CypriotEven[p + 1]) + (p - q)) % 26 # 0
          /\ ((q - p) + (CypriotEven[p + 1] - CypriotEven[q + 1])) % 26 # 0
      <4>1. /\ CypriotEven[p + 1] \in 0..25 /\ CypriotEven[q + 1] \in 0..25
            /\ ((CypriotEven[q + 1] - q) - (CypriotEven[p + 1] - p)) % 26 # 0
            /\ p \in 0..25 /\ q \in 0..25
        BY <2>4, CypriotEvenIs, CypriotEvenTells
      <4> QED BY <4>1, GapTurns, Zenon
    <3>1. CASE i % 2 = 1
      <4>1. (i + 1) % 2 # 1
        BY <2>1, <3>1
      <4>2. /\ CypriotValue(i, p) = CypriotEven[p + 1] /\ CypriotValue(i, q) = CypriotEven[q + 1]
            /\ CypriotValue(i + 1, p) = p /\ CypriotValue(i + 1, q) = q
        BY <2>4, <3>1, <4>1 DEF CypriotValue
      <4> QED BY <2>4, <3>0, <4>2
    <3>2. CASE i % 2 # 1
      <4>1. (i + 1) % 2 = 1
        BY <2>1, <3>2
      <4>2. /\ CypriotValue(i + 1, p) = CypriotEven[p + 1] /\ CypriotValue(i + 1, q) = CypriotEven[q + 1]
            /\ CypriotValue(i, p) = p /\ CypriotValue(i, q) = q
        BY <2>4, <3>2, <4>1 DEF CypriotValue
      <4> QED BY <2>4, <3>0, <4>2
    <3> QED BY <3>1, <3>2
  <2>6. a % 26 # b % 26 /\ a \in Int /\ b \in Int
    BY <1>4, <2>3, <2>5, Sees26
  <2> QED BY <1>2, <1>3, <1>6, <2>6
<1> QED BY <1>5, <1>6

-----------------------------------------------------------------------------
(* Italy's table, its inverse, and what it adds to a character's own value. *)
OddInverse == <<1, 0, 10, 15, 11, 2, 16, 3, 17, 4, 21, 14, 18, 5, 19, 6, 20, 7, 12, 8, 13, 9, 22, 25, 24, 23>>
GapInverse == <<22, 0, 23, 2, 3, 4, 12, 13, 5, 6, 7, 8, 9, 0, 15, 21, 16, 17, 10, 11, 18, 19, 20, 14, 25, 1>>
BothInverse == <<0, 0, 0, 0, 12, 21, 0, 13, 0, 0, 20, 0, 0, 0, 0, 11, 0, 0, 15, 0, 0, 0, 16, 0, 0, 17>>
ReplacedOrdinals == (11..13) \union (15..21)

OddPlace(x) == OddPlaces[x + 1]

LEMMA OddPlacesAre == \A x \in 0..25 : /\ OddPlace(x) \in 0..25 /\ OddInverse[OddPlace(x) + 1] = x
                                     /\ GapInverse[((OddPlace(x) - x) % 26) + 1] = (IF x = 24 THEN 22 ELSE x)
<1> TAKE x \in 0..25
<1>1. \/ x = 0 \/ x = 1 \/ x = 2 \/ x = 3 \/ x = 4 \/ x = 5 \/ x = 6 \/ x = 7 \/ x = 8
      \/ x = 9 \/ x = 10 \/ x = 11 \/ x = 12 \/ x = 13 \/ x = 14 \/ x = 15 \/ x = 16 \/ x = 17
      \/ x = 18 \/ x = 19 \/ x = 20 \/ x = 21 \/ x = 22 \/ x = 23 \/ x = 24 \/ x = 25
  OBVIOUS
<1> QED BY <1>1 DEF OddPlace, OddPlaces, OddInverse, GapInverse

LEMMA BothAre == \A x \in ReplacedOrdinals :
  BothInverse[((OddPlace(x) + x) % 26) + 1] = (IF x = 18 THEN 12 ELSE IF x = 19 THEN 13 ELSE x)
<1> TAKE x \in ReplacedOrdinals
<1>1. x = 11 \/ x = 12 \/ x = 13 \/ x = 15 \/ x = 16 \/ x = 17 \/ x = 18 \/ x = 19 \/ x = 20 \/ x = 21
  BY DEF ReplacedOrdinals
<1> QED BY <1>1 DEF OddPlace, OddPlaces, BothInverse

LEMMA OddPlacesTell ==
  ASSUME NEW x \in 0..25, NEW y \in 0..25, x # y
  PROVE  (OddPlace(y) - OddPlace(x)) % 26 # 0
<1>1. OddPlace(x) \in 0..25 /\ OddPlace(y) \in 0..25 /\ OddPlace(x) # OddPlace(y)
  <2>1. OddPlace(x) \in 0..25 /\ OddPlace(y) \in 0..25
    BY OddPlacesAre
  <2>2. OddInverse[OddPlace(x) + 1] = x /\ OddInverse[OddPlace(y) + 1] = y
    BY OddPlacesAre
  <2> QED BY <2>1, <2>2, Zenon
<1> QED BY <1>1

LEMMA GapsTell ==
  ASSUME NEW x \in 0..25, NEW y \in 0..25, x # y, {x, y} # {22, 24}
  PROVE  ((OddPlace(y) - y) - (OddPlace(x) - x)) % 26 # 0
<1>1. OddPlace(x) \in 0..25 /\ OddPlace(y) \in 0..25 /\ (OddPlace(x) - x) % 26 # (OddPlace(y) - y) % 26
  <2>1. (OddPlace(x) - x) % 26 = (OddPlace(y) - y) % 26 => (IF x = 24 THEN 22 ELSE x) = (IF y = 24 THEN 22 ELSE y)
    <3>1. /\ GapInverse[((OddPlace(x) - x) % 26) + 1] = (IF x = 24 THEN 22 ELSE x)
          /\ GapInverse[((OddPlace(y) - y) % 26) + 1] = (IF y = 24 THEN 22 ELSE y)
      BY OddPlacesAre, Zenon
    <3> QED BY <3>1, Zenon
  <2>2. OddPlace(x) \in 0..25 /\ OddPlace(y) \in 0..25
    BY OddPlacesAre
  <2> QED BY <2>1, <2>2
<1> DEFINE p == OddPlace(x) - x
           q == OddPlace(y) - y
<1>2. p \in Int /\ q \in Int /\ p % 26 # q % 26
  <2>1. ASSUME NEW s \in 0..25, NEW t \in 0..25 PROVE s - t \in Int
    OBVIOUS
  <2>2. p \in Int /\ q \in Int
    BY <1>1, <2>1, Zenon
  <2> QED BY <1>1, <2>2, Zenon
<1> HIDE DEF p, q
<1>3. (q - p) % 26 # 0
  BY <1>2
<1> QED BY <1>3 DEF p, q

(* The check letter and the one before it, exchanged. *)
LEMMA BothTell ==
  ASSUME NEW x \in ReplacedOrdinals, NEW y \in ReplacedOrdinals, x # y, {x, y} \notin {{12, 18}, {13, 19}}
  PROVE  ((OddPlace(y) + y) - (OddPlace(x) + x)) % 26 # 0
<1>1. x \in 0..25 /\ y \in 0..25
  BY DEF ReplacedOrdinals
<1>2. OddPlace(x) \in 0..25 /\ OddPlace(y) \in 0..25
  BY <1>1, OddPlacesAre
<1>3. (OddPlace(x) + x) % 26 # (OddPlace(y) + y) % 26
  <2>1. /\ BothInverse[((OddPlace(x) + x) % 26) + 1] = (IF x = 18 THEN 12 ELSE IF x = 19 THEN 13 ELSE x)
        /\ BothInverse[((OddPlace(y) + y) % 26) + 1] = (IF y = 18 THEN 12 ELSE IF y = 19 THEN 13 ELSE y)
    BY BothAre, Zenon
  <2>2. (IF x = 18 THEN 12 ELSE IF x = 19 THEN 13 ELSE x) # (IF y = 18 THEN 12 ELSE IF y = 19 THEN 13 ELSE y)
    BY <1>1, SMT
  <2> QED BY <2>1, <2>2, Zenon
<1> DEFINE p == OddPlace(x) + x
           q == OddPlace(y) + y
<1>4. p \in Int /\ q \in Int /\ p % 26 # q % 26
  BY <1>1, <1>2, <1>3
<1> HIDE DEF p, q
<1>5. (q - p) % 26 # 0
  BY <1>4
<1> QED BY <1>5 DEF p, q

(* The characters a number may have at each place. *)
OmocodiaRange == (0..9) \union (21..23) \union (25..31)

LEMMA OmocodiaIs == \A v \in Omocodia : v \in OmocodiaRange
<1> TAKE v \in Omocodia
<1> DEFINE names == <<"L", "M", "N", "P", "Q", "R", "S", "T", "U", "V">>
<1>1. v \in 0..9 \/ v \in ToSet(Alphabet(names))
  BY DEF Omocodia, AnyDigit, Names
<1>2. v \in ToSet(Alphabet(names)) => v \in OmocodiaRange
  <2>1. SUFFICES ASSUME v \in ToSet(Alphabet(names)) PROVE v \in OmocodiaRange
    OBVIOUS
  <2>2. PICK i \in DOMAIN names : v = Letter(names[i])
    BY <2>1, NamesAre, Zenon
  <2>3. names[i] \in {"L", "M", "N", "P", "Q", "R", "S", "T", "U", "V"}
    OBVIOUS
  <2>4. v \in {21, 22, 23, 25, 26, 27, 28, 29, 30, 31}
    BY <2>2, <2>3, LettersAre
  <2> QED BY <2>4 DEF OmocodiaRange
<1> QED BY <1>1, <1>2 DEF OmocodiaRange

LEMMA MonthLettersAre == \A v \in MonthLetters : v \in 10..35
<1> TAKE v \in MonthLetters
<1> DEFINE names == <<"A", "B", "C", "D", "E", "H", "L", "M", "P", "R", "S", "T">>
<1>1. v \in ToSet(Alphabet(names))
  BY DEF MonthLetters, Names
<1>2. PICK i \in DOMAIN names : v = Letter(names[i])
  BY <1>1, NamesAre, Zenon
<1>3. names[i] \in {"A", "B", "C", "D", "E", "H", "L", "M", "P", "R", "S", "T"}
  OBVIOUS
<1> QED BY <1>2, <1>3, LettersAre

LEMMA CinPlaces ==
  ASSUME NEW n, n \in Seq(Characters), it_codice_fiscale(n)
  PROVE  /\ Len(n) = 16
         /\ \A x \in (1..6) \union {9, 12} : n[x] \in 10..35
         /\ \A x \in {7, 8, 10, 11, 13, 14, 15} : n[x] \in OmocodiaRange
         /\ \A x \in 1..15 : n[x] \in 0..35
         /\ n[16] = cin_check_character(n)
<1>1. /\ Len(n) = 16 /\ n[16] = cin_check_character(n) /\ n[9] \in MonthLetters /\ IsLetter(n[12])
      /\ Spells(n, 0, 6, AnyLetter) /\ Spells(n, 6, 8, Omocodia) /\ Spells(n, 9, 11, Omocodia) /\ Spells(n, 12, 15, Omocodia)
  BY Zenon DEF it_codice_fiscale
<1>2. n[9] \in 10..35 /\ n[12] \in 10..35
  BY <1>1, MonthLettersAre DEF IsLetter
<1>3. \A x \in 1..6 : n[x] \in 10..35
  <2>1. \A x \in (0 + 1)..6 : n[x] \in 10..35
    BY <1>1, Zenon DEF Spells, AnyLetter
  <2>2. \A x \in 1..6 : x \in (0 + 1)..6
    OBVIOUS
  <2> QED BY <2>1, <2>2, Zenon
<1>4. \A x \in {7, 8, 10, 11, 13, 14, 15} : n[x] \in Omocodia
  BY <1>1, SMT DEF Spells
<1>5. \A x \in {7, 8, 10, 11, 13, 14, 15} : n[x] \in OmocodiaRange
  BY <1>4, OmocodiaIs
<1>6. \A x \in 1..15 : n[x] \in 0..35
  <2> TAKE x \in 1..15
  <2>1. x \in 1..6 \/ x = 9 \/ x = 12 \/ x \in {7, 8, 10, 11, 13, 14, 15}
    OBVIOUS
  <2>2. OmocodiaRange \subseteq 0..35
    BY DEF OmocodiaRange
  <2>3. n[x] \in 10..35 \/ n[x] \in OmocodiaRange
    BY <1>2, <1>3, <1>5, <2>1, Zenon
  <2>4. 10..35 \subseteq 0..35
    OBVIOUS
  <2> QED BY <2>2, <2>3, <2>4, Zenon
<1>7. \A x \in (1..6) \union {9, 12} : n[x] \in 10..35
  <2>1. \A x \in (1..6) \union {9, 12} : x \in 1..6 \/ x = 9 \/ x = 12
    OBVIOUS
  <2> QED BY <1>2, <1>3, <2>1, Zenon
<1> QED BY <1>1, <1>5, <1>6, <1>7, Zenon

CinOrdinal(v) == IF IsDigit(v) THEN v ELSE v - 10
CinValue(x, v) == IF v \in 0..35 THEN (IF x % 2 = 1 THEN OddPlace(CinOrdinal(v)) ELSE CinOrdinal(v)) ELSE 0
CinTerm == [p \in (1..15) \X Characters |-> CinValue(p[1], p[2])]

LEMMA CinOrdinalIs == \A v \in 0..35 : CinOrdinal(v) \in 0..25
BY DEF CinOrdinal, IsDigit

LEMMA CinTermIs ==
  ASSUME NEW term, term = CinTerm
  PROVE  IsTerm(term, 15, Characters) /\ \A x \in 1..15 : \A v \in 0..35 : term[<<x, v>>] = CinValue(x, v)
<1>1. \A x \in 1..15 : \A v \in Characters : term[<<x, v>>] = CinValue(x, v)
  BY DEF CinTerm
<1>2. \A x \in 1..15 : \A v \in Characters : CinValue(x, v) \in Int
  <2> TAKE x \in 1..15
  <2> TAKE v \in Characters
  <2>1. v \in 0..35 => CinOrdinal(v) \in Int /\ OddPlace(CinOrdinal(v)) \in Int
    BY CinOrdinalIs, OddPlacesAre
  <2> QED BY <2>1 DEF CinValue
<1>3. 0..35 \subseteq Characters
  BY DEF Characters
<1> QED BY <1>1, <1>2, <1>3, Zenon DEF IsTerm

LEMMA CinChecks ==
  ASSUME NEW n, n \in Seq(Characters), it_codice_fiscale(n), NEW term, term = CinTerm
  PROVE  n[16] = 10 + (SumOver(term, n, 15) % 26)
<1>1. n[16] = cin_check_character(n) /\ \A x \in 1..15 : n[x] \in 0..35
  BY CinPlaces
<1>2. cin_check_character(n)
        = 10 + (SumFunction([x \in 1..15 |-> IF x % 2 = 1 THEN OddPlace(CinOrdinal(n[x])) ELSE CinOrdinal(n[x])]) % 26)
  BY Zenon DEF cin_check_character, OddPlace, CinOrdinal
<1>3. [x \in 1..15 |-> IF x % 2 = 1 THEN OddPlace(CinOrdinal(n[x])) ELSE CinOrdinal(n[x])] = [x \in 1..15 |-> term[<<x, n[x]>>]]
  <2>1. \A x \in 1..15 : term[<<x, n[x]>>] = CinValue(x, n[x])
    BY <1>1, CinTermIs, Zenon
  <2>2. \A x \in 1..15 : CinValue(x, n[x]) = IF x % 2 = 1 THEN OddPlace(CinOrdinal(n[x])) ELSE CinOrdinal(n[x])
    BY <1>1 DEF CinValue
  <2> QED BY <2>1, <2>2
<1> QED BY <1>1, <1>2, <1>3 DEF SumOver

(* Two characters that may stand at one place, or change places. *)
Comparable(u, v) == u \in 0..35 /\ v \in 0..35 /\ CinOrdinal(u) # CinOrdinal(v)

LEMMA OrdinalsTell ==
  ASSUME NEW u \in 0..35, NEW v \in 0..35, u # v,
         \/ IsDigit(u) <=> IsDigit(v)
         \/ u \in 10..35 /\ v \in 10..35
         \/ u \in OmocodiaRange /\ v \in OmocodiaRange
  PROVE  Comparable(u, v)
BY DEF Comparable, CinOrdinal, IsDigit, OmocodiaRange

LEMMA it_codice_fiscale_Differs ==
  ASSUME NEW w, NEW r, NEW i, Differs(w, r, i), IsDigit(w[i]) <=> IsDigit(r[i])
  PROVE  ~ (it_codice_fiscale(w) /\ it_codice_fiscale(r))
<1>0. SUFFICES ASSUME it_codice_fiscale(w), it_codice_fiscale(r) PROVE FALSE
  OBVIOUS
<1>1. PICK term : term = CinTerm
  OBVIOUS
<1> DEFINE a == SumOver(term, w, 15)
           b == SumOver(term, r, 15)
<1>2. /\ Len(w) = 16 /\ (\A x \in 1..15 : w[x] \in 0..35) /\ w[16] = 10 + (a % 26)
      /\ (\A x \in 1..15 : r[x] \in 0..35) /\ r[16] = 10 + (b % 26)
  BY <1>0, <1>1, CinPlaces, CinChecks, Zenon DEF Differs
<1>3. i \in 1..16 /\ r[i] # w[i] /\ (i # 16 => r[16] = w[16])
  BY <1>2 DEF Differs
<1>4. Grows(a, b, Misread1(term, w, r, i, 15))
  <2>1. w \in Seq(Characters) /\ r \in Seq(Characters)
    BY DEF Differs
  <2>2. IsTerm(term, 15, Characters)
    BY <1>1, CinTermIs, Zenon
  <2>3. 15 <= Len(w)
    BY <1>2
  <2> QED BY <2>1, <2>2, <2>3, SumOverDiffers
<1> HIDE DEF a, b
<1>5. CASE i = 16
  <2>1. Misread1(term, w, r, i, 15) = 0
    BY <1>5 DEF Misread1
  <2>2. a = b
    BY <1>4, <2>1 DEF Grows
  <2> QED BY <1>2, <1>3, <1>5, <2>2
<1>6. CASE i # 16
  <2>1. i \in 1..15 /\ w[i] \in 0..35 /\ r[i] \in 0..35 /\ w[i] # r[i]
    <3>1. i \in 1..15
      BY <1>3, <1>6
    <3> QED BY <1>2, <1>3, <3>1
  <2>2. Comparable(w[i], r[i])
    BY <2>1, OrdinalsTell, Zenon
  <2> DEFINE x == CinOrdinal(w[i])
             y == CinOrdinal(r[i])
  <2>3. x \in 0..25 /\ y \in 0..25 /\ x # y
    BY <2>1, <2>2, CinOrdinalIs DEF Comparable
  <2>4. Misread1(term, w, r, i, 15) = CinValue(i, r[i]) - CinValue(i, w[i])
    <3>1. term[<<i, r[i]>>] = CinValue(i, r[i]) /\ term[<<i, w[i]>>] = CinValue(i, w[i])
      BY <1>1, <2>1, CinTermIs, Zenon
    <3> QED BY <2>1, <3>1 DEF Misread1
  <2>5. (CinValue(i, r[i]) - CinValue(i, w[i])) % 26 # 0
    <3>1. CASE i % 2 = 1
      <4>1. CinValue(i, r[i]) = OddPlace(y) /\ CinValue(i, w[i]) = OddPlace(x)
        BY <2>1, <3>1 DEF CinValue
      <4> HIDE DEF x, y
      <4>2. (OddPlace(y) - OddPlace(x)) % 26 # 0
        BY <2>3, OddPlacesTell
      <4> QED BY <4>1, <4>2
    <3>2. CASE i % 2 # 1
      <4>1. CinValue(i, r[i]) = y /\ CinValue(i, w[i]) = x
        BY <2>1, <3>2 DEF CinValue
      <4> HIDE DEF x, y
      <4> QED BY <2>3, <4>1
    <3> QED BY <3>1, <3>2
  <2>6. a % 26 # b % 26 /\ a \in Int /\ b \in Int
    BY <1>4, <2>4, <2>5, Sees26
  <2> QED BY <1>2, <1>3, <1>6, <2>6
<1> QED BY <1>5, <1>6

(* What may be exchanged unnoticed: W and Y, and with the check letter M and S, N and T. *)
ItalianTwins(i, u, v) == {u, v} = {32, 34} \/ (i = 15 /\ {u, v} \in {{22, 28}, {23, 29}})

LEMMA CinNeighbours ==
  ASSUME NEW w, NEW r, NEW i, Exchanged(w, r, i), it_codice_fiscale(w), it_codice_fiscale(r)
  PROVE  /\ i \in 1..15 /\ Comparable(w[i], w[i + 1])
         /\ \/ w[i] \in 10..35 /\ w[i + 1] \in 10..35
            \/ w[i] \in OmocodiaRange /\ w[i + 1] \in OmocodiaRange
         /\ i = 15 => w[i] \in OmocodiaRange \cap (10..35) /\ w[i + 1] \in OmocodiaRange \cap (10..35)
<1> DEFINE Lettered == (1..6) \union {9, 12}
           Either0 == {7, 8, 10, 11, 13, 14, 15}
<1>1. /\ Len(w) = 16
      /\ (\A x \in Lettered : w[x] \in 10..35) /\ (\A x \in Lettered : r[x] \in 10..35)
      /\ (\A x \in Either0 : w[x] \in OmocodiaRange) /\ (\A x \in Either0 : r[x] \in OmocodiaRange)
      /\ (\A x \in 1..15 : w[x] \in 0..35) /\ (\A x \in 1..15 : r[x] \in 0..35)
  BY CinPlaces DEF Exchanged
<1>2. i \in 1..15 /\ r[i] = w[i + 1] /\ r[i + 1] = w[i] /\ w[i] # w[i + 1]
  BY <1>1 DEF Exchanged
<1>3. w[16] \in 10..35 /\ r[16] \in 10..35
  <2>1. PICK term : term = CinTerm
    OBVIOUS
  <2>2. w \in Seq(Characters) /\ r \in Seq(Characters)
    BY DEF Exchanged
  <2>5. IsTerm(term, 15, Characters)
    BY <2>1, CinTermIs, Zenon
  <2>6. 15 <= Len(w)
    BY <1>1
  <2>3. SumOver(term, w, 15) \in Int /\ SumOver(term, r, 15) \in Int
    <3>1. Grows(SumOver(term, w, 15), SumOver(term, r, 15), Swapped1(term, w, i, 15))
      BY <2>2, <2>5, <2>6, SumOverExchanged
    <3> QED BY <3>1 DEF Grows
  <2>4. w[16] = 10 + (SumOver(term, w, 15) % 26) /\ r[16] = 10 + (SumOver(term, r, 15) % 26)
    BY <2>1, <2>2, CinChecks
  <2> QED BY <2>3, <2>4
<1> HIDE DEF Lettered, Either0
<1>4. CASE i = 15
  <2>1. 15 \in Either0
    BY DEF Either0
  <2>2. w[15] \in OmocodiaRange /\ r[15] \in OmocodiaRange
    BY <1>1, <2>1
  <2>3. w[16] = r[15] /\ r[16] = w[15]
    BY <1>2, <1>4
  <2>4. w[15] \in OmocodiaRange \cap (10..35) /\ w[16] \in OmocodiaRange \cap (10..35) /\ w[15] # w[16]
    BY <1>2, <1>3, <1>4, <2>2, <2>3
  <2>5. w[i] \in OmocodiaRange \cap (10..35) /\ w[i + 1] \in OmocodiaRange \cap (10..35) /\ w[i] # w[i + 1]
    BY <1>4, <2>4
  <2> HIDE DEF Either0
  <2>6. Comparable(w[i], w[i + 1])
    <3>1. w[i] \in 0..35 /\ w[i + 1] \in 0..35 /\ w[i] \in 10..35 /\ w[i + 1] \in 10..35 /\ w[i] # w[i + 1]
      BY <2>5
    <3> QED BY <3>1, OrdinalsTell, Zenon
  <2> QED BY <1>2, <2>5, <2>6
<1>5. CASE i # 15
  <2>1. i \in 1..14 /\ i \in 1..15 /\ i + 1 \in 1..15
    BY <1>2, <1>5
  <2>2. \/ i \in Lettered \/ i + 1 \in Lettered
        \/ i \in Either0 /\ i + 1 \in Either0
    BY <2>1 DEF Lettered, Either0
  <2>3. \/ w[i] \in 10..35 /\ w[i + 1] \in 10..35
        \/ w[i] \in OmocodiaRange /\ w[i + 1] \in OmocodiaRange
    <3>1. i \in Lettered => w[i] \in 10..35 /\ r[i] \in 10..35
      BY <1>1, Zenon
    <3>2. i + 1 \in Lettered => w[i + 1] \in 10..35 /\ r[i + 1] \in 10..35
      BY <1>1, Zenon
    <3>3. i \in Either0 /\ i + 1 \in Either0 => w[i] \in OmocodiaRange /\ w[i + 1] \in OmocodiaRange
      BY <1>1, Zenon
    <3>4. CASE i \in Lettered
      BY <1>2, <3>1, <3>4, Zenon
    <3>5. CASE i + 1 \in Lettered
      BY <1>2, <3>2, <3>5, Zenon
    <3> QED BY <2>2, <3>3, <3>4, <3>5, Zenon
  <2>4. w[i] \in 0..35 /\ w[i + 1] \in 0..35
    BY <1>1, <2>1, Zenon
  <2>5. Comparable(w[i], w[i + 1])
    BY <1>2, <2>3, <2>4, OrdinalsTell, Zenon
  <2> QED BY <1>2, <1>5, <2>3, <2>5
<1> QED BY <1>4, <1>5

LEMMA CinSwap ==
  ASSUME NEW i \in 1..14, NEW u \in 0..35, NEW v \in 0..35, Comparable(u, v),
         {CinOrdinal(u), CinOrdinal(v)} # {22, 24}
  PROVE  ((CinValue(i, v) - CinValue(i, u)) + (CinValue(i + 1, u) - CinValue(i + 1, v))) % 26 # 0
<1> DEFINE x == CinOrdinal(u)
           y == CinOrdinal(v)
<1>1. x \in 0..25 /\ y \in 0..25 /\ x # y /\ {x, y} # {22, 24}
  BY CinOrdinalIs DEF Comparable
<1>2. CASE i % 2 = 1
  <2>1. (i + 1) % 2 # 1
    BY <1>2
  <2>2. CinValue(i, v) = OddPlace(y) /\ CinValue(i, u) = OddPlace(x) /\ CinValue(i + 1, u) = x /\ CinValue(i + 1, v) = y
    BY <1>2, <2>1 DEF CinValue
  <2> HIDE DEF x, y
  <2>3. OddPlace(x) \in 0..25 /\ OddPlace(y) \in 0..25
    BY <1>1, OddPlacesAre
  <2>4. ((OddPlace(y) - y) - (OddPlace(x) - x)) % 26 # 0
    BY <1>1, GapsTell, Zenon
  <2>5. ((OddPlace(y) - OddPlace(x)) + (x - y)) % 26 # 0
    BY <1>1, <2>3, <2>4, GapTurns, Zenon
  <2> QED BY <2>2, <2>5
<1>3. CASE i % 2 # 1
  <2>1. (i + 1) % 2 = 1
    BY <1>3
  <2>2. CinValue(i, v) = y /\ CinValue(i, u) = x /\ CinValue(i + 1, u) = OddPlace(x) /\ CinValue(i + 1, v) = OddPlace(y)
    BY <1>3, <2>1 DEF CinValue
  <2> HIDE DEF x, y
  <2>3. OddPlace(x) \in 0..25 /\ OddPlace(y) \in 0..25
    BY <1>1, OddPlacesAre
  <2>4. ((OddPlace(y) - y) - (OddPlace(x) - x)) % 26 # 0
    BY <1>1, GapsTell, Zenon
  <2>5. ((y - x) + (OddPlace(x) - OddPlace(y))) % 26 # 0
    BY <1>1, <2>3, <2>4, GapTurns, Zenon
  <2> QED BY <2>2, <2>5
<1> QED BY <1>2, <1>3

LEMMA CinTwins ==
  ASSUME NEW u, NEW v, {CinOrdinal(u), CinOrdinal(v)} = {22, 24},
         \/ u \in 10..35 /\ v \in 10..35
         \/ u \in OmocodiaRange /\ v \in OmocodiaRange
  PROVE  {u, v} = {32, 34}
<1>1. \/ CinOrdinal(u) = 22 /\ CinOrdinal(v) = 24
      \/ CinOrdinal(u) = 24 /\ CinOrdinal(v) = 22
  OBVIOUS
<1>2. (u = 32 /\ v = 34) \/ (u = 34 /\ v = 32)
  BY <1>1 DEF CinOrdinal, IsDigit, OmocodiaRange
<1> QED BY <1>2

LEMMA CinLastSwap ==
  ASSUME NEW u \in OmocodiaRange \cap (10..35), NEW v \in OmocodiaRange \cap (10..35), u # v,
         NEW a, NEW b, Grows(a, b, OddPlace(CinOrdinal(v)) - OddPlace(CinOrdinal(u))),
         v = 10 + (a % 26), u = 10 + (b % 26)
  PROVE  {u, v} \in {{22, 28}, {23, 29}}
<1> DEFINE x == u - 10
           y == v - 10
<1>1. x \in ReplacedOrdinals /\ y \in ReplacedOrdinals /\ x # y /\ CinOrdinal(u) = x /\ CinOrdinal(v) = y
  BY DEF ReplacedOrdinals, OmocodiaRange, CinOrdinal, IsDigit
<1>2. a \in Int /\ b \in Int /\ b = a + (OddPlace(y) - OddPlace(x))
  BY <1>1 DEF Grows
<1>3. y = a % 26 /\ x = b % 26
  BY <1>2
<1> HIDE DEF x, y
<1>4. OddPlace(x) \in 0..25 /\ OddPlace(y) \in 0..25 /\ x \in 0..25 /\ y \in 0..25
  <2>1. x \in 0..25 /\ y \in 0..25
    BY <1>1 DEF ReplacedOrdinals
  <2> QED BY <2>1, OddPlacesAre
<1>5. ((OddPlace(y) + y) - (OddPlace(x) + x)) % 26 = 0
  <2>1. ASSUME NEW p \in Int, NEW q \in Int, p = a % 26, q = b % 26 PROVE ((b - a) + (p - q)) % 26 = 0
    BY <1>2, <2>1
  <2>2. ((b - a) + (y - x)) % 26 = 0
    BY <1>3, <1>4, <2>1
  <2>3. (b - a) + (y - x) = (OddPlace(y) + y) - (OddPlace(x) + x)
    BY <1>2, <1>4, SMT
  <2> QED BY <2>2, <2>3
<1>6. {x, y} \in {{12, 18}, {13, 19}}
  BY <1>1, <1>5, BothTell
<1>7. (x = 12 /\ y = 18) \/ (x = 18 /\ y = 12) \/ (x = 13 /\ y = 19) \/ (x = 19 /\ y = 13)
  BY <1>6
<1>8. u = x + 10 /\ v = y + 10
  BY DEF x, y
<1>9. (u = 22 /\ v = 28) \/ (u = 28 /\ v = 22) \/ (u = 23 /\ v = 29) \/ (u = 29 /\ v = 23)
  BY <1>7, <1>8
<1> QED BY <1>9

LEMMA it_codice_fiscale_Exchanged ==
  ASSUME NEW w, NEW r, NEW i, Exchanged(w, r, i), it_codice_fiscale(w), it_codice_fiscale(r)
  PROVE  ItalianTwins(i, w[i], w[i + 1])
<1>1. PICK term : term = CinTerm
  OBVIOUS
<1> DEFINE a == SumOver(term, w, 15)
           b == SumOver(term, r, 15)
           u == w[i]
           v == w[i + 1]
<1>2. w \in Seq(Characters) /\ r \in Seq(Characters)
  BY DEF Exchanged
<1>3. w[16] = 10 + (a % 26) /\ r[16] = 10 + (b % 26)
  BY <1>1, <1>2, CinChecks
<1>4. Len(w) = 16 /\ (\A x \in 1..15 : w[x] \in 0..35)
  BY <1>2, CinPlaces
<1>5. Grows(a, b, Swapped1(term, w, i, 15))
  <2>1. IsTerm(term, 15, Characters)
    BY <1>1, CinTermIs
  <2>2. 15 <= Len(w)
    BY <1>4
  <2> QED BY <1>2, <2>1, <2>2, SumOverExchanged
<1>6. /\ i \in 1..15 /\ Comparable(u, v)
      /\ \/ u \in 10..35 /\ v \in 10..35
         \/ u \in OmocodiaRange /\ v \in OmocodiaRange
      /\ i = 15 => u \in OmocodiaRange \cap (10..35) /\ v \in OmocodiaRange \cap (10..35)
  BY CinNeighbours
<1>7. u \in 0..35 /\ v \in 0..35 /\ u # v
  BY <1>6 DEF Comparable
<1>8. \A x \in 1..15 : term[<<x, u>>] = CinValue(x, u) /\ term[<<x, v>>] = CinValue(x, v)
  BY <1>1, <1>7, CinTermIs, Zenon
<1>9. r[i] = v /\ r[i + 1] = u /\ (i # 15 => r[16] = w[16])
  BY <1>4, <1>6, SMT DEF Exchanged
<1>10. Swapped1(term, w, i, 15)
         = (IF i <= 15 THEN term[<<i, v>>] - term[<<i, u>>] ELSE 0)
           + (IF i + 1 <= 15 THEN term[<<i + 1, u>>] - term[<<i + 1, v>>] ELSE 0)
  BY DEF Swapped1
<1> HIDE DEF a, b
<1>11. CASE i = 15
  <2>1. Swapped1(term, w, i, 15) = CinValue(15, v) - CinValue(15, u)
    <3>1. term[<<i, v>>] = CinValue(15, v) /\ term[<<i, u>>] = CinValue(15, u)
      BY <1>6, <1>8, <1>11
    <3>2. CinValue(15, v) \in Int /\ CinValue(15, u) \in Int
      <4>1. CinOrdinal(v) \in 0..25 /\ CinOrdinal(u) \in 0..25
        BY <1>7, CinOrdinalIs
      <4>2. OddPlace(CinOrdinal(v)) \in 0..25 /\ OddPlace(CinOrdinal(u)) \in 0..25
        BY <4>1, OddPlacesAre
      <4>3. /\ CinValue(15, v) = OddPlace(CinOrdinal(v))
            /\ CinValue(15, u) = OddPlace(CinOrdinal(u))
        BY <1>7 DEF CinValue
      <4> QED BY <4>2, <4>3
    <3>3. Swapped1(term, w, i, 15) = (CinValue(15, v) - CinValue(15, u)) + 0
      <4> HIDE DEF u, v
      <4>1. i <= 15 /\ ~ (i + 1 <= 15)
        BY <1>11
      <4> QED BY <1>10, <3>1, <4>1, Zenon
    <3> HIDE DEF u, v
    <3> QED BY <3>2, <3>3
  <2>2. CinValue(15, v) = OddPlace(CinOrdinal(v)) /\ CinValue(15, u) = OddPlace(CinOrdinal(u))
    BY <1>7 DEF CinValue
  <2>3. v = 10 + (a % 26) /\ u = 10 + (b % 26)
    BY <1>3, <1>9, <1>11
  <2>4. Grows(a, b, OddPlace(CinOrdinal(v)) - OddPlace(CinOrdinal(u)))
    BY <1>5, <2>1, <2>2
  <2>5. u \in OmocodiaRange \cap (10..35) /\ v \in OmocodiaRange \cap (10..35)
    BY <1>6, <1>11
  <2> HIDE DEF u, v
  <2>6. {u, v} \in {{22, 28}, {23, 29}}
    BY <1>7, <2>3, <2>4, <2>5, CinLastSwap
  <2>7. ItalianTwins(i, u, v)
    BY <1>11, <2>6 DEF ItalianTwins
  <2> QED BY <2>7 DEF u, v
<1>12. CASE i # 15
  <2>1. i \in 1..14 /\ i + 1 \in 1..15 /\ i \in 1..15
    BY <1>6, <1>12
  <2>2. Swapped1(term, w, i, 15) = (CinValue(i, v) - CinValue(i, u)) + (CinValue(i + 1, u) - CinValue(i + 1, v))
    <3>1. i <= 15 /\ i + 1 <= 15
      BY <2>1
    <3> HIDE DEF u, v
    <3> QED BY <1>8, <1>10, <2>1, <3>1, Zenon
  <2>3. a % 26 = b % 26
    <3>1. r[16] = w[16] /\ a \in Int /\ b \in Int
      BY <1>5, <1>9, <1>12 DEF Grows
    <3> QED BY <1>3, <3>1
  <2> HIDE DEF u, v
  <2>4. CASE {CinOrdinal(u), CinOrdinal(v)} # {22, 24}
    <3>1. ((CinValue(i, v) - CinValue(i, u)) + (CinValue(i + 1, u) - CinValue(i + 1, v))) % 26 # 0
      BY <1>6, <1>7, <2>1, <2>4, CinSwap, Zenon
    <3> QED BY <1>5, <2>2, <2>3, <3>1, Sees26
  <2>5. CASE {CinOrdinal(u), CinOrdinal(v)} = {22, 24}
    <3>1. {u, v} = {32, 34}
      BY <1>6, <2>5, CinTwins
    <3>2. ItalianTwins(i, u, v)
      BY <3>1 DEF ItalianTwins
    <3> QED BY <3>2 DEF u, v
  <2> QED BY <2>4, <2>5
<1> QED BY <1>11, <1>12

-----------------------------------------------------------------------------
(* Spain: a lead digit and seven more modulo 23, the remainder a letter. *)
CheckNames == <<"T", "R", "W", "A", "G", "M", "Y", "F", "P", "D", "X", "B",
                "N", "J", "Z", "S", "Q", "V", "H", "L", "C", "K", "E">>
CheckRanks == <<3, 11, 20, 9, 22, 7, 4, 18, 0, 13, 21, 19, 5, 12, 0, 8, 16, 1, 15, 0, 0, 17, 2, 10, 6, 14>>
CheckRank(v) == CheckRanks[v - 9]

LEMMA CheckLettersAre ==
  \A k \in 0..22 : CheckLetters[k + 1] \in 10..35 /\ CheckRank(CheckLetters[k + 1]) = k
<1> TAKE k \in 0..22
<1>1. CheckLetters[k + 1] = Letter(CheckNames[k + 1])
  <2>1. k + 1 \in DOMAIN CheckNames
    BY DEF CheckNames
  <2>2. CheckLetters = Alphabet(CheckNames)
    BY DEF CheckLetters, CheckNames
  <2> QED BY <2>1, <2>2 DEF Alphabet
<1>2. \/ k = 0 \/ k = 1 \/ k = 2 \/ k = 3 \/ k = 4 \/ k = 5 \/ k = 6 \/ k = 7 \/ k = 8 \/ k = 9 \/ k = 10 \/ k = 11
      \/ k = 12 \/ k = 13 \/ k = 14 \/ k = 15 \/ k = 16 \/ k = 17 \/ k = 18 \/ k = 19 \/ k = 20 \/ k = 21 \/ k = 22
  OBVIOUS
<1>3. Letter(CheckNames[k + 1]) = <<29, 27, 32, 10, 16, 22, 34, 15, 25, 13, 33, 11, 23, 19, 35, 28, 26, 31, 17, 21, 12, 20, 14>>[k + 1]
  BY <1>2, LettersAre DEF CheckNames
<1> QED BY <1>1, <1>2, <1>3 DEF CheckRank, CheckRanks

NifLead(v) == IF v >= 33 THEN v - 33 ELSE IF IsDigit(v) THEN v ELSE 0
NifWord(n) == <<NifLead(n[1])>> \o Slice(n, 1, 8)
NifBegins(n) == Len(n) = 9 /\ AllDigits(Slice(n, 1, 8)) /\ (IsDigit(n[1]) \/ n[1] \in NifLeads)
NifPerson(n) == NifBegins(n) /\ n[9] = NifCheck(n)

LEMMA NifLeadsAre == NifLeads = {20, 21, 22, 33, 34, 35}
BY LettersAre DEF NifLeads

LEMMA EntityTypesAre == \A v \in EntityTypes : v \in (10..17) \union {19, 23} \union (25..28) \union (30..32)
<1> TAKE v \in EntityTypes
<1> DEFINE names == <<"A", "B", "C", "D", "E", "F", "G", "H", "J", "N", "P", "Q", "R", "S", "U", "V", "W">>
<1>1. v \in ToSet(Alphabet(names))
  BY DEF EntityTypes
<1>2. PICK i \in DOMAIN names : v = Letter(names[i])
  BY <1>1, NamesAre, Zenon
<1>3. names[i] \in {"A", "B", "C", "D", "E", "F", "G", "H", "J", "N", "P", "Q", "R", "S", "U", "V", "W"}
  OBVIOUS
<1> QED BY <1>2, <1>3, LettersAre

LEMMA NifWordIs ==
  ASSUME NEW n \in Seq(Characters), NifBegins(n)
  PROVE  /\ NifWord(n) \in Seq(0..9) /\ NifWord(n) \in Seq(Characters) /\ Len(NifWord(n)) = 8 /\ AllDigits(NifWord(n))
         /\ NifLead(n[1]) \in 0..9 /\ NifWord(n)[1] = NifLead(n[1])
         /\ \A x \in 2..8 : NifWord(n)[x] = n[x] /\ n[x] \in 0..9
<1>1. /\ Slice(n, 1, 8) \in Seq(0..9) /\ Len(Slice(n, 1, 8)) = 7
      /\ \A x \in 2..8 : n[x] \in 0..9 /\ Slice(n, 1, 8)[x - 1] = n[x]
  <2>1. 1 \in Nat /\ 8 \in Nat /\ 1 <= 8 /\ 8 <= Len(n) /\ AllDigits(Slice(n, 1, 8))
    BY DEF NifBegins
  <2>2. /\ Slice(n, 1, 8) \in Seq(0..9) /\ Len(Slice(n, 1, 8)) = 8 - 1
        /\ \A x \in (1 + 1)..8 : n[x] \in 0..9 /\ Slice(n, 1, 8)[x - 1] = n[x]
    BY <2>1, DigitPlaces, Zenon
  <2> QED BY <2>2
<1>2. NifLead(n[1]) \in 0..9
  BY NifLeadsAre, SMT DEF NifBegins, NifLead, IsDigit
<1> DEFINE k == NifLead(n[1])
           s == Slice(n, 1, 8)
           d == NifWord(n)
<1>3. d = <<k>> \o s
  BY DEF NifWord
<1> HIDE DEF k, s, d
<1>4. /\ s \in Seq(0..9) /\ Len(s) = 7 /\ k \in 0..9
      /\ \A x \in 2..8 : n[x] \in 0..9 /\ s[x - 1] = n[x]
  BY <1>1, <1>2 DEF s, k
<1>5. /\ d \in Seq(0..9) /\ Len(d) = 8 /\ d[1] = k
      /\ \A x \in 2..8 : d[x] = s[x - 1]
  <2>1. /\ d \in Seq(0..9) /\ Len(d) = Len(s) + 1 /\ d[1] = k
        /\ \A x \in 2..(Len(s) + 1) : d[x] = s[x - 1]
    BY <1>3, <1>4, LedByIs, Zenon
  <2> QED BY <1>4, <2>1
<1>6. d \in Seq(Characters) /\ AllDigits(d)
  <2>1. d \in Seq(0..9)
    BY <1>5
  <2> QED BY <2>1, DigitSequences
<1>7. \A x \in 2..8 : d[x] = n[x] /\ n[x] \in 0..9
  BY <1>4, <1>5
<1> QED BY <1>4, <1>5, <1>6, <1>7 DEF d, k

LEMMA NifChecks ==
  ASSUME NEW n \in Seq(Characters), NifPerson(n)
  PROVE  /\ IntegerMod(NifWord(n), 23) \in 0..22
         /\ n[9] = CheckLetters[IntegerMod(NifWord(n), 23) + 1]
         /\ n[9] \in 10..35 /\ CheckRank(n[9]) = IntegerMod(NifWord(n), 23)
<1>1. NifWord(n) \in Seq(0..9)
  BY NifWordIs DEF NifPerson
<1>2. 23 \in Moduli
  BY DEF Moduli
<1>3. AsInteger(NifWord(n)) % 23 = IntegerMod(NifWord(n), 23)
  BY <1>1, <1>2, AsIntegerMod
<1>4. IntegerMod(NifWord(n), 23) \in Residues(23)
  BY <1>1, <1>2, IntegerModIsARemainder
<1>5. n[9] = CheckLetters[(AsInteger(NifWord(n)) % 23) + 1]
  BY LettersAre, Zenon DEF NifPerson, NifCheck, NifWord, NifLead
<1>6. IntegerMod(NifWord(n), 23) \in 0..22
  BY <1>4 DEF Residues
<1>7. n[9] = CheckLetters[IntegerMod(NifWord(n), 23) + 1]
  BY <1>3, <1>5
<1> QED BY <1>6, <1>7, CheckLettersAre

LEMMA NifDiffers ==
  ASSUME NEW w, NEW r, NEW i, Differs(w, r, i), NifPerson(w), NifPerson(r)
  PROVE  i = 1
<1>0. SUFFICES ASSUME i # 1 PROVE FALSE
  OBVIOUS
<1>1. w \in Seq(Characters) /\ r \in Seq(Characters)
  BY DEF Differs
<1>2. Len(w) = 9 /\ i \in 2..9 /\ r[i] # w[i] /\ (\A x \in 1..9 : x # i => r[x] = w[x])
  BY <1>0 DEF Differs, NifPerson, NifBegins
<1> DEFINE a == IntegerMod(NifWord(w), 23)
           b == IntegerMod(NifWord(r), 23)
           u == NifWord(w)
           v == NifWord(r)
<1>3. /\ a \in 0..22 /\ b \in 0..22 /\ w[9] = CheckLetters[a + 1] /\ r[9] = CheckLetters[b + 1]
      /\ CheckRank(w[9]) = a /\ CheckRank(r[9]) = b
  BY <1>1, NifChecks
<1>4. /\ u \in Seq(0..9) /\ u \in Seq(Characters) /\ Len(u) = 8 /\ AllDigits(u) /\ u[1] = NifLead(w[1])
      /\ \A x \in 2..8 : u[x] = w[x]
  BY <1>1, NifWordIs DEF NifPerson
<1>5. /\ v \in Seq(0..9) /\ v \in Seq(Characters) /\ Len(v) = 8 /\ AllDigits(v) /\ v[1] = NifLead(r[1])
      /\ \A x \in 2..8 : v[x] = r[x]
  BY <1>1, NifWordIs DEF NifPerson
<1> HIDE DEF u, v
<1>6. r[1] = w[1]
  BY <1>2
<1>7. CASE i = 9
  <2>1. \A x \in 1..8 : u[x] = v[x]
    <3>1. \A x \in 1..8 : x = 1 \/ x \in 2..8
      OBVIOUS
    <3> QED BY <1>2, <1>4, <1>5, <1>6, <1>7, <3>1
  <2>2. u = v
    BY <1>4, <1>5, <2>1, SMT
  <2> QED BY <1>2, <1>3, <1>7, <2>2 DEF u, v
<1>8. CASE i # 9
  <2>1. i \in 2..8
    BY <1>2, <1>8
  <2>2. Differs(u, v, i)
    <3>1. \A x \in 1..8 : x # i => v[x] = u[x]
      <4>1. \A x \in 1..8 : x = 1 \/ x \in 2..8
        OBVIOUS
      <4> QED BY <1>2, <1>4, <1>5, <1>6, <4>1
    <3>2. v[i] # u[i]
      BY <1>2, <1>4, <1>5, <2>1
    <3> QED BY <1>4, <1>5, <2>1, <3>1, <3>2 DEF Differs
  <2>3. 23 \in Moduli
    BY DEF Moduli
  <2>4. IntegerMod(u, 23) # IntegerMod(v, 23)
    BY <1>4, <1>5, <2>2, <2>3, IntegerModDiffers
  <2>5. w[9] = r[9]
    BY <1>2, <2>1
  <2> QED BY <1>3, <2>4, <2>5 DEF u, v
<1> QED BY <1>7, <1>8

LEMMA NifExchanged ==
  ASSUME NEW w, NEW r, NEW i, Exchanged(w, r, i), NifPerson(w), NifPerson(r)
  PROVE  i = 1
<1>0. SUFFICES ASSUME i # 1 PROVE FALSE
  OBVIOUS
<1>1. w \in Seq(Characters) /\ r \in Seq(Characters)
  BY DEF Exchanged
<1>2. /\ Len(w) = 9 /\ i \in 2..8 /\ w[i] # w[i + 1] /\ r[i] = w[i + 1] /\ r[i + 1] = w[i]
      /\ (\A x \in 1..9 : x # i /\ x # i + 1 => r[x] = w[x])
  BY <1>0 DEF Exchanged, NifPerson, NifBegins
<1> DEFINE u == NifWord(w)
           v == NifWord(r)
<1>3. /\ CheckRank(w[9]) = IntegerMod(u, 23) /\ CheckRank(r[9]) = IntegerMod(v, 23) /\ w[9] \in 10..35
  BY <1>1, NifChecks
<1>4. /\ u \in Seq(0..9) /\ u \in Seq(Characters) /\ Len(u) = 8 /\ AllDigits(u) /\ u[1] = NifLead(w[1])
      /\ \A x \in 2..8 : u[x] = w[x]
  BY <1>1, NifWordIs DEF NifPerson
<1>5. /\ v \in Seq(0..9) /\ v \in Seq(Characters) /\ Len(v) = 8 /\ AllDigits(v) /\ v[1] = NifLead(r[1])
      /\ (\A x \in 2..8 : v[x] = r[x]) /\ (\A x \in 2..8 : r[x] \in 0..9)
  BY <1>1, NifWordIs DEF NifPerson
<1> HIDE DEF u, v
<1>6. r[1] = w[1]
  BY <1>2
<1>7. i # 8
  <2>1. i = 8 => r[8] = w[9]
    BY <1>2
  <2>2. r[8] \in 0..9
    BY <1>5
  <2> QED BY <1>3, <2>1, <2>2
<1>8. i \in 2..7 /\ i \in 2..8 /\ i + 1 \in 2..8
  BY <1>2, <1>7
<1>9. Exchanged(u, v, i)
  <2>1. \A x \in 1..8 : x # i /\ x # i + 1 => v[x] = u[x]
    <3>1. \A x \in 1..8 : x = 1 \/ x \in 2..8
      OBVIOUS
    <3> QED BY <1>2, <1>4, <1>5, <1>6, <3>1
  <2>2. u[i] # u[i + 1] /\ v[i] = u[i + 1] /\ v[i + 1] = u[i]
    BY <1>2, <1>4, <1>5, <1>8
  <2> QED BY <1>4, <1>5, <1>8, <2>1, <2>2 DEF Exchanged
<1>10. 23 \in Moduli
  BY DEF Moduli
<1>11. IntegerMod(u, 23) # IntegerMod(v, 23)
  BY <1>4, <1>5, <1>9, <1>10, IntegerModExchanged
<1>12. w[9] = r[9]
  BY <1>2, <1>8
<1> QED BY <1>3, <1>11, <1>12

LEMMA NifNamesAre ==
  Names(<<"X", "Y", "Z", "K", "L", "M">>) = {20, 21, 22, 33, 34, 35} /\ Names(<<"K", "L", "M">>) = {20, 21, 22}
<1> DEFINE all == <<"X", "Y", "Z", "K", "L", "M">>
           old == <<"K", "L", "M">>
<1>1. DOMAIN all = 1..6 /\ DOMAIN old = 1..3
  OBVIOUS
<1>2. /\ Letter(all[1]) = 33 /\ Letter(all[2]) = 34 /\ Letter(all[3]) = 35
      /\ Letter(all[4]) = 20 /\ Letter(all[5]) = 21 /\ Letter(all[6]) = 22
      /\ Letter(old[1]) = 20 /\ Letter(old[2]) = 21 /\ Letter(old[3]) = 22
  BY LettersAre
<1> HIDE DEF all, old
<1>3. Names(all) = {Letter(all[i]) : i \in 1..6} /\ Names(old) = {Letter(old[i]) : i \in 1..3}
  BY <1>1 DEF Names, ToSet, Alphabet
<1>4. {Letter(all[i]) : i \in 1..6} = {Letter(all[1]), Letter(all[2]), Letter(all[3]), Letter(all[4]), Letter(all[5]), Letter(all[6])}
  <2>1. 1..6 = {1, 2, 3, 4, 5, 6}
    OBVIOUS
  <2> QED BY <2>1, Zenon
<1>5. {Letter(old[i]) : i \in 1..3} = {Letter(old[1]), Letter(old[2]), Letter(old[3])}
  <2>1. 1..3 = {1, 2, 3}
    OBVIOUS
  <2> QED BY <2>1, Zenon
<1>6. Names(all) = {33, 34, 35, 20, 21, 22} /\ Names(old) = {20, 21, 22}
  BY <1>2, <1>3, <1>4, <1>5
<1> QED BY <1>6 DEF all, old

LEMMA NifNumberIs ==
  ASSUME NEW n \in Seq(Characters), NifBegins(n)
  PROVE  NifNumber(n) = AsInteger(NifWord(n))
<1> DEFINE body == Slice(n, 1, 8)
           d == NifWord(n)
<1>1. /\ d \in Seq(0..9) /\ Len(d) = 8 /\ d[1] = NifLead(n[1]) /\ \A x \in 2..8 : d[x] = n[x]
  BY NifWordIs
<1>2. body \in Seq(0..9)
  <2>1. 1 \in Nat /\ 8 \in Nat /\ 1 <= 8 /\ 8 <= Len(n) /\ AllDigits(Slice(n, 1, 8))
    BY DEF NifBegins
  <2> QED BY <2>1, DigitPlaces
<1>3. d = <<NifLead(n[1])>> \o body
  BY DEF NifWord
<1>4. n[1] \in 0..9 \/ n[1] \in {20, 21, 22} \/ n[1] \in {33, 34, 35}
  BY NifLeadsAre DEF NifBegins, IsDigit
<1>5. NifNumber(n) = IF IsDigit(n[1]) THEN AsInteger(Slice(n, 0, 8))
                     ELSE AsInteger((IF n[1] \in {20, 21, 22} THEN <<>> ELSE <<n[1] - 33>>) \o body)
  BY NifNamesAre, LettersAre, Zenon DEF NifNumber
<1>6. CASE n[1] \in 0..9
  <2>1. NifLead(n[1]) = n[1] /\ IsDigit(n[1])
    BY <1>6 DEF NifLead, IsDigit
  <2>2. Slice(n, 0, 8) \in Seq(Characters) /\ Len(Slice(n, 0, 8)) = 8 /\ \A x \in 1..8 : Slice(n, 0, 8)[x] = n[x]
    <3>1. 8 \in Nat /\ 8 <= Len(n)
      BY DEF NifBegins
    <3> QED BY <3>1, TakenFromTheStart
  <2> DEFINE head == Slice(n, 0, 8)
  <2> HIDE DEF d, head
  <2>3. head = d
    <3>1. \A x \in 1..8 : head[x] = d[x]
      <4>1. \A x \in 1..8 : x = 1 \/ x \in 2..8
        OBVIOUS
      <4> QED BY <1>1, <2>1, <2>2, <4>1 DEF head
    <3>2. head \in Seq(Characters) /\ Len(head) = 8
      BY <2>2 DEF head
    <3> QED BY <1>1, <3>1, <3>2, SMT
  <2> QED BY <1>5, <2>1, <2>3 DEF d, head
<1>7. CASE n[1] \in {20, 21, 22}
  <2>1. NifLead(n[1]) = 0 /\ ~ IsDigit(n[1])
    BY <1>7, SMT DEF NifLead, IsDigit
  <2> HIDE DEF body, d
  <2>2. <<>> \o body = body
    BY <1>2
  <2>3. AsInteger(d) = AsInteger(body)
    BY <1>2, <1>3, <2>1, AsIntegerOfALead
  <2>4. NifNumber(n) = AsInteger(<<>> \o body)
    BY <1>5, <1>7, <2>1, Zenon
  <2> QED BY <2>2, <2>3, <2>4 DEF d
<1>8. CASE n[1] \in {33, 34, 35}
  <2>1. NifLead(n[1]) = n[1] - 33 /\ ~ IsDigit(n[1]) /\ n[1] \notin {20, 21, 22}
    BY <1>8, SMT DEF NifLead, IsDigit
  <2> HIDE DEF body, d
  <2> QED BY <1>3, <1>5, <2>1, Zenon DEF d
<1> QED BY <1>4, <1>6, <1>7, <1>8

(* The two readers ask the same of a person's number. *)
LEMMA NifReadersAgree ==
  ASSUME NEW n \in Seq(Characters)
  PROVE  es_nif_nie(n) <=> NifPerson(n)
<1>1. es_nif_nie(n) <=> /\ Len(n) = 9 /\ Spells(n, 1, 8, AnyDigit)
                        /\ n[1] \in AnyDigit \union {20, 21, 22, 33, 34, 35}
                        /\ n[9] = NifCheckLetters[(NifNumber(n) % 23) + 1]
  BY NifNamesAre, Zenon DEF es_nif_nie
<1>2. ASSUME Len(n) = 9 PROVE Spells(n, 1, 8, AnyDigit) <=> AllDigits(Slice(n, 1, 8))
  <2> DEFINE s == Slice(n, 1, 8)
  <2>1. s \in Seq(Characters) /\ Len(s) = 7 /\ \A x \in 1..7 : s[x] = n[1 + x]
    <3>1. 1 \in Nat /\ 8 \in Nat /\ 1 <= 8 /\ 8 <= Len(n)
      BY <1>2
    <3>2. s \in Seq(Characters) /\ Len(s) = 8 - 1 /\ \A x \in 1..(8 - 1) : s[x] = n[1 + x]
      BY <3>1, SliceIs
    <3> QED BY <3>2
  <2> HIDE DEF s
  <2>2. AllDigits(s) <=> \A x \in 1..7 : s[x] \in 0..9
    <3>1. DOMAIN s = 1..7
      BY <2>1
    <3> QED BY <3>1 DEF AllDigits, IsDigit
  <2>3. Spells(n, 1, 8, AnyDigit) <=> \A x \in 2..8 : n[x] \in 0..9
    BY DEF Spells, AnyDigit
  <2>4. (\A x \in 1..7 : s[x] \in 0..9) => \A x \in 2..8 : n[x] \in 0..9
    <3>1. \A x \in 2..8 : x - 1 \in 1..7 /\ 1 + (x - 1) = x
      OBVIOUS
    <3> QED BY <2>1, <3>1, Zenon
  <2>5. (\A x \in 2..8 : n[x] \in 0..9) => \A x \in 1..7 : s[x] \in 0..9
    BY <2>1
  <2> QED BY <2>2, <2>3, <2>4, <2>5 DEF s
<1>3. n[1] \in AnyDigit \union {20, 21, 22, 33, 34, 35} <=> IsDigit(n[1]) \/ n[1] \in NifLeads
  BY NifLeadsAre DEF AnyDigit, IsDigit
<1>4. NifCheckLetters = CheckLetters
  BY DEF NifCheckLetters, CheckLetters
<1>5. NifCheck(n) = CheckLetters[(AsInteger(NifWord(n)) % 23) + 1]
  BY LettersAre, Zenon DEF NifCheck, NifWord, NifLead
<1>6. NifBegins(n) => NifNumber(n) = AsInteger(NifWord(n))
  BY NifNumberIs
<1> QED BY <1>1, <1>2, <1>3, <1>4, <1>5, <1>6 DEF NifPerson, NifBegins

(* Spain: a company's seven digits and their check, a digit or a letter. *)
NifDigit(n) == LuhnCheckDigit(Slice(n, 1, 8))
NifEntity(n) ==
  /\ Len(n) = 9 /\ AllDigits(Slice(n, 1, 8)) /\ n[1] \in EntityTypes
  /\ n[9] \in {NifDigit(n), IF NifDigit(n) = 0 THEN 19 ELSE 9 + NifDigit(n)}

LEMMA NifKinds ==
  ASSUME NEW n
  PROVE  /\ es_nif(n) <=> NifPerson(n) \/ NifEntity(n)
         /\ ~ (NifBegins(n) /\ n[1] \in EntityTypes)
<1>1. es_nif(n) <=> NifPerson(n) \/ NifEntity(n)
  BY LettersAre, Zenon DEF es_nif, NifPerson, NifBegins, NifEntity, NifDigit
<1>2. ~ (NifBegins(n) /\ n[1] \in EntityTypes)
  <2>1. SUFFICES ASSUME NifBegins(n), n[1] \in EntityTypes PROVE FALSE
    OBVIOUS
  <2>2. n[1] \in (10..17) \union {19, 23} \union (25..28) \union (30..32)
    BY <2>1, EntityTypesAre
  <2>3. n[1] \in 0..9 \/ n[1] \in {20, 21, 22, 33, 34, 35}
    BY <2>1, NifLeadsAre DEF NifBegins, IsDigit
  <2> QED BY <2>2, <2>3
<1> QED BY <1>1, <1>2

LEMMA NifDigitIs ==
  ASSUME NEW n \in Seq(Characters), NifEntity(n)
  PROVE  /\ Slice(n, 1, 8) \in Seq(Characters) /\ Len(Slice(n, 1, 8)) = 7 /\ AllDigits(Slice(n, 1, 8))
         /\ (\A x \in 2..8 : n[x] \in 0..9)
         /\ LuhnSum(Append(Slice(n, 1, 8), 0)) \in 0..9
         /\ NifDigit(n) = (10 - LuhnSum(Append(Slice(n, 1, 8), 0))) % 10 /\ NifDigit(n) \in 0..9
         /\ n[9] = NifDigit(n) \/ n[9] = (IF NifDigit(n) = 0 THEN 19 ELSE 9 + NifDigit(n))
<1>1. 1 \in Nat /\ 8 \in Nat /\ 1 <= 8 /\ 8 <= Len(n) /\ AllDigits(Slice(n, 1, 8))
  BY DEF NifEntity
<1>2. /\ Slice(n, 1, 8) \in Seq(0..9) /\ Slice(n, 1, 8) \in Seq(Characters) /\ Len(Slice(n, 1, 8)) = 8 - 1
      /\ \A x \in (1 + 1)..8 : n[x] \in 0..9 /\ Slice(n, 1, 8)[x - 1] = n[x]
  BY <1>1, DigitPlaces, Zenon
<1> DEFINE s == Slice(n, 1, 8)
<1> HIDE DEF s
<1>3. Append(s, 0) \in Seq(0..9)
  BY <1>2 DEF s
<1>4. LuhnSum(Append(s, 0)) \in 0..9
  BY <1>3, LuhnSumIsADigit
<1>5. NifDigit(n) = (10 - LuhnSum(Append(s, 0))) % 10
  BY DEF NifDigit, LuhnCheckDigit, s
<1>6. NifDigit(n) \in 0..9
  BY <1>4, <1>5
<1>7. n[9] = NifDigit(n) \/ n[9] = (IF NifDigit(n) = 0 THEN 19 ELSE 9 + NifDigit(n))
  BY DEF NifEntity
<1>8. \A x \in 2..8 : n[x] \in 0..9
  BY <1>2, SMT
<1>9. Len(Slice(n, 1, 8)) = 7
  BY <1>2
<1> QED BY <1>1, <1>2, <1>4, <1>5, <1>6, <1>7, <1>8, <1>9 DEF s

LEMMA NifCompleted ==
  ASSUME NEW n \in Seq(Characters), NifEntity(n), n[9] \in 0..9
  PROVE  Luhn(Slice(n, 1, 9))
<1> DEFINE s == Slice(n, 1, 8)
           u == Append(s, 0)
           v == Slice(n, 1, 9)
<1>1. /\ s \in Seq(Characters) /\ Len(s) = 7 /\ AllDigits(s) /\ (\A x \in 2..8 : n[x] \in 0..9)
      /\ LuhnSum(u) \in 0..9
      /\ NifDigit(n) = (10 - LuhnSum(u)) % 10 /\ NifDigit(n) \in 0..9
      /\ n[9] = NifDigit(n) \/ n[9] = (IF NifDigit(n) = 0 THEN 19 ELSE 9 + NifDigit(n))
  BY NifDigitIs
<1>2. Len(n) = 9 /\ 1 \in Nat /\ 8 \in Nat /\ 9 \in Nat /\ 1 <= 8 /\ 8 <= Len(n) /\ 1 <= 9 /\ 9 <= Len(n)
  BY DEF NifEntity
<1>3. /\ v \in Seq(Characters) /\ Len(v) = 9 - 1 /\ (\A x \in 1..(9 - 1) : v[x] = n[1 + x])
      /\ (\A x \in 1..(8 - 1) : s[x] = n[1 + x])
  BY <1>2, SliceIs, Zenon
<1>4. n[9] = NifDigit(n)
  <2>1. ASSUME NEW k \in 0..9, n[9] = k \/ n[9] = (IF k = 0 THEN 19 ELSE 9 + k) PROVE n[9] = k
    BY <2>1, SMT
  <2> QED BY <1>1, <2>1
<1> HIDE DEF s, v
<1>5. /\ u \in Seq(Characters) /\ Len(u) = 8 /\ u[8] = 0 /\ \A x \in 1..7 : u[x] = s[x]
  <2>1. s \in Seq(Characters) /\ Len(s) = 7
    BY <1>1
  <2>2. /\ Append(s, 0) \in Seq(Characters) /\ Len(Append(s, 0)) = Len(s) + 1
        /\ (\A x \in 1..Len(s) : Append(s, 0)[x] = s[x]) /\ Append(s, 0)[Len(s) + 1] = 0
    BY <2>1, AppendedZero, Zenon
  <2>3. Len(s) + 1 = 8 /\ 1..Len(s) = 1..7
    BY <2>1
  <2> QED BY <2>2, <2>3, Zenon
<1> HIDE DEF u
<1>6. /\ v \in Seq(Characters) /\ Len(v) = 8 /\ v[8] = n[9] /\ \A x \in 1..7 : v[x] = s[x]
  BY <1>3
<1>7. AllDigits(v) /\ AllDigits(u) /\ v # <<>>
  <2>1. \A x \in 1..7 : s[x] \in 0..9
    BY <1>1, <1>3, SMT
  <2>2. \A x \in 1..8 : x \in 1..7 \/ x = 8
    OBVIOUS
  <2>3. DOMAIN u = 1..8 /\ DOMAIN v = 1..8
    BY <1>5, <1>6
  <2>4. \A x \in 1..8 : v[x] \in 0..9 /\ u[x] \in 0..9
    BY <1>5, <1>6, <2>1, <2>2
  <2>5. v # <<>>
    <3>1. Len(v) = 8
      BY <1>6
    <3>2. Len(<<>>) # 8
      OBVIOUS
    <3> QED BY <3>1, <3>2, Zenon
  <2>6. AllDigits(v) /\ AllDigits(u)
    BY <2>3, <2>4 DEF AllDigits, IsDigit
  <2> QED BY <2>5, <2>6
<1>8. LuhnSum(v) = 0
  <2>1. CASE n[9] = 0
    <3>1. \A x \in 1..8 : u[x] = v[x]
      <4>1. \A x \in 1..8 : x \in 1..7 \/ x = 8
        OBVIOUS
      <4> QED BY <1>5, <1>6, <2>1, <4>1
    <3>2. u = v
      <4>1. u \in Seq(Characters) /\ Len(u) = 8 /\ v \in Seq(Characters) /\ Len(v) = 8
        BY <1>5, <1>6
      <4> QED BY <3>1, <4>1, SMT
    <3>3. LuhnSum(u) = 0
      BY <1>1, <1>4, <2>1, SMT
    <3> QED BY <3>2, <3>3
  <2>2. CASE n[9] # 0
    <3>1. Differs(u, v, 8)
      <4>1. v[8] # u[8] /\ 8 \in 1..Len(u)
        BY <1>5, <1>6, <2>2
      <4>2. \A x \in 1..8 : x # 8 => v[x] = u[x]
        BY <1>5, <1>6
      <4> QED BY <1>5, <1>6, <4>1, <4>2 DEF Differs
    <3>2. PICK S \in Int : LuhnSum(u) = S % 10 /\ LuhnSum(v) = (S + v[8]) % 10 /\ v[8] \in 0..9
      BY <1>5, <1>7, <3>1, LuhnSumCompleted
    <3>3. v[8] = (10 - (S % 10)) % 10
      BY <1>1, <1>4, <1>6, <3>2
    <3> QED BY <3>2, <3>3
  <2> QED BY <2>1, <2>2
<1> QED BY <1>7, <1>8 DEF Luhn, v

(* The control character of a NIF: the digit itself or its letter. *)
NifControl(p, x) == x = p \/ x = (IF p = 0 THEN 19 ELSE 9 + p)

LEMMA NifControlsAgree ==
  ASSUME NEW p \in 0..9, NEW x, NEW y, NifControl(p, x), NifControl(p, y), x \in 0..9 <=> y \in 0..9
  PROVE  x = y
BY DEF NifControl

LEMMA NifEntityDiffers ==
  ASSUME NEW w, NEW r, NEW i, Differs(w, r, i), NifEntity(w), NifEntity(r), IsDigit(w[i]) <=> IsDigit(r[i])
  PROVE  i = 1
<1>0. SUFFICES ASSUME i # 1 PROVE FALSE
  OBVIOUS
<1>1. w \in Seq(Characters) /\ r \in Seq(Characters)
  BY DEF Differs
<1>2. Len(w) = 9 /\ i \in 2..9 /\ r[i] # w[i] /\ (\A x \in 1..9 : x # i => r[x] = w[x])
  BY <1>0 DEF Differs, NifEntity
<1> DEFINE s == Slice(w, 1, 8)
           t == Slice(r, 1, 8)
           a == NifDigit(w)
           b == NifDigit(r)
<1>3. /\ s \in Seq(Characters) /\ Len(s) = 7 /\ AllDigits(s) /\ LuhnSum(Append(s, 0)) \in 0..9
      /\ a = (10 - LuhnSum(Append(s, 0))) % 10 /\ a \in 0..9
      /\ w[9] = a \/ w[9] = (IF a = 0 THEN 19 ELSE 9 + a)
  BY <1>1, NifDigitIs
<1>4. /\ t \in Seq(Characters) /\ Len(t) = 7 /\ AllDigits(t) /\ LuhnSum(Append(t, 0)) \in 0..9
      /\ b = (10 - LuhnSum(Append(t, 0))) % 10 /\ b \in 0..9
      /\ r[9] = b \/ r[9] = (IF b = 0 THEN 19 ELSE 9 + b)
  BY <1>1, NifDigitIs
<1>5. 1 \in Nat /\ 8 \in Nat /\ 1 <= 8 /\ 8 <= Len(w)
  BY <1>2
<1>6. CASE i = 9
  <2>1. t = s
    <3>1. 8 < i
      BY <1>6
    <3> QED BY <1>5, <3>1, SliceOfDiffers
  <2>2. a = b
    BY <1>3, <1>4, <2>1
  <2>3. r[9] # w[9] /\ (w[9] \in 0..9 <=> r[9] \in 0..9)
    BY <1>2, <1>6 DEF IsDigit
  <2> HIDE DEF a, b
  <2>4. a \in 0..9 /\ NifControl(a, w[9])
    BY <1>3, Zenon DEF NifControl
  <2>5. NifControl(a, r[9])
    BY <1>4, <2>2, Zenon DEF NifControl
  <2>7. w[9] = r[9]
    BY <2>3, <2>4, <2>5, NifControlsAgree, Zenon
  <2> QED BY <2>3, <2>7
<1>7. CASE i # 9
  <2>1. 1 < i /\ i <= 8 /\ w[9] = r[9]
    BY <1>2, <1>7
  <2>2. Differs(s, t, i - 1)
    BY <1>5, <2>1, SliceOfDiffers
  <2> HIDE DEF s, t
  <2>3. Differs(Append(s, 0), Append(t, 0), i - 1) /\ AllDigits(Append(s, 0)) /\ AllDigits(Append(t, 0))
    BY <1>3, <1>4, <2>2, AppendDiffers
  <2>4. LuhnSum(Append(s, 0)) # LuhnSum(Append(t, 0))
    BY <2>3, LuhnSumDiffers
  <2>5. a # b
    BY <1>3, <1>4, <2>4, CheckFromSum
  <2> HIDE DEF a, b
  <2> QED BY <1>3, <1>4, <2>1, <2>5, SMT
<1> QED BY <1>6, <1>7

LEMMA NifEntityExchanged ==
  ASSUME NEW w, NEW r, NEW i, Exchanged(w, r, i), NifEntity(w), NifEntity(r)
  PROVE  i = 1 \/ Near9(w[i], w[i + 1])
<1>0. SUFFICES ASSUME i # 1, ~ Near9(w[i], w[i + 1]) PROVE FALSE
  OBVIOUS
<1>1. w \in Seq(Characters) /\ r \in Seq(Characters)
  BY DEF Exchanged
<1>2. /\ Len(w) = 9 /\ i \in 2..8 /\ w[i] # w[i + 1] /\ r[i] = w[i + 1] /\ r[i + 1] = w[i]
      /\ (\A x \in 1..9 : x # i /\ x # i + 1 => r[x] = w[x])
  BY <1>0 DEF Exchanged, NifEntity
<1> DEFINE s == Slice(w, 1, 8)
           t == Slice(r, 1, 8)
           a == NifDigit(w)
           b == NifDigit(r)
<1>3. /\ s \in Seq(Characters) /\ Len(s) = 7 /\ AllDigits(s) /\ LuhnSum(Append(s, 0)) \in 0..9
      /\ a = (10 - LuhnSum(Append(s, 0))) % 10 /\ a \in 0..9 /\ (\A x \in 2..8 : w[x] \in 0..9)
      /\ w[9] = a \/ w[9] = (IF a = 0 THEN 19 ELSE 9 + a)
  BY <1>1, NifDigitIs
<1>4. /\ t \in Seq(Characters) /\ Len(t) = 7 /\ AllDigits(t) /\ LuhnSum(Append(t, 0)) \in 0..9
      /\ b = (10 - LuhnSum(Append(t, 0))) % 10 /\ b \in 0..9 /\ (\A x \in 2..8 : r[x] \in 0..9)
      /\ r[9] = b \/ r[9] = (IF b = 0 THEN 19 ELSE 9 + b)
  BY <1>1, NifDigitIs
<1>5. 1 \in Nat /\ 8 \in Nat /\ 1 <= 8 /\ 8 <= Len(w)
  BY <1>2
<1>6. CASE i = 8
  <2>1. r[8] = w[9] /\ r[9] = w[8]
    BY <1>2, <1>6
  <2>2. w[9] \in 0..9 /\ r[9] \in 0..9
    <3>1. r[8] \in 0..9 /\ w[8] \in 0..9
      BY <1>3, <1>4
    <3> QED BY <2>1, <3>1
  <2>3. Luhn(Slice(w, 1, 9)) /\ Luhn(Slice(r, 1, 9))
    BY <1>1, <2>2, NifCompleted
  <2>4. 1 \in Nat /\ 9 \in Nat /\ 1 < i /\ i < 9 /\ 9 <= Len(w)
    BY <1>2
  <2> QED BY <1>0, <2>3, <2>4, LuhnOfSliceExchanged
<1>7. CASE i # 8
  <2>1. 1 < i /\ i < 8 /\ w[9] = r[9]
    BY <1>2, <1>7
  <2>2. Exchanged(s, t, i - 1)
    BY <1>5, <2>1, SliceOfExchanged
  <2>3. s[i - 1] = w[i] /\ s[(i - 1) + 1] = w[i + 1]
    <3>1. \A x \in 1..(8 - 1) : s[x] = w[1 + x]
      BY <1>1, <1>5, SliceIs
    <3>2. i - 1 \in 1..7 /\ (i - 1) + 1 \in 1..7 /\ 1 + (i - 1) = i /\ 1 + ((i - 1) + 1) = i + 1
      BY <1>2, <2>1
    <3>3. s[i - 1] = w[1 + (i - 1)] /\ s[(i - 1) + 1] = w[1 + ((i - 1) + 1)]
      BY <3>1, <3>2
    <3> QED BY <3>2, <3>3
  <2> HIDE DEF s, t
  <2>4. Exchanged(Append(s, 0), Append(t, 0), i - 1) /\ AllDigits(Append(s, 0)) /\ AllDigits(Append(t, 0))
        /\ Append(s, 0)[i - 1] = s[i - 1] /\ Append(s, 0)[(i - 1) + 1] = s[(i - 1) + 1]
    <3>1. AllDigits(s) /\ AllDigits(t)
      BY <1>3, <1>4
    <3> QED BY <2>2, <3>1, AppendExchanged, Zenon
  <2>5. Append(s, 0)[i - 1] - Append(s, 0)[(i - 1) + 1] \notin {9, -9}
    BY <1>0, <2>3, <2>4 DEF Near9
  <2>6. LuhnSum(Append(s, 0)) # LuhnSum(Append(t, 0))
    BY <2>4, <2>5, LuhnSumExchanged
  <2>7. a # b
    BY <1>3, <1>4, <2>6, CheckFromSum
  <2> HIDE DEF a, b
  <2> QED BY <1>3, <1>4, <2>1, <2>7, SMT
<1> QED BY <1>6, <1>7

LEMMA es_nif_Differs ==
  ASSUME NEW w, NEW r, NEW i, Differs(w, r, i), IsDigit(w[i]) <=> IsDigit(r[i])
  PROVE  /\ es_nif(w) /\ es_nif(r) => i = 1
         /\ es_nif_nie(w) /\ es_nif_nie(r) => i = 1
<1>1. w \in Seq(Characters) /\ r \in Seq(Characters) /\ i \in Int /\ (i # 1 => (Len(w) = 9 => w[1] = r[1]))
  BY DEF Differs
<1>2. es_nif_nie(w) /\ es_nif_nie(r) => i = 1
  BY <1>1, NifReadersAgree, NifDiffers
<1>3. ASSUME es_nif(w), es_nif(r), i # 1 PROVE FALSE
  <2>1. NifPerson(w) \/ NifEntity(w)
    BY <1>3, NifKinds
  <2>2. NifPerson(r) \/ NifEntity(r)
    BY <1>3, NifKinds
  <2>3. Len(w) = 9
    BY <2>1 DEF NifPerson, NifBegins, NifEntity
  <2>4. w[1] = r[1]
    BY <1>1, <1>3, <2>3
  <2>5. ~ (NifPerson(w) /\ NifEntity(r)) /\ ~ (NifEntity(w) /\ NifPerson(r))
    BY <2>4, NifKinds DEF NifPerson, NifEntity
  <2>6. (NifPerson(w) /\ NifPerson(r)) \/ (NifEntity(w) /\ NifEntity(r))
    BY <2>1, <2>2, <2>5
  <2> QED BY <1>3, <2>6, NifDiffers, NifEntityDiffers
<1> QED BY <1>2, <1>3

LEMMA es_nif_Exchanged ==
  ASSUME NEW w, NEW r, NEW i, Exchanged(w, r, i)
  PROVE  /\ es_nif(w) /\ es_nif(r) => i = 1 \/ (r[1] \in EntityTypes /\ Near9(w[i], w[i + 1]))
         /\ es_nif_nie(w) /\ es_nif_nie(r) => i = 1
<1>1. w \in Seq(Characters) /\ r \in Seq(Characters) /\ i \in Int /\ (i # 1 => (Len(w) = 9 => w[1] = r[1]))
  BY DEF Exchanged
<1>2. es_nif_nie(w) /\ es_nif_nie(r) => i = 1
  BY <1>1, NifReadersAgree, NifExchanged
<1>3. ASSUME es_nif(w), es_nif(r), i # 1 PROVE r[1] \in EntityTypes /\ Near9(w[i], w[i + 1])
  <2>1. NifPerson(w) \/ NifEntity(w)
    BY <1>3, NifKinds
  <2>2. NifPerson(r) \/ NifEntity(r)
    BY <1>3, NifKinds
  <2>3. Len(w) = 9
    BY <2>1 DEF NifPerson, NifBegins, NifEntity
  <2>4. w[1] = r[1]
    BY <1>1, <1>3, <2>3
  <2>5. ~ (NifPerson(w) /\ NifEntity(r)) /\ ~ (NifEntity(w) /\ NifPerson(r))
    BY <2>4, NifKinds DEF NifPerson, NifEntity
  <2>6. (NifPerson(w) /\ NifPerson(r)) \/ (NifEntity(w) /\ NifEntity(r))
    BY <2>1, <2>2, <2>5
  <2>7. ~ (NifPerson(w) /\ NifPerson(r))
    BY <1>3, NifExchanged
  <2>8. NifEntity(w) /\ NifEntity(r)
    BY <2>6, <2>7
  <2>9. r[1] \in EntityTypes
    BY <2>8 DEF NifEntity
  <2> QED BY <1>3, <2>8, <2>9, NifEntityExchanged
<1> QED BY <1>2, <1>3

-----------------------------------------------------------------------------
(* Ireland: a weighted sum modulo 23, written as a letter. *)
IeRank(v) == IF v = 32 THEN 0 ELSE v - 9
IeExtra(n) == IF IsDigit(n[2]) /\ Len(n) = 9 THEN IeRank(n[9]) ELSE 0
IeHead(n) == IF IsDigit(n[2]) THEN Slice(n, 0, 7) ELSE <<0>> \o Slice(n, 2, 7) \o <<n[1]>>
IeReads(n) == IeRank(n[8]) = (WeightedSum(IeHead(n), Descending(8)) + 9 * IeExtra(n)) % 23

IeNames == <<"W", "A", "B", "C", "D", "E", "F", "G", "H", "I", "J", "K", "L", "M",
             "N", "O", "P", "Q", "R", "S", "T", "U", "V">>

LEMMA IeAlphabetIs ==
  DOMAIN IeAlphabet = 1..23 /\ \A k \in 0..22 : IeAlphabet[k + 1] \in 10..32 /\ IeRank(IeAlphabet[k + 1]) = k
<1>1. IeAlphabet = Alphabet(IeNames) /\ DOMAIN IeNames = 1..23
  BY DEF IeAlphabet, IeNames
<1>2. DOMAIN IeAlphabet = 1..23 /\ \A x \in 1..23 : IeAlphabet[x] = Letter(IeNames[x])
  BY <1>1 DEF Alphabet
<1>3. ASSUME NEW k \in 0..22 PROVE Letter(IeNames[k + 1]) = IF k = 0 THEN 32 ELSE 9 + k
  <2>1. \/ k = 0 \/ k = 1 \/ k = 2 \/ k = 3 \/ k = 4 \/ k = 5 \/ k = 6 \/ k = 7 \/ k = 8 \/ k = 9 \/ k = 10 \/ k = 11
        \/ k = 12 \/ k = 13 \/ k = 14 \/ k = 15 \/ k = 16 \/ k = 17 \/ k = 18 \/ k = 19 \/ k = 20 \/ k = 21 \/ k = 22
    OBVIOUS
  <2> QED BY <2>1, LettersAre DEF IeNames
<1>4. ASSUME NEW k \in 0..22 PROVE IeAlphabet[k + 1] \in 10..32 /\ IeRank(IeAlphabet[k + 1]) = k
  <2>1. k + 1 \in 1..23
    OBVIOUS
  <2>2. IeAlphabet[k + 1] = IF k = 0 THEN 32 ELSE 9 + k
    BY <1>2, <1>3, <2>1
  <2> QED BY <2>2 DEF IeRank
<1> QED BY <1>2, <1>4

LEMMA IeLettersAre ==
  ASSUME NEW v \in ToSet(IeAlphabet)
  PROVE  /\ v \in 10..32 /\ IeRank(v) \in 0..22
         /\ (CHOOSE i \in DOMAIN IeAlphabet : IeAlphabet[i] = v) - 1 = IeRank(v)
<1> DEFINE c == CHOOSE i \in DOMAIN IeAlphabet : IeAlphabet[i] = v
<1>1. \E i \in DOMAIN IeAlphabet : IeAlphabet[i] = v
  BY DEF ToSet
<1>2. c \in DOMAIN IeAlphabet /\ IeAlphabet[c] = v
  BY <1>1
<1> HIDE DEF c
<1>3. c - 1 \in 0..22 /\ (c - 1) + 1 = c
  BY <1>2, IeAlphabetIs
<1>4. v \in 10..32 /\ IeRank(v) = c - 1
  BY <1>2, <1>3, IeAlphabetIs
<1> QED BY <1>3, <1>4 DEF c

LEMMA IeBegins ==
  ASSUME NEW n \in Seq(Characters), ie_vat(n)
  PROVE  /\ Len(n) \in {8, 9} /\ n[1] \in 0..9 /\ (\A x \in 3..7 : n[x] \in 0..9)
         /\ n[8] \in ToSet(IeAlphabet) /\ (Len(n) = 9 => n[9] \in ToSet(IeAlphabet))
<1>1. Len(n) \in {8, 9} /\ IsDigit(n[1]) /\ AllDigits(Slice(n, 2, 7)) /\ \A i \in 8..Len(n) : n[i] \in ToSet(IeAlphabet)
  BY Zenon DEF ie_vat
<1>2. Len(n) \in Nat /\ 2 <= 7 /\ 7 <= Len(n) /\ 8 \in 8..Len(n) /\ (Len(n) = 9 => 9 \in 8..Len(n))
  BY <1>1, EightOrNine, Zenon
<1>3. 2 \in Nat /\ 7 \in Nat
  OBVIOUS
<1>4. \A x \in (2 + 1)..7 : n[x] \in 0..9
  <2>1. 2 \in Nat /\ 7 \in Nat /\ 2 <= 7
    OBVIOUS
  <2>2. AllDigits(Slice(n, 2, 7)) /\ 7 <= Len(n)
    BY <1>1, <1>2, Zenon
  <2> QED BY <2>1, <2>2, DigitPlaces
<1>5. (2 + 1)..7 = 3..7
  OBVIOUS
<1> QED BY <1>1, <1>2, <1>4, <1>5, Zenon DEF IsDigit

LEMMA IeOldHeadIs ==
  ASSUME NEW s \in Seq(Characters), Len(s) = 5, NEW k \in Characters
  PROVE  /\ <<0>> \o s \o <<k>> \in Seq(Characters) /\ Len(<<0>> \o s \o <<k>>) = 7
         /\ (<<0>> \o s \o <<k>>)[1] = 0 /\ (<<0>> \o s \o <<k>>)[7] = k
         /\ \A x \in 1..5 : (<<0>> \o s \o <<k>>)[x + 1] = s[x]
<1>1. PICK z : z = 0
  OBVIOUS
<1>2. z \in Characters /\ 5 \in Nat /\ 6 \in Nat
  BY <1>1 DEF Characters
<1> DEFINE t == <<z>> \o s
           u == t \o <<k>>
<1>3. t \in Seq(Characters) /\ Len(t) = 5 + 1 /\ t[1] = z /\ \A x \in 1..5 : t[x + 1] = s[x]
  BY <1>2, LedIs, Zenon
<1>4. 5 + 1 = 6 /\ 6 + 1 = 7 /\ 1 \in 1..6 /\ \A x \in 1..5 : x + 1 \in 1..6
  OBVIOUS
<1> HIDE DEF t
<1>5. Len(t) = 6
  BY <1>3, <1>4, Zenon
<1>6. u \in Seq(Characters) /\ Len(u) = 6 + 1 /\ u[6 + 1] = k /\ \A x \in 1..6 : u[x] = t[x]
  BY <1>2, <1>3, <1>5, FollowedIs, Zenon
<1> HIDE DEF u
<1>7. u \in Seq(Characters) /\ Len(u) = 7 /\ u[7] = k
  BY <1>4, <1>6, Zenon
<1>8. u[1] = 0 /\ \A x \in 1..5 : u[x + 1] = s[x]
  BY <1>1, <1>3, <1>4, <1>6, Zenon
<1>9. u = <<0>> \o s \o <<k>>
  BY <1>1, Zenon DEF u, t
<1> QED BY <1>7, <1>8, <1>9, Zenon

LEMMA IeHeadIs ==
  ASSUME NEW n \in Seq(Characters), ie_vat(n)
  PROVE  /\ IeHead(n) \in Seq(Characters) /\ Len(IeHead(n)) = 7
         /\ IsDigit(n[2]) => \A x \in 1..7 : IeHead(n)[x] = n[x]
         /\ ~ IsDigit(n[2]) => /\ IeHead(n)[1] = 0 /\ (\A x \in 2..6 : IeHead(n)[x] = n[x + 1])
                               /\ IeHead(n)[7] = n[1]
<1>1. Len(n) \in {8, 9} /\ n[1] \in 0..9
  BY IeBegins
<1>2. Len(n) \in Nat /\ 2 <= 7 /\ 7 <= Len(n) /\ 2 \in Nat /\ 7 \in Nat
  <2>1. 2 \in Nat /\ 7 \in Nat
    OBVIOUS
  <2> QED BY <1>1, <2>1, EightOrNine, Zenon
<1>3. CASE IsDigit(n[2])
  <2>1. Slice(n, 0, 7) \in Seq(Characters) /\ Len(Slice(n, 0, 7)) = 7 /\ \A x \in 1..7 : Slice(n, 0, 7)[x] = n[x]
    BY <1>2, TakenFromTheStart, Zenon
  <2>2. IeHead(n) = Slice(n, 0, 7)
    BY <1>3 DEF IeHead
  <2> QED BY <1>3, <2>1, <2>2, Zenon
<1>4. CASE ~ IsDigit(n[2])
  <2>1. PICK s : s = Slice(n, 2, 7)
    OBVIOUS
  <2>2. s \in Seq(Characters) /\ Len(s) = 5 /\ \A x \in 1..5 : s[x] = n[2 + x]
    <3>1. s \in Seq(Characters) /\ Len(s) = 7 - 2 /\ \A x \in 1..(7 - 2) : s[x] = n[2 + x]
      BY <1>2, <2>1, SliceIs, Zenon
    <3>2. 7 - 2 = 5
      OBVIOUS
    <3> QED BY <3>1, <3>2, Zenon
  <2>3. PICK u : u = <<0>> \o s \o <<n[1]>>
    OBVIOUS
  <2>4. n[1] \in Characters
    <3>1. 0..9 \subseteq Characters
      BY DEF Characters
    <3> QED BY <1>1, <3>1, Zenon
  <2>5. u \in Seq(Characters) /\ Len(u) = 7 /\ u[1] = 0 /\ u[7] = n[1] /\ \A x \in 1..5 : u[x + 1] = s[x]
    BY <2>2, <2>3, <2>4, IeOldHeadIs, Zenon
  <2>6. \A x \in 2..6 : u[x] = n[x + 1]
    <3>1. \A x \in 2..6 : x - 1 \in 1..5 /\ 2 + (x - 1) = x + 1 /\ (x - 1) + 1 = x
      OBVIOUS
    <3>2. \A x \in 2..6 : s[x - 1] = n[2 + (x - 1)] /\ u[(x - 1) + 1] = s[x - 1]
      BY <2>2, <2>5, <3>1, Zenon
    <3> QED BY <3>1, <3>2, Zenon
  <2>7. IeHead(n) = u
    BY <1>4, <2>1, <2>3, Zenon DEF IeHead
  <2> QED BY <1>4, <2>5, <2>6, <2>7, Zenon
<1> QED BY <1>3, <1>4

LEMMA IeChecks ==
  ASSUME NEW n \in Seq(Characters), ie_vat(n)
  PROVE  IeReads(n) /\ IeExtra(n) \in 0..22 /\ IeRank(n[8]) \in 0..22
<1>1. /\ Len(n) \in {8, 9} /\ n[8] \in ToSet(IeAlphabet) /\ (Len(n) = 9 => n[9] \in ToSet(IeAlphabet))
  BY IeBegins
<1>2. IeExtra(n) \in 0..22 /\ IeRank(n[8]) \in 0..22
  <2>1. IeRank(n[8]) \in 0..22 /\ (Len(n) = 9 => IeRank(n[9]) \in 0..22)
    BY <1>1, IeLettersAre, Zenon
  <2>2. 0 \in 0..22
    OBVIOUS
  <2> QED BY <2>1, <2>2, Zenon DEF IeExtra
<1> DEFINE place == (CHOOSE i \in DOMAIN IeAlphabet : IeAlphabet[i] = n[9]) - 1
           sum == WeightedSum(IeHead(n), Descending(8))
<1>3. \/ IsDigit(n[2]) /\ ie_check_letter(Slice(n, 0, 7), IF Len(n) = 8 THEN 0 ELSE place) = n[8]
      \/ n[2] \in OldFormMarks /\ ie_check_letter(<<0>> \o Slice(n, 2, 7) \o <<n[1]>>, 0) = n[8]
  BY Zenon DEF ie_vat
<1>4. Len(n) = 9 => place = IeRank(n[9])
  BY <1>1, IeLettersAre
<1>5. n[2] \in OldFormMarks => ~ IsDigit(n[2])
  <2>1. \A v : v \in OldFormMarks => ~ IsDigit(v)
    BY DEF OldFormMarks, IsDigit
  <2> QED BY <2>1, Zenon
<1>6. ie_check_letter(IeHead(n), IeExtra(n)) = n[8]
  <2>1. CASE IsDigit(n[2])
    <3>1. IeHead(n) = Slice(n, 0, 7)
      BY <2>1 DEF IeHead
    <3>2. IeExtra(n) = IF Len(n) = 8 THEN 0 ELSE place
      <4>1. (Len(n) # 8 => Len(n) = 9) /\ ~ (8 = 9)
        BY <1>1, EightOrNine
      <4> HIDE DEF place
      <4> QED BY <1>4, <2>1, <4>1, Zenon DEF IeExtra
    <3> HIDE DEF place
    <3> QED BY <1>3, <1>5, <2>1, <3>1, <3>2
  <2>2. CASE ~ IsDigit(n[2])
    <3>1. IeHead(n) = <<0>> \o Slice(n, 2, 7) \o <<n[1]>>
      BY <2>2 DEF IeHead
    <3>2. IeExtra(n) = 0
      BY <2>2 DEF IeExtra
    <3> HIDE DEF place
    <3> QED BY <1>3, <2>2, <3>1, <3>2
  <2> QED BY <2>1, <2>2
<1>7. IeAlphabet[((sum + 9 * IeExtra(n)) % 23) + 1] = n[8]
  BY <1>6, Zenon DEF ie_check_letter
<1>8. sum \in Int
  <2>1. /\ IeHead(n) \in Seq(Characters) /\ IsWeights(Descending(8))
    <3>1. 8 \in Nat /\ 8 > 1
      OBVIOUS
    <3> QED BY <3>1, IeHeadIs, DescendingIs
  <2> QED BY <2>1, SumOfWeights
<1> HIDE DEF sum
<1>9. (sum + 9 * IeExtra(n)) % 23 \in 0..22
  <2>1. ASSUME NEW x \in Int, NEW y \in 0..22 PROVE (x + 9 * y) % 23 \in 0..22
    OBVIOUS
  <2> QED BY <1>2, <1>8, <2>1, Zenon
<1>10. IeRank(n[8]) = (sum + 9 * IeExtra(n)) % 23
  BY <1>7, <1>9, IeAlphabetIs
<1> QED BY <1>2, <1>10 DEF IeReads, sum

IeHeadFacts(n, u) ==
  /\ u \in Seq(Characters) /\ Len(u) = 7
  /\ IsDigit(n[2]) => \A x \in 1..7 : u[x] = n[x]
  /\ ~ IsDigit(n[2]) => /\ u[1] = 0 /\ (\A x \in 2..6 : u[x] = n[x + 1])
                        /\ u[7] = n[1]

(* The digit of the number at each place of what is summed. *)
IePlace(n, j) == IF IsDigit(n[2]) THEN j ELSE IF j = 7 THEN 1 ELSE j + 1

LEMMA IeHeadAt ==
  ASSUME NEW n, NEW u, IeHeadFacts(n, u), NEW j \in 1..7
  PROVE  u[j] = IF ~ IsDigit(n[2]) /\ j = 1 THEN 0 ELSE n[IePlace(n, j)]
<1>1. CASE IsDigit(n[2])
  <2>1. IePlace(n, j) = j
    BY <1>1 DEF IePlace
  <2> QED BY <1>1, <2>1, Zenon DEF IeHeadFacts
<1>2. CASE ~ IsDigit(n[2])
  <2>1. j = 1 \/ j = 7 \/ (j \in 2..6 /\ j # 7)
    OBVIOUS
  <2>2. ~ (7 = 1)
    OBVIOUS
  <2>3. u[1] = 0 /\ (\A x \in 2..6 : u[x] = n[x + 1]) /\ u[7] = n[1]
    BY <1>2, Zenon DEF IeHeadFacts
  <2>4. CASE j = 1
    BY <1>2, <2>3, <2>4, Zenon
  <2>5. CASE j = 7
    BY <1>2, <2>2, <2>3, <2>5, Zenon DEF IePlace
  <2>6. CASE j \in 2..6 /\ j # 7
    <3>1. j # 1
      BY <2>6
    <3>2. IePlace(n, j) = j + 1
      BY <1>2, <2>6, Zenon DEF IePlace
    <3>3. u[j] = n[j + 1]
      BY <2>3, <2>6, Zenon
    <3> QED BY <3>1, <3>2, <3>3, Zenon
  <2> QED BY <2>1, <2>4, <2>5, <2>6
<1> QED BY <1>1, <1>2

LEMMA IePlacesAre ==
  ASSUME NEW n
  PROVE  /\ \A j \in 1..7 : IePlace(n, j) \in 1..7 /\ (~ IsDigit(n[2]) /\ j # 1 => IePlace(n, j) # 2)
         /\ IsDigit(n[2]) => \A j \in 1..7 : IePlace(n, j) = j
         /\ ~ IsDigit(n[2]) => /\ \A j \in 2..6 : IePlace(n, j) = j + 1
                               /\ IePlace(n, 7) = 1
BY DEF IePlace

LEMMA IeHeads ==
  ASSUME NEW w \in Seq(Characters), NEW r \in Seq(Characters), ie_vat(w), ie_vat(r)
  PROVE  /\ IeHeadFacts(w, IeHead(w)) /\ IeHeadFacts(r, IeHead(r))
         /\ IeHead(w) \in Seq(Characters) /\ Len(IeHead(w)) = 7
         /\ IeHead(r) \in Seq(Characters) /\ Len(IeHead(r)) = 7
<1>1. IeHeadFacts(w, IeHead(w))
  BY IeHeadIs, Zenon DEF IeHeadFacts
<1>2. IeHeadFacts(r, IeHead(r))
  BY IeHeadIs, Zenon DEF IeHeadFacts
<1> QED BY <1>1, <1>2, Zenon DEF IeHeadFacts

(* One word with one digit changed. *)
LEMMA IeHeadsDiffer ==
  ASSUME NEW w, NEW r, NEW i, Differs(w, r, i), ie_vat(w), ie_vat(r), i # 2
  PROVE  /\ i \in {8, 9} => IeHead(w) = IeHead(r)
         /\ i \notin {8, 9} => \E j \in 1..7 : Differs(IeHead(w), IeHead(r), j) /\ IeHead(w)[j] \in 0..9 /\ IeHead(r)[j] \in 0..9
<1> DEFINE u == IeHead(w)
           v == IeHead(r)
<1>1. w \in Seq(Characters) /\ r \in Seq(Characters) /\ i \in 1..Len(w) /\ r[i] # w[i] /\ \A x \in 1..Len(w) : x # i => r[x] = w[x]
  BY Zenon DEF Differs
<1>2. IeHeadFacts(w, u) /\ IeHeadFacts(r, v) /\ u \in Seq(Characters) /\ Len(u) = 7 /\ v \in Seq(Characters) /\ Len(v) = 7
  BY <1>1, IeHeads, Zenon
<1>3. Len(w) \in {8, 9} /\ w[1] \in 0..9 /\ (\A x \in 3..7 : w[x] \in 0..9) /\ r[1] \in 0..9 /\ (\A x \in 3..7 : r[x] \in 0..9)
  BY <1>1, IeBegins, Zenon
<1>4. /\ 2 \in 1..Len(w) /\ \A x \in 1..7 : x \in 1..Len(w)
      /\ i \in {8, 9} \/ i \in 1..7
  <2>1. ASSUME NEW k, k \in {8, 9}
        PROVE  2 \in 1..k /\ (\A x \in 1..7 : x \in 1..k) /\ \A y \in 1..k : y \in {8, 9} \/ y \in 1..7
    BY <2>1
  <2> QED BY <1>1, <1>3, <2>1, Zenon
<1>5. r[2] = w[2]
  BY <1>1, <1>4, Zenon
<1> HIDE DEF u, v
<1>6. \A j \in 1..7 : IePlace(r, j) = IePlace(w, j) /\ (IsDigit(r[2]) <=> IsDigit(w[2]))
  BY <1>5, Zenon DEF IePlace
<1>7. \A j \in 1..7 : u[j] = IF ~ IsDigit(w[2]) /\ j = 1 THEN 0 ELSE w[IePlace(w, j)]
  BY <1>2, IeHeadAt, Zenon
<1>8. \A j \in 1..7 : v[j] = IF ~ IsDigit(w[2]) /\ j = 1 THEN 0 ELSE r[IePlace(w, j)]
  <2> TAKE j \in 1..7
  <2>1. v[j] = IF ~ IsDigit(r[2]) /\ j = 1 THEN 0 ELSE r[IePlace(r, j)]
    BY <1>2, IeHeadAt, Zenon
  <2>2. IePlace(r, j) = IePlace(w, j) /\ (IsDigit(r[2]) <=> IsDigit(w[2]))
    BY <1>6, Zenon
  <2>3. CASE ~ IsDigit(w[2]) /\ j = 1
    BY <2>1, <2>2, <2>3, Zenon
  <2>4. CASE ~ (~ IsDigit(w[2]) /\ j = 1)
    BY <2>1, <2>2, <2>4, Zenon
  <2> QED BY <2>3, <2>4, Zenon
<1>9. \A j \in 1..7 : IePlace(w, j) \in 1..7
  BY IePlacesAre
<1>10. \A j \in 1..7 : IePlace(w, j) # i => u[j] = v[j]
  <2> SUFFICES ASSUME NEW j \in 1..7, IePlace(w, j) # i PROVE u[j] = v[j]
    OBVIOUS
  <2>1. IePlace(w, j) \in 1..Len(w)
    BY <1>4, <1>9, Zenon
  <2>2. r[IePlace(w, j)] = w[IePlace(w, j)]
    BY <1>1, <2>1, Zenon
  <2> QED BY <1>7, <1>8, <2>2, Zenon
<1>11. ASSUME i \in {8, 9} PROVE u = v
  <2>1. \A j \in 1..7 : IePlace(w, j) # i
    BY <1>9, <1>11
  <2>2. \A j \in 1..7 : v[j] = u[j]
    BY <1>10, <2>1, Zenon
  <2> QED BY <1>2, <2>2, SameWord, Zenon
<1>12. ASSUME i \notin {8, 9} PROVE \E j \in 1..7 : Differs(u, v, j) /\ u[j] \in 0..9 /\ v[j] \in 0..9
  <2>1. i \in 1..7 /\ i # 2
    BY <1>4, <1>12
  <2>2. \E j \in 1..7 : IePlace(w, j) = i /\ ~ (~ IsDigit(w[2]) /\ j = 1) /\ \A x \in 1..7 : x # j => IePlace(w, x) # i \/ (~ IsDigit(w[2]) /\ x = 1)
    <3>1. CASE IsDigit(w[2])
      <4>1. \A x \in 1..7 : IePlace(w, x) = x
        BY <3>1 DEF IePlace
      <4> QED BY <2>1, <3>1, <4>1, Zenon
    <3>2. CASE ~ IsDigit(w[2])
      <4> DEFINE p(x) == IF x = 7 THEN 1 ELSE x + 1
      <4>1. \A x \in 1..7 : IePlace(w, x) = p(x)
        BY <3>2, Zenon DEF IePlace
      <4>2. \E j \in 1..7 : p(j) = i /\ j # 1 /\ \A x \in 1..7 : x # j => p(x) # i
        <5>1. CASE i = 1
          <6>1. 7 \in 1..7 /\ p(7) = i /\ 7 # 1 /\ \A x \in 1..7 : x # 7 => p(x) # i
            BY <5>1
          <6> QED BY <6>1
        <5>2. CASE i # 1
          <6>1. i - 1 \in 1..7 /\ p(i - 1) = i /\ i - 1 # 1 /\ \A x \in 1..7 : x # i - 1 => p(x) # i
            BY <2>1, <5>2
          <6> HIDE DEF p
          <6> QED BY <6>1
        <5> QED BY <5>1, <5>2
      <4> HIDE DEF p
      <4> QED BY <3>2, <4>1, <4>2, Zenon
    <3> QED BY <3>1, <3>2
  <2>3. PICK j \in 1..7 : IePlace(w, j) = i /\ ~ (~ IsDigit(w[2]) /\ j = 1) /\ \A x \in 1..7 : x # j => IePlace(w, x) # i \/ (~ IsDigit(w[2]) /\ x = 1)
    BY <2>2
  <2>4. u[j] = w[i] /\ v[j] = r[i]
    BY <1>7, <1>8, <2>3, Zenon
  <2>5. \A x \in 1..7 : x # j => v[x] = u[x]
    BY <1>7, <1>8, <1>10, <2>3, Zenon
  <2>6. v[j] # u[j]
    BY <1>1, <2>4, Zenon
  <2>7. Differs(u, v, j)
    BY <1>2, <2>5, <2>6, DifferentWords, Zenon
  <2>8. w[i] \in 0..9 /\ r[i] \in 0..9
    <3>1. i = 1 \/ i \in 3..7
      BY <2>1
    <3> QED BY <1>3, <3>1, Zenon
  <2> QED BY <2>4, <2>7, <2>8, Zenon
<1> QED BY <1>11, <1>12, Zenon DEF u, v

IeWeights == Descending(8)

LEMMA IeWeightsAre ==
  IsWeights(IeWeights) /\ Len(IeWeights) = 7 /\ \A x \in 1..7 : IeWeights[x] = 9 - x
<1>1. ASSUME NEW from \in Nat, from = 8
      PROVE  IsWeights(Descending(from)) /\ Len(Descending(from)) = 7 /\ \A x \in 1..7 : Descending(from)[x] = 9 - x
  <2>1. from > 1
    BY <1>1
  <2>2. /\ IsWeights(Descending(from)) /\ Len(Descending(from)) = from - 1
        /\ \A x \in 1..(from - 1) : Descending(from)[x] = (from + 1) - x
    BY <2>1, DescendingIs
  <2> QED BY <1>1, <2>2
<1>2. 8 \in Nat
  OBVIOUS
<1> QED BY <1>1, <1>2, Zenon DEF IeWeights

LEMMA Remainders23 ==
  ASSUME NEW a \in Int, NEW b \in Int, NEW e \in 0..22, NEW f \in 0..22, Remainder23(a, e) = Remainder23(b, f)
  PROVE  /\ a = b => e = f
         /\ e = f => a % 23 = b % 23
<1>1. a = b => e = f
  BY DEF Remainder23
<1>2. e = f => a % 23 = b % 23
  BY DEF Remainder23
<1> QED BY <1>1, <1>2

LEMMA IeRanksTell ==
  ASSUME NEW u \in ToSet(IeAlphabet), NEW v \in ToSet(IeAlphabet), IeRank(u) = IeRank(v)
  PROVE  u = v
<1>1. u \in 10..32 /\ v \in 10..32
  BY IeLettersAre
<1> QED BY <1>1 DEF IeRank

LEMMA IeSums ==
  ASSUME NEW n \in Seq(Characters), ie_vat(n)
  PROVE  /\ IeRank(n[8]) = Remainder23(WeightedSum(IeHead(n), IeWeights), IeExtra(n))
         /\ WeightedSum(IeHead(n), IeWeights) \in Int /\ IeExtra(n) \in 0..22
<1>1. IeReads(n) /\ IeExtra(n) \in 0..22
  BY IeChecks
<1>2. IeHead(n) \in Seq(Characters)
  BY IeHeadIs
<1>3. WeightedSum(IeHead(n), IeWeights) \in Int
  BY <1>2, IeWeightsAre, SumOfWeights
<1> QED BY <1>1, <1>3, Zenon DEF IeReads, Remainder23, IeWeights

LEMMA ie_vat_Differs ==
  ASSUME NEW w, NEW r, NEW i, Differs(w, r, i), ie_vat(w), ie_vat(r)
  PROVE  i = 2 \/ (i = 9 /\ ~ IsDigit(r[2]))
<1>0. SUFFICES ASSUME i # 2, i = 9 => IsDigit(r[2]) PROVE FALSE
  OBVIOUS
<1>1. /\ w \in Seq(Characters) /\ r \in Seq(Characters) /\ Len(r) = Len(w)
      /\ i \in 1..Len(w) /\ r[i] # w[i] /\ \A x \in 1..Len(w) : x # i => r[x] = w[x]
  BY Zenon DEF Differs
<1>2. /\ Len(w) \in {8, 9} /\ w[8] \in ToSet(IeAlphabet) /\ (Len(w) = 9 => w[9] \in ToSet(IeAlphabet))
      /\ r[8] \in ToSet(IeAlphabet) /\ (Len(r) = 9 => r[9] \in ToSet(IeAlphabet))
  BY <1>1, IeBegins, Zenon
<1>3. /\ 2 \in 1..Len(w) /\ 8 \in 1..Len(w) /\ (Len(w) = 9 => 9 \in 1..Len(w))
      /\ (i = 9 => Len(w) = 9)
  <2>1. ASSUME NEW k, k \in {8, 9}, NEW y \in 1..k
        PROVE  2 \in 1..k /\ 8 \in 1..k /\ (k = 9 => 9 \in 1..k) /\ (y = 9 => k = 9)
    BY <2>1
  <2> QED BY <1>1, <1>2, <2>1, Zenon
<1> DEFINE a == WeightedSum(IeHead(w), IeWeights)
           b == WeightedSum(IeHead(r), IeWeights)
           e == IeExtra(w)
           f == IeExtra(r)
<1>4. IeRank(w[8]) = Remainder23(a, e) /\ a \in Int /\ e \in 0..22
  BY <1>1, IeSums, Zenon
<1>5. IeRank(r[8]) = Remainder23(b, f) /\ b \in Int /\ f \in 0..22
  BY <1>1, IeSums, Zenon
<1>6. r[2] = w[2]
  BY <1>0, <1>1, <1>3, Zenon
<1>7. i # 9 => e = f
  <2>1. i # 9 => (Len(w) = 9 => r[9] = w[9])
    BY <1>1, <1>3, Zenon
  <2>2. CASE IsDigit(w[2]) /\ Len(w) = 9
    BY <1>1, <1>6, <2>1, <2>2, Zenon DEF IeExtra
  <2>3. CASE ~ (IsDigit(w[2]) /\ Len(w) = 9)
    BY <1>1, <1>6, <2>3, Zenon DEF IeExtra
  <2> QED BY <2>2, <2>3
<1>8. CASE i = 8
  <2>1. IeHead(w) = IeHead(r)
    BY <1>0, <1>8, IeHeadsDiffer
  <2>2. ~ (8 = 9)
    OBVIOUS
  <2>3. IeRank(w[8]) = IeRank(r[8])
    BY <1>4, <1>5, <1>7, <1>8, <2>1, <2>2, Zenon
  <2> QED BY <1>1, <1>2, <1>8, <2>3, IeRanksTell, Zenon
<1>9. CASE i = 9
  <2>1. IeHead(w) = IeHead(r)
    BY <1>0, <1>9, IeHeadsDiffer
  <2>2. ~ (8 = 9)
    OBVIOUS
  <2>3. w[8] = r[8]
    BY <1>1, <1>3, <1>9, <2>2, Zenon
  <2>4. a = b
    BY <2>1, Zenon
  <2> HIDE DEF a, b, e, f
  <2>5. e = f
    <3>1. Remainder23(a, e) = Remainder23(b, f)
      BY <1>4, <1>5, <2>3, Zenon
    <3> QED BY <1>4, <1>5, <2>4, <3>1, Remainders23
  <2>6. Len(w) = 9 /\ IsDigit(w[2]) /\ IsDigit(r[2])
    BY <1>0, <1>3, <1>6, <1>9, Zenon
  <2>7. e = IeRank(w[9]) /\ f = IeRank(r[9])
    BY <1>1, <2>6, Zenon DEF IeExtra, e, f
  <2>8. w[9] = r[9]
    <3>1. w[9] \in ToSet(IeAlphabet) /\ r[9] \in ToSet(IeAlphabet)
      BY <1>1, <1>2, <2>6, Zenon
    <3>2. IeRank(w[9]) = IeRank(r[9])
      BY <2>5, <2>7, Zenon
    <3> QED BY <3>1, <3>2, IeRanksTell, Zenon
  <2> QED BY <1>1, <1>9, <2>8, Zenon
<1>10. CASE i # 8 /\ i # 9
  <2>1. i \notin {8, 9} /\ w[8] = r[8]
    BY <1>1, <1>3, <1>10, Zenon
  <2>2. PICK j \in 1..7 : Differs(IeHead(w), IeHead(r), j) /\ IeHead(w)[j] \in 0..9 /\ IeHead(r)[j] \in 0..9
    BY <1>0, <2>1, IeHeadsDiffer
  <2> DEFINE p == IeHead(w)
             q == IeHead(r)
  <2> HIDE DEF p, q
  <2>3. Differs(p, q, j) /\ p[j] \in 0..9 /\ q[j] \in 0..9 /\ p[j] # q[j]
    <3>1. Differs(p, q, j) /\ p[j] \in 0..9 /\ q[j] \in 0..9
      BY <2>2 DEF p, q
    <3> QED BY <3>1, Zenon DEF Differs
  <2>4. IsWeights(IeWeights) /\ j <= Len(IeWeights) /\ IeWeights[j] = 9 - j /\ 9 - j \in Mild
    BY <2>2, IeWeightsAre DEF Mild
  <2>5. Grows(WeightedSum(p, IeWeights), WeightedSum(q, IeWeights), (9 - j) * (q[j] - p[j]))
    BY <2>3, <2>4, SumGrows
  <2>6. q[j] - p[j] \in Mild
    BY <2>3 DEF Mild
  <2>7. WeightedSum(p, IeWeights) % 23 # WeightedSum(q, IeWeights) % 23
    BY <2>4, <2>5, <2>6, MildGrowth
  <2>8. a % 23 # b % 23
    BY <2>7, Zenon DEF p, q
  <2> HIDE DEF a, b, e, f
  <2>9. Remainder23(a, e) = Remainder23(b, f)
    BY <1>4, <1>5, <2>1, Zenon
  <2>10. e = f
    BY <1>7, <1>10
  <2> QED BY <1>4, <1>5, <2>8, <2>9, <2>10, Remainders23
<1> QED BY <1>8, <1>9, <1>10

(* The first two digits, or two digits after the second character, changed places. *)
LEMMA IeHeadsExchanged ==
  ASSUME NEW w, NEW r, NEW i, Exchanged(w, r, i), ie_vat(w), ie_vat(r), i \in {1, 3, 4, 5, 6}
  PROVE  \E j \in 1..6 : /\ Exchanged(IeHead(w), IeHead(r), j)
                         /\ IeHead(w)[j] \in 0..9 /\ IeHead(w)[j + 1] \in 0..9
<1>1. PICK u, v : u = IeHead(w) /\ v = IeHead(r)
  OBVIOUS
<1>2. /\ w \in Seq(Characters) /\ r \in Seq(Characters) /\ w[i] # w[i + 1] /\ r[i] = w[i + 1] /\ r[i + 1] = w[i]
      /\ \A x \in 1..Len(w) : x # i /\ x # i + 1 => r[x] = w[x]
  BY Zenon DEF Exchanged
<1>3. IeHeadFacts(w, u) /\ IeHeadFacts(r, v) /\ u \in Seq(Characters) /\ Len(u) = 7 /\ v \in Seq(Characters) /\ Len(v) = 7
  BY <1>1, <1>2, IeHeads, Zenon
<1>4. Len(w) \in {8, 9} /\ w[1] \in 0..9 /\ (\A x \in 3..7 : w[x] \in 0..9) /\ r[1] \in 0..9
  BY <1>2, IeBegins, Zenon
<1>5. \A x \in 1..7 : x # i /\ x # i + 1 => r[x] = w[x]
  <2>1. ASSUME NEW k, k \in {8, 9} PROVE \A x \in 1..7 : x \in 1..k
    BY <2>1
  <2> QED BY <1>2, <1>4, <2>1, Zenon
<1>6. CASE i = 1
  <2>1. i + 1 = 2 /\ 1 \in 1..6 /\ 1 \in 1..7 /\ 2 \in 1..7 /\ 1 + 1 = 2
    BY <1>6
  <2>2. IsDigit(w[2]) /\ IsDigit(r[2])
    BY <1>2, <1>4, <1>6, <2>1, Zenon DEF IsDigit
  <2>3. (\A x \in 1..7 : u[x] = w[x]) /\ (\A x \in 1..7 : v[x] = r[x])
    BY <1>3, <2>2, Zenon DEF IeHeadFacts
  <2>4. \A x \in 1..7 : x # 1 /\ x # 1 + 1 => v[x] = u[x]
    BY <1>5, <1>6, <2>1, <2>3, Zenon
  <2>5. u[1] # u[1 + 1] /\ v[1] = u[1 + 1] /\ v[1 + 1] = u[1] /\ u[1] \in 0..9 /\ u[1 + 1] \in 0..9
    BY <1>2, <1>4, <1>6, <2>1, <2>2, <2>3, Zenon DEF IsDigit
  <2>6. 1 \in 1..(7 - 1)
    OBVIOUS
  <2>7. Exchanged(u, v, 1)
    BY <1>3, <2>4, <2>5, <2>6, ExchangedWords, Zenon
  <2> QED BY <1>1, <2>1, <2>5, <2>7, Zenon
<1>7. CASE i \in {3, 4, 5, 6}
  <2>1. 2 \in 1..7 /\ 2 # i /\ 2 # i + 1 /\ i \in 3..7 /\ i + 1 \in 3..7
    BY <1>7
  <2>2. r[2] = w[2]
    BY <1>5, <2>1, Zenon
  <2>3. CASE IsDigit(w[2])
    <3>1. (\A x \in 1..7 : u[x] = w[x]) /\ (\A x \in 1..7 : v[x] = r[x])
      BY <1>3, <2>2, <2>3, Zenon DEF IeHeadFacts
    <3>2. i \in 1..7 /\ i + 1 \in 1..7 /\ i \in 1..(7 - 1) /\ i \in 1..6
      BY <1>7
    <3>3. \A x \in 1..7 : x # i /\ x # i + 1 => v[x] = u[x]
      BY <1>5, <3>1, Zenon
    <3>4. u[i] # u[i + 1] /\ v[i] = u[i + 1] /\ v[i + 1] = u[i] /\ u[i] \in 0..9 /\ u[i + 1] \in 0..9
      BY <1>2, <1>4, <2>1, <3>1, <3>2, Zenon
    <3>5. Exchanged(u, v, i)
      BY <1>3, <3>2, <3>3, <3>4, ExchangedWords, Zenon
    <3> QED BY <1>1, <3>2, <3>4, <3>5, Zenon
  <2>4. CASE ~ IsDigit(w[2])
    <3>1. PICK j : j = i - 1
      OBVIOUS
    <3>2. j \in 2..6 /\ j + 1 \in 2..6 /\ j + 1 = i /\ (j + 1) + 1 = i + 1 /\ j \in 1..(7 - 1) /\ j \in 1..6
      BY <1>7, <3>1
    <3>3. /\ u[1] = 0 /\ (\A x \in 2..6 : u[x] = w[x + 1]) /\ u[7] = w[1]
          /\ v[1] = 0 /\ (\A x \in 2..6 : v[x] = r[x + 1]) /\ v[7] = r[1]
      BY <1>3, <2>2, <2>4, Zenon DEF IeHeadFacts
    <3>4. u[j] = w[i] /\ u[j + 1] = w[i + 1] /\ v[j] = r[i] /\ v[j + 1] = r[i + 1]
      BY <3>2, <3>3, Zenon
    <3>5. u[j] # u[j + 1] /\ v[j] = u[j + 1] /\ v[j + 1] = u[j] /\ u[j] \in 0..9 /\ u[j + 1] \in 0..9
      BY <1>2, <1>4, <2>1, <3>4, Zenon
    <3>6. \A x \in 1..7 : x # j /\ x # j + 1 => v[x] = u[x]
      <4> SUFFICES ASSUME NEW x \in 1..7, x # j, x # j + 1 PROVE v[x] = u[x]
        OBVIOUS
      <4>1. CASE x = 1
        BY <3>3, <4>1, Zenon
      <4>2. CASE x = 7
        <5>1. 1 \in 1..7 /\ 1 # i /\ 1 # i + 1
          BY <1>7
        <5> QED BY <1>5, <3>3, <4>2, <5>1, Zenon
      <4>3. CASE x # 1 /\ x # 7
        <5>1. x \in 2..6 /\ x + 1 \in 1..7
          BY <4>3
        <5>2. x + 1 # i /\ x + 1 # i + 1
          <6>1. i \in Int /\ x \in Int
            BY <1>7
          <6>2. x # i - 1 /\ x # i
            BY <3>1, <3>2
          <6> QED BY <6>1, <6>2
        <5>3. r[x + 1] = w[x + 1]
          BY <1>5, <5>1, <5>2, Zenon
        <5> QED BY <3>3, <5>1, <5>3, Zenon
      <4> QED BY <4>1, <4>2, <4>3
    <3>7. Exchanged(u, v, j)
      BY <1>3, <3>2, <3>5, <3>6, ExchangedWords, Zenon
    <3> QED BY <1>1, <3>2, <3>5, <3>7, Zenon
  <2> QED BY <2>3, <2>4
<1>8. i = 1 \/ i \in {3, 4, 5, 6}
  OBVIOUS
<1> QED BY <1>6, <1>7, <1>8, Zenon

LEMMA RemaindersTurned ==
  ASSUME NEW a \in Int, NEW e \in 0..22, NEW f \in 0..22, e = Remainder23(a, f), f = Remainder23(a, e)
  PROVE  e = f
BY DEF Remainder23

LEMMA ie_vat_Exchanged ==
  ASSUME NEW w, NEW r, NEW i, Exchanged(w, r, i), ie_vat(w), ie_vat(r)
  PROVE  i = 2
<1>0. SUFFICES ASSUME i # 2 PROVE FALSE
  OBVIOUS
<1>1. /\ w \in Seq(Characters) /\ r \in Seq(Characters) /\ Len(r) = Len(w)
      /\ i \in 1..(Len(w) - 1) /\ w[i] # w[i + 1] /\ r[i] = w[i + 1] /\ r[i + 1] = w[i]
      /\ \A x \in 1..Len(w) : x # i /\ x # i + 1 => r[x] = w[x]
  BY Zenon DEF Exchanged
<1>2. /\ Len(w) \in {8, 9} /\ w[8] \in ToSet(IeAlphabet) /\ (Len(w) = 9 => w[9] \in ToSet(IeAlphabet))
      /\ (\A x \in 3..7 : w[x] \in 0..9)
      /\ r[8] \in ToSet(IeAlphabet) /\ (Len(r) = 9 => r[9] \in ToSet(IeAlphabet)) /\ (\A x \in 3..7 : r[x] \in 0..9)
  BY <1>1, IeBegins, Zenon
<1>3. /\ i \in {1, 3, 4, 5, 6} \/ i = 7 \/ (i = 8 /\ Len(w) = 9)
      /\ \A x \in 1..7 : x \in 1..Len(w)
  <2>1. ASSUME NEW k, k \in {8, 9}, NEW y \in 1..(k - 1), y # 2
        PROVE  (y \in {1, 3, 4, 5, 6} \/ y = 7 \/ (y = 8 /\ k = 9)) /\ (\A x \in 1..7 : x \in 1..k)
    BY <2>1
  <2> QED BY <1>0, <1>1, <1>2, <2>1, Zenon
<1> DEFINE a == WeightedSum(IeHead(w), IeWeights)
           b == WeightedSum(IeHead(r), IeWeights)
           e == IeExtra(w)
           f == IeExtra(r)
<1>4. IeRank(w[8]) = Remainder23(a, e) /\ a \in Int /\ e \in 0..22
  BY <1>1, IeSums, Zenon
<1>5. IeRank(r[8]) = Remainder23(b, f) /\ b \in Int /\ f \in 0..22
  BY <1>1, IeSums, Zenon
<1>6. CASE i = 7
  <2>1. 7 + 1 = 8 /\ 7 \in 3..7
    OBVIOUS
  <2>2. w[8] \in 0..9
    BY <1>1, <1>2, <1>6, <2>1, Zenon
  <2>3. w[8] \in 10..32
    BY <1>2, IeLettersAre, Zenon
  <2>4. ASSUME NEW k, k \in 0..9, k \in 10..32 PROVE FALSE
    BY <2>4
  <2> QED BY <2>2, <2>3, <2>4, Zenon
<1>7. CASE i = 8 /\ Len(w) = 9
  <2>1. 8 + 1 = 9 /\ \A x \in 1..7 : x # 8 /\ x # 9
    OBVIOUS
  <2>2. \A x \in 1..7 : r[x] = w[x]
    BY <1>1, <1>3, <1>7, <2>1, Zenon
  <2>3. IeHead(w) = IeHead(r)
    <3>1. IeHeadFacts(w, IeHead(w)) /\ IeHeadFacts(r, IeHead(r))
          /\ IeHead(w) \in Seq(Characters) /\ Len(IeHead(w)) = 7 /\ IeHead(r) \in Seq(Characters) /\ Len(IeHead(r)) = 7
      BY <1>1, IeHeads, Zenon
    <3>2. \A x \in 1..7 : IeHead(w)[x] = IF ~ IsDigit(w[2]) /\ x = 1 THEN 0 ELSE w[IePlace(w, x)]
      BY <3>1, IeHeadAt, Zenon
    <3>3. \A x \in 1..7 : IeHead(r)[x] = IF ~ IsDigit(r[2]) /\ x = 1 THEN 0 ELSE r[IePlace(r, x)]
      BY <3>1, IeHeadAt, Zenon
    <3>4. r[2] = w[2]
      <4>1. 2 \in 1..7
        OBVIOUS
      <4> QED BY <2>2, <4>1, Zenon
    <3>5. \A x \in 1..7 : IePlace(r, x) = IePlace(w, x)
      BY <3>4, Zenon DEF IePlace
    <3>6. \A x \in 1..7 : IePlace(w, x) \in 1..7
      BY IePlacesAre
    <3>7. \A x \in 1..7 : IeHead(r)[x] = IeHead(w)[x]
      <4> TAKE x \in 1..7
      <4>1. r[IePlace(r, x)] = w[IePlace(w, x)]
        BY <2>2, <3>5, <3>6, Zenon
      <4>2. IeHead(r)[x] = IF ~ IsDigit(w[2]) /\ x = 1 THEN 0 ELSE w[IePlace(w, x)]
        BY <3>3, <3>4, <4>1, Zenon
      <4> QED BY <3>2, <4>2, Zenon
    <3> QED BY <3>1, <3>7, SameWord, Zenon
  <2>4. a = b /\ r[2] = w[2]
    <3>1. 2 \in 1..7
      OBVIOUS
    <3> QED BY <2>2, <2>3, <3>1, Zenon
  <2> HIDE DEF a, b
  <2>5. w[8] \in ToSet(IeAlphabet) /\ w[9] \in ToSet(IeAlphabet) /\ r[8] = w[9] /\ r[9] = w[8] /\ w[8] # w[9]
    BY <1>1, <1>2, <1>7, <2>1, Zenon
  <2>6. CASE IsDigit(w[2])
    <3>1. e = IeRank(w[9]) /\ f = IeRank(w[8])
      BY <1>1, <1>7, <2>4, <2>5, <2>6, Zenon DEF IeExtra
    <3> HIDE DEF e, f
    <3>2. f = Remainder23(a, e) /\ e = Remainder23(a, f)
      BY <1>4, <1>5, <2>4, <2>5, <3>1, Zenon
    <3>3. e = f
      BY <1>4, <1>5, <3>2, RemaindersTurned
    <3>4. IeRank(w[8]) = IeRank(w[9])
      BY <3>1, <3>3, Zenon
    <3> QED BY <2>5, <3>4, IeRanksTell
  <2>7. CASE ~ IsDigit(w[2])
    <3>1. e = f
      BY <2>4, <2>7, Zenon DEF IeExtra
    <3>2. IeRank(w[8]) = IeRank(w[9])
      BY <1>4, <1>5, <2>4, <2>5, <3>1, Zenon
    <3> QED BY <2>5, <3>2, IeRanksTell
  <2> QED BY <2>6, <2>7
<1>8. CASE i \in {1, 3, 4, 5, 6}
  <2>1. w[8] = r[8] /\ (Len(w) = 9 => w[9] = r[9]) /\ (IsDigit(w[2]) <=> IsDigit(r[2]))
    <3>1. ASSUME NEW k, k \in {8, 9} PROVE 1 \in 1..k /\ 2 \in 1..k /\ 8 \in 1..k /\ (k = 9 => 9 \in 1..k)
      BY <3>1
    <3>2. 8 # i /\ 8 # i + 1 /\ 9 # i /\ 9 # i + 1 /\ (i # 1 => 2 # i /\ 2 # i + 1) /\ 1 + 1 = 2
      BY <1>8
    <3>3. w[8] = r[8] /\ (Len(w) = 9 => w[9] = r[9]) /\ (i # 1 => w[2] = r[2])
      BY <1>1, <1>2, <3>1, <3>2, Zenon
    <3>4. w[1] \in 0..9 /\ r[1] \in 0..9
      BY <1>1, IeBegins, Zenon
    <3>5. i = 1 => IsDigit(w[2]) /\ IsDigit(r[2])
      BY <1>1, <3>2, <3>4, Zenon DEF IsDigit
    <3> QED BY <3>3, <3>5, Zenon
  <2>2. e = f
    <3>1. CASE IsDigit(w[2]) /\ Len(w) = 9
      BY <1>1, <2>1, <3>1, Zenon DEF IeExtra
    <3>2. CASE ~ (IsDigit(w[2]) /\ Len(w) = 9)
      BY <1>1, <2>1, <3>2, Zenon DEF IeExtra
    <3> QED BY <3>1, <3>2
  <2>3. PICK j \in 1..6 : Exchanged(IeHead(w), IeHead(r), j) /\ IeHead(w)[j] \in 0..9 /\ IeHead(w)[j + 1] \in 0..9
    BY <1>8, IeHeadsExchanged
  <2> DEFINE p == IeHead(w)
             q == IeHead(r)
  <2> HIDE DEF p, q
  <2>4. Exchanged(p, q, j) /\ p[j] \in 0..9 /\ p[j + 1] \in 0..9 /\ p[j] # p[j + 1]
    <3>1. Exchanged(p, q, j) /\ p[j] \in 0..9 /\ p[j + 1] \in 0..9
      BY <2>3 DEF p, q
    <3> QED BY <3>1, Zenon DEF Exchanged
  <2>5. IsWeights(IeWeights) /\ j <= Len(IeWeights) /\ j + 1 <= Len(IeWeights) /\ IeWeights[j] = 9 - j /\ IeWeights[j + 1] = 8 - j
    BY <2>3, IeWeightsAre
  <2>6. 9 - j \in Int /\ 8 - j \in Int /\ (9 - j) - (8 - j) = 1
    BY <2>3
  <2>7. Grows(WeightedSum(p, IeWeights), WeightedSum(q, IeWeights), ((9 - j) - (8 - j)) * (p[j + 1] - p[j]))
    BY <2>4, <2>5, <2>6, SumTurns
  <2>8. p[j + 1] - p[j] \in Mild /\ 1 \in Mild
    BY <2>4 DEF Mild
  <2>9. Grows(WeightedSum(p, IeWeights), WeightedSum(q, IeWeights), 1 * (p[j + 1] - p[j]))
    BY <2>6, <2>7, Zenon
  <2>10. WeightedSum(p, IeWeights) % 23 # WeightedSum(q, IeWeights) % 23
    BY <2>8, <2>9, MildGrowth
  <2>11. a % 23 # b % 23
    BY <2>10, Zenon DEF p, q
  <2> HIDE DEF a, b, e, f
  <2>12. Remainder23(a, e) = Remainder23(b, f)
    BY <1>4, <1>5, <2>1, Zenon
  <2> QED BY <1>4, <1>5, <2>2, <2>11, <2>12, Remainders23
<1> QED BY <1>3, <1>6, <1>7, <1>8

(* The new form's second digit is the second of the head. *)
LEMMA IeSecondDiffers ==
  ASSUME NEW w, NEW r, Differs(w, r, 2), ie_vat(w), ie_vat(r), IsDigit(w[2]), IsDigit(r[2])
  PROVE  Differs(IeHead(w), IeHead(r), 2) /\ IeHead(w)[2] \in 0..9 /\ IeHead(r)[2] \in 0..9
<1>1. PICK u, v : u = IeHead(w) /\ v = IeHead(r)
  OBVIOUS
<1>2. w \in Seq(Characters) /\ r \in Seq(Characters) /\ r[2] # w[2] /\ \A x \in 1..Len(w) : x # 2 => r[x] = w[x]
  BY Zenon DEF Differs
<1>3. IeHeadFacts(w, u) /\ IeHeadFacts(r, v) /\ u \in Seq(Characters) /\ Len(u) = 7 /\ v \in Seq(Characters) /\ Len(v) = 7
  BY <1>1, <1>2, IeHeads, Zenon
<1>4. Len(w) \in {8, 9}
  BY <1>2, IeBegins, Zenon
<1>5. \A x \in 1..7 : x \in 1..Len(w)
  <2>1. ASSUME NEW k, k \in {8, 9} PROVE \A x \in 1..7 : x \in 1..k
    BY <2>1
  <2> QED BY <1>4, <2>1, Zenon
<1>6. (\A x \in 1..7 : u[x] = w[x]) /\ (\A x \in 1..7 : v[x] = r[x])
  BY <1>3, Zenon DEF IeHeadFacts
<1>7. 2 \in 1..7
  OBVIOUS
<1>8. (\A x \in 1..7 : x # 2 => v[x] = u[x]) /\ v[2] # u[2] /\ u[2] \in 0..9 /\ v[2] \in 0..9
  BY <1>2, <1>5, <1>6, <1>7, Zenon DEF IsDigit
<1>9. Differs(u, v, 2)
  BY <1>3, <1>7, <1>8, DifferentWords, Zenon
<1> QED BY <1>1, <1>8, <1>9, Zenon

LEMMA IeSecondExchanged ==
  ASSUME NEW w, NEW r, Exchanged(w, r, 2), ie_vat(w), ie_vat(r), IsDigit(r[2])
  PROVE  /\ Exchanged(IeHead(w), IeHead(r), 2) /\ IsDigit(w[2])
         /\ IeHead(w)[2] \in 0..9 /\ IeHead(w)[2 + 1] \in 0..9
<1>1. PICK u, v : u = IeHead(w) /\ v = IeHead(r)
  OBVIOUS
<1>2. /\ w \in Seq(Characters) /\ r \in Seq(Characters) /\ w[2] # w[2 + 1] /\ r[2] = w[2 + 1] /\ r[2 + 1] = w[2]
      /\ \A x \in 1..Len(w) : x # 2 /\ x # 2 + 1 => r[x] = w[x]
  BY Zenon DEF Exchanged
<1>3. IeHeadFacts(w, u) /\ IeHeadFacts(r, v) /\ u \in Seq(Characters) /\ Len(u) = 7 /\ v \in Seq(Characters) /\ Len(v) = 7
  BY <1>1, <1>2, IeHeads, Zenon
<1>4. Len(w) \in {8, 9} /\ (\A x \in 3..7 : w[x] \in 0..9) /\ (\A x \in 3..7 : r[x] \in 0..9)
  BY <1>2, IeBegins, Zenon
<1>5. \A x \in 1..7 : x \in 1..Len(w)
  <2>1. ASSUME NEW k, k \in {8, 9} PROVE \A x \in 1..7 : x \in 1..k
    BY <2>1
  <2> QED BY <1>4, <2>1, Zenon
<1>6. 2 + 1 = 3 /\ 2 \in 1..7 /\ 3 \in 1..7 /\ 3 \in 3..7 /\ 2 \in 1..(7 - 1)
  OBVIOUS
<1>7. w[2] \in 0..9 /\ w[3] \in 0..9 /\ IsDigit(w[2])
  BY <1>2, <1>4, <1>6, Zenon DEF IsDigit
<1>8. (\A x \in 1..7 : u[x] = w[x]) /\ (\A x \in 1..7 : v[x] = r[x])
  BY <1>3, <1>7, Zenon DEF IeHeadFacts
<1>9. \A x \in 1..7 : x # 2 /\ x # 2 + 1 => v[x] = u[x]
  BY <1>2, <1>5, <1>8, Zenon
<1>10. u[2] # u[2 + 1] /\ v[2] = u[2 + 1] /\ v[2 + 1] = u[2] /\ u[2] \in 0..9 /\ u[2 + 1] \in 0..9
  BY <1>2, <1>6, <1>7, <1>8, Zenon
<1>11. Exchanged(u, v, 2)
  BY <1>3, <1>6, <1>9, <1>10, ExchangedWords, Zenon
<1> QED BY <1>1, <1>7, <1>10, <1>11, Zenon

(* With a digit in the second place, what lies outside the second and the third decides the rest. *)
IeSum(n) == WeightedSum(IeHead(n), IeWeights) % 23

LEMMA IeSecondSums ==
  ASSUME NEW w, NEW r, ie_vat(w), ie_vat(r), w \in Seq(Characters), r \in Seq(Characters), Len(r) = Len(w),
         \A x \in 1..Len(w) : x # 2 /\ x # 3 => r[x] = w[x], IsDigit(w[2]), IsDigit(r[2])
  PROVE  IeSum(w) = IeSum(r)
<1>1. PICK a, b, e, f : /\ a = WeightedSum(IeHead(w), IeWeights) /\ b = WeightedSum(IeHead(r), IeWeights)
                        /\ e = IeExtra(w) /\ f = IeExtra(r)
  OBVIOUS
<1>2. Len(w) \in {8, 9}
  BY IeBegins, Zenon
<1>3. /\ IeRank(w[8]) = Remainder23(a, e) /\ a \in Int /\ e \in 0..22
      /\ IeRank(r[8]) = Remainder23(b, f) /\ b \in Int /\ f \in 0..22
  BY <1>1, IeSums, Zenon
<1>4. w[8] = r[8] /\ (Len(w) = 9 => w[9] = r[9])
  <2>1. ASSUME NEW k, k \in {8, 9} PROVE 8 \in 1..k /\ (k = 9 => 9 \in 1..k) /\ 8 # 2 /\ 8 # 3 /\ 9 # 2 /\ 9 # 3
    BY <2>1
  <2> QED BY <1>2, <2>1, Zenon
<1>5. e = f
  <2>1. CASE Len(w) = 9
    BY <1>1, <1>4, <2>1, Zenon DEF IeExtra
  <2>2. CASE Len(w) # 9
    BY <1>1, <2>2, Zenon DEF IeExtra
  <2> QED BY <2>1, <2>2
<1>6. a % 23 = b % 23
  <2>1. Remainder23(a, e) = Remainder23(b, f)
    BY <1>3, <1>4, Zenon
  <2> QED BY <1>3, <1>5, <2>1, Remainders23
<1> QED BY <1>1, <1>6, Zenon DEF IeSum

LEMMA IeSecondRead ==
  ASSUME NEW w, NEW r, Differs(w, r, 2), ie_vat(w), ie_vat(r), IsDigit(w[2]), IsDigit(r[2])
  PROVE  FALSE
<1>1. /\ w \in Seq(Characters) /\ r \in Seq(Characters) /\ Len(r) = Len(w)
      /\ \A x \in 1..Len(w) : x # 2 => r[x] = w[x]
  BY Zenon DEF Differs
<1>2. PICK p, q : p = IeHead(w) /\ q = IeHead(r)
  OBVIOUS
<1>3. Differs(p, q, 2) /\ p[2] \in 0..9 /\ q[2] \in 0..9
  BY <1>2, IeSecondDiffers, Zenon
<1>4. p[2] # q[2]
  BY <1>3, Zenon DEF Differs
<1>5. IsWeights(IeWeights) /\ 2 <= Len(IeWeights) /\ IeWeights[2] = 7 /\ 7 \in Mild
  BY IeWeightsAre DEF Mild
<1>6. Grows(WeightedSum(p, IeWeights), WeightedSum(q, IeWeights), 7 * (q[2] - p[2]))
  BY <1>3, <1>5, SumGrows
<1>7. q[2] - p[2] \in Mild
  BY <1>3, <1>4 DEF Mild
<1>8. WeightedSum(p, IeWeights) % 23 # WeightedSum(q, IeWeights) % 23
  BY <1>5, <1>6, <1>7, MildGrowth
<1>9. IeSum(w) = IeSum(r)
  BY <1>1, IeSecondSums, Zenon
<1> QED BY <1>2, <1>8, <1>9, Zenon DEF IeSum

LEMMA IeSecondTurned ==
  ASSUME NEW w, NEW r, Exchanged(w, r, 2), ie_vat(w), ie_vat(r), IsDigit(r[2])
  PROVE  FALSE
<1>1. /\ w \in Seq(Characters) /\ r \in Seq(Characters) /\ Len(r) = Len(w)
      /\ \A x \in 1..Len(w) : x # 2 /\ x # 2 + 1 => r[x] = w[x]
  BY Zenon DEF Exchanged
<1>2. PICK p, q : p = IeHead(w) /\ q = IeHead(r)
  OBVIOUS
<1>3. Exchanged(p, q, 2) /\ p[2] \in 0..9 /\ p[2 + 1] \in 0..9 /\ IsDigit(w[2]) /\ 2 + 1 = 3
  BY <1>2, IeSecondExchanged
<1>4. p[2] # p[3]
  BY <1>3, Zenon DEF Exchanged
<1>5. IsWeights(IeWeights) /\ 2 <= Len(IeWeights) /\ 2 + 1 <= Len(IeWeights) /\ IeWeights[2] = 7 /\ IeWeights[2 + 1] = 6
  BY IeWeightsAre
<1>6. Grows(WeightedSum(p, IeWeights), WeightedSum(q, IeWeights), (7 - 6) * (p[2 + 1] - p[2]))
  BY <1>3, <1>5, SumTurns
<1>7. p[2 + 1] - p[2] \in Mild /\ 7 - 6 = 1 /\ 1 \in Mild
  BY <1>3, <1>4 DEF Mild
<1>8. Grows(WeightedSum(p, IeWeights), WeightedSum(q, IeWeights), 1 * (p[2 + 1] - p[2]))
  BY <1>6, <1>7, Zenon
<1>9. WeightedSum(p, IeWeights) % 23 # WeightedSum(q, IeWeights) % 23
  BY <1>7, <1>8, MildGrowth
<1>10. IeSum(w) = IeSum(r)
  BY <1>1, <1>3, IeSecondSums, Zenon
<1> QED BY <1>2, <1>9, <1>10, Zenon DEF IeSum

(* France. *)
FrPlace(v) == (CHOOSE i \in DOMAIN KeyAlphabet : KeyAlphabet[i] = v) - 1
FrKey(n) == IF IsDigit(n[1]) THEN 24 * FrPlace(n[1]) + FrPlace(n[2]) - 10 ELSE 34 * FrPlace(n[1]) + FrPlace(n[2]) - 100
Siren(n) == Slice(n, 2, 11)
FrReads(n) ==
  IF IsDigit(n[1]) /\ IsDigit(n[2]) THEN 10 * n[1] + n[2] = IntegerMod(Siren(n) \o <<1, 2>>, 97)
  ELSE (IntegerMod(Siren(n), 11) + 1 + (FrKey(n) \div 11)) % 11 = FrKey(n) % 11

LEMMA FrIs ==
  ASSUME NEW n, fr_tva(n)
  PROVE  /\ Len(n) = 11 /\ n[1] \in ToSet(KeyAlphabet) /\ n[2] \in ToSet(KeyAlphabet)
         /\ AllDigits(Siren(n)) /\ FrReads(n)
<1>1. Len(n) = 11 /\ {n[1], n[2]} \subseteq ToSet(KeyAlphabet) /\ AllDigits(Siren(n))
  BY Zenon DEF fr_tva, Siren
<1>2. FrReads(n)
  BY Zenon DEF fr_tva, FrReads, Siren, FrKey, FrPlace
<1> QED BY <1>1, <1>2

LEMMA KeyAlphabetIs ==
  \E n \in Nat : DOMAIN KeyAlphabet = 1..n
<1> DEFINE u == [i \in 1..10 |-> i - 1]
           names == <<"A", "B", "C", "D", "E", "F", "G", "H", "J", "K", "L", "M",
                 "N", "P", "Q", "R", "S", "T", "U", "V", "W", "X", "Y", "Z">>
           v == Alphabet(names)
<1>1. KeyAlphabet = u \o v
  BY Zenon DEF KeyAlphabet
<1>2. u \in Seq(Int) /\ Len(u) = 10
  <2>1. u \in [1..10 -> Int] /\ DOMAIN u = 1..10 /\ 10 \in Nat
    OBVIOUS
  <2> QED BY <2>1
<1>3. DOMAIN names = 1..24
  OBVIOUS
<1> HIDE DEF names
<1>4. v = [i \in 1..24 |-> Letter(names[i])]
  BY <1>3 DEF Alphabet
<1>5. PICK A : A = {Letter(names[i]) : i \in 1..24}
  OBVIOUS
<1>6. v \in [1..24 -> A] /\ 24 \in Nat
  BY <1>4, <1>5
<1>7. v \in Seq(A)
  <2>1. ASSUME NEW k \in Nat, NEW f \in [1..k -> A] PROVE f \in Seq(A)
    OBVIOUS
  <2> QED BY <1>6, <2>1, Zenon
<1> HIDE DEF u, v
<1>8. PICK B : B = Int \union A
  OBVIOUS
<1>9. u \in Seq(B) /\ v \in Seq(B)
  BY <1>2, <1>7, <1>8
<1>10. u \o v \in Seq(B)
  BY <1>9
<1>11. DOMAIN (u \o v) = 1..Len(u \o v) /\ Len(u \o v) \in Nat
  BY <1>10
<1> QED BY <1>1, <1>11

LEMMA FrPlaces ==
  ASSUME NEW v \in ToSet(KeyAlphabet)
  PROVE  FrPlace(v) \in Int
<1>1. PICK n \in Nat : DOMAIN KeyAlphabet = 1..n
  BY KeyAlphabetIs
<1> DEFINE c == CHOOSE i \in DOMAIN KeyAlphabet : KeyAlphabet[i] = v
<1>2. \E i \in DOMAIN KeyAlphabet : KeyAlphabet[i] = v
  BY DEF ToSet
<1>3. c \in 1..n
  BY <1>1, <1>2
<1>4. FrPlace(v) = c - 1
  BY Zenon DEF FrPlace
<1> HIDE DEF c
<1> QED BY <1>3, <1>4

LEMMA FrKeys ==
  ASSUME NEW n, n[1] \in ToSet(KeyAlphabet), n[2] \in ToSet(KeyAlphabet)
  PROVE  FrKey(n) \in Int
<1>1. FrPlace(n[1]) \in Int /\ FrPlace(n[2]) \in Int
  BY FrPlaces
<1> QED BY <1>1 DEF FrKey

(* The siren as one of the two readings sums it. *)
FrSums(s) == <<IntegerMod(s, 11), IntegerMod(s \o <<1, 2>>, 97)>>

LEMMA FrTells ==
  ASSUME NEW w, NEW r, fr_tva(w), fr_tva(r), w[1] = r[1], w[2] = r[2],
         IntegerMod(Siren(w), 11) \in 0..10, IntegerMod(Siren(r), 11) \in 0..10
  PROVE  \/ IntegerMod(Siren(w), 11) = IntegerMod(Siren(r), 11)
         \/ IntegerMod(Siren(w) \o <<1, 2>>, 97) = IntegerMod(Siren(r) \o <<1, 2>>, 97)
<1>1. FrReads(w) /\ FrReads(r) /\ FrKey(w) \in Int
  BY FrIs, FrKeys
<1>2. FrKey(w) = FrKey(r)
  BY Zenon DEF FrKey
<1>3. CASE IsDigit(w[1]) /\ IsDigit(w[2])
  <2>1. 10 * w[1] + w[2] = IntegerMod(Siren(w) \o <<1, 2>>, 97)
    BY <1>1, <1>3, Zenon DEF FrReads
  <2>2. 10 * r[1] + r[2] = IntegerMod(Siren(r) \o <<1, 2>>, 97)
    BY <1>1, <1>3, Zenon DEF FrReads
  <2> QED BY <2>1, <2>2, Zenon
<1>4. CASE ~ (IsDigit(w[1]) /\ IsDigit(w[2]))
  <2>1. PICK a, b, k : a = IntegerMod(Siren(w), 11) /\ b = IntegerMod(Siren(r), 11) /\ k = FrKey(w)
    OBVIOUS
  <2>2. (a + 1 + (k \div 11)) % 11 = k % 11
    BY <1>1, <1>4, <2>1, Zenon DEF FrReads
  <2>3. (b + 1 + (k \div 11)) % 11 = k % 11
    BY <1>1, <1>2, <1>4, <2>1, Zenon DEF FrReads
  <2>4. a \in 0..10 /\ b \in 0..10 /\ k \in Int
    BY <1>1, <2>1
  <2>5. PICK z : z = k \div 11
    OBVIOUS
  <2>6. z \in Int
    BY <2>4, <2>5
  <2>7. (a + 1 + z) % 11 = (b + 1 + z) % 11
    BY <2>2, <2>3, <2>5, Zenon
  <2>8. a = b
    BY <2>4, <2>6, <2>7
  <2> QED BY <2>1, <2>8
<1> QED BY <1>3, <1>4

OneTwo == <<1, 2>>

LEMMA OneTwoIs == OneTwo \in Seq(Characters) /\ AllDigits(OneTwo)
BY DEF OneTwo, Characters, AllDigits, IsDigit

RemaindersTell(w, r, modulus) ==
  /\ IntegerMod(w, modulus) # IntegerMod(r, modulus)
  /\ IntegerMod(w, modulus) \in Residues(modulus) /\ IntegerMod(r, modulus) \in Residues(modulus)

LEMMA RemaindersTellDiffers ==
  ASSUME NEW w, NEW r, NEW i, Differs(w, r, i), AllDigits(w), AllDigits(r), NEW modulus \in Moduli
  PROVE  RemaindersTell(w, r, modulus)
BY IntegerModDiffers, Zenon DEF RemaindersTell

LEMMA RemaindersTellExchanged ==
  ASSUME NEW w, NEW r, NEW i, Exchanged(w, r, i), AllDigits(w), AllDigits(r), NEW modulus \in Moduli
  PROVE  RemaindersTell(w, r, modulus)
BY IntegerModExchanged, Zenon DEF RemaindersTell

LEMMA fr_tva_Differs ==
  ASSUME NEW w, NEW r, NEW i, Differs(w, r, i), fr_tva(w), fr_tva(r)
  PROVE  i \in {1, 2}
<1>0. SUFFICES ASSUME i \notin {1, 2} PROVE FALSE
  OBVIOUS
<1>1. Len(w) = 11 /\ AllDigits(Siren(w)) /\ AllDigits(Siren(r))
  BY FrIs
<1>2. 2 \in Nat /\ 11 \in Nat /\ 2 <= 11 /\ 11 <= Len(w) /\ i \in 1..11 /\ w[1] = r[1] /\ w[2] = r[2]
  BY <1>0, <1>1 DEF Differs
<1>3. 2 < i /\ i <= 11
  BY <1>0, <1>2
<1>4. PICK j : j = i - 2
  OBVIOUS
<1>5. Differs(Siren(w), Siren(r), j)
  BY <1>2, <1>3, <1>4, SliceOfDiffers DEF Siren
<1>6. 11 \in Moduli /\ 97 \in Moduli
  BY DEF Moduli
<1>7. IntegerMod(Siren(w), 11) # IntegerMod(Siren(r), 11)
      /\ IntegerMod(Siren(w), 11) \in Residues(11) /\ IntegerMod(Siren(r), 11) \in Residues(11)
  <2>1. RemaindersTell(Siren(w), Siren(r), 11)
    BY <1>1, <1>5, <1>6, RemaindersTellDiffers, Zenon
  <2> QED BY <2>1, Zenon DEF RemaindersTell
<1>8. Differs(Siren(w) \o OneTwo, Siren(r) \o OneTwo, j)
  BY <1>5, OneTwoIs, JoinDiffers, Zenon DEF JoinedDiffer
<1>9. AllDigits(Siren(w) \o OneTwo) /\ AllDigits(Siren(r) \o OneTwo)
  <2>1. Siren(w) \in Seq(Characters) /\ Siren(r) \in Seq(Characters)
    BY <1>5, Zenon DEF Differs
  <2> QED BY <1>1, <2>1, OneTwoIs, JoinedDigits, Zenon
<1>10. IntegerMod(Siren(w) \o OneTwo, 97) # IntegerMod(Siren(r) \o OneTwo, 97)
  <2>1. RemaindersTell(Siren(w) \o OneTwo, Siren(r) \o OneTwo, 97)
    BY <1>6, <1>8, <1>9, RemaindersTellDiffers, Zenon
  <2> QED BY <2>1, Zenon DEF RemaindersTell
<1>11. IntegerMod(Siren(w), 11) \in 0..10 /\ IntegerMod(Siren(r), 11) \in 0..10
  BY <1>7 DEF Residues
<1> QED BY <1>2, <1>7, <1>10, <1>11, FrTells, Zenon DEF OneTwo

LEMMA fr_tva_Exchanged ==
  ASSUME NEW w, NEW r, NEW i, Exchanged(w, r, i), fr_tva(w), fr_tva(r)
  PROVE  i \in {1, 2}
<1>0. SUFFICES ASSUME i \notin {1, 2} PROVE FALSE
  OBVIOUS
<1>1. Len(w) = 11 /\ AllDigits(Siren(w)) /\ AllDigits(Siren(r))
  BY FrIs
<1>2. 2 \in Nat /\ 11 \in Nat /\ 2 <= 11 /\ 11 <= Len(w) /\ i \in 1..10 /\ w[1] = r[1] /\ w[2] = r[2]
  BY <1>0, <1>1 DEF Exchanged
<1>3. 2 < i /\ i < 11
  BY <1>0, <1>2
<1>4. PICK j : j = i - 2
  OBVIOUS
<1>5. Exchanged(Siren(w), Siren(r), j)
  BY <1>2, <1>3, <1>4, SliceOfExchanged DEF Siren
<1>6. 11 \in Moduli /\ 97 \in Moduli
  BY DEF Moduli
<1>7. IntegerMod(Siren(w), 11) # IntegerMod(Siren(r), 11)
      /\ IntegerMod(Siren(w), 11) \in Residues(11) /\ IntegerMod(Siren(r), 11) \in Residues(11)
  <2>1. RemaindersTell(Siren(w), Siren(r), 11)
    BY <1>1, <1>5, <1>6, RemaindersTellExchanged, Zenon
  <2> QED BY <2>1, Zenon DEF RemaindersTell
<1>8. Exchanged(Siren(w) \o OneTwo, Siren(r) \o OneTwo, j)
  BY <1>5, OneTwoIs, JoinExchanged, Zenon DEF JoinedExchanged
<1>9. AllDigits(Siren(w) \o OneTwo) /\ AllDigits(Siren(r) \o OneTwo)
  <2>1. Siren(w) \in Seq(Characters) /\ Siren(r) \in Seq(Characters)
    BY <1>5, Zenon DEF Exchanged
  <2> QED BY <1>1, <2>1, OneTwoIs, JoinedDigits, Zenon
<1>10. IntegerMod(Siren(w) \o OneTwo, 97) # IntegerMod(Siren(r) \o OneTwo, 97)
  <2>1. RemaindersTell(Siren(w) \o OneTwo, Siren(r) \o OneTwo, 97)
    BY <1>6, <1>8, <1>9, RemaindersTellExchanged, Zenon
  <2> QED BY <2>1, Zenon DEF RemaindersTell
<1>11. IntegerMod(Siren(w), 11) \in 0..10 /\ IntegerMod(Siren(r), 11) \in 0..10
  BY <1>7 DEF Residues
<1> QED BY <1>2, <1>7, <1>10, <1>11, FrTells, Zenon DEF OneTwo

(* Two numbers of eleven digits that differ in the first are 49 times that apart, modulo 97. *)
Apart97(x, y, k) == x \in Residues(97) /\ y \in Residues(97) /\ (y - x - k) % 97 = 0

LEMMA ApartGrows ==
  ASSUME NEW x, NEW y, NEW k \in Int, Apart97(x, y, k), NEW a \in 0..9, NEW t \in Int
  PROVE  Apart97(IntegerModStep(x, a, 97), IntegerModStep(y, a, 97), 10 * k - 97 * t)
BY DEF Apart97, IntegerModStep, Residues

Walks97(c, d) == Over(c, d, Residues(97), 0, IntegerModFn(97)) /\ d \in Seq(0..9) /\ Len(d) = 11

WalkStep(c, d, i, j) ==
  c[j] = IntegerModStep(c[i], d[j], 97) /\ d[j] \in 0..9

LEMMA WalkSteps ==
  ASSUME NEW c, NEW d, Walks97(c, d), NEW i \in 0..10, NEW j, j = i + 1
  PROVE  WalkStep(c, d, i, j) /\ c[j] \in Residues(97)
<1>1. j \in 1..11 /\ j - 1 = i /\ i \in 0..11 /\ j \in 0..11
  OBVIOUS
<1>2. /\ c \in [0..11 -> Residues(97)] /\ d \in Seq(0..9) /\ Len(d) = 11
      /\ \A k \in 1..11 : c[k] = IntegerModFn(97)[<<c[k - 1], d[k]>>]
  BY DEF Walks97, Over
<1>3. d[j] \in 0..9
  <2>1. j \in 1..Len(d)
    BY <1>1, <1>2
  <2> QED BY <1>2, <2>1, ElementOfSeq
<1>4. c[i] \in Residues(97) /\ c[j] \in Residues(97)
  BY <1>1, <1>2, Zenon
<1>5. c[j] = IntegerModFn(97)[<<c[i], d[j]>>]
  BY <1>1, <1>2, Zenon
<1>6. 97 \in Nat \ {0}
  OBVIOUS
<1>7. IntegerModFn(97)[<<c[i], d[j]>>] = IntegerModStep(c[i], d[j], 97)
  BY <1>3, <1>4, <1>6, IntegerModFnIs, Zenon
<1> QED BY <1>3, <1>4, <1>5, <1>7, Zenon DEF WalkStep

Gap(c, e, j, k) == k \in Int /\ Apart97(c[j], e[j], k)
Tenfold(i, j, k, t, m) == i \in 1..10 /\ j = i + 1 /\ k \in Int /\ t \in Int /\ m = 10 * k - 97 * t

LEMMA WalksApart ==
  ASSUME NEW c, NEW e, NEW u, NEW v, Walks97(c, u), Walks97(e, v), Alike(u, v, 2, 11),
         NEW i, NEW j, NEW k, NEW t, NEW m, Tenfold(i, j, k, t, m), Gap(c, e, i, k)
  PROVE  Gap(c, e, j, m)
<1>1. i \in 0..10 /\ j = i + 1 /\ j \in 2..11 /\ t \in Int /\ k \in Int /\ m = 10 * k - 97 * t /\ m \in Int
  BY DEF Tenfold
<1>2. WalkStep(c, u, i, j)
  BY <1>1, WalkSteps, Zenon
<1>3. WalkStep(e, v, i, j)
  BY <1>1, WalkSteps, Zenon
<1>4. v[j] = u[j]
  BY <1>1, Zenon DEF Alike
<1>5. c[j] = IntegerModStep(c[i], u[j], 97) /\ e[j] = IntegerModStep(e[i], u[j], 97) /\ u[j] \in 0..9
  BY <1>2, <1>3, <1>4, Zenon DEF WalkStep
<1>6. Apart97(IntegerModStep(c[i], u[j], 97), IntegerModStep(e[i], u[j], 97), 10 * k - 97 * t)
  BY <1>1, <1>5, ApartGrows, Zenon DEF Gap
<1> QED BY <1>1, <1>5, <1>6, Zenon DEF Gap

LEMMA FirstOfEleven ==
  ASSUME NEW u, NEW v, Differs(u, v, 1), Len(u) = 11, AllDigits(u), AllDigits(v)
  PROVE  Apart97(IntegerMod(u, 97), IntegerMod(v, 97), 49 * (v[1] - u[1]))
<1>1. u \in Seq(0..9) /\ v \in Seq(0..9) /\ Len(v) = 11 /\ Alike(u, v, 2, 11)
  BY DigitsAreASequence DEF Differs, Alike
<1>2. PICK c : Over(c, u, Residues(97), 0, IntegerModFn(97)) /\ IntegerMod(u, 97) = c[Len(u)]
  <2>1. 97 \in Nat \ {0}
    OBVIOUS
  <2> QED BY <1>1, <2>1, IntegerModWalks, Zenon
<1>3. PICK e : Over(e, v, Residues(97), 0, IntegerModFn(97)) /\ IntegerMod(v, 97) = e[Len(v)]
  <2>1. 97 \in Nat \ {0}
    OBVIOUS
  <2> QED BY <1>1, <2>1, IntegerModWalks, Zenon
<1>4. Walks97(c, u) /\ Walks97(e, v) /\ c[0] = 0 /\ e[0] = 0
  BY <1>1, <1>2, <1>3, Zenon DEF Walks97, Over
<1>5. PICK d : d = v[1] - u[1]
  OBVIOUS
<1>6. d \in Int /\ Gap(c, e, 1, d)
  <2>1. 0 \in 0..10 /\ 1 = 0 + 1
    OBVIOUS
  <2>2. WalkStep(c, u, 0, 1)
    BY <1>4, <2>1, WalkSteps, Zenon
  <2>3. WalkStep(e, v, 0, 1)
    BY <1>4, <2>1, WalkSteps, Zenon
  <2>4. ASSUME NEW a \in 0..9, NEW b \in 0..9
        PROVE  Apart97(IntegerModStep(0, a, 97), IntegerModStep(0, b, 97), b - a) /\ b - a \in Int
    BY DEF Apart97, IntegerModStep, Residues
  <2>5. /\ c[1] = IntegerModStep(0, u[1], 97) /\ e[1] = IntegerModStep(0, v[1], 97)
        /\ u[1] \in 0..9 /\ v[1] \in 0..9
    BY <1>4, <2>2, <2>3, Zenon DEF WalkStep
  <2> QED BY <1>5, <2>4, <2>5, Zenon DEF Gap
<1>7. PICK k1, k2, k3, k4, k5, k6, k7, k8, k9, k10, k11 :
        /\ k1 = d /\ k2 = 10 * d /\ k3 = 3 * d /\ k4 = 30 * d /\ k5 = 9 * d /\ k6 = 90 * d
        /\ k7 = 27 * d /\ k8 = 76 * d /\ k9 = 81 * d /\ k10 = 34 * d /\ k11 = 49 * d
  OBVIOUS
<1>8. Gap(c, e, 1, k1)
  BY <1>6, <1>7, Zenon
<1>9. Gap(c, e, 2, k2)
  <2>1. Tenfold(1, 2, k1, 0 * d, k2)
    BY <1>6, <1>7 DEF Tenfold
  <2>2. PICK t : t = 0 * d
    OBVIOUS
  <2> QED BY <1>1, <1>4, <1>8, <2>1, <2>2, WalksApart
<1>10. Gap(c, e, 3, k3)
  <2>1. Tenfold(2, 3, k2, 1 * d, k3)
    BY <1>6, <1>7 DEF Tenfold
  <2>2. PICK t : t = 1 * d
    OBVIOUS
  <2> QED BY <1>1, <1>4, <1>9, <2>1, <2>2, WalksApart
<1>11. Gap(c, e, 4, k4)
  <2>1. Tenfold(3, 4, k3, 0 * d, k4)
    BY <1>6, <1>7 DEF Tenfold
  <2>2. PICK t : t = 0 * d
    OBVIOUS
  <2> QED BY <1>1, <1>4, <1>10, <2>1, <2>2, WalksApart
<1>12. Gap(c, e, 5, k5)
  <2>1. Tenfold(4, 5, k4, 3 * d, k5)
    BY <1>6, <1>7 DEF Tenfold
  <2>2. PICK t : t = 3 * d
    OBVIOUS
  <2> QED BY <1>1, <1>4, <1>11, <2>1, <2>2, WalksApart
<1>13. Gap(c, e, 6, k6)
  <2>1. Tenfold(5, 6, k5, 0 * d, k6)
    BY <1>6, <1>7 DEF Tenfold
  <2>2. PICK t : t = 0 * d
    OBVIOUS
  <2> QED BY <1>1, <1>4, <1>12, <2>1, <2>2, WalksApart
<1>14. Gap(c, e, 7, k7)
  <2>1. Tenfold(6, 7, k6, 9 * d, k7)
    BY <1>6, <1>7 DEF Tenfold
  <2>2. PICK t : t = 9 * d
    OBVIOUS
  <2> QED BY <1>1, <1>4, <1>13, <2>1, <2>2, WalksApart
<1>15. Gap(c, e, 8, k8)
  <2>1. Tenfold(7, 8, k7, 2 * d, k8)
    BY <1>6, <1>7 DEF Tenfold
  <2>2. PICK t : t = 2 * d
    OBVIOUS
  <2> QED BY <1>1, <1>4, <1>14, <2>1, <2>2, WalksApart
<1>16. Gap(c, e, 9, k9)
  <2>1. Tenfold(8, 9, k8, 7 * d, k9)
    BY <1>6, <1>7 DEF Tenfold
  <2>2. PICK t : t = 7 * d
    OBVIOUS
  <2> QED BY <1>1, <1>4, <1>15, <2>1, <2>2, WalksApart
<1>17. Gap(c, e, 10, k10)
  <2>1. Tenfold(9, 10, k9, 8 * d, k10)
    BY <1>6, <1>7 DEF Tenfold
  <2>2. PICK t : t = 8 * d
    OBVIOUS
  <2> QED BY <1>1, <1>4, <1>16, <2>1, <2>2, WalksApart
<1>18. Gap(c, e, 11, k11)
  <2>1. Tenfold(10, 11, k10, 3 * d, k11)
    BY <1>6, <1>7 DEF Tenfold
  <2>2. PICK t : t = 3 * d
    OBVIOUS
  <2> QED BY <1>1, <1>4, <1>17, <2>1, <2>2, WalksApart
<1> QED BY <1>1, <1>2, <1>3, <1>5, <1>7, <1>18, Zenon DEF Gap

(* A key of two digits is the number itself, modulo 97. *)
FrDigits(n) == IsDigit(n[1]) /\ IsDigit(n[2])

LEMMA FrKeyIs ==
  ASSUME NEW n, fr_tva(n), FrDigits(n)
  PROVE  10 * n[1] + n[2] = IntegerMod(Siren(n) \o OneTwo, 97) /\ n[1] \in 0..9 /\ n[2] \in 0..9
<1>1. FrReads(n)
  BY FrIs
<1> QED BY <1>1, Zenon DEF FrReads, FrDigits, OneTwo, IsDigit

LEMMA FrKeyDiffers ==
  ASSUME NEW w, NEW r, NEW i, Differs(w, r, i), fr_tva(w), fr_tva(r), i \in {1, 2}, FrDigits(w), FrDigits(r)
  PROVE  FALSE
<1>1. Len(w) = 11
  BY FrIs
<1>2. 2 \in Nat /\ 11 \in Nat /\ 2 <= 11 /\ 11 <= Len(w) /\ i <= 2
  BY <1>1
<1>3. Siren(w) = Siren(r)
  BY <1>2, SliceOfDiffers DEF Siren
<1>4. /\ 10 * w[1] + w[2] = 10 * r[1] + r[2]
      /\ w[1] \in 0..9 /\ w[2] \in 0..9 /\ r[1] \in 0..9 /\ r[2] \in 0..9
  BY <1>3, FrKeyIs
<1>5. r[i] # w[i]
  BY DEF Differs
<1>6. r[1] = w[1] /\ r[2] = w[2]
  BY <1>4
<1> QED BY <1>5, <1>6

LEMMA FrKeyExchanged ==
  ASSUME NEW w, NEW r, NEW i, Exchanged(w, r, i), fr_tva(w), fr_tva(r), i \in {1, 2}, FrDigits(r)
  PROVE  FALSE
<1>1. /\ Len(w) = 11 /\ AllDigits(Siren(w)) /\ AllDigits(Siren(r))
  BY FrIs
<1>2. /\ 2 \in Nat /\ 11 \in Nat /\ 2 <= 11 /\ 11 <= Len(w)
      /\ w \in Seq(Characters) /\ r \in Seq(Characters) /\ Len(r) = 11
      /\ w[i] # w[i + 1] /\ r[i] = w[i + 1] /\ r[i + 1] = w[i]
      /\ i = 2 => r[1] = w[1]
  BY <1>1 DEF Exchanged
<1>3. CASE i = 1
  <2>1. 1 < 2 /\ 1 + 1 = 2
    OBVIOUS
  <2>2. Siren(w) = Siren(r)
    BY <1>2, <1>3, <2>1, SliceOfExchanged DEF Siren
  <2>3. FrDigits(w)
    BY <1>2, <1>3, <2>1, Zenon DEF FrDigits
  <2>4. /\ 10 * w[1] + w[2] = 10 * r[1] + r[2]
        /\ w[1] \in 0..9 /\ w[2] \in 0..9 /\ r[1] \in 0..9 /\ r[2] \in 0..9
    BY <2>2, <2>3, FrKeyIs
  <2>5. w[1] # w[2] /\ r[1] = w[2] /\ r[2] = w[1]
    BY <1>2, <1>3, <2>1, Zenon
  <2> QED BY <2>4, <2>5
<1>4. CASE i = 2
  <2>1. Differs(Siren(w), Siren(r), 1)
    BY <1>2, <1>4, SliceOfExchanged DEF Siren
  <2>2. /\ Siren(w)[1] = w[3] /\ Len(Siren(w)) = 9 /\ Siren(w) \in Seq(Characters)
        /\ Siren(r)[1] = r[3] /\ Len(Siren(r)) = 9 /\ Siren(r) \in Seq(Characters)
    <3>1. ASSUME NEW n \in Seq(Characters), Len(n) = 11
          PROVE  Slice(n, 2, 11)[1] = n[3] /\ Len(Slice(n, 2, 11)) = 9 /\ Slice(n, 2, 11) \in Seq(Characters)
      <4>1. /\ Slice(n, 2, 11) \in Seq(Characters) /\ Len(Slice(n, 2, 11)) = 11 - 2
            /\ \A x \in 1..(11 - 2) : Slice(n, 2, 11)[x] = n[2 + x]
        <5>1. 2 \in Nat /\ 11 \in Nat /\ 2 <= 11 /\ 11 <= Len(n)
          BY <3>1
        <5> QED BY <3>1, <5>1, SliceIs, Zenon
      <4>2. 11 - 2 = 9 /\ 1 \in 1..(11 - 2) /\ 2 + 1 = 3
        OBVIOUS
      <4> QED BY <4>1, <4>2, Zenon
    <3> QED BY <1>1, <1>2, <3>1, Zenon DEF Siren
  <2>3. 2 + 1 = 3 /\ w[2] # w[3] /\ r[2] = w[3] /\ r[3] = w[2] /\ r[1] = w[1]
    BY <1>2, <1>4
  <2>4. IsDigit(w[3]) /\ IsDigit(r[3])
    <3>2. Siren(w) \in Seq(0..9) /\ Siren(r) \in Seq(0..9)
      BY <1>1, <2>2, DigitsAreASequence
    <3>3. Siren(w)[1] \in 0..9 /\ Siren(r)[1] \in 0..9
      BY <2>1, <3>2 DEF Differs
    <3> QED BY <2>2, <3>3, Zenon DEF IsDigit
  <2>5. FrDigits(w)
    BY <2>3, <2>4, Zenon DEF FrDigits
  <2>6. Differs(Siren(w) \o OneTwo, Siren(r) \o OneTwo, 1)
    BY <2>1, OneTwoIs, JoinDiffers, Zenon DEF JoinedDiffer
  <2>7. AllDigits(Siren(w) \o OneTwo) /\ AllDigits(Siren(r) \o OneTwo)
    BY <1>1, <2>2, OneTwoIs, JoinedDigits, Zenon
  <2>8. /\ Len(Siren(w) \o OneTwo) = 11
        /\ (Siren(w) \o OneTwo)[1] = w[3] /\ (Siren(r) \o OneTwo)[1] = r[3]
    <3>1. Len(OneTwo) = 2 /\ 9 + 2 = 11 /\ OneTwo \in Seq(Characters)
      BY OneTwoIs DEF OneTwo
    <3>2. JoinOf(Siren(w) \o OneTwo, Siren(w), OneTwo, 9, 2)
      BY <2>2, <3>1, Joined, Zenon
    <3>3. JoinedDiffer(Siren(w), Siren(r), OneTwo, 1)
      BY <2>1, <3>1, JoinDiffers, Zenon
    <3> QED BY <2>2, <3>1, <3>2, <3>3, Zenon DEF JoinOf, JoinedDiffer
  <2>9. Apart97(IntegerMod(Siren(w) \o OneTwo, 97), IntegerMod(Siren(r) \o OneTwo, 97), 49 * (r[3] - w[3]))
    BY <2>6, <2>7, <2>8, FirstOfEleven
  <2>10. /\ 10 * w[1] + w[2] = IntegerMod(Siren(w) \o OneTwo, 97)
         /\ 10 * r[1] + r[2] = IntegerMod(Siren(r) \o OneTwo, 97)
         /\ w[1] \in 0..9 /\ w[2] \in 0..9 /\ r[2] \in 0..9
    BY <2>5, FrKeyIs
  <2>11. PICK a, b, c : a = w[1] /\ b = w[2] /\ c = w[3]
    OBVIOUS
  <2>12. Apart97(10 * a + b, 10 * a + c, 49 * (b - c))
    BY <2>3, <2>9, <2>10, <2>11, Zenon
  <2>13. a \in 0..9 /\ b \in 0..9 /\ c \in 0..9 /\ b # c
    BY <2>3, <2>10, <2>11, Zenon
  <2>14. ((10 * a + c) - (10 * a + b) - 49 * (b - c)) % 97 = 0
    BY <2>12 DEF Apart97
  <2>15. (50 * (c - b)) % 97 = 0
    BY <2>13, <2>14
  <2> QED BY <2>13, <2>15
<1> QED BY <1>3, <1>4
-----------------------------------------------------------------------------
(* The CUSIP: the digits as Luhn has them, eight of them summed. *)
CusipDigit(x, v) == DigitSum(v * (IF x % 2 = 1 THEN 1 ELSE 2))
CusipTerm == [p \in (1..8) \X Characters |-> CusipDigit(p[1], p[2])]

LEMMA CusipTermIs ==
  ASSUME NEW term, term = CusipTerm
  PROVE  /\ IsTerm(term, 8, Characters)
         /\ \A x \in 1..8 : \A a \in 0..9 : term[<<x, a>>] = LuhnDigit(9 - x, a)
<1>1. \A x \in 1..8 : \A a \in Characters : term[<<x, a>>] = CusipDigit(x, a)
  BY DEF CusipTerm
<1>2. \A x \in 1..8 : \A a \in Characters : CusipDigit(x, a) \in Int
  BY DEF CusipDigit, DigitSum, Characters
<1>3. \A x \in 1..8 : \A a \in 0..9 : a \in Characters /\ CusipDigit(x, a) = LuhnDigit(9 - x, a)
  <2> TAKE x \in 1..8
  <2> TAKE a \in 0..9
  <2>1. x = 1 \/ x = 2 \/ x = 3 \/ x = 4 \/ x = 5 \/ x = 6 \/ x = 7 \/ x = 8
    OBVIOUS
  <2>2. CASE x % 2 = 1
    <3>1. (9 - x) % 2 # 1
      BY <2>2
    <3>2. DigitSum(a) = a
      BY DEF DigitSum
    <3>3. CusipDigit(x, a) = DigitSum(a * 1) /\ a * 1 = a
      BY <2>2 DEF CusipDigit
    <3> QED BY <3>1, <3>2, <3>3 DEF LuhnDigit, Characters
  <2>3. CASE x % 2 # 1
    <3>1. (9 - x) % 2 = 1
      BY <2>3
    <3>2. CusipDigit(x, a) = DigitSum(a * 2) /\ a * 2 = 2 * a
      BY <2>3 DEF CusipDigit
    <3> QED BY <3>1, <3>2 DEF LuhnDigit, Characters
  <2> QED BY <2>2, <2>3
<1> QED BY <1>1, <1>2, <1>3 DEF IsTerm

CusipSum(d, s) == s \in Int /\ cusip_check_digit(d) = (10 - (s % 10)) % 10

LEMMA CusipChecks ==
  ASSUME NEW d \in Seq(Characters), cusip(d)
  PROVE  /\ Len(d) = 9 /\ d[9] \in 0..9 /\ d[9] = (10 - (SumOver(CusipTerm, d, 8) % 10)) % 10
<1>1. Len(d) = 9 /\ IsDigit(d[9]) /\ d[9] = cusip_check_digit(d)
  BY Zenon DEF cusip
<1>2. \A x \in 1..8 : d[x] \in Characters
  <2>1. \A x \in 1..Len(d) : d[x] \in Characters
    OBVIOUS
  <2>2. \A x \in 1..8 : x \in 1..9
    OBVIOUS
  <2> QED BY <1>1, <2>1, <2>2, Zenon
<1>3. [x \in 1..8 |-> DigitSum(d[x] * (IF x % 2 = 1 THEN 1 ELSE 2))] = [x \in 1..8 |-> CusipTerm[<<x, d[x]>>]]
  <2>1. \A x \in 1..8 : CusipTerm[<<x, d[x]>>] = DigitSum(d[x] * (IF x % 2 = 1 THEN 1 ELSE 2))
    BY <1>2 DEF CusipTerm, CusipDigit
  <2> QED BY <2>1
<1>4. cusip_check_digit(d) = (10 - (SumOver(CusipTerm, d, 8) % 10)) % 10
  BY <1>3, Zenon DEF cusip_check_digit, SumOver
<1> QED BY <1>1, <1>4, Zenon DEF IsDigit

LEMMA CusipGrows ==
  ASSUME NEW d \in Seq(Characters), NEW e \in Seq(Characters), cusip(d), cusip(e), NEW delta,
         Grows(SumOver(CusipTerm, d, 8), SumOver(CusipTerm, e, 8), delta)
  PROVE  delta \in Int /\ (delta + (e[9] - d[9])) % 10 = 0
<1>1. PICK s, t : s = SumOver(CusipTerm, d, 8) /\ t = SumOver(CusipTerm, e, 8)
  OBVIOUS
<1>2. d[9] \in 0..9 /\ d[9] = (10 - (s % 10)) % 10 /\ e[9] \in 0..9 /\ e[9] = (10 - (t % 10)) % 10
  BY <1>1, CusipChecks, Zenon
<1>3. s \in Int /\ delta \in Int /\ t = s + delta
  BY <1>1, Zenon DEF Grows
<1>4. PICK a, b : a = d[9] /\ b = e[9]
  OBVIOUS
<1>5. (delta + (b - a)) % 10 = 0
  BY <1>2, <1>3, <1>4, CheckIsSeen
<1> QED BY <1>3, <1>4, <1>5, Zenon

LEMMA cusip_Differs ==
  ASSUME NEW w, NEW r, NEW i, Differs(w, r, i), cusip(w), cusip(r), IsDigit(w[i]) <=> IsDigit(r[i])
  PROVE  ~ IsDigit(r[i])
<1>0. SUFFICES ASSUME IsDigit(r[i]) PROVE FALSE
  OBVIOUS
<1>1. w \in Seq(Characters) /\ r \in Seq(Characters) /\ i \in 1..Len(w) /\ w[i] # r[i] /\ \A x \in 1..Len(w) : x # i => r[x] = w[x]
  BY Zenon DEF Differs
<1>2. Len(w) = 9 /\ w[9] \in 0..9 /\ r[9] \in 0..9
  BY <1>1, CusipChecks, Zenon
<1>3. w[i] \in 0..9 /\ r[i] \in 0..9
  BY <1>0, Zenon DEF IsDigit
<1>4. PICK term : term = CusipTerm
  OBVIOUS
<1>5. IsTerm(term, 8, Characters) /\ \A x \in 1..8 : \A a \in 0..9 : term[<<x, a>>] = LuhnDigit(9 - x, a)
  BY <1>4, CusipTermIs
<1>6. 8 <= Len(w) /\ i \in 1..9 /\ 9 \in 1..Len(w)
  BY <1>1, <1>2
<1>7. Grows(SumOver(term, w, 8), SumOver(term, r, 8), Misread1(term, w, r, i, 8))
  BY <1>1, <1>5, <1>6, SumOverDiffers, Zenon
<1>8. Misread1(term, w, r, i, 8) \in Int /\ (Misread1(term, w, r, i, 8) + (r[9] - w[9])) % 10 = 0
  BY <1>1, <1>4, <1>7, CusipGrows, Zenon
<1>9. CASE i \in 1..8
  <2>1. r[9] = w[9]
    <3>1. 9 # i
      BY <1>9
    <3> QED BY <1>1, <1>6, <3>1, Zenon
  <2>2. 9 - i \in Int /\ i <= 8
    BY <1>9
  <2>3. (LuhnDigit(9 - i, r[i]) - LuhnDigit(9 - i, w[i])) % 10 # 0
    BY <1>1, <1>3, <2>2, LuhnDigitsDiffer
  <2>4. Misread1(term, w, r, i, 8) = LuhnDigit(9 - i, r[i]) - LuhnDigit(9 - i, w[i])
    BY <1>3, <1>5, <1>9, <2>2, Zenon DEF Misread1
  <2>5. PICK m : m = Misread1(term, w, r, i, 8)
    OBVIOUS
  <2>6. m \in Int /\ (m + (r[9] - w[9])) % 10 = 0 /\ m % 10 # 0
    BY <1>8, <2>3, <2>4, <2>5, Zenon
  <2>7. ASSUME NEW a \in 0..9, (m + (a - a)) % 10 = 0 PROVE FALSE
    BY <2>6, <2>7
  <2> QED BY <1>2, <2>1, <2>6, <2>7, Zenon
<1>10. CASE i = 9
  <2>1. ~ (9 <= 8)
    OBVIOUS
  <2>2. Misread1(term, w, r, i, 8) = 0
    BY <1>10, <2>1, Zenon DEF Misread1
  <2>3. ASSUME NEW a \in 0..9, NEW b \in 0..9, (0 + (b - a)) % 10 = 0 PROVE a = b
    BY <2>3
  <2> QED BY <1>1, <1>2, <1>8, <1>10, <2>2, <2>3, Zenon
<1> QED BY <1>6, <1>9, <1>10

LEMMA cusip_Exchanged ==
  ASSUME NEW w, NEW r, NEW i, Exchanged(w, r, i), cusip(w), cusip(r), IsDigit(w[i]), IsDigit(w[i + 1])
  PROVE  Near9(w[i], w[i + 1])
<1>0. SUFFICES ASSUME ~ Near9(w[i], w[i + 1]) PROVE FALSE
  OBVIOUS
<1>1. /\ w \in Seq(Characters) /\ r \in Seq(Characters) /\ i \in 1..(Len(w) - 1) /\ w[i] # w[i + 1]
      /\ r[i] = w[i + 1] /\ r[i + 1] = w[i] /\ \A x \in 1..Len(w) : x # i /\ x # i + 1 => r[x] = w[x]
  BY Zenon DEF Exchanged
<1>2. Len(w) = 9 /\ w[9] \in 0..9 /\ r[9] \in 0..9
  BY <1>1, CusipChecks, Zenon
<1>3. PICK a, b : a = w[i] /\ b = w[i + 1]
  OBVIOUS
<1>4. a \in 0..9 /\ b \in 0..9 /\ a # b /\ a - b \notin {9, -9} /\ b - a \notin {9, -9}
  <2>1. a \in 0..9 /\ b \in 0..9 /\ a # b
    BY <1>1, <1>3, Zenon DEF IsDigit
  <2>2. ~ Near9(a, b)
    BY <1>0, <1>3, Zenon
  <2> QED BY <2>1, <2>2 DEF Near9
<1>5. PICK term : term = CusipTerm
  OBVIOUS
<1>6. IsTerm(term, 8, Characters) /\ \A x \in 1..8 : \A v \in 0..9 : term[<<x, v>>] = LuhnDigit(9 - x, v)
  BY <1>5, CusipTermIs
<1>7. 8 <= Len(w) /\ i \in 1..8 /\ i <= 8
  BY <1>1, <1>2
<1>8. Grows(SumOver(term, w, 8), SumOver(term, r, 8), Swapped1(term, w, i, 8))
  BY <1>1, <1>6, <1>7, SumOverExchanged, Zenon
<1>9. Swapped1(term, w, i, 8) \in Int /\ (Swapped1(term, w, i, 8) + (r[9] - w[9])) % 10 = 0
  BY <1>1, <1>5, <1>8, CusipGrows, Zenon
<1>10. PICK m : m = Swapped1(term, w, i, 8)
  OBVIOUS
<1>11. PICK k : k = 9 - i
  OBVIOUS
<1>12. k \in Int /\ 9 - (i + 1) = k - 1
  BY <1>7, <1>11
<1>13. /\ ((LuhnDigit(k, b) - LuhnDigit(k, a)) + (LuhnDigit(k - 1, a) - LuhnDigit(k - 1, b))) % 10 # 0
       /\ LuhnDigit(k, b) \in Int /\ LuhnDigit(k, a) \in Int /\ LuhnDigit(k - 1, b) \in Int /\ LuhnDigit(k - 1, a) \in Int
  BY <1>4, <1>12, LuhnDigitsInOrder
<1>14. CASE i # 8
  <2>1. i + 1 <= 8 /\ i + 1 \in 1..8 /\ 9 # i /\ 9 # i + 1 /\ 9 \in 1..9
    BY <1>7, <1>14
  <2>2. r[9] = w[9]
    BY <1>1, <1>2, <2>1, Zenon
  <2>3. /\ term[<<i, w[i]>>] = LuhnDigit(k, a) /\ term[<<i, w[i + 1]>>] = LuhnDigit(k, b)
        /\ term[<<i + 1, w[i]>>] = LuhnDigit(k - 1, a) /\ term[<<i + 1, w[i + 1]>>] = LuhnDigit(k - 1, b)
    BY <1>3, <1>4, <1>6, <1>7, <1>11, <1>12, <2>1, Zenon
  <2>4. m = (LuhnDigit(k, b) - LuhnDigit(k, a)) + (LuhnDigit(k - 1, a) - LuhnDigit(k - 1, b))
    BY <1>7, <1>10, <2>1, <2>3, Zenon DEF Swapped1
  <2>5. m \in Int /\ (m + (r[9] - w[9])) % 10 = 0 /\ m % 10 # 0
    BY <1>9, <1>10, <1>13, <2>4, Zenon
  <2>6. ASSUME NEW y \in 0..9, (m + (y - y)) % 10 = 0 PROVE FALSE
    BY <2>5, <2>6
  <2> QED BY <1>2, <2>2, <2>5, <2>6, Zenon
<1>15. CASE i = 8
  <2>1. ~ (i + 1 <= 8) /\ i + 1 = 9 /\ k = 1 /\ k - 1 = 0
    BY <1>11, <1>15
  <2>2. /\ term[<<i, w[i]>>] = LuhnDigit(k, a) /\ term[<<i, w[i + 1]>>] = LuhnDigit(k, b)
    BY <1>3, <1>4, <1>6, <1>7, <1>11, Zenon
  <2>3. m = (LuhnDigit(k, b) - LuhnDigit(k, a)) + 0
    BY <1>7, <1>10, <2>1, <2>2, Zenon DEF Swapped1
  <2>4. r[9] = a /\ w[9] = b
    BY <1>1, <1>3, <2>1, Zenon
  <2>5. (m + (a - b)) % 10 = 0
    BY <1>9, <1>10, <2>4, Zenon
  <2>6. LuhnDigit(k - 1, a) = a /\ LuhnDigit(k - 1, b) = b
    BY <1>4, <2>1 DEF LuhnDigit
  <2> QED BY <1>4, <1>13, <2>3, <2>5, <2>6
<1> QED BY <1>14, <1>15

-----------------------------------------------------------------------------
(* The ISIN. *)
LEMMA IsinIs ==
  ASSUME NEW d, isin(d)
  PROVE  Len(d) = 12 /\ IsLetter(d[1]) /\ Luhn(FlattenSeq(Parts(d)))
BY Zenon DEF isin, expand_letters, Parts

LEMMA isin_Differs ==
  ASSUME NEW w, NEW r, NEW i, Differs(w, r, i), isin(w), isin(r), IsDigit(w[i]) <=> IsDigit(r[i])
  PROVE  ~ IsDigit(r[i])
<1>0. SUFFICES ASSUME IsDigit(r[i]) PROVE FALSE
  OBVIOUS
<1>1. /\ w \in Seq(Characters) /\ r \in Seq(Characters) /\ Len(r) = Len(w)
      /\ i \in 1..Len(w) /\ r[i] # w[i] /\ \A x \in 1..Len(w) : x # i => r[x] = w[x]
  BY Zenon DEF Differs
<1>2. Len(w) = 12 /\ Luhn(FlattenSeq(Parts(w))) /\ Luhn(FlattenSeq(Parts(r)))
  BY IsinIs, Zenon
<1>3. PICK n : n = 12
  OBVIOUS
<1>4. n \in Nat \ {0} /\ Len(w) = n /\ Len(r) = n
  <2>1. n \in Nat \ {0}
    BY <1>3
  <2> QED BY <1>1, <1>2, <1>3, <2>1, Zenon
<1>5. Parts(w) \in [1..n -> Seq(Characters)] /\ \A x \in 1..n : Parts(w)[x] = Part(w[x])
  BY <1>1, <1>4, PartsAre
<1>6. Parts(r) \in [1..n -> Seq(Characters)] /\ \A x \in 1..n : Parts(r)[x] = Part(r[x])
  BY <1>1, <1>4, PartsAre
<1>7. i \in 1..n /\ \A x \in 1..n : x # i => Parts(r)[x] = Parts(w)[x]
  BY <1>1, <1>4, <1>5, <1>6, Zenon
<1>8. Parts(w)[i] = <<w[i]>> /\ Parts(r)[i] = <<r[i]>>
  BY <1>0, <1>5, <1>6, <1>7, Zenon DEF Part
<1>9. Differs(Parts(w)[i], Parts(r)[i], 1)
  <2>1. w[i] \in 0..9 /\ r[i] \in 0..9 /\ w[i] # r[i]
    BY <1>0, <1>1, Zenon DEF IsDigit
  <2> QED BY <1>8, <2>1, DigitsApartAsWords, Zenon
<1>10. PICK p, q : p = Parts(w) /\ q = Parts(r)
  OBVIOUS
<1>11. \E j : Differs(FlattenSeq(p), FlattenSeq(q), j)
  <2>1. p \in [1..n -> Seq(Characters)] /\ q \in [1..n -> Seq(Characters)] /\ Differs(p[i], q[i], 1) /\ \A x \in 1..n : x # i => q[x] = p[x]
    BY <1>5, <1>6, <1>7, <1>9, <1>10, Zenon
  <2> QED BY <1>4, <1>7, <2>1, FlattenDiffers
<1> QED BY <1>2, <1>10, <1>11, LuhnDiffers, Zenon

LEMMA isin_Exchanged ==
  ASSUME NEW w, NEW r, NEW i, Exchanged(w, r, i), isin(w), isin(r), IsDigit(w[i]), IsDigit(w[i + 1])
  PROVE  Near9(w[i], w[i + 1])
<1>1. /\ w \in Seq(Characters) /\ r \in Seq(Characters) /\ Len(r) = Len(w)
      /\ i \in 1..(Len(w) - 1) /\ w[i] # w[i + 1] /\ r[i] = w[i + 1] /\ r[i + 1] = w[i]
      /\ \A x \in 1..Len(w) : x # i /\ x # i + 1 => r[x] = w[x]
  BY Zenon DEF Exchanged
<1>2. Len(w) = 12 /\ IsLetter(w[1]) /\ Luhn(FlattenSeq(Parts(w))) /\ Luhn(FlattenSeq(Parts(r)))
  BY IsinIs, Zenon
<1>3. PICK n : n = 12
  OBVIOUS
<1>4. n \in Nat \ {0} /\ Len(w) = n /\ Len(r) = n
  <2>1. n \in Nat \ {0}
    BY <1>3
  <2> QED BY <1>1, <1>2, <1>3, <2>1, Zenon
<1>5. Parts(w) \in [1..n -> Seq(Characters)] /\ \A x \in 1..n : Parts(w)[x] = Part(w[x])
  BY <1>1, <1>4, PartsAre
<1>6. Parts(r) \in [1..n -> Seq(Characters)] /\ \A x \in 1..n : Parts(r)[x] = Part(r[x])
  BY <1>1, <1>4, PartsAre
<1>7. i \in 1..(n - 1) /\ i # 1
  <2>1. i # 1
    <3>1. ASSUME NEW v, IsDigit(v), IsLetter(v) PROVE FALSE
      BY <3>1 DEF IsDigit, IsLetter
    <3> QED BY <1>2, <3>1, Zenon
  <2> QED BY <1>1, <1>4, <2>1, Zenon
<1>8. i \in 2..(n - 1) /\ i \in 1..n /\ i + 1 \in 1..n
  BY <1>4, <1>7
<1>9. PICK p, q, a, b : p = Parts(w) /\ q = Parts(r) /\ a = w[i] /\ b = w[i + 1]
  OBVIOUS
<1>10. p[i] = <<a>> /\ p[i + 1] = <<b>> /\ q[i] = <<b>> /\ q[i + 1] = <<a>>
  BY <1>1, <1>5, <1>6, <1>8, <1>9, Zenon DEF Part
<1>11. a \in 0..9 /\ b \in 0..9 /\ a # b
  BY <1>1, <1>9, Zenon DEF IsDigit
<1>12. a \in Characters /\ b \in Characters
  BY <1>11, DigitsApartAsWords, Zenon
<1>13. /\ p \in [1..n -> Seq(Characters)] /\ q \in [1..n -> Seq(Characters)]
       /\ \A x \in 1..n : x # i /\ x # i + 1 => q[x] = p[x]
  BY <1>1, <1>4, <1>5, <1>6, <1>9, Zenon
<1>14. PICK j : ExchangedAs(FlattenSeq(p), FlattenSeq(q), j, a, b)
  BY <1>4, <1>8, <1>10, <1>11, <1>12, <1>13, FlattenExchanged
<1>15. PICK u, v : u = FlattenSeq(p) /\ v = FlattenSeq(q)
  OBVIOUS
<1>16. Exchanged(u, v, j) /\ u[j] = a /\ u[j + 1] = b /\ Luhn(u) /\ Luhn(v)
  BY <1>2, <1>9, <1>14, <1>15, Zenon DEF ExchangedAs
<1>17. Near9(u[j], u[j + 1])
  BY <1>16, LuhnExchanged DEF Near9
<1> QED BY <1>9, <1>16, <1>17, Zenon

-----------------------------------------------------------------------------
(* The IBAN. *)
IbanHead(d) == Slice(d, 0, 4)
IbanRest(d) == Slice(d, 4, Len(d))

LEMMA IbanIs ==
  ASSUME NEW d \in Seq(Characters), iban(d)
  PROVE  /\ Len(d) \in 4..46 /\ Mod97_10(IbanRest(d) \o IbanHead(d)) /\ d[4] \in 0..9
<1>1. Len(d) \in 4..46 /\ AllDigits(Slice(d, 2, 4)) /\ Mod97_10(IbanRest(d) \o IbanHead(d))
  BY Zenon DEF iban, IbanHead, IbanRest
<1>2. 2 \in Nat /\ 4 \in Nat /\ 2 <= 4 /\ 4 <= Len(d) /\ 2 + 2 = 4 /\ 4 - 2 = 2
  <2>1. ASSUME NEW k \in 4..46 PROVE 4 <= k
    OBVIOUS
  <2>2. 2 \in Nat /\ 4 \in Nat /\ 2 <= 4 /\ 2 + 2 = 4 /\ 4 - 2 = 2
    OBVIOUS
  <2> QED BY <1>1, <2>1, <2>2, Zenon
<1>3. Len(Slice(d, 2, 4)) = 4 - 2 /\ Slice(d, 2, 4) \in Seq(Characters) /\ \A x \in 1..(4 - 2) : Slice(d, 2, 4)[x] = d[2 + x]
  BY <1>2, SliceIs
<1>4. DOMAIN Slice(d, 2, 4) = 1..2
  <2>1. ASSUME NEW s \in Seq(Characters) PROVE DOMAIN s = 1..Len(s)
    OBVIOUS
  <2> QED BY <1>2, <1>3, <2>1, Zenon
<1>5. 2 \in 1..2
  OBVIOUS
<1>6. d[4] \in 0..9
  BY <1>1, <1>2, <1>3, <1>4, <1>5, Zenon DEF AllDigits, IsDigit
<1> QED BY <1>1, <1>6

IbanTurned(w, h, b, n) ==
  /\ h = IbanHead(w) /\ b = IbanRest(w) /\ n = Len(w)
  /\ n \in 4..46 /\ h \in Seq(Characters) /\ Len(h) = 4 /\ b \in Seq(Characters) /\ Len(b) = n - 4
  /\ (\A x \in 1..4 : h[x] = w[x]) /\ (\A x \in 1..(n - 4) : b[x] = w[4 + x])
  /\ Mod97_10(b \o h) /\ w[4] \in 0..9

LEMMA IbanTurns ==
  ASSUME NEW w \in Seq(Characters), iban(w)
  PROVE  \E h, b, n : IbanTurned(w, h, b, n)
<1>1. PICK h, b, n : h = IbanHead(w) /\ b = IbanRest(w) /\ n = Len(w)
  OBVIOUS
<1>2. n \in 4..46 /\ Mod97_10(b \o h) /\ w[4] \in 0..9
  BY <1>1, IbanIs, Zenon
<1>3. 4 \in Nat /\ 4 <= Len(w) /\ n \in Nat /\ 4 <= n /\ n <= Len(w)
  BY <1>1, <1>2
<1>4. h \in Seq(Characters) /\ Len(h) = 4 /\ \A x \in 1..4 : h[x] = w[x]
  BY <1>1, <1>3, TakenFromTheStart, Zenon DEF IbanHead
<1>5. b \in Seq(Characters) /\ Len(b) = n - 4 /\ \A x \in 1..(n - 4) : b[x] = w[4 + x]
  <2>1. b = Slice(w, 4, n)
    BY <1>1, Zenon DEF IbanRest
  <2> QED BY <1>3, <2>1, SliceIs
<1> QED BY <1>1, <1>2, <1>4, <1>5, Zenon DEF IbanTurned

LEMMA iban_Differs ==
  ASSUME NEW w, NEW r, NEW i, Differs(w, r, i), IsDigit(w[i]) <=> IsDigit(r[i]), iban(w), iban(r)
  PROVE  FALSE
<1>1. /\ w \in Seq(Characters) /\ r \in Seq(Characters) /\ Len(r) = Len(w)
      /\ i \in 1..Len(w) /\ r[i] # w[i] /\ \A x \in 1..Len(w) : x # i => r[x] = w[x]
  BY Zenon DEF Differs
<1>2. PICK h, b, n : IbanTurned(w, h, b, n)
  BY <1>1, IbanTurns, Zenon
<1>3. PICK g, c, m : IbanTurned(r, g, c, m)
  BY <1>1, IbanTurns, Zenon
<1>4. /\ Len(w) = n /\ n \in 4..46 /\ h \in Seq(Characters) /\ Len(h) = 4 /\ b \in Seq(Characters) /\ Len(b) = n - 4
      /\ (\A x \in 1..4 : h[x] = w[x]) /\ (\A x \in 1..(n - 4) : b[x] = w[4 + x]) /\ Mod97_10(b \o h)
  BY <1>2, Zenon DEF IbanTurned
<1>5. /\ g \in Seq(Characters) /\ Len(g) = 4 /\ c \in Seq(Characters) /\ Len(c) = n - 4
      /\ (\A x \in 1..4 : g[x] = r[x]) /\ (\A x \in 1..(n - 4) : c[x] = r[4 + x]) /\ Mod97_10(c \o g)
  BY <1>1, <1>3, <1>4, Zenon DEF IbanTurned
<1>6. (\A x \in 1..4 : x \in 1..n) /\ (\A x \in 1..(n - 4) : 4 + x \in 1..n /\ 4 + x \notin 1..4) /\ n \in Nat
  BY <1>4
<1>7. i \in 1..n /\ \A x \in 1..n : x # i => r[x] = w[x]
  BY <1>1, <1>4, Zenon
<1>8. CASE i \in 1..4
  <2>1. \A x \in 1..(n - 4) : c[x] = b[x]
    <3> TAKE x \in 1..(n - 4)
    <3>1. 4 + x \in 1..n /\ 4 + x # i
      BY <1>6, <1>8, Zenon
    <3>2. r[4 + x] = w[4 + x]
      BY <1>7, <3>1, Zenon
    <3> QED BY <1>4, <1>5, <3>2, Zenon
  <2>2. b = c
    <3>1. b \in Seq(Characters) /\ c \in Seq(Characters) /\ Len(b) = n - 4 /\ Len(c) = n - 4
      BY <1>4, <1>5, Zenon
    <3> QED BY <2>1, <3>1, SameWord
  <2>3. Differs(h, g, i)
    <3>1. g[i] # h[i] /\ \A x \in 1..4 : x # i => g[x] = h[x]
      BY <1>1, <1>4, <1>5, <1>6, <1>8, Zenon
    <3> QED BY <1>4, <1>5, <1>8, <3>1, DifferentWords, Zenon
  <2>4. PICK k, j : k = n - 4 /\ j = k + i
    OBVIOUS
  <2>5. Differs(b \o h, b \o g, j)
    BY <1>4, <2>3, <2>4, LedDiffers, Zenon DEF LedDiffer
  <2>6. (b \o h)[j] = w[i] /\ (b \o g)[j] = r[i]
    <3>1. JoinOf(b \o h, b, h, k, 4) /\ JoinOf(b \o g, b, g, k, 4)
      BY <1>4, <1>5, <2>4, Joined, Zenon
    <3> QED BY <1>4, <1>5, <1>8, <2>4, <3>1, Zenon DEF JoinOf
  <2>7. IsDigit((b \o h)[j]) <=> IsDigit((b \o g)[j])
    BY <2>6, Zenon
  <2> QED BY <1>4, <1>5, <2>2, <2>5, <2>7, Mod97Differs, Zenon
<1>9. CASE i \notin 1..4
  <2>1. \A x \in 1..4 : g[x] = h[x]
    <3> TAKE x \in 1..4
    <3>1. r[x] = w[x]
      BY <1>6, <1>9, <1>7, Zenon
    <3> QED BY <1>4, <1>5, <3>1, Zenon
  <2>2. h = g
    <3>1. h \in Seq(Characters) /\ g \in Seq(Characters) /\ Len(h) = 4 /\ Len(g) = 4
      BY <1>4, <1>5, Zenon
    <3> QED BY <2>1, <3>1, SameWord
  <2>3. PICK j, k : j = i - 4 /\ k = n - 4
    OBVIOUS
  <2>4. j \in 1..k /\ 4 + j = i /\ i \in 1..n /\ \A x \in 1..k : x # j => 4 + x # i
    <3>1. i \in 1..n
      BY <1>1, <1>4, Zenon
    <3> QED BY <1>4, <1>9, <2>3, <3>1
  <2>5. b[j] = w[i] /\ c[j] = r[i] /\ \A x \in 1..k : x # j => c[x] = b[x]
    <3>1. b[j] = w[i] /\ c[j] = r[i]
      BY <1>4, <1>5, <2>3, <2>4, Zenon
    <3>2. ASSUME NEW x \in 1..k, x # j PROVE c[x] = b[x]
      <4>1. 4 + x \in 1..n /\ 4 + x # i
        BY <1>6, <2>3, <2>4, <3>2, Zenon
      <4>2. r[4 + x] = w[4 + x]
        BY <1>7, <4>1, Zenon
      <4> QED BY <1>4, <1>5, <2>3, <4>2, Zenon
    <3> QED BY <3>1, <3>2
  <2>6. Differs(b, c, j)
    BY <1>1, <1>4, <1>5, <2>3, <2>4, <2>5, DifferentWords, Zenon
  <2>7. JoinedDiffer(b, c, h, j)
    BY <1>4, <2>6, JoinDiffers, Zenon
  <2>8. Differs(b \o h, c \o h, j) /\ (b \o h)[j] = w[i] /\ (c \o h)[j] = r[i]
    BY <2>5, <2>7, Zenon DEF JoinedDiffer
  <2>9. IsDigit((b \o h)[j]) <=> IsDigit((c \o h)[j])
    BY <2>8, Zenon
  <2> QED BY <1>4, <1>5, <2>2, <2>8, <2>9, Mod97Differs, Zenon
<1> QED BY <1>8, <1>9

LEMMA iban_Exchanged ==
  ASSUME NEW w, NEW r, NEW i, Exchanged(w, r, i), iban(w), iban(r)
  PROVE  Eleven(w[i], w[i + 1])
<1>0. SUFFICES ASSUME ~ Eleven(w[i], w[i + 1]) PROVE FALSE
  OBVIOUS
<1>1. /\ w \in Seq(Characters) /\ r \in Seq(Characters) /\ Len(r) = Len(w)
      /\ i \in 1..(Len(w) - 1) /\ w[i] # w[i + 1] /\ r[i] = w[i + 1] /\ r[i + 1] = w[i]
      /\ \A x \in 1..Len(w) : x # i /\ x # i + 1 => r[x] = w[x]
  BY Zenon DEF Exchanged
<1>2. PICK h, b, n : IbanTurned(w, h, b, n)
  BY <1>1, IbanTurns, Zenon
<1>3. PICK g, c, m : IbanTurned(r, g, c, m)
  BY <1>1, IbanTurns, Zenon
<1>4. /\ Len(w) = n /\ n \in 4..46 /\ h \in Seq(Characters) /\ Len(h) = 4 /\ b \in Seq(Characters) /\ Len(b) = n - 4
      /\ (\A x \in 1..4 : h[x] = w[x]) /\ (\A x \in 1..(n - 4) : b[x] = w[4 + x]) /\ Mod97_10(b \o h) /\ w[4] \in 0..9
  BY <1>2, Zenon DEF IbanTurned
<1>5. /\ g \in Seq(Characters) /\ Len(g) = 4 /\ c \in Seq(Characters) /\ Len(c) = n - 4
      /\ (\A x \in 1..4 : g[x] = r[x]) /\ (\A x \in 1..(n - 4) : c[x] = r[4 + x]) /\ Mod97_10(c \o g) /\ r[4] \in 0..9
  BY <1>1, <1>3, <1>4, Zenon DEF IbanTurned
<1>6. (\A x \in 1..4 : x \in 1..n) /\ (\A x \in 1..(n - 4) : 4 + x \in 1..n /\ 4 + x \notin 1..4) /\ n \in Nat
  BY <1>4
<1>7. i \in 1..(n - 1) /\ \A x \in 1..n : x # i /\ x # i + 1 => r[x] = w[x]
  BY <1>1, <1>4, Zenon
<1>8. PICK k : k = n - 4
  OBVIOUS
<1>9. JoinOf(b \o h, b, h, k, 4) /\ JoinOf(c \o g, c, g, k, 4)
  BY <1>4, <1>5, <1>8, Joined, Zenon
<1>10. PICK u, v : u = b \o h /\ v = c \o g
  OBVIOUS
<1>11. /\ u \in Seq(Characters) /\ v \in Seq(Characters) /\ Len(u) = k + 4 /\ Len(v) = k + 4
       /\ (\A x \in 1..k : u[x] = b[x]) /\ (\A x \in 1..4 : u[k + x] = h[x])
       /\ (\A x \in 1..k : v[x] = c[x]) /\ (\A x \in 1..4 : v[k + x] = g[x])
       /\ Mod97_10(u) /\ Mod97_10(v)
  BY <1>4, <1>5, <1>9, <1>10, Zenon DEF JoinOf
<1>12. CASE i \in 1..3
  <2>1. i \in 1..4 /\ i + 1 \in 1..4 /\ i \in 1..(4 - 1)
    BY <1>12
  <2>2. b = c
    <3>1. b \in Seq(Characters) /\ c \in Seq(Characters) /\ Len(b) = n - 4 /\ Len(c) = n - 4
      BY <1>4, <1>5, Zenon
    <3>2. \A x \in 1..(n - 4) : c[x] = b[x]
      <4> TAKE x \in 1..(n - 4)
      <4>1. 4 + x \in 1..n /\ 4 + x # i /\ 4 + x # i + 1
        BY <1>6, <2>1, Zenon
      <4>2. r[4 + x] = w[4 + x]
        BY <1>7, <4>1, Zenon
      <4> QED BY <1>4, <1>5, <4>2, Zenon
    <3> QED BY <3>1, <3>2, SameWord
  <2>3. h[i] = w[i] /\ h[i + 1] = w[i + 1] /\ g[i] = r[i] /\ g[i + 1] = r[i + 1]
    BY <1>4, <1>5, <2>1, Zenon
  <2>4. \A x \in 1..4 : x # i /\ x # i + 1 => g[x] = h[x]
    BY <1>4, <1>5, <1>6, <1>7, Zenon
  <2>5. h[i] # h[i + 1] /\ g[i] = h[i + 1] /\ g[i + 1] = h[i]
    BY <1>1, <2>3, Zenon
  <2>6. Exchanged(h, g, i)
    BY <1>4, <1>5, <2>1, <2>4, <2>5, ExchangedWords, Zenon
  <2>7. LedExchanged(h, g, b, i, k)
    BY <1>4, <1>8, <2>6, LedExchange, Zenon
  <2>8. PICK j : j = k + i
    OBVIOUS
  <2>9. Exchanged(u, v, j) /\ u[j] = w[i] /\ u[j + 1] = w[i + 1]
    BY <1>10, <2>2, <2>3, <2>7, <2>8, Zenon DEF LedExchanged
  <2>10. u[j] # 11 * u[j + 1] /\ u[j + 1] # 11 * u[j]
    BY <1>0, <2>9, Zenon DEF Eleven
  <2> QED BY <1>11, <2>9, <2>10, Mod97Exchanged, Zenon
<1>13. CASE i = 4
  <2>1. n \in 2..46 /\ 1 \in 1..k /\ 4 \in 1..4 /\ k + 4 = n /\ 4 + 1 \in 1..n /\ i + 1 = 4 + 1 /\ 1 \in 1..(n - 4) /\ 1 \in 1..4
    BY <1>4, <1>7, <1>8, <1>13
  <2>2. u[1] = w[4 + 1] /\ v[1] = r[4 + 1] /\ u[n] = w[4] /\ v[n] = r[4]
    <3>1. u[1] = b[1] /\ v[1] = c[1]
      BY <1>11, <2>1, Zenon
    <3>2. b[1] = w[4 + 1] /\ c[1] = r[4 + 1]
      BY <1>4, <1>5, <2>1, Zenon
    <3>3. u[k + 4] = h[4] /\ v[k + 4] = g[4]
      BY <1>11, <2>1, Zenon
    <3>4. h[4] = w[4] /\ g[4] = r[4]
      BY <1>4, <1>5, <2>1, Zenon
    <3> QED BY <2>1, <3>1, <3>2, <3>3, <3>4, Zenon
  <2>3. r[4] = w[4 + 1] /\ r[4 + 1] = w[4] /\ w[4] # w[4 + 1]
    BY <1>1, <1>13, <2>1, Zenon
  <2>4. \A x \in 1..n : x # 1 /\ x # n => v[x] = u[x]
    <3> SUFFICES ASSUME NEW x \in 1..n, x # 1, x # n PROVE v[x] = u[x]
      OBVIOUS
    <3>1. CASE x \in 1..k
      <4>1. 4 + x \in 1..n /\ 4 + x # 4 /\ 4 + x # 4 + 1 /\ x \in 1..(n - 4)
        BY <1>6, <1>8, <3>1
      <4>2. r[4 + x] = w[4 + x]
        BY <1>7, <1>13, <4>1, Zenon
      <4> QED BY <1>4, <1>5, <1>11, <3>1, <4>1, <4>2, Zenon
    <3>2. CASE x \notin 1..k
      <4>1. PICK y : y = x - k
        OBVIOUS
      <4>2. y \in 1..4 /\ k + y = x /\ y \in 1..n /\ y # 4 /\ y # 4 + 1
        BY <1>4, <1>6, <1>8, <3>2, <4>1
      <4>3. r[y] = w[y]
        BY <1>7, <1>13, <4>2, Zenon
      <4> QED BY <1>4, <1>5, <1>11, <4>2, <4>3, Zenon
    <3> QED BY <3>1, <3>2
  <2>5. PICK a, d : a = w[4] /\ d = w[4 + 1]
    OBVIOUS
  <2>6. a \in 0..9 /\ d \in 0..9 /\ a # d
    BY <1>4, <1>5, <2>3, <2>5, Zenon
  <2>7. EndsSwapped(u, v, n, a, d)
    BY <1>11, <2>1, <2>2, <2>3, <2>4, <2>5, Zenon DEF EndsSwapped
  <2> QED BY <1>11, <2>1, <2>6, <2>7, Mod97EndsSwapped, Zenon
<1>14. CASE i \notin 1..3 /\ i # 4
  <2>1. PICK j : j = i - 4
    OBVIOUS
  <2>2. /\ j \in 1..k /\ j + 1 \in 1..k /\ j \in 1..(k - 1) /\ 4 + j = i /\ 4 + (j + 1) = i + 1
        /\ (\A x \in 1..k : x # j /\ x # j + 1 => 4 + x # i /\ 4 + x # i + 1)
        /\ (\A x \in 1..4 : x # i /\ x # i + 1)
    BY <1>4, <1>7, <1>8, <1>14, <2>1
  <2>3. h = g
    <3>1. h \in Seq(Characters) /\ g \in Seq(Characters) /\ Len(h) = 4 /\ Len(g) = 4
      BY <1>4, <1>5, Zenon
    <3>2. \A x \in 1..4 : g[x] = h[x]
      <4> TAKE x \in 1..4
      <4>1. r[x] = w[x]
        BY <1>6, <1>7, <2>2, Zenon
      <4> QED BY <1>4, <1>5, <4>1, Zenon
    <3> QED BY <3>1, <3>2, SameWord
  <2>4. b[j] = w[i] /\ b[j + 1] = w[i + 1] /\ c[j] = r[i] /\ c[j + 1] = r[i + 1]
    BY <1>4, <1>5, <1>8, <2>2, Zenon
  <2>5. ASSUME NEW x \in 1..k, x # j, x # j + 1 PROVE c[x] = b[x]
    <3>1. 4 + x \in 1..n /\ 4 + x # i /\ 4 + x # i + 1
      BY <1>6, <1>8, <2>2, <2>5, Zenon
    <3>2. r[4 + x] = w[4 + x]
      BY <1>7, <3>1, Zenon
    <3> QED BY <1>4, <1>5, <1>8, <3>2, Zenon
  <2>6. b[j] # b[j + 1] /\ c[j] = b[j + 1] /\ c[j + 1] = b[j]
    BY <1>1, <2>4, Zenon
  <2>7. Exchanged(b, c, j)
    BY <1>4, <1>5, <1>8, <2>2, <2>5, <2>6, ExchangedWords, Zenon
  <2>8. JoinedExchanged(b, c, h, j)
    BY <1>4, <2>7, JoinExchanged, Zenon
  <2>9. Exchanged(u, v, j) /\ u[j] = w[i] /\ u[j + 1] = w[i + 1]
    BY <1>10, <2>3, <2>4, <2>8, Zenon DEF JoinedExchanged
  <2>10. u[j] # 11 * u[j + 1] /\ u[j + 1] # 11 * u[j]
    BY <1>0, <2>9, Zenon DEF Eleven
  <2> QED BY <1>11, <2>9, <2>10, Mod97Exchanged, Zenon
<1> QED BY <1>12, <1>13, <1>14

LEMMA AgreesOne ==
  ASSUME NEW d
  PROVE  /\ Agrees("AT", d) <=> at_uid(d)
         /\ Agrees("BE", d) <=> be_ondernemingsnummer(d)
         /\ Agrees("CY", d) <=> cy_tic(d)
         /\ Agrees("DE", d) <=> de_ustid(d)
         /\ Agrees("DK", d) <=> dk_cvr(d)
         /\ Agrees("EE", d) <=> ee_kmkr(d)
         /\ Agrees("ES", d) <=> es_nif(d)
         /\ Agrees("FI", d) <=> fi_alv(d)
         /\ Agrees("FR", d) <=> fr_tva(d)
         /\ Agrees("HR", d) <=> hr_oib(d)
         /\ Agrees("HU", d) <=> hu_anum(d)
         /\ Agrees("IE", d) <=> ie_vat(d)
         /\ Agrees("IT", d) <=> it_iva(d)
BY DEF Agrees

LEMMA AgreesTwo ==
  ASSUME NEW d
  PROVE  /\ Agrees("LU", d) <=> lu_tva(d)
         /\ Agrees("MT", d) <=> mt_vat(d)
         /\ Agrees("PL", d) <=> pl_nip(d)
         /\ Agrees("SE", d) <=> se_momsnr(d)
         /\ Agrees("SI", d) <=> si_ddv(d)
         /\ Agrees("CH", d) <=> ch_mwst(d)
         /\ Agrees("GB", d) <=> gb_vat(d)
         /\ Agrees("GD", d) <=> gb_department("GD", d)
         /\ Agrees("HA", d) <=> gb_department("HA", d)
         /\ Agrees("NO", d) <=> no_mva(d)
         /\ Agrees("RS", d) <=> rs_pib(d)
         /\ Agrees("organisationsnummer", d) <=> se_organisationsnummer(d)
         /\ Agrees("personnummer", d) <=> se_personnummer(d)
BY DEF Agrees

LEMMA AgreesThree ==
  ASSUME NEW d
  PROVE  /\ Agrees("lei", d) <=> company_lei(d)
         /\ Agrees("codice_fiscale", d) <=> it_codice_fiscale(d)
         /\ Agrees("nif_nie", d) <=> es_nif_nie(d)
         /\ Agrees("pesel", d) <=> pl_pesel(d)
         /\ Agrees("isin", d) <=> isin(d)
         /\ Agrees("cusip", d) <=> cusip(d)
         /\ Agrees("sedol", d) <=> sedol(d)
         /\ Agrees("iban", d) <=> iban(d)
         /\ Agrees("card", d) <=> payment_card(d)
         /\ Agrees("aba", d) <=> aba_routing(d)
         /\ Agrees("imei", d) <=> imei(d)
         /\ Agrees("orcid", d) <=> orcid(d)
         /\ Agrees("damm", d) <=> Damm(d)
BY DEF Agrees

LEMMA UncheckedAre ==
  ASSUME NEW n
  PROVE  /\ Unchecked("ES", n) = {1} /\ Unchecked("nif_nie", n) = {1}
         /\ ~ FrDigits(n) => Unchecked("FR", n) = {1, 2}
         /\ Unchecked("GB", n) = {2, 3} \union 10..12
         /\ Len(n) = 3 => Unchecked("GD", n) = 1..3 /\ Unchecked("HA", n) = 1..3
         /\ ~ IsDigit(n[2]) => Unchecked("IE", n) = {2, 9}
         /\ Len(n) = 12 => Unchecked("personnummer", n) = {1, 2}
         /\ Unchecked("cusip", n) = {i \in DOMAIN n : IsLetter(n[i])}
         /\ Unchecked("sedol", n) = {i \in DOMAIN n : IsLetter(n[i])}
         /\ Unchecked("isin", n) = {i \in DOMAIN n : IsLetter(n[i])}
BY DEF Unchecked, FrDigits

(* The schemes without an exception, and those with one. *)
Strict == {"BE", "CY", "DK", "FI", "LU", "MT", "PL", "CH", "NO", "orcid", "damm"}
Plain == {"AT", "DE", "EE", "HR", "HU", "IT", "SE", "SI", "RS", "organisationsnummer", "lei",
          "codice_fiscale", "pesel", "iban", "card", "aba", "imei"}
Partial == {"ES", "FR", "GB", "GD", "HA", "IE", "personnummer", "nif_nie", "isin", "cusip", "sedol"}

LEMMA SchemesAre == CheckedSchemes = Folding \union Strict \union Plain \union Partial
BY SMT DEF CheckedSchemes, Folding, Strict, Plain, Partial

LEMMA StrictDiffers ==
  ASSUME NEW w, NEW r, NEW i, Differs(w, r, i), NEW s \in Strict, Agrees(s, w), Agrees(s, r)
  PROVE  FALSE
<1>1. \/ s = "BE" \/ s = "CY" \/ s = "DK" \/ s = "FI" \/ s = "LU" \/ s = "MT" \/ s = "PL" \/ s = "CH"
      \/ s = "NO" \/ s = "orcid" \/ s = "damm"
  BY DEF Strict
<1> QED BY <1>1, AgreesOne, AgreesTwo, AgreesThree, be_Differs, cy_tic_Differs, dk_cvr_Differs, fi_alv_Differs,
           lu_tva_Differs, mt_vat_Differs, pl_nip_Differs, ch_mwst_Differs, no_mva_Differs,
           FoldSchemesDiffer, DammDiffers

LEMMA StrictExchanged ==
  ASSUME NEW w, NEW r, NEW i, Exchanged(w, r, i), NEW s \in Strict, Agrees(s, w), Agrees(s, r)
  PROVE  FALSE
<1>1. \/ s = "BE" \/ s = "CY" \/ s = "DK" \/ s = "FI" \/ s = "LU" \/ s = "MT" \/ s = "PL" \/ s = "CH"
      \/ s = "NO" \/ s = "orcid" \/ s = "damm"
  BY DEF Strict
<1> QED BY <1>1, AgreesOne, AgreesTwo, AgreesThree, be_Exchanged, cy_tic_Exchanged, dk_cvr_Exchanged,
           fi_alv_Exchanged, lu_tva_Exchanged, mt_vat_Exchanged, pl_nip_Exchanged, ch_mwst_Exchanged,
           no_mva_Exchanged, FoldSchemesExchanged, DammExchanged

LEMMA PlainDiffers ==
  ASSUME NEW w, NEW r, NEW i, Differs(w, r, i), IsDigit(w[i]) <=> IsDigit(r[i]),
         NEW s \in Plain, Agrees(s, w), Agrees(s, r)
  PROVE  FALSE
<1>1. \/ s = "AT" \/ s = "DE" \/ s = "EE" \/ s = "HR" \/ s = "HU" \/ s = "IT" \/ s = "SE" \/ s = "SI" \/ s = "RS"
      \/ s = "organisationsnummer" \/ s = "lei" \/ s = "codice_fiscale" \/ s = "pesel" \/ s = "iban" \/ s = "card"
      \/ s = "aba" \/ s = "imei"
  BY DEF Plain
<1> QED BY <1>1, AgreesOne, AgreesTwo, AgreesThree, AustriaDiffers, FoldSchemesDiffer, ee_kmkr_Differs,
           hu_anum_Differs, FirstTenDiffers, si_ddv_Differs, LeiDiffers, it_codice_fiscale_Differs,
           pl_pesel_Differs, iban_Differs, aba_routing_Differs

LEMMA PartialDiffers ==
  ASSUME NEW w, NEW r, NEW i, Differs(w, r, i), IsDigit(w[i]) <=> IsDigit(r[i]),
         NEW s \in Partial, Agrees(s, w), Agrees(s, r), s # "IE" => r[i] \in 0..35 /\ w[i] \in 0..35
  PROVE  i \in Unchecked(s, r)
<1>1. \/ s = "ES" \/ s = "FR" \/ s = "GB" \/ s = "GD" \/ s = "HA" \/ s = "IE" \/ s = "personnummer" \/ s = "nif_nie"
      \/ s = "isin" \/ s = "cusip" \/ s = "sedol"
  BY DEF Partial
<1>2. Len(r) = Len(w) /\ i \in 1..Len(r) /\ i \in DOMAIN r
  <2>1. r \in Seq(Characters) /\ Len(r) = Len(w) /\ i \in 1..Len(w)
    BY Zenon DEF Differs
  <2> QED BY <2>1, LenProperties, Zenon
<1>3. CASE s \in {"ES", "nif_nie"}
  BY <1>3, AgreesOne, AgreesThree, es_nif_Differs, UncheckedAre
<1>4. CASE s \in {"FR", "GB"}
  <2>1. CASE s = "FR"
    <3>1. fr_tva(w) /\ fr_tva(r)
      BY <2>1, AgreesOne
    <3>2. i \in {1, 2}
      BY <3>1, fr_tva_Differs
    <3>3. FrDigits(r) <=> FrDigits(w)
      <4>1. 1 \in 1..Len(w) /\ 2 \in 1..Len(w)
        BY <3>1, FrIs
      <4>2. \A x \in {1, 2} : IsDigit(w[x]) <=> IsDigit(r[x])
        BY <4>1, Zenon DEF Differs
      <4> QED BY <4>2, Zenon DEF FrDigits
    <3>4. ~ FrDigits(r)
      BY <3>1, <3>2, <3>3, FrKeyDiffers
    <3> QED BY <2>1, <3>2, <3>4, UncheckedAre
  <2>2. CASE s = "GB"
    BY <2>2, AgreesTwo, gb_vat_Differs, UncheckedAre
  <2> QED BY <1>4, <2>1, <2>2
<1>5. CASE s \in {"GD", "HA"}
  <2>1. Len(w) = 3
    BY <1>5, AgreesTwo, gb_department_Differs
  <2> QED BY <1>2, <1>5, <2>1, UncheckedAre, Zenon
<1>6. CASE s = "IE"
  <2>1. ie_vat(w) /\ ie_vat(r)
    BY <1>6, AgreesOne
  <2>2. i = 2 \/ (i = 9 /\ ~ IsDigit(r[2]))
    BY <2>1, ie_vat_Differs
  <2>3. i = 2 => ~ IsDigit(r[2])
    BY <2>1, IeSecondRead, Zenon
  <2> QED BY <1>6, <2>2, <2>3, UncheckedAre
<1>7. CASE s = "personnummer"
  BY <1>2, <1>7, AgreesTwo, LastTenDiffers, UncheckedAre
<1>8. CASE s \in {"isin", "cusip"}
  <2>1. ~ IsDigit(r[i])
    BY <1>8, AgreesThree, isin_Differs, cusip_Differs
  <2>2. IsLetter(r[i])
    BY <1>8, <2>1, KindsOf
  <2>3. Unchecked(s, r) = {x \in DOMAIN r : IsLetter(r[x])}
    BY <1>8, UncheckedAre
  <2> QED BY <1>2, <2>2, <2>3, Zenon
<1>9. CASE s = "sedol"
  <2>1. ~ IsDigit(r[i])
    BY <1>9, AgreesThree, sedol_Differs DEF IsDigit
  <2>2. IsLetter(r[i])
    BY <1>9, <2>1, KindsOf
  <2> QED BY <1>2, <1>9, <2>2, UncheckedAre, Zenon
<1> QED BY <1>1, <1>3, <1>4, <1>5, <1>6, <1>7, <1>8, <1>9

(* What the swaps that pass have in common with their scheme. *)
Distance(a, b) == IF a > b THEN a - b ELSE b - a
LEMMA Distances ==
  ASSUME NEW a \in Nat, NEW b \in Nat
  PROVE  /\ Near9(a, b) => Distance(b, a) = 9
         /\ Near1(a, b) => Distance(b, a) \in {1, 9}
         /\ Fives(a, b) => Distance(b, a) % 5 = 0
         /\ a - b \in {1, -1} => Distance(b, a) = 1
         /\ Eleven(a, b) => b = 11 * a \/ a = 11 * b
<1>1. Fives(a, b) => Distance(b, a) % 5 = 0
  BY DEF Fives, Distance
<1> QED BY <1>1 DEF Near9, Near1, Eleven, Distance

MayPass(s, i, a, b) ==
  \/ s \in {"AT", "IT", "SE", "card", "imei", "organisationsnummer"} /\ Near9(a, b)
  \/ s \in {"EE", "HU", "aba", "pesel"} /\ Fives(a, b)
  \/ s \in {"DE", "HR", "RS"} /\ Near1(a, b)
  \/ s \in {"lei", "iban"} /\ Eleven(a, b)
  \/ s = "AT" /\ i = 7
  \/ s = "SI" /\ i = 7 /\ a - b \in {1, -1}
  \/ s = "codice_fiscale" /\ ItalianTwins(i, a, b)

LEMMA PlainExchanged ==
  ASSUME NEW w, NEW r, NEW i, Exchanged(w, r, i), NEW s \in Plain, Agrees(s, w), Agrees(s, r)
  PROVE  MayPass(s, i, w[i], w[i + 1])
<1>1. \/ s = "AT" \/ s = "DE" \/ s = "EE" \/ s = "HR" \/ s = "HU" \/ s = "IT" \/ s = "SE" \/ s = "SI" \/ s = "RS"
      \/ s = "organisationsnummer" \/ s = "lei" \/ s = "codice_fiscale" \/ s = "pesel" \/ s = "iban" \/ s = "card"
      \/ s = "aba" \/ s = "imei"
  BY DEF Plain
<1>2. CASE s \in {"DE", "HR", "RS", "IT", "organisationsnummer", "lei", "card", "imei"}
  BY <1>2, AgreesOne, AgreesTwo, AgreesThree, FoldSchemesExchanged DEF MayPass
<1>3. CASE s \in {"AT", "SE", "SI"}
  BY <1>3, AgreesOne, AgreesTwo, AustriaExchanged, FirstTenExchanged, si_ddv_Exchanged DEF MayPass
<1>4. CASE s \in {"EE", "HU", "aba", "pesel"}
  BY <1>4, AgreesOne, AgreesThree, ee_kmkr_Exchanged, hu_anum_Exchanged, aba_routing_Exchanged,
     pl_pesel_Exchanged DEF MayPass
<1>5. CASE s \in {"codice_fiscale", "iban"}
  BY <1>5, AgreesThree, it_codice_fiscale_Exchanged, iban_Exchanged DEF MayPass
<1> QED BY <1>1, <1>2, <1>3, <1>4, <1>5

PartMayPass(s, r, i, a, b) ==
  \/ i \in Unchecked(s, r)
  \/ s \in {"isin", "cusip", "personnummer"} /\ Near9(a, b)
  \/ s = "ES" /\ r[1] \in EntityTypes /\ Near9(a, b)
  \/ s \in {"isin", "cusip"} /\ IsLetter(r[i + 1])
  \/ s = "sedol" /\ Fives(a, b)

LEMMA PartialExchanged ==
  ASSUME NEW w, NEW r, NEW i, Exchanged(w, r, i), NEW s \in Partial, Agrees(s, w), Agrees(s, r),
         s # "IE" => r[i] \in 0..35 /\ r[i + 1] \in 0..35
  PROVE  PartMayPass(s, r, i, w[i], w[i + 1])
<1>1. \/ s = "ES" \/ s = "FR" \/ s = "GB" \/ s = "GD" \/ s = "HA" \/ s = "IE" \/ s = "personnummer" \/ s = "nif_nie"
      \/ s = "isin" \/ s = "cusip" \/ s = "sedol"
  BY DEF Partial
<1>2. Len(r) = Len(w) /\ i \in 1..(Len(r) - 1) /\ i \in DOMAIN r /\ r[i] = w[i + 1] /\ r[i + 1] = w[i]
  <2>1. r \in Seq(Characters) /\ Len(r) = Len(w) /\ i \in 1..(Len(w) - 1) /\ r[i] = w[i + 1] /\ r[i + 1] = w[i]
    BY Zenon DEF Exchanged
  <2>2. Len(r) \in Nat /\ DOMAIN r = 1..Len(r)
    BY <2>1, LenProperties, Zenon
  <2>3. \A n \in Nat : \A x \in 1..(n - 1) : x \in 1..n
    OBVIOUS
  <2> QED BY <2>1, <2>2, <2>3, Zenon
<1>3. CASE s \in {"ES", "nif_nie"}
  <2>1. i = 1 \/ (s = "ES" /\ r[1] \in EntityTypes /\ Near9(w[i], w[i + 1]))
    BY <1>3, AgreesOne, AgreesThree, es_nif_Exchanged
  <2> QED BY <1>3, <2>1, UncheckedAre DEF PartMayPass
<1>4. CASE s \in {"FR", "GB"}
  <2>1. CASE s = "FR"
    <3>1. fr_tva(w) /\ fr_tva(r)
      BY <2>1, AgreesOne
    <3>2. i \in {1, 2}
      BY <3>1, fr_tva_Exchanged
    <3>3. ~ FrDigits(r)
      BY <3>1, <3>2, FrKeyExchanged
    <3> QED BY <2>1, <3>2, <3>3, UncheckedAre DEF PartMayPass
  <2>2. CASE s = "GB"
    BY <2>2, AgreesTwo, gb_vat_Exchanged, UncheckedAre DEF PartMayPass
  <2> QED BY <1>4, <2>1, <2>2
<1>5. CASE s \in {"GD", "HA"}
  <2>1. Len(w) = 3
    BY <1>5, AgreesTwo, gb_department_Exchanged
  <2>2. i \in 1..3
    BY <1>2, <2>1
  <2> QED BY <1>2, <1>5, <2>1, <2>2, UncheckedAre, Zenon DEF PartMayPass
<1>6. CASE s = "IE"
  <2>1. ie_vat(w) /\ ie_vat(r)
    BY <1>6, AgreesOne
  <2>2. i = 2
    BY <2>1, ie_vat_Exchanged
  <2>3. ~ IsDigit(r[2])
    BY <2>1, <2>2, IeSecondTurned, Zenon
  <2> QED BY <1>6, <2>2, <2>3, UncheckedAre DEF PartMayPass
<1>7. CASE s = "personnummer"
  <2>1. Near9(w[i], w[i + 1]) \/ (Len(w) = 12 /\ i \in {1, 2})
    BY <1>7, AgreesTwo, LastTenExchanged
  <2> QED BY <1>2, <1>7, <2>1, UncheckedAre, Zenon DEF PartMayPass
<1>8. CASE s \in {"isin", "cusip"}
  <2>1. ~ IsDigit(w[i]) \/ ~ IsDigit(w[i + 1]) \/ Near9(w[i], w[i + 1])
    BY <1>8, AgreesThree, isin_Exchanged, cusip_Exchanged
  <2>2. IsLetter(r[i + 1]) \/ IsLetter(r[i]) \/ Near9(w[i], w[i + 1])
    BY <1>2, <1>8, <2>1, KindsOf
  <2>3. Unchecked(s, r) = {x \in DOMAIN r : IsLetter(r[x])}
    BY <1>8, UncheckedAre
  <2> QED BY <1>2, <1>8, <2>2, <2>3, Zenon DEF PartMayPass
<1>9. CASE s = "sedol"
  BY <1>9, AgreesThree, sedol_Exchanged DEF PartMayPass
<1> QED BY <1>1, <1>3, <1>4, <1>5, <1>6, <1>7, <1>8, <1>9

Alphabets(s) == IF s = "IE" THEN Characters ELSE 0..35

(* What has become of the written number. *)
OneError ==
  \/ error = "none" /\ read = written
  \/ error = "misread" /\ \E i \in 1..Len(written) :
       Differs(written, read, i) /\ (IsDigit(written[i]) <=> IsDigit(read[i]))
  \/ error = "swapped" /\ \E i \in 1..Len(written) : Exchanged(written, read, i)

MisreadInv ==
  /\ scheme \in CheckedSchemes
  /\ written \in Seq(Alphabets(scheme)) /\ read \in Seq(Alphabets(scheme)) /\ Len(read) = Len(written)
  /\ Agrees(scheme, written)
  /\ OneError

LEMMA InSomeCharacters == \A s : \A n : n \in Seq(Alphabets(s)) => n \in Seq(Characters)
<1>1. \A s : Alphabets(s) \subseteq Characters
  BY DEF Alphabets, Characters
<1> QED BY <1>1

LEMMA SameKindIs ==
  \A v \in Characters : \A u \in SameKind(v) : u \in 0..35 /\ (IsDigit(v) <=> IsDigit(u))
BY DEF SameKind, IsDigit, Characters

LEMMA MisreadIs ==
  ASSUME NEW s, NEW w \in Seq(Alphabets(s)), NEW i \in DOMAIN w, NEW v \in SameKind(w[i]), v # w[i]
  PROVE  LET r == [w EXCEPT ![i] = v]
         IN  /\ r \in Seq(Alphabets(s)) /\ Len(r) = Len(w) /\ i \in 1..Len(w)
             /\ Differs(w, r, i) /\ (IsDigit(w[i]) <=> IsDigit(r[i]))
<1> DEFINE r == [w EXCEPT ![i] = v]
<1>1. w \in Seq(Characters) /\ DOMAIN w = 1..Len(w) /\ Len(w) \in Nat
  BY InSomeCharacters, LenProperties
<1>2. w[i] \in Characters /\ w[i] \in Alphabets(s)
  BY <1>1
<1>3. v \in 0..35 /\ (IsDigit(w[i]) <=> IsDigit(v))
  BY <1>2, SameKindIs
<1>4. v \in Alphabets(s)
  BY <1>3 DEF Alphabets, Characters
<1>5. r \in Seq(Alphabets(s)) /\ Len(r) = Len(w) /\ r[i] = v
  BY <1>1, <1>4, ExceptSeq
<1>6. \A x \in 1..Len(w) : x # i => r[x] = w[x]
  BY <1>1
<1> HIDE DEF r
<1>7. r \in Seq(Characters)
  BY <1>5, InSomeCharacters, Zenon
<1>8. Differs(w, r, i)
  BY <1>1, <1>5, <1>6, <1>7, Zenon DEF Differs
<1> QED BY <1>1, <1>3, <1>5, <1>8, Zenon DEF r

LEMMA SwapIs ==
  ASSUME NEW s, NEW w \in Seq(Alphabets(s)), NEW i \in 1..(Len(w) - 1), w[i] # w[i + 1]
  PROVE  LET r == [w EXCEPT ![i] = w[i + 1], ![i + 1] = w[i]]
         IN  /\ r \in Seq(Alphabets(s)) /\ Len(r) = Len(w) /\ i \in 1..Len(w)
             /\ Exchanged(w, r, i)
<1> DEFINE r == [w EXCEPT ![i] = w[i + 1], ![i + 1] = w[i]]
<1>1. w \in Seq(Characters) /\ DOMAIN w = 1..Len(w) /\ Len(w) \in Nat
  BY InSomeCharacters, LenProperties
<1>2. i \in 1..Len(w) /\ i + 1 \in 1..Len(w) /\ i # i + 1
  BY <1>1
<1>3. w[i] \in Alphabets(s) /\ w[i + 1] \in Alphabets(s)
  BY <1>1, <1>2
<1>4. r = [[w EXCEPT ![i] = w[i + 1]] EXCEPT ![i + 1] = w[i]]
  BY <1>1, <1>2
<1>5. r \in Seq(Alphabets(s)) /\ Len(r) = Len(w)
  BY <1>1, <1>2, <1>3, <1>4, ExceptSeq
<1>6. r[i] = w[i + 1] /\ r[i + 1] = w[i]
  BY <1>1, <1>2
<1>7. \A x \in 1..Len(w) : x # i /\ x # i + 1 => r[x] = w[x]
  BY <1>1
<1> HIDE DEF r
<1>8. r \in Seq(Characters)
  BY <1>5, InSomeCharacters, Zenon
<1>9. Exchanged(w, r, i)
  BY <1>1, <1>5, <1>6, <1>7, <1>8, Zenon DEF Exchanged
<1> QED BY <1>2, <1>5, <1>9, Zenon DEF r

(* One misreading or one swap is all that lies between what was written and what is read. *)
THEOREM MisreadInvariant == MisreadSpec => []MisreadInv
<1>1. MisreadInit => MisreadInv
  <2> SUFFICES ASSUME MisreadInit PROVE MisreadInv
    OBVIOUS
  <2>1. scheme \in DOMAIN Samples /\ written \in Samples[scheme] /\ Agrees(scheme, written)
        /\ read = written /\ error = "none"
    BY DEF MisreadInit
  <2>2. scheme \in CheckedSchemes /\ written \in Seq(Alphabets(scheme))
    BY <2>1, SamplesAssumption, Zenon DEF Alphabets
  <2> QED BY <2>1, <2>2, Zenon DEF MisreadInv, OneError
<1>2. MisreadInv /\ [MisreadNext]_misreadVars => MisreadInv'
  <2> SUFFICES ASSUME MisreadInv, [MisreadNext]_misreadVars PROVE MisreadInv'
    OBVIOUS
  <2>0. /\ scheme \in CheckedSchemes /\ written \in Seq(Alphabets(scheme)) /\ read \in Seq(Alphabets(scheme))
        /\ Len(read) = Len(written) /\ Agrees(scheme, written)
        /\ (error = "none" => read = written)
    BY DEF MisreadInv, OneError
  <2>1. ASSUME NEW i \in DOMAIN read, NEW v \in SameKind(read[i]), Misread(i, v) PROVE MisreadInv'
    <3>1. error = "none" /\ v # read[i] /\ read' = [read EXCEPT ![i] = v] /\ error' = "misread"
          /\ scheme' = scheme /\ written' = written
      BY <2>1 DEF Misread
    <3>2. read = written
      BY <2>0, <3>1
    <3>3. /\ read' \in Seq(Alphabets(scheme)) /\ Len(read') = Len(written) /\ i \in 1..Len(written)
          /\ Differs(written, read', i) /\ (IsDigit(written[i]) <=> IsDigit(read'[i]))
      BY <2>0, <2>1, <3>1, <3>2, MisreadIs, Zenon
    <3>4. OneError'
      BY <3>1, <3>3, Zenon DEF OneError
    <3> QED BY <2>0, <3>1, <3>3, <3>4, Zenon DEF MisreadInv
  <2>2. ASSUME NEW i \in 1..(Len(read) - 1), Swap(i) PROVE MisreadInv'
    <3>1. error = "none" /\ read[i] # read[i + 1] /\ error' = "swapped"
          /\ read' = [read EXCEPT ![i] = read[i + 1], ![i + 1] = read[i]]
          /\ scheme' = scheme /\ written' = written
      BY <2>2 DEF Swap
    <3>2. read = written
      BY <2>0, <3>1
    <3> DEFINE swapped == [read EXCEPT ![i] = read[i + 1], ![i + 1] = read[i]]
    <3>3. /\ swapped \in Seq(Alphabets(scheme)) /\ Len(swapped) = Len(read) /\ i \in 1..Len(read)
          /\ Exchanged(read, swapped, i)
      <4>1. read \in Seq(Alphabets(scheme)) /\ i \in 1..(Len(read) - 1) /\ read[i] # read[i + 1]
        BY <2>0, <2>2, <3>1, Zenon
      <4> QED BY <4>1, SwapIs, Zenon
    <3> HIDE DEF swapped
    <3>4. read' = swapped
      BY <3>1, Zenon DEF swapped
    <3>5. /\ read' \in Seq(Alphabets(scheme)) /\ Len(read') = Len(written) /\ i \in 1..Len(written)
          /\ Exchanged(written, read', i)
      BY <2>0, <3>2, <3>3, <3>4, Zenon
    <3>6. OneError'
      BY <3>1, <3>5, Zenon DEF OneError
    <3> QED BY <2>0, <3>1, <3>5, <3>6, Zenon DEF MisreadInv
  <2>3. CASE UNCHANGED misreadVars
    BY <2>3 DEF misreadVars, MisreadInv, OneError
  <2> QED BY <2>1, <2>2, <2>3 DEF MisreadNext
<1> QED BY <1>1, <1>2, PTL DEF MisreadSpec

(* MisreadingIsCaught for every number a scheme accepts: of any length the
   scheme has, of any digits and letters, and with either of the two signs of
   the Irish alphabet. *)
THEOREM MisreadingsAreCaught == MisreadSpec => []MisreadingIsCaught
<1>1. MisreadInv => MisreadingIsCaught
  <2> SUFFICES ASSUME MisreadInv, Accepted, NEW i \in DOMAIN read, MisreadAt(i)
               PROVE  \/ i \in Unchecked(scheme, read)
                      \/ scheme \in Folding /\ (i = Len(read) => scheme \in {"BG", "CZ", "NL", "pan"})
    BY DEF MisreadingIsCaught
  <2>1. /\ scheme \in CheckedSchemes /\ written \in Seq(Alphabets(scheme)) /\ read \in Seq(Alphabets(scheme))
        /\ Len(read) = Len(written) /\ Agrees(scheme, written) /\ Agrees(scheme, read)
        /\ error = "misread" /\ read[i] # written[i]
    BY DEF MisreadInv, Accepted, MisreadAt
  <2>2. PICK j \in 1..Len(written) : Differs(written, read, j) /\ (IsDigit(written[j]) <=> IsDigit(read[j]))
    BY <2>1 DEF MisreadInv, OneError
  <2>3. i \in 1..Len(written) /\ DOMAIN written = 1..Len(written)
    BY <2>1, LenProperties
  <2>4. i = j
    BY <2>1, <2>2, <2>3, Zenon DEF Differs
  <2>5. scheme # "IE" => read[i] \in 0..35 /\ written[i] \in 0..35
    <3> SUFFICES ASSUME scheme # "IE" PROVE read[i] \in 0..35 /\ written[i] \in 0..35
      OBVIOUS
    <3>1. read \in Seq(0..35) /\ written \in Seq(0..35)
      BY <2>1, Zenon DEF Alphabets
    <3> QED BY <2>1, <2>3, <3>1, ElementOfSeq
  <2>6. CASE scheme \in Strict
    BY <2>1, <2>2, <2>6, StrictDiffers
  <2>7. CASE scheme \in Plain
    BY <2>1, <2>2, <2>7, PlainDiffers
  <2>8. CASE scheme \in Partial
    BY <2>1, <2>2, <2>4, <2>5, <2>8, PartialDiffers
  <2>9. CASE scheme \in Folding
    <3> SUFFICES ASSUME i = Len(read), scheme \notin {"BG", "CZ", "NL", "pan"} PROVE FALSE
      BY <2>9
    <3>1. DiffersLast(written, read, i)
      BY <2>1, <2>2, <2>4 DEF DiffersLast
    <3>2. ComputesItsLast(scheme)
      BY <2>9 DEF ComputesItsLast
    <3> QED BY <2>1, <3>1, <3>2, LastIsComputed, Zenon
  <2> QED BY <2>1, <2>6, <2>7, <2>8, <2>9, SchemesAre
<1> QED BY <1>1, MisreadInvariant, PTL

(* SwapIsCaught for every number a scheme accepts: the neighbours that may
   change places unnoticed are those the property names, and no others. *)
THEOREM SwapsAreCaught == MisreadSpec => []SwapIsCaught
<1>1. MisreadInv => SwapIsCaught
  <2> SUFFICES ASSUME MisreadInv, Accepted, NEW i \in 1..(Len(read) - 1), Swapped(i)
               PROVE  \/ scheme \in Folding \/ i \in Unchecked(scheme, read)
                      \/ scheme \in {"AT", "IT", "SE", "card", "imei", "isin", "cusip", "personnummer",
                                     "organisationsnummer"} /\ Apart(i) = 9
                      \/ scheme = "ES" /\ read[1] \in EntityTypes /\ Apart(i) = 9
                      \/ scheme \in {"isin", "cusip"} /\ IsLetter(read[i + 1])
                      \/ scheme \in {"EE", "HU", "aba", "pesel", "sedol"} /\ Apart(i) % 5 = 0
                      \/ scheme \in {"DE", "HR", "RS"} /\ Apart(i) \in {1, 9}
                      \/ /\ scheme \in {"lei", "iban"}
                         /\ read[i] = 11 * read[i + 1] \/ read[i + 1] = 11 * read[i]
                      \/ i = 7 /\ (scheme = "AT" \/ (scheme = "SI" /\ Apart(i) = 1))
                      \/ scheme = "codice_fiscale" /\ {read[i], read[i + 1]} = Either("W", "Y")
                      \/ /\ scheme = "codice_fiscale" /\ i = 15
                         /\ {read[15], read[16]} \in {Either("M", "S"), Either("N", "T")}
    BY DEF SwapIsCaught
  <2>1. /\ scheme \in CheckedSchemes /\ written \in Seq(Alphabets(scheme)) /\ read \in Seq(Alphabets(scheme))
        /\ Len(read) = Len(written) /\ Agrees(scheme, written) /\ Agrees(scheme, read)
        /\ error = "swapped" /\ read[i] # written[i] /\ read[i + 1] # written[i + 1]
    BY DEF MisreadInv, Accepted, Swapped
  <2>2. PICK j \in 1..Len(written) : Exchanged(written, read, j)
    BY <2>1 DEF MisreadInv, OneError
  <2>3. /\ Len(written) \in Nat /\ i \in 1..Len(written) /\ i + 1 \in 1..Len(written)
        /\ DOMAIN written = 1..Len(written) /\ DOMAIN read = 1..Len(written)
    BY <2>1, LenProperties
  <2>4. i \in {j, j + 1} /\ i + 1 \in {j, j + 1}
    BY <2>1, <2>2, <2>3, Zenon DEF Exchanged
  <2>5. i = j
    BY <2>3, <2>4
  <2>6. Exchanged(written, read, i) /\ read[i] = written[i + 1] /\ read[i + 1] = written[i]
    BY <2>2, <2>5, Zenon DEF Exchanged
  <2>7. written \in Seq(Characters) /\ read \in Seq(Characters)
    BY <2>6, Zenon DEF Exchanged
  <2>8. written[i] \in Nat /\ written[i + 1] \in Nat
    <3>1. written[i] \in Characters /\ written[i + 1] \in Characters
      BY <2>3, <2>7, ElementOfSeq
    <3>2. \A a \in Characters : a \in Nat
      BY DEF Characters
    <3> QED BY <3>1, <3>2, Zenon
  <2>9. Apart(i) = Distance(written[i + 1], written[i])
    <3>1. read[i] = written[i + 1] /\ read[i + 1] = written[i]
      BY <2>6
    <3> QED BY <3>1, SMT DEF Apart, Distance
  <2>10. scheme # "IE" => read[i] \in 0..35 /\ read[i + 1] \in 0..35
    <3> SUFFICES ASSUME scheme # "IE" PROVE read[i] \in 0..35 /\ read[i + 1] \in 0..35
      OBVIOUS
    <3>1. read \in Seq(0..35)
      BY <2>1, Zenon DEF Alphabets
    <3> QED BY <2>1, <2>3, <3>1, ElementOfSeq
  <2>11. CASE scheme \in Strict
    BY <2>1, <2>6, <2>11, StrictExchanged
  <2>12. CASE scheme \in Plain
    <3>1. MayPass(scheme, i, written[i], written[i + 1])
      BY <2>1, <2>6, <2>12, PlainExchanged
    <3>2. ItalianTwins(i, written[i], written[i + 1]) =>
            \/ {read[i], read[i + 1]} = Either("W", "Y")
            \/ i = 15 /\ {read[15], read[16]} \in {Either("M", "S"), Either("N", "T")}
      <4>1. {written[i], written[i + 1]} = {read[i], read[i + 1]}
        BY <2>6
      <4>2. Either("W", "Y") = {32, 34} /\ Either("M", "S") = {22, 28} /\ Either("N", "T") = {23, 29}
        BY LettersAre, Zenon DEF Either
      <4>3. i = 15 => i + 1 = 16
        OBVIOUS
      <4> QED BY <4>1, <4>2, <4>3, Zenon DEF ItalianTwins
    <3> DEFINE a == written[i]
               b == written[i + 1]
    <3>3. /\ Near9(a, b) => Apart(i) = 9
          /\ Near1(a, b) => Apart(i) \in {1, 9}
          /\ Fives(a, b) => Apart(i) % 5 = 0
          /\ a - b \in {1, -1} => Apart(i) = 1
          /\ Eleven(a, b) => read[i] = 11 * read[i + 1] \/ read[i + 1] = 11 * read[i]
      BY <2>6, <2>8, <2>9, Distances, Zenon
    <3> HIDE DEF a, b
    <3>4. MayPass(scheme, i, a, b) /\ (ItalianTwins(i, a, b) =>
            \/ {read[i], read[i + 1]} = Either("W", "Y")
            \/ i = 15 /\ {read[15], read[16]} \in {Either("M", "S"), Either("N", "T")})
      BY <3>1, <3>2, Zenon DEF a, b
    <3> QED BY <3>3, <3>4 DEF MayPass
  <2>13. CASE scheme \in Partial
    <3> DEFINE a == written[i]
               b == written[i + 1]
    <3>1. PartMayPass(scheme, read, i, a, b)
      BY <2>1, <2>6, <2>10, <2>13, PartialExchanged
    <3>2. /\ Near9(a, b) => Apart(i) = 9
          /\ Fives(a, b) => Apart(i) % 5 = 0
      BY <2>6, <2>8, <2>9, Distances, Zenon
    <3> HIDE DEF a, b
    <3> QED BY <3>1, <3>2 DEF PartMayPass
  <2> QED BY <2>1, <2>11, <2>12, <2>13, SchemesAre
<1> QED BY <1>1, MisreadInvariant, PTL

(* NoNumberIsBoth (company.rs 969): a month field begins with a zero or a one,
   the third digit of an organisation's number does not. *)
THEOREM NumbersAreNotBoth == MisreadSpec => []NoNumberIsBoth
<1>1. MisreadInv => NoNumberIsBoth
  <2> SUFFICES ASSUME MisreadInv, se_personnummer(read), se_organisationsnummer(read) PROVE FALSE
    BY DEF NoNumberIsBoth
  <2>1. Len(read) = 10 /\ AllDigits(read) /\ read[3] >= 2
    BY DEF se_organisationsnummer, OfLength
  <2>2. DOMAIN read = 1..10
    <3>1. read \in Seq(Alphabets(scheme))
      BY DEF MisreadInv
    <3> QED BY <2>1, <3>1, LenProperties
  <2>3. read[3] \in 0..9 /\ read[4] \in 0..9
    <3>1. 3 \in DOMAIN read /\ 4 \in DOMAIN read
      BY <2>2
    <3> QED BY <2>1, <3>1, Zenon DEF AllDigits, IsDigit
  <2>4. 10 * read[3] + read[4] \in 1..12
    <3>1. Len(read) # 12
      BY <2>1
    <3> QED BY <3>1, Zenon DEF se_personnummer, personnummer_date_exists
  <2>5. read[3] <= 1
    BY <2>3, <2>4, MonthFieldBegins, Zenon
  <2> QED BY <2>1, <2>3, <2>5
<1> QED BY <1>1, MisreadInvariant, PTL

(* SpanishReadersAgree: es_nif of company.rs and es_nif_nie of national_id.rs
   agree on every number that does not begin with a company's letter. *)
THEOREM ReadersAgree == MisreadSpec => []SpanishReadersAgree
<1>1. MisreadInv => SpanishReadersAgree
  <2> SUFFICES ASSUME MisreadInv, read[1] \notin EntityTypes PROVE es_nif(read) <=> es_nif_nie(read)
    BY DEF SpanishReadersAgree
  <2>1. read \in Seq(Characters)
    BY InSomeCharacters DEF MisreadInv
  <2>2. ~ NifEntity(read)
    BY DEF NifEntity
  <2> QED BY <2>1, <2>2, NifReadersAgree, NifKinds, Zenon
<1> QED BY <1>1, MisreadInvariant, PTL

=============================================================================

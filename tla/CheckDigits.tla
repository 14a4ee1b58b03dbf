---------------------------- MODULE CheckDigits ----------------------------
(***************************************************************************)
(* src/src/rules/checksum.rs, and is_real_date of src/src/rules/mod.rs:    *)
(* the two filters every identifier validator is built on.                 *)
(*                                                                         *)
(* A number is the sequence of its characters and a character is its       *)
(* base-36 value, as to_digit(36) gives it: 0 to 9 for the digits, 10 to   *)
(* 35 for the letters.  None of these sums can leave its integer type (the *)
(* long numbers are reduced digit by digit), so they are plain integers.   *)
(***************************************************************************)
EXTENDS Texts

Letters == <<"A", "B", "C", "D", "E", "F", "G", "H", "I", "J", "K", "L", "M",
             "N", "O", "P", "Q", "R", "S", "T", "U", "V", "W", "X", "Y", "Z">>
Letter(name) == 9 + CHOOSE i \in DOMAIN Letters : Letters[i] = name
Alphabet(names) == [i \in DOMAIN names |-> Letter(names[i])]
IsLetter(v) == v \in 10..35
IsDigit(v) == v \in 0..9
Characters == 0..37          \* digits, letters, and the two signs only the old Irish form has

AllDigits(d) == \A i \in DOMAIN d : IsDigit(d[i])

DigitSum(product) == (product \div 10) + (product % 10)

(* Every second digit from the right is doubled. *)
LuhnSum(d) ==
  SumFunction([i \in DOMAIN d |-> IF (Len(d) - i) % 2 = 1 THEN DigitSum(2 * d[i]) ELSE d[i]]) % 10

Luhn_FromTheLeft(d) ==                      \* Mutant: doubles every second digit from the left.
  /\ d # <<>> /\ AllDigits(d)
  /\ SumFunction([i \in DOMAIN d |-> IF i % 2 = 0 THEN 2 * d[i] ELSE d[i]]) % 10 = 0
Luhn(d) == d # <<>> /\ AllDigits(d) /\ LuhnSum(d) = 0

DammTable == <<
  <<0, 3, 1, 7, 5, 9, 8, 6, 4, 2>>, <<7, 0, 9, 2, 1, 5, 4, 8, 6, 3>>,
  <<4, 2, 0, 6, 8, 7, 1, 3, 5, 9>>, <<1, 7, 5, 0, 9, 8, 3, 4, 2, 6>>,
  <<6, 1, 2, 3, 0, 4, 5, 9, 7, 8>>, <<3, 6, 7, 4, 2, 0, 9, 5, 8, 1>>,
  <<5, 8, 6, 9, 7, 2, 0, 1, 3, 4>>, <<8, 9, 4, 5, 3, 6, 2, 0, 1, 7>>,
  <<9, 4, 3, 8, 6, 1, 7, 2, 0, 5>>, <<2, 5, 8, 1, 4, 3, 6, 7, 9, 0>> >>

Damm(d) ==
  /\ d # <<>> /\ AllDigits(d)
  /\ FoldLeft(LAMBDA check, digit : DammTable[check + 1][digit + 1], 0, d) = 0

(* The weights cycle. *)
WeightedMod_FirstWeight(d, weights, modulus) ==      \* Mutant: the cycle does not advance.
  SumFunction([i \in DOMAIN d |-> d[i] * weights[1]]) % modulus
WeightedMod(d, weights, modulus) ==
  SumFunction([i \in DOMAIN d |-> d[i] * weights[((i - 1) % Len(weights)) + 1]]) % modulus

(***************************************************************************)
(* ISO 7064.                                                               *)
(***************************************************************************)
Mod97_10(d) ==
  d # <<>> /\ FoldLeft(LAMBDA r, v : ((IF IsDigit(v) THEN 10 ELSE 100) * r + v) % 97, 0, d) = 1

Mod11_2(d) ==
  LET value == [i \in DOMAIN d |-> IF d[i] = Letter("X") THEN 10 ELSE d[i]] IN
  /\ d # <<>> /\ \A i \in DOMAIN d : value[i] \in 0..10 /\ d[i] # 10
  /\ FoldLeft(LAMBDA check, v : (2 * check + v) % 11, 0, value) = 1

Mod11_10(d) ==
  /\ d # <<>> /\ AllDigits(d)
  /\ FoldLeft(LAMBDA check, v : ((((IF check = 0 THEN 10 ELSE check) * 2) % 11) + v) % 10, 5, d) = 1

(***************************************************************************)
(* The helpers of src/src/rules/company.rs: weighted_sum stops at the      *)
(* shorter of the two, as zip does; as_integer is only ever needed whole   *)
(* for a few digits and modulo something for many.                         *)
(***************************************************************************)
WeightedSum(d, weights) == SumFunction([i \in 1..Min({Len(d), Len(weights)}) |-> d[i] * weights[i]])
AsInteger(d) == FoldLeft(LAMBDA n, v : 10 * n + v, 0, d)
IntegerMod(d, modulus) == FoldLeft(LAMBDA n, v : (10 * n + v) % modulus, 0, d)
Slice(d, from, to) == SubSeq(d, from + 1, to)        \* &d[from..to]
LuhnCheckDigit(d) == (10 - LuhnSum(Append(d, 0))) % 10

DaysIn(year, month) ==
  IF month \in {4, 6, 9, 11} THEN 30
  ELSE IF month # 2 THEN 31
  ELSE IF (year % 4 = 0 /\ year % 100 # 0) \/ year % 400 = 0 THEN 29 ELSE 28

IsRealDate(year, month, day) ==
  year \in -9999..9999 /\ month \in 1..12 /\ day \in 1..DaysIn(year, month)

=============================================================================

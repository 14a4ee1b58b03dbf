--------------------------- MODULE MCMisreadings ---------------------------
(***************************************************************************)
(* Samples of Misreadings for TLC: the documented example of every scheme, *)
(* and what becomes of it when one character changes and the check digit   *)
(* with it.                                                                *)
(***************************************************************************)
EXTENDS Misreadings

SomeCountries == {Pair("U", "S"), Pair("G", "B")}
TwoIbanCountries ==
  (Pair("R", "O") :> [length |-> 24, structure |-> <<<<4, "a">>, <<16, "c">>>>]) @@
  (Pair("D", "E") :> [length |-> 22, structure |-> <<<<18, "n">>>>])

(* Scheme, number, and where its check digits stand. *)
Examples == {
  <<"AT", <<1, 3, 5, 8, 5, 6, 2, 7>>, {8}>>,
  <<"AT", <<0, 9, 0, 9, 2, 6, 6, 7>>, {8}>>,
  <<"BE", <<0, 4, 2, 8, 7, 5, 9, 4, 9, 7>>, {9, 10}>>,
  <<"BG", <<1, 7, 5, 0, 7, 4, 7, 5, 2>>, {9}>>,
  <<"BG", <<7, 5, 2, 3, 1, 6, 9, 2, 6, 3>>, {10}>>,
  <<"CY", <<1, 0, 2, 5, 9, 0, 3, 3, 25>>, {9}>>,
  <<"CZ", <<2, 5, 1, 2, 3, 8, 9, 1>>, {8}>>,
  <<"CZ", <<6, 4, 0, 9, 0, 3, 9, 2, 6>>, {9}>>,
  <<"CZ", <<7, 1, 0, 3, 1, 9, 2, 7, 4, 5>>, {10}>>,
  <<"DE", <<1, 3, 6, 6, 9, 5, 9, 7, 6>>, {9}>>,
  <<"DK", <<1, 3, 5, 8, 5, 6, 2, 8>>, {8}>>,
  <<"EE", <<1, 0, 0, 5, 9, 4, 1, 0, 2>>, {9}>>,
  <<"EL", <<0, 9, 4, 2, 5, 9, 2, 1, 6>>, {9}>>,
  <<"ES", <<5, 4, 3, 6, 2, 3, 1, 5, 20>>, {9}>>,
  <<"ES", <<33, 5, 2, 5, 3, 8, 6, 8, 27>>, {9}>>,
  <<"ES", <<22, 1, 2, 3, 4, 5, 6, 7, 21>>, {9}>>,
  <<"ES", <<11, 6, 4, 7, 1, 7, 8, 3, 8>>, {9}>>,
  <<"ES", <<10, 0, 9, 0, 0, 0, 0, 5, 3>>, {9}>>,
  <<"FI", <<2, 0, 7, 7, 4, 7, 4, 0>>, {8}>>,
  <<"FR", <<2, 3, 3, 3, 4, 1, 7, 5, 2, 2, 1>>, {1, 2}>>,
  <<"FR", <<20, 7, 3, 9, 9, 8, 5, 9, 4, 1, 2>>, {1, 2}>>,
  <<"HR", <<3, 3, 3, 9, 2, 0, 0, 5, 9, 6, 1>>, {11}>>,
  <<"HU", <<1, 2, 8, 9, 2, 3, 1, 2>>, {8}>>,
  <<"IE", <<6, 4, 3, 3, 4, 3, 5, 15>>, {8}>>,
  <<"IE", <<6, 4, 3, 3, 4, 3, 5, 24, 10>>, {8}>>,
  <<"IE", <<8, 13, 7, 9, 7, 3, 9, 18>>, {8}>>,
  <<"IE", <<8, 13, 7, 9, 7, 3, 9, 18, 10>>, {8}>>,
  <<"IT", <<0, 0, 7, 4, 3, 1, 1, 0, 1, 5, 7>>, {11}>>,
  <<"LT", <<1, 1, 9, 5, 1, 1, 5, 1, 5>>, {9}>>,
  <<"LT", <<1, 0, 0, 0, 0, 1, 9, 1, 9, 0, 1, 7>>, {12}>>,
  <<"LU", <<1, 5, 0, 2, 7, 4, 4, 2>>, {7, 8}>>,
  <<"LV", <<4, 0, 0, 0, 3, 5, 2, 1, 6, 0, 0>>, {11}>>,
  <<"LV", <<1, 6, 1, 1, 7, 5, 1, 9, 9, 9, 7>>, {11}>>,
  <<"LV", <<3, 2, 8, 6, 7, 3, 0, 0, 6, 7, 9>>, {11}>>,
  <<"MT", <<1, 1, 6, 7, 9, 1, 1, 2>>, {8}>>,
  <<"NL", <<0, 0, 4, 4, 9, 5, 4, 4, 5, 11, 0, 1>>, {9}>>,
  <<"NL", <<0, 0, 2, 4, 5, 5, 7, 9, 9, 11, 1, 1>>, {11, 12}>>,
  <<"PL", <<8, 5, 6, 7, 3, 4, 6, 2, 1, 5>>, {10}>>,
  <<"PT", <<5, 0, 1, 9, 6, 4, 8, 4, 3>>, {9}>>,
  <<"RO", <<1, 8, 5, 4, 7, 2, 9, 0>>, {8}>>,
  <<"RO", <<1, 6, 3, 0, 6, 1, 5, 1, 2, 3, 4, 5, 7>>, {13}>>,
  <<"SE", <<5, 5, 6, 0, 1, 6, 0, 6, 8, 0, 0, 1>>, {10}>>,
  <<"SI", <<5, 0, 2, 2, 3, 0, 5, 4>>, {8}>>,
  <<"SK", <<2, 0, 2, 2, 7, 4, 9, 6, 1, 9>>, {10}>>,
  <<"SK", <<7, 1, 0, 3, 1, 9, 2, 7, 4, 5>>, {10}>>,
  <<"CH", <<1, 0, 7, 7, 8, 7, 5, 7, 7>>, {9}>>,
  <<"GB", <<9, 8, 0, 7, 8, 0, 6, 8, 4>>, {8, 9}>>,
  <<"GB", <<9, 8, 0, 7, 8, 0, 6, 8, 4, 0, 0, 1>>, {8, 9}>>,
  <<"GD", <<0, 0, 1, 0, 1>>, {4, 5}>>,
  <<"GD", <<0, 0, 1>>, {3}>>,
  <<"HA", <<8, 5, 0, 7, 4>>, {4, 5}>>,
  <<"ME", <<0, 2, 6, 5, 5, 2, 8, 4>>, {8}>>,
  <<"MK", <<4, 0, 3, 0, 0, 0, 0, 3, 7, 5, 8, 9, 7>>, {13}>>,
  <<"NO", <<9, 9, 5, 5, 2, 5, 8, 2, 8>>, {9}>>,
  <<"RS", <<1, 0, 1, 1, 3, 4, 7, 0, 2>>, {9}>>,
  <<"RU", <<1, 2, 3, 4, 5, 6, 7, 8, 9, 4>>, {10}>>,
  <<"RU", <<1, 2, 3, 4, 5, 6, 7, 8, 9, 0, 4, 7>>, {11, 12}>>,
  <<"TR", <<4, 5, 4, 0, 5, 3, 6, 9, 2, 0>>, {10}>>,
  <<"organisationsnummer", <<5, 5, 6, 0, 1, 6, 0, 6, 8, 0>>, {10}>>,
  <<"personnummer", <<8, 1, 1, 2, 2, 8, 9, 8, 7, 4>>, {10}>>,
  <<"personnummer", <<1, 9, 8, 1, 1, 2, 2, 8, 9, 8, 7, 4>>, {12}>>,
  <<"lei", <<2, 1, 3, 8, 0, 0, 20, 30, 13, 8, 21, 10, 19, 32, 28, 26, 9, 13, 1, 5>>, {19, 20}>>,
  <<"codice_fiscale", <<27, 12, 12, 22, 23, 21, 8, 3, 28, 1, 8, 13, 9, 6, 9, 17>>, {16}>>,
  <<"codice_fiscale", <<32, 12, 12, 22, 23, 21, 8, 3, 28, 1, 8, 13, 9, 6, 22, 28>>, {16}>>,
  <<"nif_nie", <<5, 4, 3, 6, 2, 3, 1, 5, 20>>, {9}>>,
  <<"nif_nie", <<33, 5, 2, 5, 3, 8, 6, 8, 27>>, {9}>>,
  <<"nif_nie", <<22, 1, 2, 3, 4, 5, 6, 7, 21>>, {9}>>,
  <<"curp", <<11, 24, 33, 32, 3, 1, 0, 8, 2, 0, 17, 23, 14, 27, 33, 23, 0, 9>>, {18}>>,
  <<"pan", <<10, 12, 30, 25, 10, 7, 0, 8, 5, 27>>, {10}>>,
  <<"pesel", <<4, 4, 0, 5, 1, 4, 0, 1, 3, 5, 9>>, {11}>>,
  <<"isin", <<30, 28, 0, 3, 7, 8, 3, 3, 1, 0, 0, 5>>, {12}>>,
  <<"cusip", <<13, 30, 28, 0, 4, 2, 1, 12, 5>>, {9}>>,
  <<"sedol", <<11, 1, 5, 20, 33, 26, 8>>, {7}>>,
  <<"sedol", <<0, 2, 6, 3, 4, 9, 4>>, {7}>>,
  <<"iban", <<27, 24, 4, 9, 10, 10, 10, 10, 1, 11, 3, 1, 0, 0, 7, 5, 9, 3, 8, 4, 0, 0, 0, 0>>, {3, 4}>>,
  <<"card", <<4, 0, 1, 2, 8, 8, 8, 8, 8, 8, 8, 8, 1, 8, 8, 1>>, {16}>>,
  <<"card", <<3, 7, 1, 4, 4, 9, 6, 3, 5, 3, 9, 8, 4, 3, 1>>, {15}>>,
  <<"aba", <<1, 2, 1, 0, 4, 2, 8, 8, 2>>, {9}>>,
  <<"imo", <<9, 3, 1, 9, 4, 6, 6>>, {7}>>,
  <<"iso6346", <<12, 28, 26, 30, 3, 0, 5, 4, 3, 8, 3>>, {11}>>,
  <<"imei", <<3, 5, 4, 1, 7, 8, 0, 3, 6, 8, 5, 9, 7, 8, 9>>, {15}>>,
  <<"orcid", <<0, 0, 0, 0, 0, 0, 0, 2, 1, 6, 9, 4, 2, 3, 3, 33>>, {16}>>,
  <<"orcid", <<0, 0, 0, 0, 0, 0, 0, 2, 1, 8, 2, 5, 0, 0, 9, 7>>, {16}>>,
  <<"damm", <<5, 7, 2, 4>>, {4}>>}

(* Another character of the same kind: a few are enough to reach every difference. *)
Near(v) == IF IsDigit(v) THEN {0, 9 - v, (v + 5) % 10} ELSE IF IsLetter(v) THEN {45 - v} ELSE {v}
Variants(n, checks) ==
  {n} \union UNION {{[n EXCEPT ![i] = v, ![c] = x] : v \in Near(n[i]), x \in SameKind(n[c])} :
                      i \in DOMAIN n, c \in checks}

ExampleSamples ==
  [s \in {e[1] : e \in Examples} |-> UNION {Variants(e[2], e[3]) : e \in {x \in Examples : x[1] = s}}]
=============================================================================

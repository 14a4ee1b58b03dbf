----------------------------- MODULE MCReadings -----------------------------
(***************************************************************************)
(* Texts for Readings: the documented example of every rule in the layouts *)
(* it is written in, amounts of money, phone numbers and machine dates,    *)
(* among words, other numbers and punctuation.  Characters are those of    *)
(* Texts and DateMachine: 0 to 35 in base 36, then the named ones.         *)
(***************************************************************************)
EXTENDS Readings

Code(a, b, c) == Alphabet(<<a, b, c>>)
Number(rule, body, key) == [rule |-> rule, body |-> body, skip |-> 0, tail |-> 0, key |-> key]
Refused(rule, body) == Number(rule, body, <<>>)
Phone(body, code, national) == Number("phone", body, [code |-> code, national |-> national])
Instant(rule, body, brackets, day, clock, offset, seconds) ==
  [rule |-> rule, body |-> body, skip |-> brackets, tail |-> brackets,
   key |-> [day |-> day, clock |-> clock, offset |-> offset, seconds |-> seconds]]
Amount(rule, body, skip, code, minor, inferred) ==
  [rule |-> rule, body |-> body, skip |-> skip, tail |-> 0, key |-> [code |-> code, minor |-> minor, inferred |-> inferred]]

Identifiers == {
  Number("iban", <<27, 24, 4, 9, 10, 10, 10, 10, 1, 11, 3, 1, 0, 0, 7, 5, 9, 3, 8, 4, 0, 0, 0, 0>>, <<27, 24, 4, 9, 10, 10, 10, 10, 1, 11, 3, 1, 0, 0, 7, 5, 9, 3, 8, 4, 0, 0, 0, 0>>),
  Number("iban", <<27, 24, 4, 9, 38, 10, 10, 10, 10, 38, 1, 11, 3, 1, 38, 0, 0, 7, 5, 38, 9, 3, 8, 4, 38, 0, 0, 0, 0>>, <<27, 24, 4, 9, 10, 10, 10, 10, 1, 11, 3, 1, 0, 0, 7, 5, 9, 3, 8, 4, 0, 0, 0, 0>>),
  Number("iban", <<22, 29, 8, 4, 38, 22, 10, 21, 29, 38, 0, 1, 1, 0, 38, 0, 0, 0, 1, 38, 2, 3, 4, 5, 38, 22, 29, 21, 12, 38, 10, 28, 29, 0, 38, 0, 1, 28>>, <<22, 29, 8, 4, 22, 10, 21, 29, 0, 1, 1, 0, 0, 0, 0, 1, 2, 3, 4, 5, 22, 29, 21, 12, 10, 28, 29, 0, 0, 1, 28>>),
  Number("bic", <<12, 24, 11, 10, 13, 14, 15, 15, 33, 33, 33>>, <<12, 24, 11, 10, 13, 14, 15, 15, 33, 33, 33>>),
  Number("card", <<4, 0, 1, 2, 8, 8, 8, 8, 8, 8, 8, 8, 1, 8, 8, 1>>, <<4, 0, 1, 2, 8, 8, 8, 8, 8, 8, 8, 8, 1, 8, 8, 1>>),
  Number("card", <<4, 0, 1, 2, 39, 8, 8, 8, 8, 39, 8, 8, 8, 8, 39, 1, 8, 8, 1>>, <<4, 0, 1, 2, 8, 8, 8, 8, 8, 8, 8, 8, 1, 8, 8, 1>>),
  Number("card", <<3, 7, 1, 4, 38, 4, 9, 6, 3, 5, 3, 38, 9, 8, 4, 3, 1>>, <<3, 7, 1, 4, 4, 9, 6, 3, 5, 3, 9, 8, 4, 3, 1>>),
  Number("aba", <<1, 2, 1, 0, 4, 2, 8, 8, 2>>, <<1, 2, 1, 0, 4, 2, 8, 8, 2>>),
  Number("lei", <<2, 1, 3, 8, 0, 0, 20, 30, 13, 8, 21, 10, 19, 32, 28, 26, 9, 13, 1, 5>>, <<2, 1, 3, 8, 0, 0, 20, 30, 13, 8, 21, 10, 19, 32, 28, 26, 9, 13, 1, 5>>),
  Number("vat_eu", <<10, 29, 30, 1, 3, 5, 8, 5, 6, 2, 7>>, <<10, 29, 30, 1, 3, 5, 8, 5, 6, 2, 7>>),
  Number("vat_eu", <<11, 14, 4, 2, 8, 7, 5, 9, 4, 9, 7>>, <<11, 14, 0, 4, 2, 8, 7, 5, 9, 4, 9, 7>>),
  Number("vat_eu", <<14, 21, 9, 4, 2, 5, 9, 2, 1, 6>>, <<14, 21, 0, 9, 4, 2, 5, 9, 2, 1, 6>>),
  Number("vat_eu", <<23, 21, 0, 0, 4, 4, 9, 5, 4, 4, 5, 11, 0, 1>>, <<23, 21, 0, 0, 4, 4, 9, 5, 4, 4, 5, 11, 0, 1>>),
  Number("vat_eu", <<27, 24, 1, 8, 5, 4, 7, 2, 9, 0>>, <<27, 24, 1, 8, 5, 4, 7, 2, 9, 0>>),
  Number("vat_non_eu", <<12, 17, 14, 1, 0, 7, 7, 8, 7, 5, 7, 7, 22, 32, 28, 29>>, <<12, 17, 14, 1, 0, 7, 7, 8, 7, 5, 7, 7, 22, 32, 28, 29>>),
  Number("vat_non_eu", <<16, 11, 16, 13, 8, 8, 8, 8, 0, 0, 1, 0, 1>>, <<16, 11, 16, 13, 8, 8, 8, 8, 0, 0, 1, 0, 1>>),
  Number("vat_non_eu", <<23, 24, 9, 9, 5, 5, 2, 5, 8, 2, 8, 22, 31, 10>>, <<23, 24, 9, 9, 5, 5, 2, 5, 8, 2, 8, 22, 31, 10>>),
  Number("vat_non_eu", <<27, 30, 1, 2, 3, 4, 5, 6, 7, 8, 9, 4>>, <<27, 30, 1, 2, 3, 4, 5, 6, 7, 8, 9, 4>>),
  Number("organisationsnummer", <<5, 5, 6, 0, 1, 6, 39, 0, 6, 8, 0>>, <<5, 5, 6, 0, 1, 6, 0, 6, 8, 0>>),
  Number("organisationsnummer", <<1, 6, 5, 5, 6, 0, 1, 6, 0, 6, 8, 0>>, <<5, 5, 6, 0, 1, 6, 0, 6, 8, 0>>),
  Number("isin", <<30, 28, 0, 3, 7, 8, 3, 3, 1, 0, 0, 5>>, <<30, 28, 0, 3, 7, 8, 3, 3, 1, 0, 0, 5>>),
  Number("cusip", <<13, 30, 28, 0, 4, 2, 1, 12, 5>>, <<13, 30, 28, 0, 4, 2, 1, 12, 5>>),
  Number("sedol", <<11, 1, 5, 20, 33, 26, 8>>, <<11, 1, 5, 20, 33, 26, 8>>),
  Number("imo", <<18, 22, 24, 42, 38, 9, 3, 1, 9, 4, 6, 6>>, <<9, 3, 1, 9, 4, 6, 6>>),
  Number("imo", <<9, 3, 1, 9, 4, 6, 6>>, <<9, 3, 1, 9, 4, 6, 6>>),
  Number("iso6346", <<12, 28, 26, 30, 3, 0, 5, 4, 3, 8, 3>>, <<12, 28, 26, 30, 3, 0, 5, 4, 3, 8, 3>>),
  Number("iso6346", <<12, 28, 26, 30, 38, 3, 0, 5, 4, 3, 8, 38, 3>>, <<12, 28, 26, 30, 3, 0, 5, 4, 3, 8, 3>>),
  Number("imei", <<3, 5, 4, 1, 7, 8, 0, 3, 6, 8, 5, 9, 7, 8, 9>>, <<3, 5, 4, 1, 7, 8, 0, 3, 6, 8, 5, 9, 7, 8, 9>>),
  Number("imei", <<3, 5, 39, 4, 1, 7, 8, 0, 3, 39, 6, 8, 5, 9, 7, 8, 39, 9>>, <<3, 5, 4, 1, 7, 8, 0, 3, 6, 8, 5, 9, 7, 8, 9>>),
  Number("imei", <<3, 5, 38, 4, 1, 7, 8, 0, 3, 38, 6, 8, 5, 9, 7, 8, 38, 9>>, <<3, 5, 4, 1, 7, 8, 0, 3, 6, 8, 5, 9, 7, 8, 9>>),
  Number("mac", <<0, 0, 42, 1, 11, 42, 4, 4, 42, 1, 1, 42, 3, 10, 42, 11, 7>>, <<0, 0, 1, 11, 4, 4, 1, 1, 3, 10, 11, 7>>),
  Number("mac", <<0, 0, 1, 11, 40, 4, 4, 1, 1, 40, 3, 10, 11, 7>>, <<0, 0, 1, 11, 4, 4, 1, 1, 3, 10, 11, 7>>),
  Number("cve", <<12, 31, 14, 39, 2, 0, 2, 1, 39, 4, 4, 2, 2, 8>>, <<12, 31, 14, 39, 2, 0, 2, 1, 39, 4, 4, 2, 2, 8>>),
  Number("doi", <<1, 0, 40, 1, 0, 0, 0, 43, 1, 8, 2>>, <<1, 0, 40, 1, 0, 0, 0, 43, 1, 8, 2>>),
  Number("orcid", <<0, 0, 0, 0, 39, 0, 0, 0, 2, 39, 1, 6, 9, 4, 39, 2, 3, 3, 33>>, <<0, 0, 0, 0, 0, 0, 0, 2, 1, 6, 9, 4, 2, 3, 3, 33>>),
  Number("codice_fiscale", <<27, 12, 12, 22, 23, 21, 8, 3, 28, 1, 8, 13, 9, 6, 9, 17>>, <<27, 12, 12, 22, 23, 21, 8, 3, 28, 1, 8, 13, 9, 6, 9, 17>>),
  Number("nif_nie", <<33, 5, 2, 5, 3, 8, 6, 8, 27>>, <<33, 5, 2, 5, 3, 8, 6, 8, 27>>),
  Number("curp", <<11, 24, 33, 32, 3, 1, 0, 8, 2, 0, 17, 23, 14, 27, 33, 23, 0, 9>>, <<11, 24, 33, 32, 3, 1, 0, 8, 2, 0, 17, 23, 14, 27, 33, 23, 0, 9>>),
  Number("pan", <<10, 12, 30, 25, 10, 7, 0, 8, 5, 27>>, <<10, 12, 30, 25, 10, 7, 0, 8, 5, 27>>),
  Number("pesel", <<4, 4, 0, 5, 1, 4, 0, 1, 3, 5, 9>>, <<4, 4, 0, 5, 1, 4, 0, 1, 3, 5, 9>>),
  Number("personnummer", <<8, 1, 1, 2, 2, 8, 39, 9, 8, 7, 4>>, [digits |-> <<8, 1, 1, 2, 2, 8, 9, 8, 7, 4>>, sign |-> "-"]),
  Number("personnummer", <<8, 1, 1, 2, 2, 8, 9, 8, 7, 4>>, [digits |-> <<8, 1, 1, 2, 2, 8, 9, 8, 7, 4>>, sign |-> "-"]),
  Number("personnummer", <<8, 1, 1, 2, 2, 8, 36, 9, 8, 7, 4>>, [digits |-> <<8, 1, 1, 2, 2, 8, 9, 8, 7, 4>>, sign |-> "+"]),
  Number("personnummer", <<1, 9, 8, 1, 1, 2, 2, 8, 39, 9, 8, 7, 4>>, [digits |-> <<1, 9, 8, 1, 1, 2, 2, 8, 9, 8, 7, 4>>, sign |-> "-"])}

Amounts == {
  Amount("iso_code", <<14, 30, 27, 38, 1, 40, 2, 3, 4, 41, 5, 6>>, 0, <<14, 30, 27>>, <<1, 2, 3, 4, 5, 6>>, FALSE),
  Amount("iso_code", <<14, 30, 27, 38, 3, 0>>, 0, <<14, 30, 27>>, <<3, 0, 0, 0>>, FALSE),
  Amount("iso_code", <<5, 38, 0, 0, 0, 38, 14, 30, 27>>, 0, <<14, 30, 27>>, <<5, 0, 0, 0, 0, 0>>, FALSE),
  Amount("iso_code", <<14, 30, 27, 38, 5, 38, 0, 0, 0>>, 0, <<14, 30, 27>>, <<5, 0, 0, 0, 0, 0>>, FALSE),
  Amount("iso_code", <<1, 41, 2, 3, 4, 38, 20, 32, 13>>, 0, <<20, 32, 13>>, <<1, 2, 3, 4, 0, 0, 0>>, TRUE),
  Amount("iso_code", <<20, 32, 13, 38, 1, 40, 2, 3, 4, 41, 5, 6, 7>>, 0, <<20, 32, 13>>, <<1, 2, 3, 4, 5, 6, 7>>, FALSE),
  Amount("iso_code", <<20, 32, 13, 38, 1, 40, 2, 3, 4, 40, 5, 6, 7>>, 0, <<20, 32, 13>>, <<1, 2, 3, 4, 5, 6, 7, 0, 0, 0>>, FALSE),
  Amount("iso_code", <<1, 2, 41, 3, 4, 38, 14, 30, 27>>, 0, <<14, 30, 27>>, <<1, 2, 3, 4>>, FALSE),
  Amount("iso_code", <<1, 48, 0, 4, 9, 41, 9, 5, 38, 14, 30, 27>>, 0, <<14, 30, 27>>, <<1, 0, 4, 9, 9, 5>>, FALSE),
  Amount("iso_code", <<14, 30, 27, 38, 0, 40, 5, 0, 0>>, 0, <<14, 30, 27>>, <<5, 0, 0, 0, 0>>, TRUE),
  Refused("iso_code", <<1, 40, 2, 40, 3, 38, 14, 30, 27>>),
  Refused("iso_code", <<1, 40, 2, 3, 4, 40, 5, 6, 38, 14, 30, 27>>),
  Refused("iso_code", <<1, 2, 41, 3, 4, 5, 6, 38, 14, 30, 27>>),
  Amount("iso_code", <<1, 2, 38, 3, 4, 5, 38, 6, 7, 8, 38, 14, 30, 27>>, 0, <<14, 30, 27>>, <<1, 2, 3, 4, 5, 6, 7, 8, 0, 0>>, FALSE),
  Amount("symbol", <<45, 5>>, 0, <<30, 28, 13>>, <<5, 0, 0>>, FALSE),
  Amount("symbol", <<30, 28, 45, 4, 0>>, 2, <<30, 28, 13>>, <<4, 0, 0, 0>>, FALSE),
  Amount("symbol", <<45, 40, 7, 5>>, 0, <<30, 28, 13>>, <<7, 5>>, FALSE),
  Amount("symbol", <<4, 0, 38, 46>>, 0, <<14, 30, 27>>, <<4, 0, 0, 0>>, FALSE),
  Amount("symbol", <<46, 38, 1, 40, 2, 3, 4, 41, 5, 6>>, 0, <<14, 30, 27>>, <<1, 2, 3, 4, 5, 6>>, FALSE),
  Amount("symbol", <<1, 40, 8, 3, 7, 38, 46>>, 0, <<14, 30, 27>>, <<1, 8, 3, 7, 0, 0>>, TRUE),
  Amount("symbol", <<28, 16, 13, 45, 4, 40, 9, 0>>, 0, <<28, 16, 13>>, <<4, 9, 0>>, FALSE),
  Amount("symbol", <<45, 5, 38, 0, 0, 0>>, 0, <<30, 28, 13>>, <<5, 0, 0, 0, 0, 0>>, FALSE),
  Amount("symbol", <<10, 45, 5>>, 0, <<10, 30, 13>>, <<5, 0, 0>>, FALSE)}

PhoneNumbers == {
  Phone(<<36, 4, 4, 38, 2, 0, 38, 7, 1, 2, 3, 38, 4, 5, 6, 7>>, <<4, 4>>, <<2, 0, 7, 1, 2, 3, 4, 5, 6, 7>>),
  Phone(<<36, 4, 4, 38, 44, 0, 51, 2, 0, 38, 7, 1, 2, 3, 38, 4, 5, 6, 7>>, <<4, 4>>, <<2, 0, 7, 1, 2, 3, 4, 5, 6, 7>>),
  Phone(<<0, 0, 4, 4, 38, 2, 0, 38, 7, 1, 2, 3, 38, 4, 5, 6, 7>>, <<4, 4>>, <<2, 0, 7, 1, 2, 3, 4, 5, 6, 7>>),
  Phone(<<36, 4, 4, 2, 0, 7, 1, 2, 3, 4, 5, 6, 7>>, <<4, 4>>, <<2, 0, 7, 1, 2, 3, 4, 5, 6, 7>>),
  Refused("phone", <<0, 0, 4, 4, 2, 0, 7, 1, 2, 3, 4, 5, 6, 7>>),
  Phone(<<36, 4, 9, 38, 3, 0, 38, 1, 2, 3, 4, 5, 6>>, <<4, 9>>, <<3, 0, 1, 2, 3, 4, 5, 6>>),
  Phone(<<36, 1, 38, 2, 0, 2, 39, 5, 5, 5, 39, 0, 1, 4, 3>>, <<1>>, <<2, 0, 2, 5, 5, 5, 0, 1, 4, 3>>),
  Refused("phone", <<36, 4, 4, 38, 2, 0, 38, 7, 1, 2, 3, 38, 4, 5, 6, 7, 8>>),
  Refused("phone", <<36, 4, 9, 38, 3, 0, 38, 1, 2, 3, 4, 5, 6, 38, 7, 8, 9, 0, 1, 2, 3>>),
  Refused("phone", <<36, 4, 4, 38, 44, 2, 0, 38, 7, 1, 2, 3, 38, 4, 5, 6, 7>>),
  Phone(<<36, 4, 9, 38, 2, 0, 1, 2, 39, 0, 1, 39, 0, 2, 38, 0, 8>>, <<4, 9>>, <<2, 0, 1, 2, 0, 1, 0, 2, 0, 8>>),
  Refused("phone", <<36, 4, 9, 38, 2, 1, 1, 39, 2, 2, 7, 38, 44, 2, 0, 0, 3, 51, 38, 5, 5>>)}

MachineDates == {
  Instant("rfc2822", <<64, 41, 38, 0, 4, 38, 73, 38, 2, 0, 2, 1, 38, 1, 0, 42, 0, 0, 42, 5, 9, 38, 36, 0, 2, 0, 0>>, 0, DayOf(2021, 3, 4), <<10, 0, 59>>, 120, TRUE),
  Instant("rfc2822", <<64, 41, 38, 38, 4, 38, 73, 38, 2, 0, 2, 1, 38, 2, 3, 42, 5, 9, 38, 92>>, 0, DayOf(2021, 3, 4), <<23, 59, 0>>, 0, FALSE),
  Instant("rfc2822", <<62, 41, 38, 2, 9, 38, 72, 38, 2, 0, 0, 0, 38, 0, 0, 42, 0, 0, 42, 0, 0, 38, 39, 0, 0, 0, 0>>, 0, DayOf(2000, 2, 29), <<0, 0, 0>>, 0, TRUE),
  Instant("rfc2822", <<65, 41, 38, 3, 1, 38, 82, 38, 2, 0, 2, 1, 38, 1, 0, 42, 0, 0, 42, 0, 0, 38, 100>>, 0, DayOf(2021, 12, 31), <<10, 0, 0>>, -420, TRUE),
  Instant("rfc2822", <<65, 41, 38, 3, 1, 38, 82, 38, 2, 0, 2, 1, 38, 1, 0, 42, 0, 0, 42, 0, 0, 38, 39, 0, 7, 3, 0>>, 0, DayOf(2021, 12, 31), <<10, 0, 0>>, -450, TRUE),
  Refused("rfc2822", <<65, 41, 38, 0, 4, 38, 73, 38, 2, 0, 2, 1, 38, 1, 0, 42, 0, 0, 42, 0, 0, 38, 36, 0, 2, 0, 0>>),
  Refused("rfc2822", <<61, 41, 38, 2, 9, 38, 72, 38, 2, 0, 2, 1, 38, 1, 0, 42, 0, 0, 42, 0, 0, 38, 36, 0, 2, 0, 0>>),
  Refused("rfc2822", <<64, 41, 38, 0, 4, 38, 73, 38, 2, 0, 2, 1, 38, 2, 4, 42, 0, 0, 38, 91>>),
  Refused("rfc2822", <<64, 41, 38, 0, 4, 38, 73, 38, 2, 0, 2, 1, 38, 1, 0, 42, 0, 0, 42, 0, 0, 38, 36, 1, 9, 0, 0>>),
  Refused("rfc2822", <<64, 41, 38, 0, 4, 38, 73, 38, 2, 0, 2, 1, 38, 1, 0, 42, 0, 0, 42, 6, 0, 38, 36, 0, 2, 0, 0>>),
  Instant("clf", <<54, 0, 4, 43, 73, 43, 2, 0, 2, 1, 42, 1, 0, 42, 0, 0, 42, 5, 9, 38, 39, 0, 2, 0, 0, 55>>, 1, DayOf(2021, 3, 4), <<10, 0, 59>>, -120, TRUE),
  Refused("clf", <<54, 3, 1, 43, 74, 43, 2, 0, 2, 1, 42, 1, 0, 42, 0, 0, 42, 0, 0, 38, 36, 0, 0, 0, 0, 55>>),
  Number("iso_week", <<2, 0, 2, 1, 39, 32, 0, 9, 39, 4>>, [day |-> DayOf(2021, 3, 4)]),
  Number("iso_week", <<2, 0, 2, 1, 32, 0, 9, 4>>, [day |-> DayOf(2021, 3, 4)]),
  Number("iso_week", <<2, 0, 2, 0, 39, 32, 5, 3, 39, 7>>, [day |-> DayOf(2021, 1, 3)]),
  Number("iso_week", <<2, 0, 1, 9, 39, 32, 0, 1, 39, 1>>, [day |-> DayOf(2018, 12, 31)]),
  Refused("iso_week", <<2, 0, 2, 1, 39, 32, 5, 3, 39, 1>>),
  Refused("iso_week", <<2, 0, 2, 1, 39, 32, 0, 0, 39, 1>>),
  Refused("iso_week", <<2, 0, 2, 1, 39, 32, 0, 9, 39, 8>>)}

AddressesOfEveryKind == {
  Number("ip", <<1, 9, 2, 40, 1, 6, 8, 40, 1, 40, 1>>, [words |-> <<192, 168, 1, 1>>, prefix |-> {}]),
  Number("ip", <<1, 0, 40, 0, 40, 0, 40, 0, 43, 2, 4>>, [words |-> <<10, 0, 0, 0>>, prefix |-> {24}]),
  Number("ip", <<1, 0, 40, 0, 40, 0, 40, 0, 43, 3, 2>>, [words |-> <<10, 0, 0, 0>>, prefix |-> {32}]),
  Refused("ip", <<1, 0, 40, 0, 40, 0, 40, 0, 43, 3, 3>>),
  Refused("ip", <<2, 5, 6, 40, 1, 40, 2, 40, 3, 4>>),
  Refused("ip", <<1, 0, 40, 0, 1, 40, 2, 40, 3>>),
  Refused("ip", <<1, 40, 2, 40, 3, 40, 4, 40, 5>>),
  Number("ip", <<2, 0, 0, 1, 42, 13, 11, 8, 42, 42, 1>>, [words |-> <<8193, 3512, 0, 0, 0, 0, 0, 1>>, prefix |-> {}]),
  Number("ip", <<42, 42, 1, 43, 1, 2, 8>>, [words |-> <<0, 0, 0, 0, 0, 0, 0, 1>>, prefix |-> {128}]),
  Refused("ip", <<42, 42, 1, 43, 1, 2, 9>>),
  Number("ip", <<1, 42, 2, 42, 3, 42, 4, 42, 5, 42, 6, 42, 7, 42, 8>>, [words |-> <<1, 2, 3, 4, 5, 6, 7, 8>>, prefix |-> {}]),
  Refused("ip", <<1, 42, 2, 42, 3, 42, 4, 42, 5, 42, 6, 42, 7, 42, 8, 42, 9>>),
  Refused("ip", <<1, 42, 42, 2, 42, 42, 3>>),
  Refused("ip", <<1, 42, 2, 42, 3, 42, 4, 42, 42, 5, 42, 6, 42, 7, 42, 8>>),
  Number("ip", <<42, 42, 15, 15, 15, 15, 42, 1, 9, 2, 40, 0, 40, 2, 40, 1>>, [words |-> <<0, 0, 0, 0, 0, 65535, 49152, 513>>, prefix |-> {}]),
  Refused("ip", <<42, 42, 15, 15, 15, 15, 42, 1, 9, 2, 40, 0, 40, 2, 40, 2, 5, 6>>),
  Refused("ip", <<0, 9, 42, 1, 2, 42, 0, 0>>),
  Number("ip", <<15, 14, 8, 0, 42, 42>>, [words |-> <<65152, 0, 0, 0, 0, 0, 0, 0>>, prefix |-> {}]),
  Number("asn", <<10, 28, 6, 4, 5, 1, 2>>, <<6, 4, 5, 1, 2>>),
  Number("asn", <<10, 28, 23, 38, 0, 0, 6, 5>>, <<6, 5>>),
  Number("asn", <<10, 28, 4, 2, 9, 4, 9, 6, 7, 2, 9, 5>>, <<4, 2, 9, 4, 9, 6, 7, 2, 9, 5>>),
  Refused("asn", <<10, 28, 4, 2, 9, 4, 9, 6, 7, 2, 9, 6>>),
  Refused("asn", <<10, 28, 1, 2, 3, 4, 5, 6, 7, 8, 9, 0, 1>>),
  Refused("asn", <<10, 28, 0>>),
  Refused("asn", <<10, 28, 38, 6, 5>>),
  Number("email", <<19, 24, 40, 11, 36, 33, 56, 17, 24, 28, 29, 40, 12, 24, 22>>, [local |-> <<19, 24, 40, 11, 36, 33>>, domain |-> <<17, 24, 28, 29, 40, 12, 24, 22>>]),
  Number("email", <<11, 56, 10, 39, 11, 40, 12, 40, 12, 24, 22>>, [local |-> <<11>>, domain |-> <<10, 39, 11, 40, 12, 40, 12, 24, 22>>]),
  Refused("email", <<11, 56, 17, 24, 28, 29, 40, 12, 24, 22, 40, 21, 24, 12, 10, 21>>),
  Refused("email", <<11, 40, 40, 12, 56, 17, 24, 28, 29, 40, 12, 24, 22>>),
  Refused("email", <<18, 56, 2, 33, 40, 25, 23, 16>>),
  Refused("email", <<11, 56, 12, 56, 17, 24, 28, 29, 40, 12, 24, 22>>),
  Number("decimal", <<4, 0, 40, 7, 1, 2, 8, 41, 38, 39, 7, 4, 40, 0, 0, 6, 0>>, <<[negative |-> FALSE, whole |-> 40, rest |-> <<7, 1, 2, 8, 0, 0, 0, 0, 0, 0>>], [negative |-> TRUE, whole |-> 74, rest |-> <<0, 0, 6, 0, 0, 0, 0, 0, 0, 0>>]>>),
  Number("decimal", <<39, 9, 0, 40, 0, 0, 0, 0, 38, 41, 38, 1, 8, 0, 40, 0, 0, 0, 0, 0>>, <<[negative |-> TRUE, whole |-> 90, rest |-> <<0, 0, 0, 0, 0, 0, 0, 0, 0, 0>>], [negative |-> FALSE, whole |-> 180, rest |-> <<0, 0, 0, 0, 0, 0, 0, 0, 0, 0>>]>>),
  Refused("decimal", <<9, 0, 40, 0, 0, 0, 0, 1, 41, 38, 1, 0, 40, 0, 0, 0, 0>>),
  Refused("decimal", <<1, 0, 40, 0, 0, 0, 0, 41, 38, 39, 1, 8, 0, 40, 0, 0, 0, 1>>),
  Refused("decimal", <<4, 0, 40, 7, 1, 2, 41, 38, 39, 7, 4, 40, 0, 0, 6, 0>>),
  Number("decimal", <<36, 4, 0, 40, 1, 2, 3, 4, 5, 6, 7, 8, 9, 0, 41, 7, 4, 40, 0, 0, 6, 0>>, <<[negative |-> FALSE, whole |-> 40, rest |-> <<1, 2, 3, 4, 5, 6, 7, 8, 9, 0>>], [negative |-> FALSE, whole |-> 74, rest |-> <<0, 0, 6, 0, 0, 0, 0, 0, 0, 0>>]>>),
  Number("dms", <<4, 0, 58, 2, 6, 48, 4, 6, 59, 23, 38, 7, 9, 58, 5, 8, 48, 5, 6, 59, 32>>, <<[negative |-> FALSE, whole |-> 40, rest |-> <<26, 460000>>], [negative |-> TRUE, whole |-> 79, rest |-> <<58, 560000>>]>>),
  Number("dms", <<4, 0, 58, 38, 2, 6, 110, 38, 4, 6, 40, 5, 111, 38, 28, 41, 38, 1, 7, 9, 58, 5, 9, 48, 5, 9, 40, 9, 9, 9, 9, 59, 14>>, <<[negative |-> TRUE, whole |-> 40, rest |-> <<26, 465000>>], [negative |-> FALSE, whole |-> 179, rest |-> <<59, 599999>>]>>),
  Number("dms", <<9, 0, 58, 0, 48, 0, 23, 1, 8, 0, 58, 0, 48, 0, 32>>, <<[negative |-> FALSE, whole |-> 90, rest |-> <<0, 0>>], [negative |-> TRUE, whole |-> 180, rest |-> <<0, 0>>]>>),
  Refused("dms", <<9, 0, 58, 0, 48, 0, 40, 1, 59, 23, 38, 1, 0, 58, 0, 48, 0, 59, 14>>),
  Refused("dms", <<4, 0, 58, 6, 6, 48, 4, 6, 59, 23, 38, 7, 9, 58, 5, 8, 48, 5, 6, 59, 32>>),
  Refused("dms", <<4, 0, 58, 2, 6, 48, 4, 6, 59, 23, 38, 7, 9, 58, 5, 8, 48, 6, 0, 59, 32>>),
  Number("plus_code", <<8, 15, 31, 12, 9, 16, 8, 15, 36, 6, 32>>, <<757849, 136397>>),
  Number("plus_code", <<8, 4, 9, 31, 12, 32, 12, 8, 36, 27, 9, 33>>, <<598753, -1953345>>),
  Refused("plus_code", <<15, 33, 2, 2, 2, 2, 2, 2, 36, 2, 2>>),
  Number("plus_code", <<12, 31, 2, 2, 2, 2, 2, 2, 36, 2, 2>>, <<1120001, 2560001>>),
  Refused("plus_code", <<12, 32, 2, 2, 2, 2, 2, 2, 36, 2, 2>>)}

Examples == Identifiers \union Amounts \union PhoneNumbers \union MachineDates \union AddressesOfEveryKind

Lefts == {<<>>, <<10>>, <<7>>, <<39>>, <<38, 44>>, <<7, 38>>, <<7, 41, 38>>, <<7, 40>>, <<14, 30, 27, 38>>}
Rights == {<<>>, <<40>>, <<41, 38, 10>>, <<10>>, <<7>>, <<39, 7>>, <<38, 7>>, <<40, 7>>, <<41, 38, 7>>, <<38, 27, 14, 15, 38, 10, 11, 12, 13, 14, 15, 16, 17, 18>>, <<39, 6, 38, 0, 0, 0>>, <<47, 7>>, <<33, 7>>, <<42, 1, 5>>, <<51>>}
(* Each side next to nothing and next to a separate digit. *)
Surroundings ==
  [left : Lefts, right : {<<>>, <<38, 7>>}] \union [left : {<<>>, <<7, 38>>}, right : Rights]

SomeCountries == {Pair("U", "S"), Pair("D", "E")}
TwoIbanCountries ==
  (Pair("R", "O") :> [length |-> 24, structure |-> <<<<4, "a">>, <<16, "c">>>>]) @@
  (Pair("M", "T") :> [length |-> 31, structure |-> <<<<4, "a">>, <<5, "n">>, <<18, "c">>>>])
SomeExponents ==
  (Code("E", "U", "R") :> 2) @@ (Code("U", "S", "D") :> 2) @@ (Code("S", "G", "D") :> 2) @@
  (Code("A", "U", "D") :> 2) @@ (Code("K", "W", "D") :> 3)
SomeSymbols ==
  (<<Dollar>> :> <<Code("U", "S", "D"), Code("A", "U", "D"), Code("S", "G", "D")>>) @@
  (<<Euro>> :> <<Code("E", "U", "R")>>) @@
  (<<Letter("A"), Dollar>> :> <<Code("A", "U", "D")>>)
SomePlans ==
  (<<4, 4>> :> [valid |-> {10}, possible |-> {9, 10}]) @@ (<<1>> :> [valid |-> {10}, possible |-> {10}]) @@
  (<<4, 9>> :> [valid |-> 7..11, possible |-> 5..11])
NoCodes == {}
SomeTlds == {<<12, 24, 22>>, <<25, 23>>}
=============================================================================

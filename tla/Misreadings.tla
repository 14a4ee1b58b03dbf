---------------------------- MODULE Misreadings ----------------------------
(***************************************************************************)
(* What the check digits are there for: a number is written correctly, one *)
(* character of it is misread or two neighbours change places, and the     *)
(* scheme is asked again.                                                  *)
(***************************************************************************)
EXTENDS Schemes

(* Every scheme of Agrees that has a check digit, and pan. *)
CheckedSchemes ==
  {"AT", "BE", "BG", "CY", "CZ", "DE", "DK", "EE", "EL", "ES", "FI", "FR", "HR", "HU", "IE", "IT",
   "LT", "LU", "LV", "MT", "NL", "PL", "PT", "RO", "SE", "SI", "SK", "CH", "GB", "GD", "HA", "ME",
   "MK", "NO", "RS", "RU", "TR", "organisationsnummer", "personnummer", "lei", "codice_fiscale",
   "nif_nie", "curp", "pan", "pesel", "isin", "cusip", "sedol", "iban", "card", "aba", "imo",
   "iso6346", "imei", "orcid", "damm"}

CONSTANT Samples      \* scheme |-> some numbers, right ones among them

ASSUME SamplesAssumption ==
  /\ DOMAIN Samples \subseteq CheckedSchemes
  /\ \A s \in DOMAIN Samples : Samples[s] \subseteq Seq(IF s = "IE" THEN Characters ELSE 0..35)

VARIABLES scheme, written, read, error
misreadVars == <<scheme, written, read, error>>

MisreadInit ==
  /\ scheme \in DOMAIN Samples
  /\ written \in {n \in Samples[scheme] : Agrees(scheme, n)}
  /\ read = written
  /\ error = "none"

SameKind(v) == IF IsDigit(v) THEN 0..9 ELSE 10..35

Misread(i, v) ==
  /\ error = "none" /\ v # read[i]
  /\ read' = [read EXCEPT ![i] = v]
  /\ error' = "misread"
  /\ UNCHANGED <<scheme, written>>

Swap(i) ==
  /\ error = "none" /\ read[i] # read[i + 1]
  /\ read' = [read EXCEPT ![i] = read[i + 1], ![i + 1] = read[i]]
  /\ error' = "swapped"
  /\ UNCHANGED <<scheme, written>>

MisreadNext ==
  \/ \E i \in DOMAIN read : \E v \in SameKind(read[i]) : Misread(i, v)
  \/ \E i \in 1..(Len(read) - 1) : Swap(i)

MisreadSpec == MisreadInit /\ [][MisreadNext]_misreadVars

-----------------------------------------------------------------------------
Accepted == Agrees(scheme, read)
MisreadAt(i) == error = "misread" /\ read[i] # written[i]
Swapped(i) == error = "swapped" /\ read[i] # written[i] /\ read[i + 1] # written[i + 1]
Either(a, b) == {Letter(a), Letter(b)}
Apart(i) == IF read[i] > read[i + 1] THEN read[i] - read[i + 1] ELSE read[i + 1] - read[i]

(***************************************************************************)
(* The schemes that promise less than their modulus could: two remainders  *)
(* are written as one digit (modulo eleven), weights share a factor with   *)
(* the modulus (imo, curp), two algorithms accept one form (BG, NL), or    *)
(* there is no check digit at all (pan).                                   *)
(***************************************************************************)
Folding == {"BG", "CZ", "EL", "LT", "LV", "PT", "RO", "SK", "ME", "MK", "RU", "TR",
            "imo", "iso6346", "curp", "NL", "pan"}

(* The characters a scheme does not sum, or reads for something else than their value. *)
Unchecked(s, n) ==
  CASE s \in {"ES", "nif_nie"} -> {1}               \* X, K, L, M are all zero; a company's letter is not summed
    [] s = "FR" /\ ~ (IsDigit(n[1]) /\ IsDigit(n[2])) -> {1, 2}   \* a key with a letter, in a base with gaps
    [] s = "GB" -> {2, 3} \union 10..12              \* three remainders are right; a branch is not summed
    [] s \in {"GD", "HA"} /\ Len(n) = 3 -> 1..3      \* the short form has no check digits
    [] s = "IE" /\ ~ IsDigit(n[2]) -> {2, 9}         \* the old form's second character, and a ninth
    [] s = "personnummer" /\ Len(n) = 12 -> {1, 2}   \* the century
    [] s \in {"cusip", "sedol", "isin"} -> {i \in DOMAIN n : IsLetter(n[i])}
    [] OTHER -> {}

(***************************************************************************)
(* checksum.rs 20, 47 and 103, company.rs 187 and 1010: a number one       *)
(* character of which is misread is refused, by every scheme but those     *)
(* named above; and by most of those where it is the last character.       *)
(***************************************************************************)
MisreadingIsCaught ==
  Accepted => \A i \in DOMAIN read : MisreadAt(i) =>
    \/ i \in Unchecked(scheme, read)
    \/ scheme \in Folding /\ (i = Len(read) => scheme \in {"BG", "CZ", "NL", "pan"})

(***************************************************************************)
(* Two neighbours that changed places are refused, except where the sum    *)
(* cannot tell: zero and nine for Luhn (checksum.rs 20), digits five apart *)
(* under odd weights (85), a one apart in modulo 11-10 (153), a letter     *)
(* eleven times its digit in modulo 97 (103), the last two in Austria      *)
(* (company.rs 277) and, a one apart, in Slovenia (794), and W and Y, or   *)
(* the check letter with a letter that weighs as much, in Italy            *)
(* (national_id.rs 110).  Damm (47) has no exception.                      *)
(***************************************************************************)
SwapIsCaught ==
  Accepted => \A i \in 1..(Len(read) - 1) : Swapped(i) =>
    \/ scheme \in Folding \/ i \in Unchecked(scheme, read)
    \/ scheme \in {"AT", "IT", "SE", "card", "imei", "isin", "cusip", "personnummer",
                   "organisationsnummer"} /\ Apart(i) = 9
    \/ scheme = "ES" /\ read[1] \in EntityTypes /\ Apart(i) = 9
    \/ scheme \in {"isin", "cusip"} /\ IsLetter(read[i + 1])
    \/ scheme \in {"EE", "HU", "aba", "pesel", "sedol"} /\ Apart(i) % 5 = 0
    \/ scheme \in {"DE", "HR", "RS"} /\ Apart(i) \in {1, 9}
    \/ scheme \in {"lei", "iban"} /\ (read[i] = 11 * read[i + 1] \/ read[i + 1] = 11 * read[i])
    \/ i = 7 /\ (scheme = "AT" \/ (scheme = "SI" /\ Apart(i) = 1))
    \/ scheme = "codice_fiscale" /\ {read[i], read[i + 1]} = Either("W", "Y")
    \/ scheme = "codice_fiscale" /\ i = 15 /\ {read[15], read[16]} \in {Either("M", "S"), Either("N", "T")}

(***************************************************************************)
(* company.rs 969: the third digit separates a company's number from a     *)
(* person's, so no ten digits are both, and a digit run next to both cues  *)
(* makes one entity.                                                       *)
(***************************************************************************)
NoNumberIsBoth == ~ (se_personnummer(read) /\ se_organisationsnummer(read))

(***************************************************************************)
(* es_nif of company.rs and the validator of national_id.rs implement the  *)
(* same arithmetic independently: they agree on every person's number.     *)
(***************************************************************************)
SpanishReadersAgree ==
  scheme \in {"ES", "nif_nie"} /\ read[1] \notin EntityTypes /\ IsLetter(read[9])
    /\ (IsLetter(read[1]) => read[1] \in NifLeads) => (es_nif(read) <=> es_nif_nie(read))

=============================================================================

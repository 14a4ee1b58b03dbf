---------------------------- MODULE Recognisers ----------------------------
(***************************************************************************)
(* The identifier rules of src/src/rules: for each its candidate pattern,  *)
(* the neighbours it refuses, whether it wants a label (has_cue, see       *)
(* Context), the characters it drops or trims, and the scheme the rest is  *)
(* checked with.                                                           *)
(***************************************************************************)
EXTENDS Schemes

Fixed(scheme, pattern) ==
  [scheme |-> scheme, pattern |-> pattern, before |-> Alnum, after |-> Alnum,
   labelled |-> FALSE, uniform |-> FALSE, drops |-> {}, trims |-> {}]
Labelled(r) == [r EXCEPT !.labelled = TRUE]
Beside(r, marks) == [r EXCEPT !.before = Alnum \union marks, !.after = Alnum \union marks]
Dropping(r, marks) == [r EXCEPT !.drops = marks]

(* bank.rs *)
IbanPattern_Ungrouped ==             \* Mutant: the longest number as it is written without groups.
  {<<L(2), D(2), Times(Alnum \union {Space, Hyphen}, 10, 30)>>}
IbanPattern == {<<L(2), D(2), Times(Alnum \union {Space, Hyphen}, 10, 42)>>}
IbanRule == [Fixed("iban", IbanPattern) EXCEPT !.after = {}, !.drops = {Space, Hyphen}, !.trims = {Space, Hyphen}]
BicRule == Labelled(Fixed("bic", {<<L(6), X(2)>>, <<L(6), X(5)>>}))
CardPattern == {<<D(1), Times(Digits \union {Space, Hyphen}, 11, 21), D(1)>>}
PaymentCardRule ==
  [Labelled(Dropping(Beside(Fixed("card", CardPattern), {Hyphen}), {Space, Hyphen})) EXCEPT !.uniform = TRUE]
AbaRoutingRule == Labelled(Fixed("aba", {<<D(9)>>}))

(* company.rs *)
LeiRule == Fixed("lei", {<<X(18), D(2)>>})
State(a, b, bodies) == [prefix |-> Pair(a, b), scheme |-> a \o b, bodies |-> bodies]
Dd(low, high) == Times(Digits, low, high)
C(name) == One({Letter(name)})
VatEuStates == {
  State("A", "T", {<<C("U"), D(8)>>}), State("B", "E", {<<Dd(9, 10)>>}),        State("B", "G", {<<Dd(9, 10)>>}),
  State("C", "Y", {<<D(8), L(1)>>}),   State("C", "Z", {<<Dd(8, 10)>>}),        State("D", "E", {<<D(9)>>}),
  State("D", "K", {<<D(8)>>}),         State("E", "E", {<<D(9)>>}),             State("E", "L", {<<Dd(8, 9)>>}),
  State("E", "S", {<<X(1), D(7), X(1)>>}), State("F", "I", {<<D(8)>>}),         State("F", "R", {<<X(2), D(9)>>}),
  State("H", "R", {<<D(11)>>}),        State("H", "U", {<<D(8)>>}),
  State("I", "E", {<<D(1), One(Alnum \union {Plus, Star}), D(5), Times(Capitals, 1, 2)>>}),
  State("I", "T", {<<D(11)>>}),        State("L", "T", {<<D(12)>>, <<D(9)>>}),  State("L", "U", {<<D(8)>>}),
  State("L", "V", {<<D(11)>>}),        State("M", "T", {<<D(8)>>}),             State("N", "L", {<<D(9), C("B"), D(2)>>}),
  State("P", "L", {<<D(10)>>}),        State("P", "T", {<<D(9)>>}),             State("R", "O", {<<D(13)>>, <<Dd(4, 10)>>}),
  State("S", "E", {<<D(12)>>}),        State("S", "I", {<<D(8)>>}),             State("S", "K", {<<D(10)>>})}

TaxNames == {Alphabet(<<"M", "W", "S", "T">>), Alphabet(<<"T", "V", "A">>), Alphabet(<<"I", "V", "A">>),
             Alphabet(<<"T", "P", "V">>)}
Norwegian == Alphabet(<<"M", "V", "A">>)
Department(kind) == Alphabet(kind) \o <<8, 8, 8, 8>>
VatNonEuStates == {
  State("C", "H", {<<C("E"), D(9)>> \o Literal(suffix) : suffix \in TaxNames}),
  State("G", "B", {Literal(Department(<<"G", "D">>)) \o <<D(5)>>, Literal(Department(<<"H", "A">>)) \o <<D(5)>>,
                   Literal(Pair("G", "D")) \o <<D(3)>>, Literal(Pair("H", "A")) \o <<D(3)>>, <<D(12)>>, <<D(9)>>}),
  State("M", "E", {<<D(8)>>}),         State("M", "K", {<<D(13)>>}),            State("N", "O", {<<D(9)>> \o Literal(Norwegian)}),
  State("R", "S", {<<D(9)>>}),         State("R", "U", {<<D(12)>>, <<D(10)>>}), State("T", "R", {<<D(10)>>})}
Vat(states) == Fixed("vat", UNION {{Literal(s.prefix) \o body : body \in s.bodies} : s \in states})
OrganisationsnummerRule ==
  Labelled(Dropping(Fixed("organisationsnummer",
    {Literal(<<1, 6>>) \o <<D(6), Maybe({Hyphen}), D(4)>>, <<D(6), Maybe({Hyphen}), D(4)>>}), {Hyphen}))

(* security.rs *)
IsinRule == Fixed("isin", {<<L(2), X(9), D(1)>>})
CusipRule == Labelled(Fixed("cusip", {<<X(8), D(1)>>}))
SedolRule == Labelled(Fixed("sedol", {<<Times(Alnum \ Vowels, 6, 6), D(1)>>}))

(* maritime.rs, device.rs *)
ImoMark == Alphabet(<<"I", "M", "O">>)
ImoRule == Labelled(Fixed("imo", {Literal(ImoMark) \o <<Times({Space, Colon}, 0, 3), D(7)>>, <<D(7)>>}))
ContainerRule ==
  Dropping(Fixed("iso6346", {<<L(3), One(ContainerCategories), Maybe({Space}), D(6), Maybe({Space}), D(1)>>}), {Space})
Gap == Maybe({Hyphen, Space})
ImeiRule == Labelled(Dropping(Beside(Fixed("imei", {<<D(2), Gap, D(6), Gap, D(6), Gap, D(1)>>}), {Hyphen}), {Hyphen, Space}))
Hex == 0..15
Octet == Times(Hex, 2, 2)
Quad == Times(Hex, 4, 4)
MacPattern ==
  {FlattenSeq([i \in 1..11 |-> IF i % 2 = 1 THEN <<Octet>> ELSE <<One({Colon, Hyphen})>>]),
   <<Quad, One({Dot}), Quad, One({Dot}), Quad>>}
MacRule ==
  [Dropping(Fixed("mac", MacPattern), {Colon, Hyphen, Dot}) EXCEPT
     !.before = Alnum \union {Colon, Hyphen, Dot}, !.after = Alnum \union {Colon, Hyphen}, !.uniform = TRUE]

(* extras.rs *)
CveMark == Alphabet(<<"C", "V", "E">>) \o <<Hyphen>>
CveRule == Beside(Fixed("cve", {Literal(CveMark) \o <<D(4), One({Hyphen}), Dd(4, 7)>>}), {Hyphen})
DoiPattern ==
  {Literal(<<1, 0, Dot>>) \o <<Dd(4, 9), One({Slash}), Times(Alnum \union {Open, Close, Dot, Colon, Plus, Slash, Hyphen}, 1, 160)>>}
DoiRule ==
  [Fixed("doi", DoiPattern) EXCEPT !.before = Alnum \union {Dot}, !.after = {}, !.trims = {Dot, Comma, Colon, Close}]
OrcidRule ==
  Dropping(Beside(Fixed("orcid", {<<D(4), One({Hyphen}), D(4), One({Hyphen}), D(4), One({Hyphen}), D(3),
                                    One(Digits \union {Letter("X")})>>}), {Hyphen}), {Hyphen})

(* national_id.rs *)
CodiceFiscaleRule ==
  Fixed("codice_fiscale", {<<L(6), Times(Omocodia, 2, 2), One(MonthLetters), Times(Omocodia, 2, 2), L(1),
                             Times(Omocodia, 3, 3), L(1)>>})
NifNieRule ==
  Fixed("nif_nie", {<<D(8), One(ToSet(NifCheckLetters))>>, <<One(NifLeads), D(7), One(ToSet(NifCheckLetters))>>})
CurpRule == Fixed("curp", {<<L(4), D(6), L(6), X(1), D(1)>>})
PanRule == Labelled(Fixed("pan", {<<L(5), D(4), L(1)>>}))
PeselRule == Labelled(Fixed("pesel", {<<D(11)>>}))
Century == Maybe({Hyphen, Plus})
PersonnummerRule ==
  Labelled(Dropping(Fixed("personnummer", {<<D(8), Century, D(4)>>, <<D(6), Century, D(4)>>}), {Hyphen, Plus}))

Recogniser == [
  iban |-> IbanRule, bic |-> BicRule, card |-> PaymentCardRule, aba |-> AbaRoutingRule, lei |-> LeiRule,
  vat_eu |-> Vat(VatEuStates), vat_non_eu |-> Vat(VatNonEuStates), organisationsnummer |-> OrganisationsnummerRule,
  isin |-> IsinRule, cusip |-> CusipRule, sedol |-> SedolRule, imo |-> ImoRule, iso6346 |-> ContainerRule,
  imei |-> ImeiRule, mac |-> MacRule, cve |-> CveRule, doi |-> DoiRule, orcid |-> OrcidRule,
  codice_fiscale |-> CodiceFiscaleRule, nif_nie |-> NifNieRule, curp |-> CurpRule, pan |-> PanRule,
  pesel |-> PeselRule, personnummer |-> PersonnummerRule]

-----------------------------------------------------------------------------
(***************************************************************************)
(* What is checked and what is reported: the scheme, the number its        *)
(* arithmetic runs over, and the compact form, which is the index key.     *)
(***************************************************************************)
Reads(scheme, number, key) == [scheme |-> scheme, number |-> number, key |-> key]

zero_fill(body, width) == IF Len(body) >= width THEN body ELSE [i \in 1..(width - Len(body)) |-> 0] \o body
Filled(scheme, national) ==
  IF scheme = "BE" THEN zero_fill(national, 10) ELSE IF scheme = "EL" THEN zero_fill(national, 9) ELSE national

(* The markers a number carries are not in its arithmetic; a British department has a scheme of its own. *)
VatNumber(prefix, scheme, national) ==
  LET key == prefix \o Filled(scheme, national) IN
  CASE scheme \in {"AT", "CH", "NO"} -> Reads(scheme, SelectSeq(national, IsDigit), key)
    [] scheme = "GB" /\ IsLetter(national[1]) ->
         Reads(IF national[1] = Letter("G") THEN "GD" ELSE "HA",
               SubSeq(national, IF Len(national) = 5 THEN 3 ELSE 7, Len(national)), key)
    [] OTHER -> Reads(scheme, Filled(scheme, national), key)

(* text is the candidate as written, body the same without the characters the rule drops. *)
Canonical(rule, text, body) ==
  CASE rule \in {"vat_eu", "vat_non_eu"} ->
         {VatNumber(s.prefix, s.scheme, SubSeq(body, 3, Len(body))) :
            s \in {s \in VatEuStates \union VatNonEuStates : s.prefix = SubSeq(body, 1, 2)}}
    [] rule = "organisationsnummer" /\ Len(body) = 12 ->
         {Reads(rule, SubSeq(body, 3, 12), SubSeq(body, 3, 12))}
    [] rule = "personnummer" ->
         {Reads(rule, body, PersonnummerKey(body, IF Plus \in ToSet(text) THEN "+" ELSE "-"))}
    [] rule = "imo" -> {LET n == SubSeq(body, Len(body) - 6, Len(body)) IN Reads(rule, n, n)}
    [] OTHER -> {Reads(Recogniser[rule].scheme, body, body)}

Trimmed(t, s, e, marks) ==
  CHOOSE q \in s..e : (\A i \in (q + 1)..e : t[i] \in marks) /\ (q > s => t[q] \notin marks)

(* One separator throughout, or none. *)
Uniform(text) == Cardinality(ToSet(SelectSeq(text, LAMBDA v : v \notin Alnum))) <= 1

(* Cisco's dotted form may end a sentence, but not in front of another group. *)
EndsTheAddress_AnyDot(t, e) == TRUE                        \* Mutant: a dot always ends the sentence.
EndsTheAddress(t, e) == ByteAfter(t, e) = Dot => ByteAfter(t, e + 1) \notin Hex

(* The marker IMO stands in for a label. *)
NeedsLabel(rule, text) == Recogniser[rule].labelled /\ ~ (rule = "imo" /\ text[1] = Letter("I"))

(* Rule::validate of an identifier: the verdicts on the span from s to e, at most one. *)
Validate(rule, t, s, e, cued) ==
  LET r == Recogniser[rule]
      end == Trimmed(t, s, e, r.trims)
      text == TextOf(t, s, end)
  IN  {[start |-> s, end |-> end, key |-> c.key] :
         c \in {c \in Canonical(rule, text, Drop(text, r.drops)) :
                  /\ ByteBefore(t, s) \notin r.before
                  /\ ByteAfter(t, e) \notin r.after
                  /\ rule = "mac" => EndsTheAddress(t, e)
                  /\ NeedsLabel(rule, text) => cued
                  /\ r.uniform => Uniform(text)
                  /\ Agrees(c.scheme, c.number)}}

=============================================================================

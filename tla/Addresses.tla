----------------------------- MODULE Addresses -----------------------------
(***************************************************************************)
(* The rules for addresses in a network, in the mail and on the earth:     *)
(* network.rs, email.rs and coordinates.rs of src/src/rules.  What an IP   *)
(* address is belongs to std::net.                                         *)
(***************************************************************************)
EXTENDS DateMachine

CONSTANT KnownTlds      \* the top-level domains of the vendored table

(* The pieces of t between the characters of marks. *)
Split(t, marks) ==
  LET at == <<0>> \o SelectSeq([i \in DOMAIN t |-> i], LAMBDA i : t[i] \in marks) \o <<Len(t) + 1>>
  IN  [k \in 1..(Len(at) - 1) |-> SubSeq(t, at[k] + 1, at[k + 1] - 1)]
ValueIn(radix, t) == FoldLeft(LAMBDA acc, v : radix * acc + v, 0, t)

(***************************************************************************)
(* std::net: four octets without leading zeros, or eight words, of which   *)
(* two colons may stand for one or more zeros and the last two may be      *)
(* written as four octets.                                                 *)
(***************************************************************************)
IsOctet(d) ==
  /\ Len(d) \in 1..3 /\ ToSet(d) \subseteq Digits
  /\ Len(d) > 1 => d[1] # 0
  /\ ValueIn(10, d) <= 255
Octets(t) == [i \in DOMAIN Split(t, {Dot}) |-> ValueIn(10, Split(t, {Dot})[i])]
IsQuad(t) == Len(Split(t, {Dot})) = 4 /\ \A i \in 1..4 : IsOctet(Split(t, {Dot})[i])

IsHexGroup(t) == Len(t) \in 1..4 /\ ToSet(t) \subseteq Hex
WordsOf(piece) ==
  IF IsHexGroup(piece) THEN <<ValueIn(16, piece)>>
  ELSE <<256 * Octets(piece)[1] + Octets(piece)[2], 256 * Octets(piece)[3] + Octets(piece)[4]>>

(* The words of a run of groups, none of an empty run; at most one sequence. *)
Run(t, closes) ==
  LET pieces == Split(t, {Colon})
      last == Len(pieces)
  IN  IF t = <<>> THEN {<<>>}
      ELSE IF (\A i \in 1..last : IsHexGroup(pieces[i]) \/ (i = last /\ closes /\ IsQuad(pieces[i])))
        THEN {FlattenSeq([i \in 1..last |-> WordsOf(pieces[i])])} ELSE {}

Ipv6(t) ==
  LET gaps == {k \in 1..(Len(t) - 1) : t[k] = Colon /\ t[k + 1] = Colon}
      sides == {<<h, l>> : h \in Run(SubSeq(t, 1, Min(gaps) - 1), FALSE), l \in Run(SubSeq(t, Min(gaps) + 2, Len(t)), TRUE)}
  IN  IF gaps = {} THEN {w \in Run(t, TRUE) : Len(w) = 8}
      ELSE {s[1] \o [i \in 1..(8 - Len(s[1]) - Len(s[2])) |-> 0] \o s[2] : s \in {s \in sides : Len(s[1]) + Len(s[2]) <= 7}}

Parsed(t) ==
  IF IsQuad(t) THEN {[family |-> 32, words |-> Octets(t)]} ELSE {[family |-> 128, words |-> w] : w \in Ipv6(t)}

(***************************************************************************)
(* network.rs: the pattern reads far more than addresses, the time of day  *)
(* included, and leaves the rest to the parser.                            *)
(***************************************************************************)
QuadPattern == <<Dd(1, 3), Mark(Dot), Dd(1, 3), Mark(Dot), Dd(1, 3), Mark(Dot), Dd(1, 3)>>
MaybeHex == Times(Hex, 0, 4)
Repeat(n, group) == FlattenSeq([i \in 1..n |-> group])
IpPattern ==
  UNION {{a, a \o <<Mark(Slash), Dd(1, 3)>>} :
           a \in {Repeat(n, <<MaybeHex, Mark(Colon)>>) \o QuadPattern : n \in 2..7}
                 \union {<<MaybeHex>> \o Repeat(n, <<Mark(Colon), MaybeHex>>) : n \in 2..7}}
  \union {QuadPattern, QuadPattern \o <<Mark(Slash), Dd(1, 2)>>}
IpRule ==
  [Fixed("ip", IpPattern) EXCEPT !.before = Alnum \union {Dot, Colon, Hyphen}, !.after = Alnum \union {Colon, Slash}]

(* versioned: a word near by says that four numbers are a release. *)
ValidateIp(text, versioned) ==
  LET parts == Split(text, {Slash})
      prefix == IF Len(parts) = 2 THEN {ValueIn(10, parts[2])} ELSE {}
  IN  {[words |-> a.words, prefix |-> prefix] :
         a \in {a \in Parsed(parts[1]) : /\ a.family = 32 => ~ versioned
                                         /\ \A p \in prefix : p <= a.family}}

(* An AS number is any 32 bits but zero; only the longer spelling may be followed by a blank. *)
AsMark == Alphabet(<<"A", "S">>)
AsnRule == Fixed("asn", {Literal(AsMark) \o <<Dd(1, 10)>>, Literal(Append(AsMark, Letter("N"))) \o <<Maybe({Space}), Dd(1, 10)>>})
LargestU32 == <<4, 2, 9, 4, 9, 6, 7, 2, 9, 5>>
NotAbove(n, limit) ==
  Len(n) < Len(limit) \/ \A i \in DOMAIN limit : n[i] > limit[i] => \E j \in 1..(i - 1) : n[j] < limit[j]
ValidateAsn(text) ==
  LET number == TrimZeros(SelectSeq(text, LAMBDA v : v \in Digits))
  IN  IF number # <<0>> /\ NotAbove(number, LargestU32) THEN {number} ELSE {}

(***************************************************************************)
(* email.rs: the pattern cannot end in a dot, and what follows one behind  *)
(* the address is not looked at.                                           *)
(***************************************************************************)
LocalPart == Alnum \union {Dot, Underscore, Percent, Plus, Hyphen}
DomainLabel(t, froms) ==
  LET first == Advance(t, One(Alnum), froms)
  IN  first \union Through(t, <<Times(Alnum \union {Hyphen}, 0, Len(t)), One(Alnum)>>, first)
EmailEnds(t, p) ==
  LET dotted(froms) == DomainLabel(t, Advance(t, Mark(Dot), froms))
      host == DomainLabel(t, Through(t, <<Times(LocalPart, 1, Len(t)), Mark(At)>>, {p}))
  IN  FoldLeft(LAMBDA S, i : S \union dotted(S), dotted(host), t)
EmailRule ==
  [Fixed("email", {}) EXCEPT !.before = LocalPart \union {At}, !.after = Alnum \union {Hyphen, Underscore, Percent, Plus, At}]

ValidateEmail(text) ==
  LET parts == Split(text, {At})
      labels == Split(parts[2], {Dot})
  IN  IF /\ Len(parts[1]) <= 64 /\ Len(parts[2]) <= 255
         /\ \A i \in DOMAIN Split(parts[1], {Dot}) : Split(parts[1], {Dot})[i] # <<>>
         /\ labels[Len(labels)] \in KnownTlds
        THEN {[local |-> parts[1], domain |-> parts[2]]} ELSE {}

(***************************************************************************)
(* coordinates.rs: degrees as a signed whole number and ten decimals, or   *)
(* in minutes and ten-thousandths of a second.                             *)
(***************************************************************************)
Blank02 == Times({Space}, 0, 2)
Degrees10 == <<Maybe({Plus, Hyphen}), Dd(1, 3), Mark(Dot), Dd(4, 10)>>
DecimalRule == Beside(Fixed("decimal", {Degrees10 \o <<Blank02, Mark(Comma), Blank02>> \o Degrees10}), {Dot, Comma})
Padded(t, n) == t \o [i \in 1..(n - Len(t)) |-> 0]
Signed(t) ==
  LET halves == Split(Drop(t, {Plus, Hyphen, Space}), {Dot})
  IN  [negative |-> Hyphen \in ToSet(t), whole |-> ValueIn(10, halves[1]), rest |-> Padded(halves[2], 10)]
Within(limit, whole, rest) == whole < limit \/ (whole = limit /\ ToSet(rest) \subseteq {0})

ValidateDecimal(text) ==
  LET latitude == Signed(Split(text, {Comma})[1])
      longitude == Signed(Split(text, {Comma})[2])
  IN  IF Within(90, latitude.whole, latitude.rest) /\ Within(180, longitude.whole, longitude.rest)
        THEN {<<latitude, longitude>>} ELSE {}

MinuteMarks == {Apostrophe, Prime}
SecondMarks == {Quote, DoublePrime}
Sexagesimal(hemispheres) ==
  {<<Dd(1, 3), Mark(Degree), Maybe({Space}), Dd(1, 2), One(MinuteMarks), Maybe({Space}), Dd(1, 2)>>
   \o decimals \o <<Maybe(SecondMarks), Maybe({Space}), One(hemispheres)>> :
     decimals \in {<<>>, <<Mark(Dot), Dd(1, 4)>>}}
NorthSouth == {Letter("N"), Letter("S")}
EastWest == {Letter("E"), Letter("W")}
DmsRule ==
  Fixed("dms", {a \o <<Times({Space, Comma}, 0, 3)>> \o b : a \in Sexagesimal(NorthSouth), b \in Sexagesimal(EastWest)})

(* Degrees, minutes, seconds and the hemisphere of one half, if no field runs over. *)
to_degrees(half) ==
  LET fields == SelectSeq(Split(half, ToSet(half) \ (Digits \union {Dot})), LAMBDA f : f # <<>>)
      seconds == Split(fields[3], {Dot})
      tenThousandths == 10000 * ValueIn(10, seconds[1]) + (IF Len(seconds) = 2 THEN ValueIn(10, Padded(seconds[2], 4)) ELSE 0)
  IN  IF Len(fields) = 3 /\ ValueIn(10, fields[2]) < 60 /\ tenThousandths < 600000
        THEN {[negative |-> half[Len(half)] \in {Letter("S"), Letter("W")}, whole |-> ValueIn(10, fields[1]),
               rest |-> <<ValueIn(10, fields[2]), tenThousandths>>]}
        ELSE {}

ValidateDms(text) ==
  LET split == CHOOSE i \in DOMAIN text : text[i] \in NorthSouth
  IN  {place \in to_degrees(SubSeq(text, 1, split)) \X to_degrees(SubSeq(text, split + 1, Len(text))) :
         Within(90, place[1].whole, place[1].rest) /\ Within(180, place[2].whole, place[2].rest)}

(* The centre of a cell of five pairs, in sixteen-thousandths of a degree; an eleventh character is not read. *)
OlcAlphabet == 2..9 \union ToSet(Alphabet(<<"C", "F", "G", "H", "J", "M", "P", "Q", "R", "V", "W", "X">>))
PlusCodeRule ==
  Beside(Fixed("plus_code", {<<Times(OlcAlphabet, 8, 8), Mark(Plus), Times(OlcAlphabet, 2, 3)>>}), {Plus})
ValidatePlusCode(text) ==
  LET digits == [i \in DOMAIN Drop(text, {Plus}) |-> Cardinality({v \in OlcAlphabet : v < Drop(text, {Plus})[i]})]
      steps == <<320000, 16000, 800, 40, 2>>
      centre(from, origin) == SumFunction([i \in 1..5 |-> digits[2 * i - 1 + from] * steps[i]]) + 1 - origin
  IN  IF digits[1] <= 8 /\ digits[2] <= 17 THEN {<<centre(0, 90 * 16000), centre(1, 180 * 16000)>>} ELSE {}

-----------------------------------------------------------------------------
Addressed == [ip |-> IpRule, asn |-> AsnRule, email |-> EmailRule,
              decimal |-> DecimalRule, dms |-> DmsRule, plus_code |-> PlusCodeRule]

(* ends_the_address of network.rs: a dot ends the sentence unless a digit is behind it. *)
ContinuesDotted(t, e) == ByteAfter(t, e) = Dot /\ ByteAfter(t, e + 1) \in Digits

(* Rule::validate: the verdicts on the span from s to e, at most one. *)
ValidateAddress(rule, t, s, e, versioned) ==
  LET text == TextOf(t, s, e)
      keys == CASE rule = "ip" -> ValidateIp(text, versioned)
                [] rule = "email" -> ValidateEmail(text)
                [] rule = "decimal" -> ValidateDecimal(text)
                [] rule = "dms" -> ValidateDms(text)
                [] rule = "plus_code" -> ValidatePlusCode(text)
                [] rule = "asn" -> ValidateAsn(text)
  IN  IF \/ ByteBefore(t, s) \in Addressed[rule].before \/ ByteAfter(t, e) \in Addressed[rule].after
         \/ rule = "ip" /\ ContinuesDotted(t, e)
        THEN {} ELSE {[start |-> s, end |-> e, key |-> k] : k \in keys}

=============================================================================

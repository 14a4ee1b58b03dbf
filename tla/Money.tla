------------------------------- MODULE Money -------------------------------
(***************************************************************************)
(* src/src/rules/money.rs: an amount beside an ISO 4217 code or a currency *)
(* sign, the separators it may be written with, and what its neighbours    *)
(* say of it.  Minor units are the digits of the amount, leading zeros     *)
(* gone: the code never makes a number of them.                            *)
(***************************************************************************)
EXTENDS Texts

CONSTANTS
  Exponents,      \* currency code |-> the digits after its decimal mark
  Symbols,        \* currency symbol |-> the codes it may stand for, the likeliest first
  WordLikeCodes   \* the codes that are also words

Signs == {Dollar, Euro}
Blanks == {Space, Nbsp}
Grouping == {Space, Nbsp, Apostrophe}
Marks == {Dot, Comma}

(***************************************************************************)
(* The patterns.                                                           *)
(***************************************************************************)
Many(t) == Times(Digits, 1, Len(t))
AmountEnds(t, froms) ==
  Repeated(t, <<One(Marks), Many(t)>>, Repeated(t, <<One(Grouping), D(3)>>, Advance(t, Many(t), froms)))

IsoCodeEnds(t, p) ==
  AmountEnds(t, Through(t, <<L(3), Maybe(Blanks)>>, {p}))
  \union Through(t, <<Maybe(Blanks), L(3)>>, AmountEnds(t, {p}))

PriceEnds(t, froms) == AmountEnds(t, froms) \union Through(t, <<One(Marks), Many(t)>>, froms)
Symbol == <<Times(Capitals, 0, 2), One(Signs)>>
SymbolEnds(t, p) ==
  PriceEnds(t, Through(t, Append(Symbol, Maybe(Blanks)), {p}))
  \union Through(t, <<Maybe(Blanks)>> \o Symbol, PriceEnds(t, {p}))

(***************************************************************************)
(* The neighbours.  A separator that touches the span is the number going  *)
(* on or the sentence ending; one character further out tells.             *)
(***************************************************************************)
Separators == {Dot, Comma, Hyphen}

continues_left_MinusIsProse(t, s) ==             \* Mutant: a minus needs a digit before it.
  LET at == IF ByteBefore(t, s) = Space THEN s - 1 ELSE s IN
  \/ ByteBefore(t, s) \in Alnum
  \/ ByteBefore(t, at) \in Separators /\ ByteBefore(t, at - 1) \in Digits
continues_left(t, s) ==
  LET at == IF ByteBefore(t, s) = Space THEN s - 1 ELSE s IN
  \/ ByteBefore(t, s) \in Alnum \union {Hyphen}
  \/ /\ s > 0 /\ ByteBefore(t, at) \in Separators
     /\ ByteBefore(t, at - 1) \in Digits

(* A span that ends in a marker is refuted by a digit one space away: a marker binds to what follows. *)
continues_right(t, e) ==
  LET next == ByteAfter(t, e)
      beyond == ByteAfter(t, e + 1)
  IN  \/ next \in Alnum
      \/ IF t[e] \notin Digits THEN next = Space /\ beyond \in Digits
         ELSE next \in Separators /\ (IF beyond = Space THEN ByteAfter(t, e + 2) ELSE beyond) \in Digits

(***************************************************************************)
(* to_minor_units: which separator is the decimal mark.  Exactly three     *)
(* digits after the last one are a group, unless the separator before it   *)
(* is another; if it is the only one, that reading was a choice.           *)
(***************************************************************************)
OpensWell(a) == a # <<>> /\ (a[1] \in Digits \/ (a[1] \in Marks /\ Len(a) > 1 /\ a[2] \in Digits))
MarksIn(a) == {i \in DOMAIN a : a[i] \in Marks}
Previous(i, S) == {j \in S : j < i /\ \A k \in S : k < i => k <= j}

IsGroup_NotAlone(a, last) ==                    \* Mutant: the only separator is the decimal mark.
  Len(a) - last = 3 /\ \E j \in Previous(last, MarksIn(a)) : a[j] = a[last]
IsGroup(a, last) == Len(a) - last = 3 /\ \A j \in Previous(last, MarksIn(a)) : a[j] = a[last]
DecimalMark(a) == {i \in MarksIn(a) : (\A j \in MarksIn(a) : j <= i) /\ ~ IsGroup(a, i)}

(* Groups of exactly three digits, the first of one to three, one character between all of them. *)
WellGrouped(a, groups, end) ==
  /\ \A i \in groups : \/ Previous(i, groups) = {} /\ i \in 2..4
                       \/ Previous(i, groups) = {i - 4}
  /\ end - 4 \in groups
  /\ \A i, j \in groups : a[i] = a[j]
  /\ end <= Len(a) => a[end] # a[end - 4]

Minor(units, fraction, exponent) ==
  TrimZeros(SelectSeq(units, LAMBDA v : v \in Digits) \o fraction \o [i \in 1..(exponent - Len(fraction)) |-> 0])

to_minor_units(amount, exponent) ==
  LET a == Drop(amount, Grouping)
      decimal == DecimalMark(a)
      groups == MarksIn(a) \ decimal
      end == IF decimal = {} THEN Len(a) + 1 ELSE CHOOSE i \in decimal : TRUE
      fraction == SubSeq(a, end + 1, Len(a))
  IN  IF /\ OpensWell(a)
         /\ groups = {} \/ WellGrouped(a, groups, end)
         /\ Cardinality({i \in 1..(end - 1) : a[i] \in Digits}) <= 24
         /\ Len(fraction) <= exponent
        THEN {[minor |-> Minor(SubSeq(a, 1, end - 1), fraction, exponent),
               inferred |-> decimal = {} /\ Cardinality(groups) = 1]}
        ELSE {}

Minted(start, end, code, amount) ==
  {[start |-> start, end |-> end, key |-> [code |-> code, minor |-> m.minor, inferred |-> m.inferred]] :
     m \in IF code \in DOMAIN Exponents THEN to_minor_units(amount, Exponents[code]) ELSE {}}

(***************************************************************************)
(* IsoCodeRule::validate.                                                  *)
(***************************************************************************)
TrimBlanks(t) ==
  LET inked == {i \in DOMAIN t : t[i] \notin Blanks}
  IN  IF inked = {} THEN <<>> ELSE SubSeq(t, Min(inked), Max(inked))

ValidateIsoCode(t, s, e, cued) ==
  LET text == TextOf(t, s, e)
      leading == text[1] \in Capitals
      code == IF leading THEN SubSeq(text, 1, 3) ELSE SubSeq(text, Len(text) - 2, Len(text))
      amount == TrimBlanks(IF leading THEN SubSeq(text, 4, Len(text)) ELSE SubSeq(text, 1, Len(text) - 3))
  IN  IF continues_left(t, s) \/ continues_right(t, e) \/ (code \in WordLikeCodes /\ ~ cued)
        THEN {} ELSE Minted(s, e, code, amount)

(***************************************************************************)
(* SymbolRule::validate.  A code beside the sign names the currency before *)
(* the left neighbours are asked; capitals that make no symbol with the    *)
(* sign belong to the word before it, and the span narrows to the sign.    *)
(***************************************************************************)
LeadingCapitals(symbol) ==
  Cardinality({i \in DOMAIN symbol : \A j \in 1..i : symbol[j] \in Capitals})
SignOf(symbol) == SubSeq(symbol, LeadingCapitals(symbol) + 1, Len(symbol))
CodesOf(symbol) == IF symbol \in DOMAIN Symbols THEN Symbols[symbol] ELSE <<>>

code_beside_sign(t, s, symbol) ==
  LET sign_at == s + LeadingCapitals(symbol)
      head == IF ByteBefore(t, sign_at) \in Blanks THEN sign_at - 1 ELSE sign_at
      code == TextOf(t, head - 3, head)
  IN  IF /\ head >= 3
         /\ ToSet(code) \subseteq Capitals
         /\ ByteBefore(t, head - 3) \notin Alnum \union Separators
         /\ code \in ToSet(CodesOf(SignOf(symbol)))
        THEN {[code |-> code, at |-> head - 3]} ELSE {}

FirstDigit(text) == CHOOSE i \in DOMAIN text : text[i] \in Digits /\ \A j \in 1..(i - 1) : text[j] \notin Digits
LastDigit(text) == CHOOSE i \in DOMAIN text : text[i] \in Digits /\ \A j \in (i + 1)..Len(text) : text[j] \notin Digits

ValidateSymbol(t, s, e) ==
  LET text == TextOf(t, s, e)
      leading == text[1] \notin Digits \union Marks
      first == FirstDigit(text)
      split == IF first > 1 /\ text[first - 1] \in Marks THEN first - 2 ELSE first - 1
      symbol == TrimBlanks(IF leading THEN SubSeq(text, 1, split) ELSE SubSeq(text, LastDigit(text) + 1, Len(text)))
      amount == TrimBlanks(IF leading THEN SubSeq(text, split + 1, Len(text)) ELSE SubSeq(text, 1, LastDigit(text)))
      named == IF leading THEN code_beside_sign(t, s, symbol) ELSE {}
      letters == LeadingCapitals(symbol)
  IN  IF continues_right(t, e) THEN {}
      ELSE IF named # {} THEN UNION {Minted(n.at, e, n.code, amount) : n \in named}
      ELSE IF continues_left(t, s) THEN {}
      ELSE IF CodesOf(symbol) # <<>> THEN Minted(s, e, CodesOf(symbol)[1], amount)
      ELSE IF leading /\ letters > 0 /\ ByteBefore(t, s) \notin Alnum /\ CodesOf(SignOf(symbol)) # <<>>
        THEN Minted(s + letters, e, CodesOf(SignOf(symbol))[1], amount)
      ELSE {}

=============================================================================

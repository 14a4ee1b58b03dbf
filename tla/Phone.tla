------------------------------- MODULE Phone -------------------------------
(***************************************************************************)
(* phone.international, src/src/rules/phone.rs: the guards around a number *)
(* and what it is read as.  Which numbers a country issues is the metadata *)
(* of the phonenumber crate.                                               *)
(***************************************************************************)
EXTENDS Texts

CONSTANT Plans      \* calling code |-> [valid, possible], the lengths of its national numbers

PhonePattern ==
  LET body == <<Maybe({Space}), Maybe({Open}), D(1), Times(Digits \union {Space, Open, Close, Dot, Hyphen}, 4, 22), D(1)>>
  IN  {<<One({Plus})>> \o body, Literal(<<0, 0>>) \o body}

CurrencySigns == {Dollar, Euro}
starts_cleanly(t, s) == ByteBefore(t, s) \notin Alnum \union {Percent, Slash, Plus} \union CurrencySigns

(* The first six characters behind the number: a marker, blanks, a digit. *)
ExtensionMarkers == {<<14, 33, 29, Dot>>, <<14, 33, 29>>, <<33>>, <<Hash>>}
extension_follows(t, e) ==
  LET head == TextOf(t, e, Min({e + 6, Len(t)}))
      blanks == Times({Space, Nbsp}, 0, 6)
  IN  Ends(head, {Literal(m) \o <<blanks, D(1)>> : m \in ExtensionMarkers}, 0) # {}

(* A separator with a digit behind it is the same token going on; a blank is not. *)
ends_cleanly(t, e) ==
  IF ByteAfter(t, e) \in Alnum \union {Percent, Plus} \union CurrencySigns THEN extension_follows(t, e)
  ELSE ByteAfter(t, e) \in {Hyphen, Dot, Slash, Open, Close} => ByteAfter(t, e + 1) \notin Digits

(* At most three pairs, none nested, none without a digit. *)
brackets_balance(text) ==
  LET at == SelectSeq([i \in DOMAIN text |-> i], LAMBDA i : text[i] \in {Open, Close})
  IN  /\ Len(at) \in {0, 2, 4, 6}
      /\ \A k \in DOMAIN at : text[at[k]] = (IF k % 2 = 1 THEN Open ELSE Close)
      /\ \A k \in DOMAIN at : k % 2 = 1 => \E i \in at[k]..at[k + 1] : text[i] \in Digits

(* 211-227 (2003 *)
PageRange == <<D(1), Times({Hyphen}, 1, 24), Times(Digits, 1, 5), Times({Space}, 0, 4), One({Open}), D(1)>>
looks_like_page_range(text) == \E p \in DOMAIN text : Ends(text, {PageRange}, p - 1) # {}

(* 2012-01-02 08, and :15 behind it. *)
DateAndHour == <<One({1, 2}), D(3), Maybe({Hyphen}), One({0, 1}), D(1), Maybe({Hyphen}), One(0..3), D(1),
                 Times({Space}, 1, 24), One(0..2), D(1)>>
looks_like_timestamp(t, s, e) ==
  /\ Ends(t, {<<One({Colon}), One(0..5), D(1)>>}, e) # {}
  /\ \E p \in s..e : e \in Ends(t, {DateAndHour}, p)

(***************************************************************************)
(* phonenumber::parse of a number with its country's code, the trunk zero  *)
(* taken off, and what the country's plan says of its length.              *)
(***************************************************************************)
parse(dialled) ==
  {LET rest == SubSeq(dialled, Len(code) + 1, Len(dialled))
   IN  [code |-> code, national |-> IF rest[1] = 0 THEN Tail(rest) ELSE rest] :
     code \in {c \in DOMAIN Plans : Len(c) < Len(dialled) /\ IsPrefix(c, dialled)}}
IsValid(n) == Len(n.national) \in Plans[n.code].valid
MatchesGeneralPattern(n) == Len(n.national) \in Plans[n.code].possible

ValidatePhone(t, s, e) ==
  LET text == TextOf(t, s, e)
      digits == SelectSeq(text, LAMBDA v : v \in Digits)
      plus == text[1] = Plus
  IN  {[start |-> s, end |-> e, key |-> n] :
         n \in {n \in parse(IF plus THEN digits ELSE SubSeq(digits, 3, Len(digits))) :
                  /\ starts_cleanly(t, s) /\ ends_cleanly(t, e)
                  /\ brackets_balance(text) /\ ~ looks_like_page_range(text) /\ ~ looks_like_timestamp(t, s, e)
                  /\ IsValid(n) \/ (plus /\ MatchesGeneralPattern(n))
                  /\ plus \/ digits # text}}

=============================================================================

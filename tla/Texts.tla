------------------------------- MODULE Texts -------------------------------
(***************************************************************************)
(* A fragment as the sequence of its characters, what a validator asks of  *)
(* the neighbours of a span (Candidate of src/src/rules/mod.rs), and the   *)
(* regular expressions the rules propose their candidates with.            *)
(*                                                                         *)
(* A span is the two offsets around it, from 0 to the length.  Digits and  *)
(* capital letters are their base-36 values, as in CheckDigits.            *)
(***************************************************************************)
EXTENDS Integers, SequencesExt

Plus == 36      Star == 37        Space == 38    Hyphen == 39   Dot == 40   Comma == 41
Colon == 42     Slash == 43       Open == 44      Dollar == 45   Euro == 46  Nbsp == 47
Apostrophe == 48  Other == 49     Nothing == 50  Close == 51  Percent == 52  Hash == 53
OpenSquare == 54  CloseSquare == 55  At == 56  Underscore == 57
Degree == 58    Quote == 59       Prime == 110    DoublePrime == 111

Digits == 0..9
Capitals == 10..35
Alnum == 0..35

TextOf(t, s, e) == SubSeq(t, s + 1, e)
ByteBefore(t, s) == IF s = 0 THEN Nothing ELSE t[s]
ByteAfter(t, e) == IF e = Len(t) THEN Nothing ELSE t[e + 1]
Drop(t, marks) ==
  LET kept[i \in 0..Len(t)] ==
        IF i = 0 THEN <<>> ELSE IF t[i] \in marks THEN kept[i - 1] ELSE Append(kept[i - 1], t[i])
  IN  kept[Len(t)]
TrimZeros(digits) ==
  LET nonZero == {i \in DOMAIN digits : digits[i] # 0}
  IN  IF nonZero = {} THEN <<0>> ELSE SubSeq(digits, Min(nonZero), Len(digits))

(***************************************************************************)
(* A pattern is a set of alternatives, an alternative a sequence of items: *)
(* so many characters of a class.  Every pattern modelled prefers its      *)
(* longest match: its items are greedy, and where alternatives share a     *)
(* start the longer one is written first.                                  *)
(***************************************************************************)
Times(class, low, high) == [class |-> class, low |-> low, high |-> high]
One(class) == Times(class, 1, 1)
Mark(v) == One({v})
Maybe(class) == Times(class, 0, 1)
D(n) == Times(Digits, n, n)
L(n) == Times(Capitals, n, n)
X(n) == Times(Alnum, n, n)
Literal(characters) == [i \in DOMAIN characters |-> One({characters[i]})]

Advance(t, item, froms) ==
  UNION {{q \in (p + item.low)..Min({p + item.high, Len(t)}) : \A i \in (p + 1)..q : t[i] \in item.class} :
           p \in froms}

Through(t, items, froms) == FoldLeft(LAMBDA S, item : Advance(t, item, S), froms, items)
Repeated(t, items, froms) == FoldLeft(LAMBDA S, i : S \union Through(t, items, S), froms, t)

Ends(t, alternatives, p) ==
  UNION {Through(t, a, {p}) : a \in alternatives}

=============================================================================

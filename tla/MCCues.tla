------------------------------- MODULE MCCues -------------------------------
(* Every short text around one or two digits, with two-byte characters, breaks and folded lines. *)
EXTENDS Cues, SequencesExt

Characters == {<<"c">>, <<"x">>, <<" ">>, <<"\n">>, <<"lead", Continuation>>}
UpTo(n) == UNION {[1..k -> Characters] : k \in 0..n}
Texts(n) == {FlattenSeq(s) : s \in UpTo(n)}

AroundTwoDigits == {before \o <<"9", "9">> \o after : before \in Texts(4), after \in Texts(2)}
HeaderCharacters == {<<"c">>, <<"x">>, <<" ">>, <<":">>, <<"<">>, <<">">>, <<"lead", Continuation>>}
BehindAHeader == {FlattenSeq(s) \o <<"9">> : s \in UNION {[1..k -> HeaderCharacters] : k \in 0..5}}
ListsBehindAHeader ==
  {<<"c", ":">> \o list \o <<"9">> : list \in UNION {[1..k -> {"x", " ", "<", ">"}] : k \in 0..5}}
Everything == AroundTwoDigits \union BehindAHeader \union ListsBehindAHeader
Word == <<"c">>
=============================================================================

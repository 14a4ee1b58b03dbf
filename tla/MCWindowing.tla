---------------------------- MODULE MCWindowing ----------------------------
(* Documents with one number among cue words, other words, breaks and wide characters. *)
EXTENDS Windowing, SequencesExt

Characters == {<<"c">>, <<"x">>, <<" ">>, <<"\n">>, <<"lead", Continuation>>}
Texts(n) == {FlattenSeq(s) : s \in UNION {[1..k -> Characters] : k \in 0..n}}
Around(number, n) ==
  UNION {{before \o number \o after : before \in {t \in Texts(k) : Len(t) = k},
                                      after \in {t \in Texts(n - k) : Len(t) = n - k}} : k \in 0..n}

Seven == Around(<<"9">>, 6)
Word == <<"c">>
=============================================================================

------------------------------ MODULE MCService ------------------------------
(* Instances of Service for TLC: small limits, short bodies, every way a start can fail. *)
EXTENDS Service

Full == [readable |-> TRUE, parses |-> TRUE, rows |-> 3, empty |-> 1]
OneOff == {[Full EXCEPT !.readable = FALSE], [Full EXCEPT !.parses = FALSE],
           [Full EXCEPT !.empty = 2], [Full EXCEPT !.rows = 1], [Full EXCEPT !.rows = 0, !.empty = 0]}
TwoEntries == [t \in TableNames |-> 2]

Sound(var) == [files |-> [t \in TableNames |-> Full], patternsSound |-> TRUE, bindable |-> TRUE,
               maxBody |-> var]
Number(n) == [kind |-> "number", value |-> n]
Unset == [kind |-> "unset", value |-> 0]
NotUnicode == [kind |-> "not_unicode", value |-> 0]
Garbage == [kind |-> "garbage", value |-> 0]

(* At most one table is not the file it should be. *)
TableFaults ==
  {[Sound(Number(2)) EXCEPT !.files[t] = file] : t \in TableNames, file \in OneOff}
LimitVariants == {Sound(v) : v \in {Unset, NotUnicode, Garbage} \union {Number(n) : n \in {0, 2, 15, 16}}}
OtherFaults == {[Sound(Unset) EXCEPT !.patternsSound = FALSE], [Sound(Unset) EXCEPT !.bindable = FALSE]}

AnyEnvironment == TableFaults \union LimitVariants \union OtherFaults

Get(endpoint, known) == [Unasked EXCEPT !.endpoint = endpoint, !.documented = known]
Post(endpoint, body, text) ==
  [endpoint |-> endpoint, body |-> body, text |-> text, wellFormed |-> TRUE,
   documented |-> TRUE, panics |-> FALSE]

Gets == {Get("health", FALSE), Get("rules", FALSE), Get("rule", TRUE), Get("rule", FALSE)}
Scans == {Post("scan", b, t) : b \in {2, 4}, t \in {1, 2, 3}} \ {Post("scan", 2, 3)}
Posts == Scans \union {Post("explain", 2, 0), [Post("explain", 1, 0) EXCEPT !.documented = FALSE],
                       [Post("scan", 1, 0) EXCEPT !.wellFormed = FALSE],
                       [Post("explain", 1, 0) EXCEPT !.wellFormed = FALSE],
                       [Post("scan", 2, 1) EXCEPT !.panics = TRUE]}

EveryKind == Gets \union Posts
=============================================================================

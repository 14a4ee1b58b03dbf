---------------------------- MODULE DateMachine ----------------------------
(***************************************************************************)
(* src/src/rules/date_machine.rs: the dates of mail headers, of web server *)
(* logs and of ISO weeks.  A name of a day, a month or a zone is a single  *)
(* character here: no pattern matches a part of one.                       *)
(***************************************************************************)
EXTENDS Recognisers

Weekday(n) == 60 + n          \* Mon to Sun
Month(n) == 70 + n            \* Jan to Dec
Zone(n) == 90 + n             \* UT, GMT, EST, EDT, CST, CDT, MST, MDT, PST, PDT
Weekdays == {Weekday(n) : n \in 1..7}
Months == {Month(n) : n \in 1..12}
Zones == {Zone(n) : n \in 1..10}
Words == Weekdays \union Months \union Zones

NumericZone == <<One({Plus, Hyphen}), D(4)>>
Rfc2822Pattern ==
  {<<One(Weekdays), Mark(Comma), Times({Space}, 1, 2), Dd(1, 2), Mark(Space), One(Months), Mark(Space), D(4),
     Mark(Space), D(2), Mark(Colon), D(2)>> \o seconds \o <<Mark(Space)>> \o zone :
       seconds \in {<<>>, <<Mark(Colon), D(2)>>}, zone \in {NumericZone, <<One(Zones)>>}}
ClfPattern ==
  {<<Mark(OpenSquare), D(2), Mark(Slash), One(Months), Mark(Slash), D(4), Mark(Colon), D(2), Mark(Colon), D(2),
     Mark(Colon), D(2), Mark(Space)>> \o NumericZone \o <<Mark(CloseSquare)>>}
IsoWeekPattern ==
  {<<D(4), Mark(Hyphen), C("W"), D(2), Mark(Hyphen), D(1)>>, <<D(4), C("W"), D(3)>>}

InText(rule) == [rule EXCEPT !.before = Alnum \union Words, !.after = Alnum \union Words]
Dated == [
  rfc2822 |-> InText(Fixed("rfc2822", Rfc2822Pattern)),
  clf |-> [Fixed("clf", ClfPattern) EXCEPT !.before = {}, !.after = {}],
  iso_week |-> InText(Fixed("iso_week", IsoWeekPattern))]

(***************************************************************************)
(* The calendar, which jiff computes: days are counted from 1 January 1, a *)
(* Monday; the first week of a year is the one 4 January lies in.          *)
(***************************************************************************)
DayOf(y, m, d) ==
  (y - 1) * 365 + ((y - 1) \div 4) - ((y - 1) \div 100) + ((y - 1) \div 400)
  + SumFunction([n \in 1..(m - 1) |-> DaysIn(y, n)]) + d
WeekdayOf(day) == ((day - 1) % 7) + 1
WeekOne(y) == LET fourth == DayOf(y, 1, 4) IN fourth - (WeekdayOf(fourth) - 1)

PlausibleYears == 1400..2200

(* Minutes east of Greenwich; the two names without a letter of a place are Greenwich. *)
NamedOffsets == <<0, 0, -300, -240, -360, -300, -420, -360, -480, -420>>
zone_offset(text) ==
  LET last == text[Len(text)]
      z == SubSeq(text, Len(text) - 3, Len(text))
      hours == 10 * z[1] + z[2]
      minutes == 10 * z[3] + z[4]
      east == IF text[Len(text) - 4] = Hyphen THEN -1 ELSE 1
  IN  IF last \in Zones THEN {NamedOffsets[last - 90]}
      ELSE IF hours > 18 \/ minutes > 59 THEN {} ELSE {east * (60 * hours + minutes)}

(* Both formats: day, month, year, clock and zone; a weekday that contradicts the date refutes it. *)
Instants(text) ==
  LET at == CHOOSE i \in DOMAIN text : text[i] \in Months
      Digit(from, to) == SelectSeq(SubSeq(text, from, to), IsDigit)
      rest == Digit(at, Len(text))
      year == AsInteger(Slice(rest, 0, 4))
      day == AsInteger(Digit(1, at))
      colons == Len(SelectSeq(SubSeq(text, at + 6, Len(text)), LAMBDA v : v = Colon))
      seconds == text[1] = OpenSquare \/ colons = 2
      clock == <<AsInteger(Slice(rest, 4, 6)), AsInteger(Slice(rest, 6, 8)),
                 IF seconds THEN AsInteger(Slice(rest, 8, 10)) ELSE 0>>
  IN  {[day |-> DayOf(year, text[at] - 70, day), clock |-> clock, offset |-> o, seconds |-> seconds] :
         o \in {o \in zone_offset(text) :
                  /\ year \in PlausibleYears /\ IsRealDate(year, text[at] - 70, day)
                  /\ text[1] \in Weekdays => WeekdayOf(DayOf(year, text[at] - 70, day)) = text[1] - 60
                  /\ clock[1] <= 23 /\ clock[2] <= 59 /\ clock[3] <= 59}}

(* Week 53 exists only in the years that have one. *)
WeekDates(text) ==
  LET d == SelectSeq(text, IsDigit)
      year == AsInteger(Slice(d, 0, 4))
      monday == WeekOne(year) + 7 * (AsInteger(Slice(d, 4, 6)) - 1)
  IN  IF year \in PlausibleYears /\ d[7] \in 1..7 /\ WeekOne(year) <= monday /\ monday < WeekOne(year + 1)
        THEN {[day |-> monday + d[7] - 1]} ELSE {}

(* The brackets of a log line are in the match and not in the span. *)
ValidateDate(rule, t, s, e) ==
  LET text == IF rule = "clf" THEN TextOf(t, s, e - 1) ELSE TextOf(t, s, e)
      inside == IF rule = "clf" THEN 1 ELSE 0
  IN  {[start |-> s + inside, end |-> e - inside, key |-> k] :
         k \in IF ByteBefore(t, s) \in Dated[rule].before \/ ByteAfter(t, e) \in Dated[rule].after THEN {}
               ELSE IF rule = "iso_week" THEN WeekDates(text) ELSE Instants(text)}

=============================================================================

------------------------------ MODULE DateText ------------------------------
(***************************************************************************)
(* The text of a date: to_stream() and from_stream() of                    *)
(* src/src/skal/date.h, the conversions a format is made of.  The          *)
(* conversions that the standard library's locale writes and reads         *)
(* (%a %b %c %p %r %x %X, and all with an E or O modifier but %Ez) are     *)
(* left out.                                                               *)
(*                                                                         *)
(* A text is a sequence of characters: a digit is itself, a punctuation    *)
(* mark one of the numbers below, and so is the abbreviation of a time     *)
(* zone.  A format is a sequence of conversions and of marks that stand    *)
(* for themselves.                                                         *)
(***************************************************************************)
EXTENDS Clock, Sequences
LOCAL INSTANCE SequencesExt

Digit == 0..9
Dash  == 10
Colon == 11
Slash == 12
Point == 13
Plus  == 14
Blank == 15
Newline == 16
Tab   == 17
Zone  == 18

Space == {Blank, Newline, Tab}

Conv(letter) == [conv |-> letter, mark |-> Dash]
Mark(mark)   == [conv |-> "mark", mark |-> mark]

Sun == 0
Mon == 1
Thu == 4

-----------------------------------------------------------------------------
\* Writing

Digits(n) ==
  LET f[k \in Nat] == IF k < 10 THEN <<k>> ELSE Append(f[k \div 10], k % 10)
  IN  f[n]

\* A number in a field of the given width, filled on the left: a minus sign
\* comes after the fill, unless the stream is told to fill inside.
Filled(n, width, fill) ==
  LET text == (IF n < 0 THEN <<Dash>> ELSE <<>>) \o Digits(Magnitude(n))
  IN  [i \in 1..(width - Len(text)) |-> fill] \o text

Right(n, width) == Filled(n, width, 0)

WriteYear(y) ==
  (IF y < 0 THEN <<Dash>> ELSE <<>>) \o Right(Magnitude(y), 4)

\* %C: below year 0, the century rounds away from it.
WriteCentury(y) ==
  IF y >= 0 THEN Right(y \div 100, 2)
            ELSE <<Dash>> \o Right(Quot(-(y - 99), 100), 2)

\* %d and %e
WriteDay(letter, d) == Filled(d, 2, IF letter = "e" THEN Blank ELSE 0)

\* %D and %F
WriteUsDate(ymd) ==
  Right(ymd.m, 2) \o <<Slash>> \o Right(ymd.d, 2) \o <<Slash>>
    \o Right(ymd.y - 100 * Quot(ymd.y, 100), 2)

WriteDate(ymd) ==
  Right(ymd.y, 4) \o <<Dash>> \o Right(ymd.m, 2) \o <<Dash>> \o Right(ymd.d, 2)

\* The first day of the ISO 8601 year y: the Monday that follows the last
\* Thursday of the December before.
IsoStart(y) == YmwLastToDays(YearPlus(y, -1), 12, Thu) + WeekdayMinus(Mon, Thu)

IsoYear_NotBack(z) == FromDays(z + 3).y

\* %g and %G
IsoYear(z) ==
  LET y == FromDays(z + 3).y IN IF z < IsoStart(y) THEN YearPlus(y, -1) ELSE y

\* %H and %I
WriteHours(letter, tod) ==
  Right((IF letter = "I" THEN Make12(tod) ELSE tod).h, 2)

\* %j
DayOfYear(ymd) == ToDays(ymd) - ToDays(Ymd(ymd.y, 1, 1)) + 1

\* %m and %M
WriteMonth(ymd) == Right(ymd.m, 2)

WriteMinutes(tod) == Right(tod.m, 2)

\* %R, %S and %T
WriteHourMinute(tod) == Right(tod.h, 2) \o <<Colon>> \o Right(tod.m, 2)

WriteSeconds(tod) ==
  Right(tod.s, 2) \o (IF Width = 0 THEN <<>>
                                   ELSE <<Point>> \o Right(tod.sub, Width))

WriteTime(tod) ==
  (IF tod.neg THEN <<Dash>> ELSE <<>>) \o WriteHourMinute(tod) \o <<Colon>>
    \o WriteSeconds(tod)

\* %u and %w
WriteIsoWeekday(wd) == Digits(IF wd # 0 THEN wd ELSE 7)

WriteWeekday(wd) == Digits(wd)

\* Weeks are counted from the first Sunday or Monday of January: %U and %W.
WeekOfYear(ymd, first) ==
  LET st == YmwToDays(Ymw(ymd.y, 1, first, 1))
  IN  IF ToDays(ymd) < st THEN 0 ELSE Quot(ToDays(ymd) - st, 7) + 1

WriteSundayWeek(ymd) == Right(WeekOfYear(ymd, Sun), 2)

WriteMondayWeek(ymd) == Right(WeekOfYear(ymd, Mon), 2)

\* %V
IsoWeek(z) == Quot(z - IsoStart(IsoYear(z)), 7) + 1

\* %y and %z; a colon is in the offset, in minutes, when z is modified.
WriteShortYear(y) == Right(Magnitude(y) % 100, 2)

WriteOffset(offset, colon) ==
  LET m == Magnitude(offset)
  IN  <<IF offset < 0 THEN Dash ELSE Plus>> \o Right(m \div 60, 2)
        \o (IF colon THEN <<Colon>> ELSE <<>>) \o Right(m % 60, 2)

\* The conversions of the day z, of its date and of its weekday.
WrittenDate(letter, z, ymd, wd) ==
  CASE letter = "C" -> WriteCentury(ymd.y)
    [] letter \in {"d", "e"} -> WriteDay(letter, ymd.d)
    [] letter = "D" -> WriteUsDate(ymd)
    [] letter = "F" -> WriteDate(ymd)
    [] letter = "g" -> WriteShortYear(IsoYear(z))
    [] letter = "G" -> WriteYear(IsoYear(z))
    [] letter = "j" -> Right(DayOfYear(ymd), 3)
    [] letter = "m" -> WriteMonth(ymd)
    [] letter = "u" -> WriteIsoWeekday(wd)
    [] letter = "U" -> WriteSundayWeek(ymd)
    [] letter = "V" -> Right(IsoWeek(z), 2)
    [] letter = "w" -> WriteWeekday(wd)
    [] letter = "W" -> WriteMondayWeek(ymd)
    [] letter = "y" -> WriteShortYear(ymd.y)
    [] letter = "Y" -> WriteYear(ymd.y)

\* One conversion, of the day z, the time of day tod and the offset from UTC.
Written(item, z, tod, offset) ==
  CASE item.conv = "mark" -> <<item.mark>>
    [] item.conv \in {"H", "I"} -> WriteHours(item.conv, tod)
    [] item.conv = "M" -> WriteMinutes(tod)
    [] item.conv = "n" -> <<Newline>>
    [] item.conv = "R" -> WriteHourMinute(tod)
    [] item.conv = "S" -> WriteSeconds(tod)
    [] item.conv = "t" -> <<Tab>>
    [] item.conv = "T" -> WriteTime(tod)
    [] item.conv \in {"z", "Ez"} -> WriteOffset(offset, item.conv = "Ez")
    [] item.conv = "Z" -> <<Zone>>
    [] OTHER -> WrittenDate(item.conv, z, FromDays(z), WeekdayFromDays(z))

\* format() of a local time: its day is rounded down, the rest is the time.
ToStream(fmt, z, t, offset) ==
  LET day == z + Floor(t, Midnight)
      tod == TimeOfDay(t - Floor(t, Midnight) * Midnight)
  IN  FlattenSeq([i \in DOMAIN fmt |-> Written(fmt[i], day, tod, offset)])

-----------------------------------------------------------------------------
\* Reading

\* The digits at the head of a text, at most max of them.
Leading(text, max) ==
  Max({k \in 0..max : k <= Len(text) /\ \A i \in 1..k : text[i] \in Digit})

Value(digits) == FoldLeft(LAMBDA x, c : 10 * x + c, 0, digits)

\* What a read leaves: the number, the text after it, failbit and eofbit.
Got(val, rest, fail, eof) == [val |-> val, rest |-> rest, fail |-> fail, eof |-> eof]

Drop(text, n) == SubSeq(text, n + 1, Len(text))

\* The stream looks for one more character if it has fewer than max.
ReadUnsigned(text, min, max) ==
  LET n == Leading(text, max)
  IN  Got(Value(SubSeq(text, 1, n)), Drop(text, n), n < min,
          n < max /\ n = Len(text))

ReadSigned(text, min, max) ==
  LET sign == text # <<>> /\ text[1] \in {Dash, Plus}
      got  == ReadUnsigned(IF sign THEN Tail(text) ELSE text, min, max)
  IN  [got EXCEPT !.val = IF sign /\ text[1] = Dash THEN -@ ELSE @]

\* A decimal number of seconds, in max characters with its point, rounded to
\* ticks.  The long double it goes through is exact enough for them.
ReadDecimal(text, max) ==
  LET whole == Leading(text, max)
      point == whole < max /\ whole < Len(text) /\ text[whole + 1] = Point
      rest  == Drop(text, whole + 1)
      parts == IF point THEN Leading(rest, max - whole - 1) ELSE 0
      count == whole + parts + (IF point THEN 1 ELSE 0)
      n     == Value(SubSeq(text, 1, whole) \o SubSeq(rest, 1, parts))
  IN  Got(Round(n * Second, 10 ^ parts), Drop(text, count), count = 0,
          count < max /\ count = Len(text))

\* %n takes one white space character, %t one or none, and a space in the
\* format all there are.
ReadSpace(kind, text) ==
  LET n == Max({k \in 0..Len(text) : \A i \in 1..k : text[i] \in Space})
  IN  CASE kind = "n" -> Got(0, Drop(text, 1), n = 0, text = <<>>)
        [] kind = "t" -> Got(0, Drop(text, Min({n, 1})), FALSE, text = <<>>)
        [] kind = "ws" -> Got(0, Drop(text, n), FALSE, n = Len(text))

\* %Z takes all the characters that the name of a time zone may have.
ReadZone(text) ==
  LET n == Max({k \in 0..Len(text) :
                  \A i \in 1..k : text[i] \in Digit \cup {Dash, Plus, Slash, Zone}})
  IN  Got(n, Drop(text, n), n = 0, n = Len(text))

\* What a conversion reads, in order: a mark, or a number of min to max
\* characters for a field.
ReadMin(kind, field, min, max) ==
  [kind |-> kind, field |-> field, min |-> min, max |-> max, mark |-> Dash]

Read(kind, field, max) == ReadMin(kind, field, 1, max)

ReadMark(mark) == [Read("mark", "", 0) EXCEPT !.mark = mark]

\* %C %D %F %d
DateReads(letter) ==
  CASE letter = "C" -> <<Read("rs", "C", 2)>>
    [] letter = "D" -> <<Read("ru", "m", 2), ReadMark(Slash), Read("ru", "d", 2),
                         ReadMark(Slash), Read("rs", "y", 2)>>
    [] letter = "F" -> <<Read("rs", "Y", 4), ReadMark(Dash), Read("ru", "m", 2),
                         ReadMark(Dash), Read("ru", "d", 2)>>
    [] letter \in {"d", "e"} -> <<Read("rs", "d", 2)>>

\* %H %j %M %m
PartReads(letter) ==
  CASE letter = "H" -> <<Read("ru", "h", 2)>>
    [] letter = "j" -> <<Read("ru", "j", 3)>>
    [] letter = "M" -> <<Read("ru", "min", 2)>>
    [] letter = "m" -> <<Read("rs", "m", 2)>>

\* %R %S %T %Y %y
TimeReads(letter) ==
  LET minutes == <<Read("ru", "h", 2), ReadMark(Colon), Read("ru", "min", 2)>>
      seconds == Read("rld", "s", IF Width = 0 THEN 2 ELSE 3 + Width)
  IN  CASE letter = "R" -> minutes
        [] letter = "S" -> <<seconds>>
        [] letter = "T" -> minutes \o <<ReadMark(Colon), seconds>>
        [] letter = "Y" -> <<Read("rs", "Y", 4)>>
        [] letter = "y" -> <<Read("ru", "y", 2)>>

\* %g %G %U %V %W %u %w
WeekReads(letter) ==
  CASE letter = "G" -> <<Read("rs", "G", 4)>>
    [] letter = "u" -> <<Read("iso", "wd", 1)>>
    [] letter = "w" -> <<Read("ru", "wd", 1)>>
    [] letter \in {"g", "U", "V", "W"} -> <<Read("ru", letter, 2)>>

\* %n %t, and a space that stands for itself
SpaceReads(letter) == <<Read(letter, "space", 0)>>

\* %z %Z
ZoneReads(letter) ==
  CASE letter = "z" -> <<ReadMin("rs", "zh", 2, 2), ReadMin("ru", "zm", 2, 2)>>
    [] letter = "Ez" -> <<Read("rs", "zh", 2), ReadMark(Colon), ReadMin("ru", "zm", 2, 2)>>
    [] letter = "Z" -> <<Read("zone", "Z", 0)>>

Reads(item) ==
  CASE item.conv = "mark" /\ item.mark \in Space -> SpaceReads("ws")
    [] item.conv = "mark" /\ item.mark \notin Space -> <<ReadMark(item.mark)>>
    [] item.conv \in {"C", "D", "F", "d", "e"} -> DateReads(item.conv)
    [] item.conv \in {"H", "j", "M", "m"} -> PartReads(item.conv)
    [] item.conv \in {"R", "S", "T", "Y", "y"} -> TimeReads(item.conv)
    [] item.conv \in {"g", "G", "U", "V", "W", "u", "w"} -> WeekReads(item.conv)
    [] item.conv \in {"n", "t"} -> SpaceReads(item.conv)
    [] item.conv \in {"z", "Ez", "Z"} -> ZoneReads(item.conv)

\* %u counts Sunday as 7.
IsoWeekday(n) == CASE n = 7 -> 0 [] n = 0 -> 7 [] OTHER -> n

ReadField(text, read) ==
  CASE read.kind = "rs"  -> ReadSigned(text, read.min, read.max)
    [] read.kind = "rld" -> ReadDecimal(text, read.max)
    [] read.kind = "ru"  -> ReadUnsigned(text, read.min, read.max)
    [] read.kind = "iso" ->
         [ReadUnsigned(text, read.min, read.max) EXCEPT !.val = IsoWeekday(@)]
    [] read.kind \in {"n", "t", "ws"} -> ReadSpace(read.kind, text)
    [] read.kind = "zone" -> ReadZone(text)

\* The stream and the fields after a read.
Filed(st, read, got) ==
  IF got.fail THEN [st EXCEPT !.fail = TRUE]
  ELSE [st EXCEPT !.rest = got.rest, !.eof = got.eof, !.f[read.field] = got.val]

\* One read.  Nothing is read once the stream has failed, and a read after its
\* end fails, as does a second %Z.
ReadOne(st, read) ==
  CASE st.fail -> st
    [] ~st.fail /\ (st.eof \/ (read.kind = "zone" /\ st.f.Z > 0)) ->
         [st EXCEPT !.fail = TRUE]
    [] ~st.fail /\ ~st.eof /\ read.kind = "mark" ->
         [st EXCEPT !.fail = st.rest = <<>> \/ st.rest[1] # read.mark,
                    !.rest = Drop(@, 1)]
    [] ~st.fail /\ ~st.eof /\ read.kind # "mark" /\ ~(read.kind = "zone" /\ st.f.Z > 0) ->
         Filed(st, read, ReadField(st.rest, read))

\* The fields that were not read.
NotAYear    == -32768
NotACentury == -327
Not2Digits  == 100
NotAWeekday == 7
NotAWeek    == 100

NoFields ==
  [Y |-> NotAYear, C |-> NotACentury, y |-> Not2Digits, m |-> 0, d |-> 0,
   j |-> 0, wd |-> NotAWeekday, h |-> 0, min |-> 0, s |-> 0,
   g |-> Not2Digits, G |-> NotAYear, V |-> NotAWeek, U |-> NotAWeek,
   W |-> NotAWeek, zh |-> 0, zm |-> 0, Z |-> 0, space |-> 0]

ReadAll(fmt, text) ==
  FoldLeft(ReadOne, [rest |-> text, fail |-> FALSE, eof |-> FALSE, f |-> NoFields],
           FlattenSeq([i \in DOMAIN fmt |-> Reads(fmt[i])]))

-----------------------------------------------------------------------------
\* Making one date of the fields that were read

\* The century of a two digit year: read, of the whole year, or of 1969..2068.
Century(C, year, yy) ==
  CASE C # NotACentury -> C
    [] C = NotACentury /\ year = NotAYear -> IF yy >= 69 THEN 19 ELSE 20
    [] C = NotACentury /\ year # NotAYear ->
         Quot(IF year >= 0 THEN year ELSE year - 100, 100)

FullYear(C, yy) ==
  IF C >= 0 THEN 100 * C + yy
            ELSE 100 * (C + 1) - (IF yy = 0 THEN 100 ELSE yy)

\* y and C, then g and C, to whole years.
WithYear(st) ==
  LET C == Century(st.f.C, st.f.Y, st.f.y)
      Y == FullYear(C, st.f.y)
  IN  IF st.f.y = Not2Digits THEN st
      ELSE [st EXCEPT !.f.C = C, !.f.Y = Y,
                      !.fail = \/ st.fail \/ st.f.y \notin 0..99
                               \/ st.f.Y # NotAYear /\ st.f.Y # Y]

WithIsoYear(st) ==
  LET C == Century(st.f.C, st.f.G, st.f.g)
      G == FullYear(C, st.f.g)
  IN  IF st.f.g = Not2Digits THEN st
      ELSE [st EXCEPT !.f.C = C, !.f.G = G,
                      !.fail = \/ st.fail \/ st.f.g \notin 0..99
                               \/ st.f.G # NotAYear /\ st.f.G # G]

\* The month and the day of a date found otherwise, unless the ones that were
\* read differ.
Agreed(st, ymd) ==
  [st EXCEPT !.f.m = IF @ = 0 THEN ymd.m ELSE @,
             !.f.d = IF @ = 0 THEN ymd.d ELSE @,
             !.fail = \/ @
                      \/ st.f.m # 0 /\ UChar(st.f.m) # ymd.m
                      \/ st.f.d # 0 /\ UChar(st.f.d) # ymd.d]

\* From the ISO year, week and weekday.
WithIsoWeek(st) ==
  LET ymd == FromDays(IsoStart(st.f.G) + 7 * (st.f.V - 1)
                        + WeekdayMinus(UChar(st.f.wd), Mon))
  IN  IF st.f.G = NotAYear THEN st
      ELSE [Agreed(st, ymd) EXCEPT
              !.f.Y = IF @ = NotAYear THEN ymd.y ELSE @,
              !.fail = \/ @
                       \/ st.f.V = NotAWeek \/ st.f.wd = NotAWeekday
                       \/ st.f.Y # NotAYear /\ Short(st.f.Y) # ymd.y]

\* From the year and the day of the year.
WithDayOfYear(st) ==
  IF st.f.j = 0 \/ st.f.Y = NotAYear THEN st
  ELSE Agreed(st, FromDays(ToDays(Ymd(st.f.Y, 1, 1)) + st.f.j - 1))

\* From the year, the week counted from the given first weekday, and the
\* weekday.  Week 0 is looked for in the last December: the year then differs.
WithWeek(st, field, first) ==
  LET week == st.f[field]
      wd   == UChar(st.f.wd)
      ymd  == FromDays(IF week = 0
                THEN YmwLastToDays(Short(st.f.Y - 1), 12, wd)
                ELSE YmwToDays(Ymw(st.f.Y, 1, first, 1)) + 7 * (week - 1)
                       + WeekdayMinus(wd, first))
  IN  IF week = NotAWeek \/ st.f.Y = NotAYear THEN st
      ELSE [Agreed(st, ymd) EXCEPT
              !.fail = @ \/ st.f.wd = NotAWeekday \/ Short(st.f.Y) # ymd.y]

\* The date, the time and the offset, with the weekday checked.
Dated(st) ==
  LET ymd == Ymd(st.f.Y, st.f.m, st.f.d)
  IN  [ymd  |-> ymd,
       tod  |-> [TimeOfDay(st.f.h * Hour + st.f.min * Minute) EXCEPT
                   !.s = DecimalSeconds(st.f.s).s, !.sub = DecimalSeconds(st.f.s).sub],
       offset |-> st.f.zh * 60 + st.f.zm,
       fail |-> \/ st.fail
                \/ /\ st.f.wd # NotAWeekday /\ YmdOk(ymd)
                   /\ UChar(st.f.wd) # WeekdayFromDays(ToDays(ymd))]

Resolved(st) ==
  LET iso == WithDayOfYear(WithIsoWeek(WithIsoYear(WithYear(st))))
  IN  Dated(WithWeek(WithWeek(iso, "U", Sun), "W", Mon))

\* The day and the time of it by UTC, if there is one.
TimePoint(got) ==
  LET t == ToDuration(got.tod) - got.offset * Minute
  IN  IF got.fail \/ ~YmdOk(got.ymd) \/ ~InConventionalRange(got.tod)
      THEN [fail |-> TRUE]
      ELSE [fail |-> FALSE, day |-> ToDays(got.ymd) + Floor(t, Midnight),
            time |-> t - Floor(t, Midnight) * Midnight]

\* from_stream() to a time point.
FromStream(fmt, text) == TimePoint(Resolved(ReadAll(fmt, text)))
=============================================================================

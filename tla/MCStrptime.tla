----------------------------- MODULE MCStrptime -------------------------------
(***************************************************************************)
(* Model checking of Strptime.  A call is a format and an input written    *)
(* the way strftime(3) writes the given field values (zero-padded, %e and  *)
(* %k blank-padded), optionally cut short.  What the fields designate is   *)
(* read from the values themselves through the Calendar module, never     *)
(* through the code's own tables.                                          *)
(***************************************************************************)
EXTENDS Strptime, Calendar, TLC

P(x) == <<"%", x>>

\* Two-digit, three-digit or four-digit fields as strftime writes them.
Digits(v, w) == [k \in 1 .. w |-> DigitChar[((v \div (10 ^ (w - k))) % 10) + 1]]

Width == [Y |-> 4, y |-> 2, C |-> 2, m |-> 2, d |-> 2, j |-> 3, U |-> 2,
          W |-> 2, w |-> 1, u |-> 1, H |-> 2, I |-> 2, M |-> 2, S |-> 2]

\* %s: the decimal digits of v >= 0.
RECURSIVE Decimal(_)
Decimal(v) == IF v < 10 THEN <<DigitChar[v + 1]>> ELSE Decimal(v \div 10) \o <<DigitChar[(v % 10) + 1]>>

AbsInt(v) == IF v < 0 THEN -v ELSE v

Field(x, g) ==
  CASE x \in {"e", "k"} -> IF g[x] < 10 THEN <<" ", DigitChar[g[x] + 1]>> ELSE Digits(g[x], 2)
    [] x = "p" -> <<IF g[x] = 12 THEN "PM" ELSE "AM">>
    [] x = "A" -> <<DayName[g[x] + 1]>>
    [] x = "a" -> <<DayAbbr[g[x] + 1]>>
    [] x = "B" -> <<MonName[g[x]]>>
    [] x \in {"b", "h"} -> <<MonAbbr[g[x]]>>
    [] x \in {"n", "t"} -> <<" ">>
    [] x = "%" -> <<"%">>
    [] x = "s" -> (IF g.s < 0 THEN <<"-">> ELSE <<>>) \o Decimal(AbsInt(g.s))
    [] x = "z" -> <<IF g.z < 0 THEN "-" ELSE "+">> \o Digits(AbsInt(g.z), 4)
    [] x = "Z" -> IF g.Z = "" THEN <<>> ELSE <<g.Z>>
    [] x \in DOMAIN Width -> Digits(g[x], Width[x])
    [] OTHER -> <<>>

\* The conversion letters of a format, composites expanded.
RECURSIVE Letters(_)
Letters(f) ==
  IF f = <<>> THEN {}
  ELSE IF f = <<"%">> THEN {"NUL"}
  ELSE IF f[1] # "%" THEN Letters(Tail(f))
  ELSE IF f[2] \in {"E", "O"} THEN Letters(<<"%">> \o Tail(Tail(f)))
  ELSE (IF f[2] \in DOMAIN Expansion THEN Letters(Expansion[f[2]]) ELSE {f[2]})
       \cup Letters(Tail(Tail(f)))

RECURSIVE Render(_, _)
Render(f, g) ==
  IF f = <<>> THEN <<>>
  ELSE IF f[1] # "%" \/ Len(f) < 2 THEN <<f[1]>> \o Render(Tail(f), g)
  ELSE IF f[2] \in {"E", "O"} THEN Render(<<"%">> \o Tail(Tail(f)), g)
  ELSE (IF f[2] \in DOMAIN Expansion THEN Render(Expansion[f[2]], g) ELSE Field(f[2], g))
       \o Render(Tail(Tail(f)), g)

\* All assignments of values to the letters of f.
RECURSIVE Assignments(_, _)
Assignments(L, V) ==
  IF L = {} THEN {[x \in {} |-> 0]}
  ELSE LET x == CHOOSE x \in L : TRUE
       IN {(x :> v) @@ g : v \in V[x], g \in Assignments(L \ {x}, V)}

Givens(f, V) == Assignments(Letters(f) \cap DOMAIN V, V)

\* Whole inputs, and with Cut also every proper prefix of them.
MakeCases(Fs, V, Cut) ==
  UNION {UNION {LET r == Render(f, g)
                IN {[fmt |-> f, buf |-> SubSeq(r, 1, k), vals |-> g, full |-> k = Len(r)] :
                      k \in (IF Cut THEN 0 ELSE Len(r)) .. Len(r)}
                : g \in Givens(f, V)}
         : f \in Fs}

MCInitTm == [year |-> 0, mon |-> 0, mday |-> 0, yday |-> 0, wday |-> 0,
             hour |-> 0, min |-> 0, sec |-> 0, isdst |-> 0]

\* The local zone: Asia/Tokyo, nine hours east of UTC and without daylight
\* saving time since 1951.
MCTzName == <<"JST", "JDT">>
MCUpperWords == {"GMT", "UTC", "JST", "JDT", "EST", "AM", "PM"}

--------------------------------------------------------------------------------
(* The formats and values of the runs.                                     *)

Values ==
  [Y |-> {1900, 2000, 2023, 2024}, y |-> {0, 68, 69, 99}, C |-> {19, 20},
   m |-> {1, 2, 12, 13}, d |-> {1, 29, 31}, e |-> {1, 29, 31},
   j |-> {1, 60, 365, 366}, U |-> {0, 1, 52, 53}, W |-> {0, 1, 52, 53},
   w |-> 0 .. 6, u |-> 1 .. 7, H |-> {0, 23, 24}, k |-> {7, 23},
   I |-> {0, 1, 11, 12}, M |-> {0, 59}, S |-> {0, 60}, p |-> {0, 12},
   a |-> 0 .. 6, A |-> 0 .. 6, b |-> {1, 2, 12}, B |-> {2, 5, 6}, h |-> {5},
   z |-> {0, 530, -330, 1400, -1200, -1300, 1460, 1500},
   Z |-> {"", "GMT", "UTC", "JST", "JDT", "EST", "AM"},
   s |-> {0, -1, 951836400, 2147483647}]

DateFormats ==
  {P("Y") \o <<"-">> \o P("m") \o <<"-">> \o P("d"),
   P("F"),
   P("D"),
   P("Y") \o <<" ">> \o P("j"),
   P("y") \o <<" ">> \o P("j"),
   P("Y") \o <<" ">> \o P("U") \o <<" ">> \o P("w"),
   P("Y") \o <<" ">> \o P("W") \o <<" ">> \o P("u"),
   P("Y") \o <<" ">> \o P("U"),
   P("Y") \o <<" ">> \o P("W"),
   P("C") \o <<" ">> \o P("y") \o <<" ">> \o P("m") \o <<" ">> \o P("e"),
   <<"%", "E", "Y", " ">> \o P("j")}

TimeFormats ==
  {P("I") \o <<":">> \o P("M") \o <<" ">> \o P("p"),
   P("T"),
   P("R") \o P("n") \o P("%"),
   P("k") \o <<":">> \o P("M"),
   P("H") \o P("t") \o P("S"),
   P("Q"),
   P("Y") \o <<"%">>}

\* The conversions that read the locale's names, and its composites.
NameFormats ==
  {P("c"),
   P("A") \o <<" ">> \o P("B") \o <<" ">> \o P("d") \o <<" ">> \o P("Y"),
   P("Y") \o <<" ">> \o P("U") \o <<" ">> \o P("a"),
   <<"%", "O", "B", " ">> \o P("d") \o <<" ">> \o P("Y"),
   P("h") \o <<" ">> \o P("e") \o <<" ">> \o P("y"),
   P("x") \o <<" ">> \o P("r"),
   P("X")}

\* Time zones and the Epoch.
ZoneFormats ==
  {P("Y") \o <<"-">> \o P("m") \o <<"-">> \o P("d") \o <<" ">> \o P("H") \o <<":">>
     \o P("M") \o <<":">> \o P("S") \o <<" ">> \o P("z"),
   P("+"),
   P("s")}

\* ISO 8601 offsets of hours only (+hh), which strftime never writes.
ShortOffset(cs) == [cs EXCEPT !.buf = SubSeq(@, 1, Len(@) - 2)]

\* One value per field, for the inputs cut short.
OneValue ==
  [Values EXCEPT !.Y = {2024}, !.m = {2}, !.d = {29}, !.y = {24}, !.j = {60},
                 !.H = {23}, !.M = {59}, !.S = {60}]

CasesDate ==
  MakeCases(DateFormats, Values, FALSE) \cup
  MakeCases({P("Y") \o <<"-">> \o P("m") \o <<"-">> \o P("d"),
             P("y") \o <<" ">> \o P("j")}, OneValue, TRUE)
CasesTime ==
  MakeCases(TimeFormats, Values, FALSE) \cup
  MakeCases({P("H") \o <<" ">> \o P("M") \o <<" ">> \o P("S")}, OneValue, TRUE)
CasesNames ==
  MakeCases(NameFormats, [Values EXCEPT !.Y = {2023, 2024}, !.y = {24}, !.e = {29},
                                        !.H = {23}, !.M = {59}, !.S = {60}], FALSE) \cup
  MakeCases({P("c")}, [OneValue EXCEPT !.a = {4}, !.b = {2}], TRUE)
CasesZone ==
  MakeCases(ZoneFormats, [Values EXCEPT !.Y = {2023, 2024}, !.m = {1, 2, 12},
                                        !.d = {1, 29, 31}, !.H = {0, 23}, !.M = {0, 59},
                                        !.S = {0, 60}, !.a = {4}, !.b = {2}, !.e = {29}], FALSE) \cup
  {ShortOffset(cs) : cs \in MakeCases({P("F") \o <<"T">> \o P("T") \o P("z")},
                                      [OneValue EXCEPT !.z = {500, -800}], FALSE)}
CasesStrptime == CasesDate \cup CasesTime \cup CasesNames \cup CasesZone
CasesCD == MakeCases({P("C") \o <<" ">> \o P("D")}, [Values EXCEPT !.C = {20}, !.y = {24}, !.m = {2}, !.d = {29}], FALSE)
CasesJ366 == MakeCases({P("Y") \o <<" ">> \o P("j")}, [Values EXCEPT !.Y = {2023}, !.j = {366}], FALSE)
CasesYear0 == MakeCases({P("Y") \o <<" ">> \o P("j")}, [Values EXCEPT !.Y = {0}, !.j = {1}], FALSE)
CasesAmPm == MakeCases({P("p") \o <<" ">> \o P("I")}, [Values EXCEPT !.I = {11}, !.p = {12}], FALSE)

--------------------------------------------------------------------------------
(* What the input designates (strftime's meaning of each field).           *)

\* The call each format and input came from, looked up in a table built once.
CaseTable ==
  [k \in {<<cs.fmt, cs.buf>> : cs \in Cases} |->
     CHOOSE cs \in Cases : <<cs.fmt, cs.buf>> = k]

Given == CaseTable[<<format, input>>]

Ranges ==
  [Y |-> 0 .. 9999, y |-> 0 .. 99, C |-> 0 .. 99, m |-> 1 .. 12, d |-> 1 .. 31,
   e |-> 1 .. 31, j |-> 1 .. 366, U |-> 0 .. 53, W |-> 0 .. 53, w |-> 0 .. 6,
   u |-> 1 .. 7, H |-> 0 .. 23, k |-> 0 .. 23, I |-> 1 .. 12, M |-> 0 .. 59,
   S |-> 0 .. 60, p |-> {0, 12}, a |-> 0 .. 6, A |-> 0 .. 6, b |-> 1 .. 12,
   B |-> 1 .. 12, h |-> 1 .. 12, s |-> Int,
   z |-> {v \in -1200 .. 1400 : AbsInt(v) % 100 < 60},
   Z |-> {"", "GMT", "UTC", MCTzName[1], MCTzName[2]}]

Has(g, x) == x \in DOMAIN g

\* The first of the letters xs that g has a value for, or "none".
Which(g, xs) == IF \E k \in DOMAIN xs : Has(g, xs[k])
                  THEN xs[CHOOSE k \in DOMAIN xs : Has(g, xs[k]) /\ \A j \in 1 .. k - 1 : ~Has(g, xs[j])]
                  ELSE "none"

FullYear(g) ==
  CASE Has(g, "Y") -> g.Y
    [] Has(g, "C") /\ Has(g, "y") -> 100 * g.C + g.y
    [] Has(g, "y") -> IF g.y < 69 THEN 2000 + g.y ELSE 1900 + g.y
    [] Has(g, "C") -> 100 * g.C
    [] OTHER -> -1

MinOfSet(S) == CHOOSE x \in S : \A z \in S : x <= z

\* The day the fields name, or NoDate when they name none or no day.
Designated(g) ==
  LET y == FullYear(g)
      md == IF Has(g, "d") THEN g.d ELSE IF Has(g, "e") THEN g.e ELSE 0
      mx == Which(g, <<"m", "B", "b", "h">>)
      s == IF Has(g, "U") THEN 0 ELSE 1
      k == IF Has(g, "U") THEN g.U ELSE IF Has(g, "W") THEN g.W ELSE 0
      wx == Which(g, <<"w", "u", "A", "a">>)
      wd == IF wx = "none" THEN -1 ELSE g[wx] % 7
      inWeek == {yd \in 0 .. DaysInYear(y) - 1 :
                   /\ WeekNumber([year |-> y, yday |-> yd], s) = k
                   /\ wd # -1 => Weekday([year |-> y, yday |-> yd]) = wd}
  IN CASE y = -1 -> NoDate
       [] mx # "none" /\ md # 0 ->
            IF /\ g[mx] \in 1 .. 12 /\ md \in 1 .. DaysInMonth(y, g[mx] - 1)
               /\ wd # -1 => Weekday(DayOf(y, g[mx] - 1, md)) = wd
              THEN DayOf(y, g[mx] - 1, md) ELSE NoDate
       [] Has(g, "j") ->
            IF g.j \in 1 .. DaysInYear(y) THEN [year |-> y, yday |-> g.j - 1] ELSE NoDate
       [] Has(g, "U") \/ Has(g, "W") ->
            IF inWeek = {} THEN NoDate ELSE [year |-> y, yday |-> MinOfSet(inWeek)]
       [] OTHER -> NoDate

\* A date is asked for: a year with a month and day, a day of the year or
\* a week.
AsksDate(g) ==
  FullYear(g) # -1 /\ (\E x \in {"m", "B", "b", "h", "j", "U", "W"} : Has(g, x))

\* The whole input, every field in range, the format made only of handled
\* conversions, and the date it asks for exists.
Valid(cs) ==
  /\ cs.full
  /\ Letters(cs.fmt) \subseteq Handled
  /\ \A x \in DOMAIN cs.vals : cs.vals[x] \in Ranges[x]
  /\ AsksDate(cs.vals) => Designated(cs.vals) # NoDate

Finished == ret /\ Cur.pc = "done"
Rejected == ret /\ Cur.pc = "fail"

--------------------------------------------------------------------------------
(* Properties.                                                             *)

TypeOK ==
  /\ Len(stack) \in 1 .. 2
  /\ \A k \in 1 .. Len(stack) :
       stack[k].pc \in {"scan", "conv", "call", "century", "yday", "month",
                        "monthscan", "mday", "wday", "done", "fail"}
  /\ tm.mon \in 0 .. 11

\* When _strptime() returns a date that the fields name, its year, day of
\* the year, month, day of the month and day of the week are all that day's
\* (the completion at strptime.c:622-694, first_wday_of and the composite
\* calls).
CompletionCorrect ==
  LET g == Given.vals
      d == Designated(g)
  IN (Finished /\ Given.full /\ ~gmt /\ d # NoDate) =>
       /\ tm.year + 1900 = d.year
       /\ tm.yday = d.yday
       /\ tm.mon = MonthOf(d)
       /\ tm.mday = MdayOf(d)
       /\ tm.wday = Weekday(d)

\* _strptime() never returns NULL for a whole input whose fields are in
\* range and name an existing day (the week-0 checks at 644 and 656).
NeverRejectsValid == Rejected => ~Valid(Given)

\* The time of day parsed is the one written: %H, %k, %I with or without
\* %p (the 12-hour clock at 317-337), %M and %S.
TimeCorrect ==
  LET g == Given.vals
  IN (Finished /\ Given.full /\ ~gmt) =>
       /\ Has(g, "H") => tm.hour = g.H
       /\ Has(g, "k") => tm.hour = g.k
       /\ Has(g, "I") /\ Has(g, "p") =>
            tm.hour = (g.I % 12) + g.p
       /\ Has(g, "I") /\ ~Has(g, "p") => tm.hour = g.I
       /\ Has(g, "M") => tm.min = g.M
       /\ Has(g, "S") => tm.sec = g.S

\* The offset hhmm in minutes.
OffsetMinutes(z) == IF z < 0 THEN -((AbsInt(z) \div 100) * 60 + (AbsInt(z) % 100))
                    ELSE (z \div 100) * 60 + (z % 100)

\* The instant of the written date and time, at offset minutes east of UTC.
WrittenAt(g, offset) ==
  Instant(DayNumber(Designated(g)), 3600 * g.H + 60 * g.M + g.S - 60 * offset)

\* What strptime_bsd() returns for a time given in another zone is that
\* instant in local time: %s seconds since the Epoch, a date and time with
\* a %z offset (taken off tm_hour and tm_min at 604-605, then carried by
\* timegm() across days, months and years) or with %Z GMT or UTC; the
\* local zone's own %Z names only set tm_isdst.
ZoneCorrect ==
  LET g == Given.vals
      dated == Designated(g) # NoDate
  IN (Finished /\ Given.full) =>
       /\ Has(g, "s") => tm = LocalTime(Instant(0, g.s), LocalOffset)
       /\ Has(g, "z") /\ dated =>
            tm = LocalTime(WrittenAt(g, OffsetMinutes(g.z)), LocalOffset)
       /\ Has(g, "Z") /\ g.Z \in {"GMT", "UTC"} /\ dated =>
            tm = LocalTime(WrittenAt(g, 0), LocalOffset)
       /\ Has(g, "Z") /\ g.Z \in {TzName[1], TzName[2]} =>
            tm.isdst = IF g.Z = TzName[1] THEN 0 ELSE 1

\* Every index into start_of_month[leap] stays within its 13 entries (the
\* month search at 669 has no bound of its own).
IndexInBounds == reads \subseteq 0 .. 12

================================================================================

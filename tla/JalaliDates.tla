---------------------------- MODULE JalaliDates ----------------------------
(***************************************************************************)
(* The dates of /market: days are stored as Gregorian dates and shown as   *)
(* Jalali ones (internal/server/jalali.go).  The conversion is integer     *)
(* arithmetic on day numbers; the state walks along the days of the table, *)
(* forwards and backwards.                                                 *)
(***************************************************************************)
EXTENDS Integers, FiniteSetsExt

CONSTANTS FirstYear, LastYear   \* Gregorian years of the walk

ASSUME YearAssumption == FirstYear \in Nat /\ LastYear \in Nat
                         /\ 1600 < FirstYear /\ FirstYear <= LastYear

gDays == <<31, 28, 31, 30, 31, 30, 31, 31, 30, 31, 30, 31>>
jDays == <<31, 31, 31, 31, 31, 31, 30, 30, 30, 30, 30, 29>>

\* Days of the first n months.
DaysOf(months, n) == LET days[i \in 0 .. 12] == IF i = 0 THEN 0 ELSE days[i - 1] + months[i]
                     IN days[n]

IsLeap(y) == (y % 4 = 0 /\ y % 100 # 0) \/ y % 400 = 0

\* gDayNo: days since 1 January 1600.
LeapDays(gY) == (gY + 3) \div 4 - (gY + 99) \div 100 + (gY + 399) \div 400

LeapDayFromFebruary(g) == IF g.m > 1 /\ IsLeap(g.y) THEN 1 ELSE 0   \* mutant: gM > 0
LeapDay(g) == IF g.m > 2 /\ IsLeap(g.y) THEN 1 ELSE 0

DayNumber(g) == 365 * (g.y - 1600) + LeapDays(g.y - 1600)
                    + DaysOf(gDays, g.m - 1) + LeapDay(g) + (g.d - 1)

\* The year: cycles of 33 years, in groups of four whose first year is long.
YearAndDay(n) ==
    LET inCycle == n % 12053
        inGroup == inCycle % 1461
        year == 979 + 33 * (n \div 12053) + 4 * (inCycle \div 1461)
    IN IF inGroup >= 366
       THEN [y |-> year + (inGroup - 1) \div 365, n |-> (inGroup - 1) % 365]
       ELSE [y |-> year, n |-> inGroup]

\* The loop over the first eleven months.
MonthsPassed(n) == Max({0} \cup {i \in 1 .. 11 : DaysOf(jDays, i) <= n})

toJalali(g) == LET yd == YearAndDay(DayNumber(g) - 79)
                   m == MonthsPassed(yd.n)
               IN [y |-> yd.y, m |-> m + 1, d |-> yd.n - DaysOf(jDays, m) + 1]

-----------------------------------------------------------------------------
VARIABLES date,    \* date of the row, as stored
          shown    \* date of the row, as shown

vars == <<date, shown>>

MonthLength(g) == IF g.m = 2 /\ IsLeap(g.y) THEN 29 ELSE gDays[g.m]

Succ(g) == IF g.d < MonthLength(g) THEN [g EXCEPT !.d = @ + 1]
           ELSE IF g.m < 12 THEN [g EXCEPT !.m = @ + 1, !.d = 1]
           ELSE [y |-> g.y + 1, m |-> 1, d |-> 1]

Show(g) == date' = g /\ shown' = toJalali(g)

Init == /\ date = [y |-> FirstYear, m |-> 1, d |-> 1]
        /\ shown = toJalali(date)

Later == Succ(date).y <= LastYear /\ Show(Succ(date))

Earlier == \E g \in [y : {date.y - 1, date.y}, m : {date.m, date.m - 1, 12} \ {0},
                  d : {date.d - 1, 28, 29, 30, 31} \ {0}] :
    /\ g.y >= FirstYear
    /\ g.d <= MonthLength(g)
    /\ Succ(g) = date
    /\ Show(g)

Next == Later \/ Earlier

Spec == Init /\ [][Next]_vars

-----------------------------------------------------------------------------
\* The leap years of the 33-year cycle the Iranian calendar follows.
IsJalaliLeap(y) == y % 33 \in {1, 5, 9, 13, 17, 22, 26, 30}

JalaliLength(j) == IF j.m <= 6 THEN 31
                   ELSE IF j.m <= 11 \/ IsJalaliLeap(j.y) THEN 30
                   ELSE 29

\* What is shown is a date: months of 31 and 30 days, and a last month of 30
\* days in leap years only.
TypeOK == /\ date.m \in 1 .. 12 /\ date.d \in 1 .. MonthLength(date)
          /\ shown.m \in 1 .. 12 /\ shown.d \in 1 .. JalaliLength(shown)

Follows(j, k) == \/ k = [j EXCEPT !.d = @ + 1]
                 \/ j.d = JalaliLength(j) /\ k = [j EXCEPT !.m = @ + 1, !.d = 1]
                 \/ j.d = JalaliLength(j) /\ j.m = 12 /\ k = [y |-> j.y + 1, m |-> 1, d |-> 1]

\* Consecutive rows show consecutive dates: no Jalali date is skipped or shown
\* twice at the end of a month or year of either calendar.
DatesStayConsecutive ==
    [][IF date' = Succ(date) THEN Follows(shown, shown') ELSE Follows(shown', shown)]_vars
=============================================================================

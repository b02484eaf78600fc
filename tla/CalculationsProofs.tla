-------------------------- MODULE CalculationsProofs --------------------------
(***************************************************************************)
(* The bisection of blackscholes.ImpliedVolatility misses no volatility    *)
(* that explains a price, for any grid and any pricing: the bracket keeps  *)
(* all of them, and the iterations suffice to narrow it to one step.       *)
(* The dates of /market follow one another as those of the Jalali calendar *)
(* do, in every year.                                                      *)
(***************************************************************************)
EXTENDS ImpliedVol, JalaliDates, TLAPS

IInv == SolveTypeOK /\ BracketHolds /\ SolvableIsSolved

LEMMA PricingsAreFunctions ==
    ASSUME NEW f \in Curves
    PROVE  /\ f \in [Grid -> 0 .. Spot]
           /\ \A s, t \in Grid : s <= t => f[s] <= f[t]
BY CurvesAssumption

LEMMA InitInv == SolveInit => IInv
<1> SUFFICES ASSUME SolveInit PROVE IInv
  OBVIOUS
<1>1. SolveTypeOK
  BY GridAssumption, WidthAssumption DEF SolveInit, SolveTypeOK, Grid, Prices
<1> QED
  BY <1>1 DEF SolveInit, IInv, BracketHolds, SolvableIsSolved

\* The middle of a bracket is in it, and each half is narrower.
LEMMA MiddleOf ==
    ASSUME NEW a \in Nat, NEW b \in Nat, a <= b, NEW w \in Nat, NEW v \in Nat,
           b - a <= w, 2 * v >= w
    PROVE  LET m == (a + b) \div 2
           IN  /\ m \in Nat /\ a <= m /\ m <= b
               /\ m - a <= v /\ b - m <= v
               /\ b - a <= 1 => m = a
OBVIOUS

LEMMA BracketTyped ==
    ASSUME SolveTypeOK
    PROVE  /\ lo \in Nat /\ lo <= Top /\ hi \in Nat /\ hi <= Top /\ Top \in Nat
           /\ price \in Int /\ tries \in Nat /\ tries <= MaxIterations
           /\ MaxIterations \in Nat /\ MaxIterations > 0
<1>1. Top \in Nat /\ Spot \in Nat /\ MaxIterations \in Nat /\ MaxIterations > 0
  BY GridAssumption, WidthAssumption
<1>2. lo \in 0 .. Top /\ hi \in 0 .. Top /\ price \in 0 .. Spot + 1 /\ tries \in 0 .. MaxIterations
  BY DEF SolveTypeOK, Grid, Prices
<1> QED
  BY <1>1, <1>2

\* A halving that was not close keeps the bracket.
LEMMA NarrowInv == IInv /\ Narrow => BracketHolds'
<1> SUFFICES ASSUME IInv, Narrow PROVE BracketHolds'
  OBVIOUS
<1> DEFINE m == (lo + hi) \div 2
<1>1. /\ pricing \in Curves /\ lo <= hi /\ hi - lo <= Width[tries]
      /\ \A s \in Grid : Close(s) => lo <= s /\ s <= hi
      /\ (lo = 0 /\ tries < MaxIterations) \/ ~ Close(lo)
      /\ hi = Top \/ ~ Close(hi)
  BY DEF IInv, BracketHolds, Narrow
<1>2. /\ lo \in Nat /\ hi \in Nat /\ hi <= Top /\ Top \in Nat /\ price \in Int
      /\ tries \in Nat /\ tries < MaxIterations /\ MaxIterations \in Nat
  BY BracketTyped DEF IInv, Narrow
<1>3. /\ Width[tries] \in Nat /\ Width[tries + 1] \in Nat
      /\ 2 * Width[tries + 1] >= Width[tries]
  BY <1>2, WidthAssumption
<1>4. /\ m \in Nat /\ lo <= m /\ m <= hi
      /\ m - lo <= Width[tries + 1] /\ hi - m <= Width[tries + 1]
      /\ hi - lo <= 1 => m = lo
  BY <1>1, <1>2, <1>3, MiddleOf
<1>5. m \in Grid /\ Mid = m /\ ~ Close(m)
  BY <1>2, <1>4 DEF Grid, Mid, Narrow
<1>6. /\ phase' = "halving" /\ pricing' = pricing /\ price' = price /\ tries' = tries + 1
      /\ \/ pricing[m] > price /\ lo' = lo /\ hi' = m
         \/ ~ (pricing[m] > price) /\ lo' = m /\ hi' = hi
  BY <1>5 DEF Narrow, Halve
<1>7. \A s \in Grid : pricing[s] \in Int /\ (Close(s)' <=> Close(s))
  BY <1>1, <1>6, PricingsAreFunctions, GridAssumption DEF Close
<1>8. tries + 1 = MaxIterations => m = lo
  <2>1. tries + 1 = MaxIterations => tries = MaxIterations - 1
    BY <1>2
  <2>2. Width[MaxIterations - 1] = 1
    BY WidthAssumption
  <2> QED
    BY <1>1, <1>2, <1>4, <2>1, <2>2
<1> HIDE DEF m
<1>9. lo \in Grid /\ hi \in Grid
  BY DEF IInv, SolveTypeOK
<1>10. CASE pricing[m] > price
  <2>1. lo' = lo /\ hi' = m
    BY <1>6, <1>10
  <2>2. ASSUME NEW s \in Grid, Close(s) PROVE s <= m
    <3>1. CASE m <= s
      <4>1. pricing[m] <= pricing[s] /\ pricing[m] \in Int /\ pricing[s] \in Int
        BY <3>1, <1>1, <1>5, <1>7, PricingsAreFunctions
      <4>2. FALSE
        BY <4>1, <2>2, <1>10, <1>5, <1>2, GridAssumption DEF Close
      <4> QED
        BY <4>2
    <3> QED
      BY <3>1, <1>4 DEF Grid
  <2>3. (lo = 0 /\ tries + 1 < MaxIterations) \/ ~ Close(lo)
    BY <1>1, <1>2, <1>5, <1>8
  <2>4. /\ pricing' \in Curves /\ lo' <= hi' /\ hi' - lo' <= Width[tries']
        /\ \A s \in Grid : Close(s)' => lo' <= s /\ s <= hi'
    BY <1>1, <1>4, <1>6, <1>7, <2>1, <2>2
  <2>5. ((lo = 0 /\ tries < MaxIterations) \/ ~ Close(lo))'
    BY <1>6, <1>7, <1>9, <2>1, <2>3 DEF Close
  <2>6. (hi = Top \/ ~ Close(hi))'
    BY <1>5, <1>6, <1>7, <2>1 DEF Close
  <2> QED
    BY <2>4, <2>5, <2>6 DEF BracketHolds
<1>11. CASE ~ (pricing[m] > price)
  <2>1. lo' = m /\ hi' = hi
    BY <1>6, <1>11
  <2>2. ASSUME NEW s \in Grid, Close(s) PROVE m <= s
    <3>1. CASE s <= m
      <4>1. pricing[s] <= pricing[m] /\ pricing[m] \in Int /\ pricing[s] \in Int
        BY <3>1, <1>1, <1>5, <1>7, PricingsAreFunctions
      <4>2. FALSE
        BY <4>1, <2>2, <1>11, <1>5, <1>2, GridAssumption DEF Close
      <4> QED
        BY <4>2
    <3> QED
      BY <3>1, <1>4 DEF Grid
  <2>4. /\ pricing' \in Curves /\ lo' <= hi' /\ hi' - lo' <= Width[tries']
        /\ \A s \in Grid : Close(s)' => lo' <= s /\ s <= hi'
    BY <1>1, <1>4, <1>6, <1>7, <2>1, <2>2
  <2>5. ((lo = 0 /\ tries < MaxIterations) \/ ~ Close(lo))'
    BY <1>5, <1>6, <1>7, <2>1 DEF Close
  <2>6. (hi = Top \/ ~ Close(hi))'
    BY <1>1, <1>6, <1>7, <1>9, <2>1 DEF Close
  <2> QED
    BY <2>4, <2>5, <2>6 DEF BracketHolds
<1> QED
  BY <1>10, <1>11

\* When the iterations are used up, the bracket has no room left.
LEMMA GiveUpInv == IInv /\ GiveUpSolving => ~ Solvable
<1> SUFFICES ASSUME IInv, GiveUpSolving, Solvable PROVE FALSE
  OBVIOUS
<1>1. tries = MaxIterations /\ MaxIterations \in Nat
  <2>1. tries \in Nat /\ tries <= MaxIterations /\ MaxIterations \in Nat
    BY BracketTyped DEF IInv
  <2>2. tries >= MaxIterations
    BY DEF GiveUpSolving
  <2> QED
    BY <2>1, <2>2
<1>2. hi - lo <= 1 /\ ~ Close(lo) /\ (hi = Top \/ ~ Close(hi))
  <2>1. Width[tries] = 1
    BY <1>1, WidthAssumption
  <2> QED
    <3>1. (lo = 0 /\ tries < MaxIterations) \/ ~ Close(lo)
      BY DEF IInv, BracketHolds, GiveUpSolving
    <3>2. hi - lo <= Width[tries] /\ (hi = Top \/ ~ Close(hi))
      BY DEF IInv, BracketHolds, GiveUpSolving
    <3> QED
      BY <1>1, <2>1, <3>1, <3>2
<1>3. PICK s \in 0 .. Top - 1 : Close(s)
  BY DEF Solvable
<1>4. s \in Grid /\ lo \in Int /\ hi \in Int /\ s \in Int /\ s < Top
  BY <1>3, BracketTyped DEF Grid, IInv
<1>5. lo <= s /\ s <= hi
  BY <1>3, <1>4 DEF IInv, BracketHolds, GiveUpSolving
<1>6. s = lo \/ s = hi
  BY <1>2, <1>4, <1>5
<1> QED
  BY <1>2, <1>3, <1>4, <1>6

LEMMA NextType == SolveTypeOK /\ [SolveNext]_solveVars => SolveTypeOK'
<1> SUFFICES ASSUME SolveTypeOK, [SolveNext]_solveVars PROVE SolveTypeOK'
  OBVIOUS
<1>1. ASSUME NEW o \in Option, Quote(o) PROVE price' \in Prices /\ pricing' \in [Grid -> 0 .. Spot]
  BY <1>1, PricingsAreFunctions DEF Quote, Option
<1>0. 0 \in Grid /\ Top \in Grid /\ 0 \in Prices /\ 0 \in 0 .. Spot /\ 0 \in 0 .. MaxIterations
  BY BracketTyped, GridAssumption DEF Grid, Prices
<1>2. ASSUME NEW o \in Option, PassOver(o) PROVE SolveTypeOK'
  BY <1>0, <1>1, <1>2 DEF PassOver, SolveTypeOK
<1>3. ASSUME NEW o \in Option, Bisect(o) PROVE SolveTypeOK'
  BY <1>0, <1>1, <1>3 DEF Bisect, SolveTypeOK
<1>4. CASE Found
  BY <1>4 DEF Found, SolveTypeOK
<1>5. CASE Narrow
  <2>1. Mid \in Grid
    BY BracketTyped, <1>5 DEF Mid, Grid, Narrow
  <2>2. lo' \in Grid /\ hi' \in Grid
    BY <1>5, <2>1 DEF Narrow, Halve, SolveTypeOK
  <2>3. tries' \in 0 .. MaxIterations
    BY <1>5, BracketTyped DEF Narrow
  <2> QED
    BY <1>5, <2>2, <2>3 DEF Narrow, SolveTypeOK
<1>6. CASE GiveUpSolving
  BY <1>6 DEF GiveUpSolving, SolveTypeOK
<1>7. CASE NextOption
  BY <1>0, <1>7 DEF NextOption, SolveTypeOK
<1>8. CASE UNCHANGED solveVars
  BY <1>8 DEF solveVars, SolveTypeOK
<1> QED
  BY <1>2, <1>3, <1>4, <1>5, <1>6, <1>7, <1>8 DEF SolveNext

LEMMA NextInv == IInv /\ [SolveNext]_solveVars => IInv'
<1> SUFFICES ASSUME IInv, [SolveNext]_solveVars PROVE IInv'
  OBVIOUS
<1>1. SolveTypeOK /\ SolveTypeOK'
  BY NextType DEF IInv
<1>2. ASSUME phase' # "halving" PROVE BracketHolds'
  BY <1>2 DEF BracketHolds
<1>3. ASSUME phase' # "done" PROVE SolvableIsSolved'
  BY <1>3 DEF SolvableIsSolved
<1>4. ASSUME NEW o \in Option, PassOver(o) PROVE IInv'
  <2>1. phase' = "done" /\ tries' = 0
    BY <1>4 DEF PassOver
  <2>2. SolvableIsSolved'
    BY <2>1 DEF SolvableIsSolved
  <2> QED
    BY <1>1, <1>2, <2>1, <2>2 DEF IInv
<1>5. ASSUME NEW o \in Option, Bisect(o) PROVE IInv'
  <2>1. pricing' \in Curves
    BY <1>5 DEF Bisect, Quote, Option
  <2>2. Top \in Nat /\ Width[0] = Top /\ 0 < MaxIterations
    BY BracketTyped, <1>1, WidthAssumption
  <2>3. lo' = 0 /\ hi' = Top /\ tries' = 0 /\ phase' = "halving"
    BY <1>5 DEF Bisect
  <2>4. \A s \in Grid : 0 <= s /\ s <= Top
    BY <2>2 DEF Grid
  <2>5. BracketHolds'
    BY <2>1, <2>2, <2>3, <2>4 DEF BracketHolds
  <2> QED
    BY <1>1, <1>3, <2>3, <2>5 DEF IInv
<1>6. CASE Found
  BY <1>1, <1>2, <1>6 DEF IInv, Found, SolvableIsSolved
<1>7. CASE Narrow
  <2>1. phase' = "halving"
    BY <1>7 DEF Narrow
  <2> QED
    BY <1>1, <1>3, <1>7, <2>1, NarrowInv DEF IInv
<1>8. CASE GiveUpSolving
  <2>1. ~ Solvable /\ UNCHANGED <<pricing, price>> /\ phase' = "done"
    BY <1>8, GiveUpInv DEF GiveUpSolving
  <2>2. ~ Solvable'
    BY <2>1 DEF Solvable, Close
  <2> QED
    BY <1>1, <1>2, <2>1, <2>2 DEF IInv, SolvableIsSolved
<1>9. CASE NextOption
  BY <1>1, <1>2, <1>3, <1>9 DEF IInv, NextOption
<1>10. CASE UNCHANGED solveVars
  BY <1>1, <1>10 DEF IInv, solveVars, BracketHolds, SolvableIsSolved, Solvable, Close
<1> QED
  BY <1>4, <1>5, <1>6, <1>7, <1>8, <1>9, <1>10 DEF SolveNext

\* The bracket of the bisection never loses a volatility that explains the
\* price, for every grid, tolerance and non-decreasing pricing.
THEOREM BracketKeeps == SolveSpec => []BracketHolds
<1>1. IInv => BracketHolds
  BY DEF IInv
<1> QED
  BY InitInv, NextInv, <1>1, PTL DEF SolveSpec

\* An option whose price some volatility explains gets one, for every grid,
\* tolerance and non-decreasing pricing: ErrNoConvergence says that none does.
THEOREM SolverIsComplete == SolveSpec => []SolvableIsSolved
<1>1. IInv => SolvableIsSolved
  BY DEF IInv
<1> QED
  BY InitInv, NextInv, <1>1, PTL DEF SolveSpec

-----------------------------------------------------------------------------
(* The dates: a day's number, the shown year and day of the year, and the *)
(* shown month, each followed by the one of the next day.                  *)

\* Days before a month of either calendar.
GDaysBefore == <<0, 31, 59, 90, 120, 151, 181, 212, 243, 273, 304, 334, 365>>
JDaysBefore(m) == IF m <= 6 THEN 31 * m ELSE 186 + 30 * (m - 6)

\* What the loops over the months add up to.
LEMMA DaysAddUp ==
    ASSUME NEW months, NEW t \in [0 .. 12 -> Int], t[0] = 0,
           \A i \in 1 .. 12 : t[i] = t[i - 1] + months[i],
           NEW n \in 0 .. 12
    PROVE  DaysOf(months, n) = t[n]
<1> DEFINE F(s) == [i \in 0 .. 12 |-> IF i = 0 THEN 0 ELSE s[i - 1] + months[i]]
           sum == CHOOSE s : s = F(s)
<1>1. t = F(t)
  OBVIOUS
<1>2. sum = F(sum)
  <2> HIDE DEF F
  <2> QED
    BY <1>1
<1> HIDE DEF sum
<1>3. sum[0] = 0 /\ \A i \in 1 .. 12 : sum[i] = sum[i - 1] + months[i]
  <2>1. \A i \in 0 .. 12 : sum[i] = IF i = 0 THEN 0 ELSE sum[i - 1] + months[i]
    BY <1>2
  <2> QED
    BY <2>1
<1>4. /\ sum[0] = t[0] /\ sum[1] = t[1] /\ sum[2] = t[2] /\ sum[3] = t[3] /\ sum[4] = t[4]
      /\ sum[5] = t[5] /\ sum[6] = t[6] /\ sum[7] = t[7] /\ sum[8] = t[8]
      /\ sum[9] = t[9] /\ sum[10] = t[10] /\ sum[11] = t[11] /\ sum[12] = t[12]
  <2>1. \A i \in 1 .. 12 : sum[i - 1] = t[i - 1] => sum[i] = t[i]
    BY <1>3
  <2>2. sum[0] = t[0]
    BY <1>3
  <2>3. sum[1] = t[1]
    BY <2>1, <2>2
  <2>4. sum[2] = t[2]
    BY <2>1, <2>3
  <2>5. sum[3] = t[3]
    BY <2>1, <2>4
  <2>6. sum[4] = t[4]
    BY <2>1, <2>5
  <2>7. sum[5] = t[5]
    BY <2>1, <2>6
  <2>8. sum[6] = t[6]
    BY <2>1, <2>7
  <2>9. sum[7] = t[7]
    BY <2>1, <2>8
  <2>10. sum[8] = t[8]
    BY <2>1, <2>9
  <2>11. sum[9] = t[9]
    BY <2>1, <2>10
  <2>12. sum[10] = t[10]
    BY <2>1, <2>11
  <2>13. sum[11] = t[11]
    BY <2>1, <2>12
  <2>14. sum[12] = t[12]
    BY <2>1, <2>13
  <2> QED
    BY <2>2, <2>3, <2>4, <2>5, <2>6, <2>7, <2>8, <2>9, <2>10, <2>11, <2>12, <2>13, <2>14
<1>5. sum[n] = t[n]
  BY <1>4
<1>6. DaysOf(months, n) = sum[n]
  BY DEF DaysOf, sum
<1> QED
  BY <1>5, <1>6

\* The months of a Gregorian year that is no leap year.
LEMMA GregorianMonths ==
    /\ \A m \in 0 .. 12 : DaysOf(gDays, m) = GDaysBefore[m + 1] /\ GDaysBefore[m + 1] \in Int
    /\ \A m \in 1 .. 12 : GDaysBefore[m + 1] = GDaysBefore[m] + gDays[m] /\ gDays[m] \in 28 .. 31
    /\ GDaysBefore[1] = 0 /\ GDaysBefore[12] = 334 /\ gDays[2] = 28 /\ gDays[12] = 31
<1>1. \A m \in 1 .. 12 : /\ GDaysBefore[m + 1] = GDaysBefore[m] + gDays[m]
                         /\ GDaysBefore[m] \in Int /\ gDays[m] \in 28 .. 31
  <2> SUFFICES ASSUME NEW m \in 1 .. 12
               PROVE  /\ GDaysBefore[m + 1] = GDaysBefore[m] + gDays[m]
                      /\ GDaysBefore[m] \in Int /\ gDays[m] \in 28 .. 31
    OBVIOUS
  <2>1. \/ m = 1 \/ m = 2 \/ m = 3 \/ m = 4 \/ m = 5 \/ m = 6
        \/ m = 7 \/ m = 8 \/ m = 9 \/ m = 10 \/ m = 11 \/ m = 12
    OBVIOUS
  <2> QED
    BY <2>1 DEF GDaysBefore, gDays
<1>2. /\ GDaysBefore[1] = 0 /\ GDaysBefore[12] = 334 /\ GDaysBefore[13] = 365
      /\ gDays[2] = 28 /\ gDays[12] = 31
  BY DEF GDaysBefore, gDays
<1> DEFINE t == [i \in 0 .. 12 |-> GDaysBefore[i + 1]]
<1>3. /\ t \in [0 .. 12 -> Int] /\ t[0] = 0
      /\ \A i \in 1 .. 12 : t[i] = t[i - 1] + gDays[i]
  <2>1. \A i \in 0 .. 12 : i + 1 \in 1 .. 12 \/ i + 1 = 13
    OBVIOUS
  <2>2. \A i \in 0 .. 12 : GDaysBefore[i + 1] \in Int
    BY <1>1, <1>2, <2>1
  <2>3. \A i \in 1 .. 12 : i - 1 \in 0 .. 12 /\ (i - 1) + 1 = i
    OBVIOUS
  <2> QED
    BY <1>1, <1>2, <2>2, <2>3
<1>4. \A m \in 0 .. 12 : DaysOf(gDays, m) = t[m]
  <2> HIDE DEF t
  <2> QED
    BY <1>3, DaysAddUp
<1> QED
  BY <1>1, <1>2, <1>3, <1>4

\* The months of the Jalali year: six of 31 days, then of 30.
LEMMA JalaliMonths == \A m \in 0 .. 11 : DaysOf(jDays, m) = JDaysBefore(m)
<1> DEFINE t == [i \in 0 .. 12 |-> IF i = 12 THEN 365 ELSE JDaysBefore(i)]
<1>1. /\ t \in [0 .. 12 -> Int] /\ t[0] = 0
      /\ \A i \in 1 .. 12 : t[i] = t[i - 1] + jDays[i]
  <2>1. ASSUME NEW i \in 1 .. 12 PROVE t[i] = t[i - 1] + jDays[i]
    <3>1. \/ i = 1 \/ i = 2 \/ i = 3 \/ i = 4 \/ i = 5 \/ i = 6
          \/ i = 7 \/ i = 8 \/ i = 9 \/ i = 10 \/ i = 11 \/ i = 12
      OBVIOUS
    <3> QED
      BY <3>1 DEF JDaysBefore, jDays
  <2> QED
    BY <2>1 DEF JDaysBefore
<1>2. \A m \in 0 .. 12 : DaysOf(jDays, m) = t[m]
  <2> HIDE DEF t
  <2> QED
    BY <1>1, DaysAddUp
<1> QED
  BY <1>2

\* The leap days counted up to a year.
LEMMA LeapDaysAddUp ==
    ASSUME NEW k \in Nat
    PROVE  /\ LeapDays(k) \in Int
           /\ LeapDays(k + 1) = LeapDays(k) + IF IsLeap(1600 + k) THEN 1 ELSE 0
<1>1. (k + 4) \div 4 = (k + 3) \div 4 + IF k % 4 = 0 THEN 1 ELSE 0
  OBVIOUS
<1>2. (k + 100) \div 100 = (k + 99) \div 100 + IF k % 100 = 0 THEN 1 ELSE 0
  OBVIOUS
<1>3. (k + 400) \div 400 = (k + 399) \div 400 + IF k % 400 = 0 THEN 1 ELSE 0
  OBVIOUS
<1>4. (1600 + k) % 4 = k % 4 /\ (1600 + k) % 100 = k % 100 /\ (1600 + k) % 400 = k % 400
  OBVIOUS
<1>5. (k % 400 = 0 => k % 100 = 0) /\ (k % 100 = 0 => k % 4 = 0)
  OBVIOUS
<1>6. /\ LeapDays(k + 1) = (k + 4) \div 4 - (k + 100) \div 100 + (k + 400) \div 400
      /\ LeapDays(k) = (k + 3) \div 4 - (k + 99) \div 100 + (k + 399) \div 400
  BY DEF LeapDays
<1>7. /\ (k + 3) \div 4 \in Int /\ (k + 99) \div 100 \in Int /\ (k + 399) \div 400 \in Int
  OBVIOUS
<1> QED
  BY <1>1, <1>2, <1>3, <1>4, <1>5, <1>6, <1>7 DEF IsLeap

Day == [y : Int, m : 1 .. 12, d : Int]

\* A date of a calendar's month in a year the conversion starts from or later.
IsDate(g) == g \in Day /\ g.y > 1600 /\ 1 <= g.d /\ g.d <= MonthLength(g)

LEMMA SuccIsADate ==
    ASSUME NEW g, IsDate(g)
    PROVE  IsDate(Succ(g))
<1>1. g \in Day /\ g.y > 1600 /\ 1 <= g.d /\ g.d <= MonthLength(g)
  BY DEF IsDate
<1>2. \A m \in 1 .. 12 : gDays[m] \in 28 .. 31
  BY GregorianMonths
<1>3. \A h \in Day : MonthLength(h) \in Int /\ MonthLength(h) >= 1
  BY <1>2 DEF MonthLength, Day
<1>4. CASE g.d < MonthLength(g)
  <2>1. Succ(g) = [g EXCEPT !.d = @ + 1]
    BY <1>4 DEF Succ
  <2>2. /\ Succ(g) \in Day /\ Succ(g).y = g.y /\ Succ(g).m = g.m /\ Succ(g).d = g.d + 1
    BY <1>1, <2>1 DEF Day
  <2>3. MonthLength(Succ(g)) = MonthLength(g)
    BY <2>2 DEF MonthLength
  <2>4. MonthLength(g) \in Int
    BY <1>1, <1>2 DEF MonthLength, Day
  <2>5. g.d \in Int
    BY <1>1 DEF Day
  <2> QED
    BY <1>1, <1>4, <2>2, <2>3, <2>4, <2>5 DEF IsDate
<1>5. CASE ~ g.d < MonthLength(g) /\ g.m < 12
  <2>1. Succ(g) = [g EXCEPT !.m = @ + 1, !.d = 1]
    BY <1>5 DEF Succ
  <2>2. g.m + 1 \in 1 .. 12
    BY <1>1, <1>5 DEF Day
  <2>3. Succ(g).y = g.y /\ Succ(g).m = g.m + 1 /\ Succ(g).d = 1 /\ g.y \in Int
    BY <1>1, <2>1 DEF Day
  <2>4. Succ(g) \in Day
    <3>1. Succ(g) = [y |-> g.y, m |-> g.m + 1, d |-> 1]
      <4> DEFINE h == [g EXCEPT !.m = g.m + 1]
      <4>1. h \in [y : Int, m : 1 .. 12, d : Int] /\ h.y = g.y /\ h.m = g.m + 1
        BY <1>1, <2>2 DEF Day
      <4>2. Succ(g) = [h EXCEPT !.d = 1]
        BY <2>1
      <4> HIDE DEF h
      <4> QED
        BY <4>1, <4>2
    <3> QED
      BY <2>2, <2>3, <3>1 DEF Day
  <2>5. MonthLength(Succ(g)) >= 1
    BY <1>3, <2>4
  <2> QED
    BY <1>1, <2>3, <2>4, <2>5 DEF IsDate
<1>6. CASE ~ g.d < MonthLength(g) /\ ~ g.m < 12
  <2>1. Succ(g) = [y |-> g.y + 1, m |-> 1, d |-> 1]
    BY <1>6 DEF Succ
  <2>2. Succ(g) \in Day /\ Succ(g).y = g.y + 1 /\ Succ(g).d = 1 /\ g.y \in Int
    BY <1>1, <2>1 DEF Day
  <2>3. MonthLength(Succ(g)) >= 1 /\ Succ(g).y > 1600
    BY <1>1, <1>3, <2>2
  <2> QED
    BY <2>2, <2>3 DEF IsDate
<1> QED
  BY <1>4, <1>5, <1>6

\* The number of the next day is the next number.
LEMMA DayNumbersFollow ==
    ASSUME NEW g, IsDate(g)
    PROVE  DayNumber(g) \in Nat /\ DayNumber(g) >= 365 /\ DayNumber(Succ(g)) = DayNumber(g) + 1
<1>1. g.y \in Int /\ g.m \in 1 .. 12 /\ g.d \in Int /\ g.y > 1600 /\ 1 <= g.d /\ g.d <= MonthLength(g)
  BY DEF IsDate, Day
<1> DEFINE k == g.y - 1600
           leap == IF IsLeap(g.y) THEN 1 ELSE 0
<1>2. /\ LeapDays(k) \in Int /\ LeapDays(k) >= 0
      /\ LeapDays(k + 1) = LeapDays(k) + leap /\ 1600 + k = g.y /\ k >= 1 /\ k \in Nat
  <2>1. k \in Nat /\ k >= 1 /\ 1600 + k = g.y
    BY <1>1
  <2>2. (k + 3) \div 4 - (k + 99) \div 100 + (k + 399) \div 400 >= 0
    BY <2>1
  <2> QED
    BY <2>1, <2>2, LeapDaysAddUp DEF LeapDays
<1>3. /\ \A m \in 1 .. 12 : DaysOf(gDays, m - 1) = GDaysBefore[m] /\ GDaysBefore[m] \in Int
      /\ \A m \in 1 .. 12 : GDaysBefore[m] >= 0
  <2>1. \A m \in 1 .. 12 : m - 1 \in 0 .. 12 /\ (m - 1) + 1 = m
    OBVIOUS
  <2>2. \A m \in 1 .. 12 : GDaysBefore[m] >= 0
    <3>1. ASSUME NEW m \in 1 .. 12 PROVE GDaysBefore[m] >= 0
      <4>1. \/ m = 1 \/ m = 2 \/ m = 3 \/ m = 4 \/ m = 5 \/ m = 6
            \/ m = 7 \/ m = 8 \/ m = 9 \/ m = 10 \/ m = 11 \/ m = 12
        OBVIOUS
      <4> QED
        BY <4>1 DEF GDaysBefore
    <3> QED
      BY <3>1
  <2>3. \A m \in 0 .. 12 : DaysOf(gDays, m) = GDaysBefore[m + 1] /\ GDaysBefore[m + 1] \in Int
    BY GregorianMonths
  <2>4. ASSUME NEW m \in 1 .. 12
        PROVE  DaysOf(gDays, m - 1) = GDaysBefore[m] /\ GDaysBefore[m] \in Int
    <3>1. DaysOf(gDays, m - 1) = GDaysBefore[(m - 1) + 1] /\ GDaysBefore[(m - 1) + 1] \in Int
      BY <2>1, <2>3
    <3> QED
      BY <2>1, <3>1
  <2> QED
    BY <2>2, <2>4
<1>4. /\ \A m \in 1 .. 12 : GDaysBefore[m + 1] = GDaysBefore[m] + gDays[m] /\ gDays[m] \in 28 .. 31
      /\ GDaysBefore[1] = 0 /\ GDaysBefore[12] = 334 /\ gDays[2] = 28 /\ gDays[12] = 31
  BY GregorianMonths
<1>5. DayNumber(g) = 365 * k + LeapDays(k) + GDaysBefore[g.m] + LeapDay(g) + (g.d - 1)
  BY <1>1, <1>3 DEF DayNumber
<1>6. LeapDay(g) = IF g.m > 2 THEN leap ELSE 0
  BY DEF LeapDay
<1>7. MonthLength(g) = gDays[g.m] + IF g.m = 2 THEN leap ELSE 0
  BY <1>1, <1>4 DEF MonthLength
<1>8. DayNumber(g) \in Nat /\ DayNumber(g) >= 365
  <2> HIDE DEF k, leap
  <2>1. GDaysBefore[g.m] \in Int /\ GDaysBefore[g.m] >= 0 /\ LeapDay(g) \in {0, 1}
    BY <1>1, <1>3 DEF LeapDay
  <2> QED
    BY <1>1, <1>2, <1>5, <2>1
<1>9. DayNumber(Succ(g)) = DayNumber(g) + 1
  <2>1. CASE g.d < MonthLength(g)
    <3>1. Succ(g).y = g.y /\ Succ(g).m = g.m /\ Succ(g).d = g.d + 1
      BY <2>1, IsDate(g) DEF Succ, IsDate, Day
    <3>2. DayNumber(Succ(g)) = 365 * k + LeapDays(k) + GDaysBefore[g.m] + LeapDay(g) + g.d
      BY <1>1, <1>3, <3>1 DEF DayNumber, LeapDay
    <3>3. GDaysBefore[g.m] \in Int /\ LeapDay(g) \in Int
      BY <1>1, <1>3 DEF LeapDay
    <3> HIDE DEF k
    <3> QED
      BY <1>1, <1>2, <1>5, <3>2, <3>3
  <2>2. CASE ~ g.d < MonthLength(g) /\ g.m < 12
    <3>1. Succ(g).y = g.y /\ Succ(g).m = g.m + 1 /\ Succ(g).d = 1
      BY <2>2, IsDate(g) DEF Succ, IsDate, Day
    <3>2. g.m + 1 \in 1 .. 12
      BY <1>1, <2>2
    <3>3. LeapDay(Succ(g)) = IF g.m + 1 > 2 THEN leap ELSE 0
      BY <3>1 DEF LeapDay
    <3>4. DayNumber(Succ(g)) = 365 * k + LeapDays(k) + GDaysBefore[g.m + 1] + LeapDay(Succ(g)) + 0
      <4>1. DaysOf(gDays, (g.m + 1) - 1) = GDaysBefore[g.m + 1]
        BY <1>3, <3>2
      <4> QED
        BY <1>1, <3>1, <4>1 DEF DayNumber
    <3>5. GDaysBefore[g.m + 1] = GDaysBefore[g.m] + gDays[g.m] /\ gDays[g.m] \in Int
          /\ GDaysBefore[g.m] \in Int /\ g.d = MonthLength(g) /\ leap \in Int
      BY <1>1, <1>3, <1>4, <1>7, <2>2
    <3> HIDE DEF k, leap
    <3>6. LeapDay(Succ(g)) = LeapDay(g) + IF g.m = 2 THEN leap ELSE 0
      BY <1>1, <1>6, <3>3, <3>5
    <3>7. LeapDay(g) \in Int
      BY <1>6, <3>5
    <3> QED
      BY <1>1, <1>2, <1>5, <1>7, <3>4, <3>5, <3>6, <3>7
  <2>3. CASE ~ g.d < MonthLength(g) /\ ~ g.m < 12
    <3>1. Succ(g) = [y |-> g.y + 1, m |-> 1, d |-> 1] /\ g.m = 12
      BY <1>1, <2>3 DEF Succ
    <3>2. DayNumber(Succ(g)) = 365 * (k + 1) + LeapDays(k + 1)
      <4>1. DaysOf(gDays, 1 - 1) = 0 /\ LeapDay(Succ(g)) = 0 /\ Succ(g).y - 1600 = k + 1
        BY <1>1, <1>3, <1>4, <3>1 DEF LeapDay
      <4>2. LeapDays(k + 1) \in Int
        BY <1>2
      <4> HIDE DEF k
      <4> QED
        BY <1>2, <3>1, <4>1, <4>2 DEF DayNumber
    <3>3. g.d = 31 /\ GDaysBefore[g.m] = 334 /\ LeapDay(g) = leap /\ leap \in Int
      BY <1>1, <1>4, <1>6, <1>7, <2>3, <3>1
    <3> HIDE DEF k, leap
    <3> QED
      BY <1>2, <1>5, <3>2, <3>3
  <2> QED
    BY <2>1, <2>2, <2>3
<1> QED
  BY <1>8, <1>9

\* The last day of a year, counted from nought.
LastDayOf(y) == IF IsJalaliLeap(y) THEN 365 ELSE 364

\* The years follow one another: after a day comes the next of its year, after
\* the last day the first of the next year.
LEMMA YearsFollow ==
    ASSUME NEW n \in Nat
    PROVE  LET j == YearAndDay(n)
           IN  /\ j.y \in Int /\ j.n \in 0 .. LastDayOf(j.y)
               /\ \/ j.n < LastDayOf(j.y) /\ YearAndDay(n + 1) = [y |-> j.y, n |-> j.n + 1]
                  \/ j.n = LastDayOf(j.y) /\ YearAndDay(n + 1) = [y |-> j.y + 1, n |-> 0]
<1> DEFINE c == n \div 12053
           r == n % 12053
           q == r \div 1461
           s == r % 1461
           year == 979 + 33 * c + 4 * q
<1>1. c \in Nat /\ r \in 0 .. 12052 /\ n = 12053 * c + r
  OBVIOUS
<1>2. q \in 0 .. 8 /\ s \in 0 .. 1460 /\ r = 1461 * q + s /\ (q = 8 => s <= 364)
  <2> HIDE DEF r
  <2> QED
    BY <1>1
<1>3. YearAndDay(n) = IF s >= 366 THEN [y |-> year + (s - 1) \div 365, n |-> (s - 1) % 365]
                      ELSE [y |-> year, n |-> s]
  BY DEF YearAndDay
<1>4. \A k \in 0 .. 3 : k = 0 \/ q < 8 => (IsJalaliLeap(year + k) <=> k = 0 /\ q < 8)
  <2> HIDE DEF c, q
  <2> SUFFICES ASSUME NEW k \in 0 .. 3, k = 0 \/ q < 8
               PROVE  IsJalaliLeap(year + k) <=> k = 0 /\ q < 8
    OBVIOUS
  <2>1. (year + k) % 33 = (22 + 4 * q + k) % 33
    <3>1. year + k = 33 * (29 + c) + (22 + 4 * q + k)
      BY <1>1, <1>2
    <3>2. \A a \in Nat, b \in Nat : (33 * a + b) % 33 = b % 33
      OBVIOUS
    <3>3. 29 + c \in Nat /\ 22 + 4 * q + k \in Nat
      BY <1>1, <1>2
    <3> QED
      BY <3>1, <3>2, <3>3
  <2>2. q = 0 \/ q = 1 \/ q = 2 \/ q = 3 \/ q = 4 \/ q = 5 \/ q = 6 \/ q = 7 \/ q = 8
    BY <1>2
  <2>3. (22 + 4 * q + k) % 33 \in {1, 5, 9, 13, 17, 22, 26, 30} <=> k = 0 /\ q < 8
    <3> DEFINE v == 22 + 4 * q + k
    <3>1. v \in 22 .. 57 /\ v % 33 = IF v < 33 THEN v ELSE v - 33
      BY <1>2
    <3>2. v \in {22, 26, 30, 34, 38, 42, 46, 50} <=> k = 0 /\ q < 8
      BY <2>2
    <3> HIDE DEF v
    <3>3. v % 33 \in {1, 5, 9, 13, 17, 22, 26, 30} <=> v \in {22, 26, 30, 34, 38, 42, 46, 50, 55}
      BY <3>1
    <3>4. v # 55
      BY <1>2, k = 0 \/ q < 8 DEF v
    <3> QED
      BY <3>2, <3>3, <3>4 DEF v
  <2> HIDE DEF year
  <2> QED
    BY <2>1, <2>3 DEF IsJalaliLeap
<1>5. CASE r < 12052
  <2>1. (n + 1) \div 12053 = c /\ (n + 1) % 12053 = r + 1
    <3> HIDE DEF c, r
    <3> QED
      BY <1>1, <1>5
  <2>2. CASE s < 1460
    <3>1. (r + 1) \div 1461 = q /\ (r + 1) % 1461 = s + 1
      <4> HIDE DEF r, q, s
      <4> QED
        BY <1>2, <2>2
    <3>2. YearAndDay(n + 1) =
              IF s + 1 >= 366 THEN [y |-> year + s \div 365, n |-> s % 365]
              ELSE [y |-> year, n |-> s + 1]
      <4>1. (s + 1) - 1 = s
        BY <1>2
      <4> HIDE DEF c, q, s
      <4> QED
        BY <2>1, <3>1, <4>1 DEF YearAndDay
    <3>3. CASE s < 366
      <4>1. YearAndDay(n) = [y |-> year, n |-> s]
        BY <1>2, <1>3, <3>3
      <4>2. YearAndDay(n + 1) = IF s = 365 THEN [y |-> year + 1, n |-> 0]
                                ELSE [y |-> year, n |-> s + 1]
        <5>1. s \in Nat /\ (s = 365 => s \div 365 = 1 /\ s % 365 = 0) /\ (s < 365 => ~ s + 1 >= 366)
          BY <1>2
        <5> HIDE DEF year, s
        <5> QED
          BY <3>2, <3>3, <5>1
      <4>3. /\ s = 365 => LastDayOf(year) = 365
            /\ s # 365 => s < LastDayOf(year)
        <5>1. s >= 364 => q < 8
          <6> HIDE DEF q, s, r
          <6> QED
            BY <1>2, <1>5
        <5>2. IsJalaliLeap(year + 0) <=> q < 8
          BY <1>4
        <5>3. year + 0 = year
          BY <1>1, <1>2
        <5> HIDE DEF year, q, s
        <5> QED
          BY <1>2, <3>3, <5>1, <5>2, <5>3 DEF LastDayOf
      <4>4. year \in Int /\ LastDayOf(year) \in Int /\ s \in Nat
        BY <1>1, <1>2 DEF LastDayOf
      <4> HIDE DEF year, s
      <4> QED
        BY <1>2, <4>1, <4>2, <4>3, <4>4
    <3>4. CASE s >= 366
      <4> DEFINE k == (s - 1) \div 365
                 d == (s - 1) % 365
      <4>1. k \in 1 .. 3 /\ d \in 0 .. 364 /\ s - 1 = 365 * k + d
        <5>1. \A t \in 365 .. 1459 : /\ t \div 365 \in 1 .. 3 /\ t % 365 \in 0 .. 364
                                     /\ t = 365 * (t \div 365) + (t % 365)
          <6> TAKE t \in 365 .. 1459
          <6>1. /\ t < 730 => t \div 365 = 1 /\ t % 365 = t - 365
                /\ t >= 730 /\ t < 1095 => t \div 365 = 2 /\ t % 365 = t - 730
                /\ t >= 1095 => t \div 365 = 3 /\ t % 365 = t - 1095
            OBVIOUS
          <6> QED
            BY <6>1
        <5>2. s - 1 \in 365 .. 1459
          <6> HIDE DEF s
          <6> QED
            BY <1>2, <3>4
        <5> QED
          BY <5>1, <5>2
      <4>2. YearAndDay(n) = [y |-> year + k, n |-> d]
        BY <1>3, <3>4
      <4>3. LastDayOf(year + k) = 364
        <5>1. q < 8
          <6> HIDE DEF q, s
          <6> QED
            BY <1>2, <3>4
        <5>2. k \in 0 .. 3 /\ k # 0
          <6> HIDE DEF k
          <6> QED
            BY <4>1
        <5> HIDE DEF year, k, q
        <5> QED
          BY <1>4, <5>1, <5>2 DEF LastDayOf
      <4>4. /\ d < 364 => s \div 365 = k /\ s % 365 = d + 1
            /\ d = 364 => s \div 365 = k + 1 /\ s % 365 = 0
        <5> HIDE DEF k, d, s
        <5> QED
          BY <1>2, <4>1
      <4>5. /\ d < 364 => YearAndDay(n + 1) = [y |-> year + k, n |-> d + 1]
            /\ d = 364 => YearAndDay(n + 1) = [y |-> (year + k) + 1, n |-> 0]
        <5>1. YearAndDay(n + 1) = [y |-> year + s \div 365, n |-> s % 365]
          <6>1. s + 1 >= 366
            BY <1>2, <3>4
          <6> HIDE DEF year, s
          <6> QED
            BY <3>2, <6>1
        <5>2. year + (k + 1) = (year + k) + 1
          <6> HIDE DEF k
          <6> QED
            BY <1>1, <1>2, <4>1
        <5> HIDE DEF year, s, k, d
        <5> QED
          BY <4>4, <5>1, <5>2
      <4>6. year + k \in Int
        <5> HIDE DEF k
        <5> QED
          BY <1>1, <1>2, <4>1
      <4> HIDE DEF year, k, d
      <4> QED
        BY <4>1, <4>2, <4>3, <4>5, <4>6
    <3> QED
      <4>1. s < 366 \/ s >= 366
        BY <1>2
      <4> QED
        BY <3>3, <3>4, <4>1
  <2>3. CASE s = 1460
    <3>1. (r + 1) \div 1461 = q + 1 /\ (r + 1) % 1461 = 0
      <4> HIDE DEF r, q, s
      <4> QED
        BY <1>2, <2>3
    <3>2. YearAndDay(n) = [y |-> year + 3, n |-> 364]
      <4>1. (s - 1) \div 365 = 3 /\ (s - 1) % 365 = 364 /\ s >= 366
        BY <2>3
      <4> HIDE DEF year, s
      <4> QED
        BY <1>3, <4>1
    <3>3. YearAndDay(n + 1) = [y |-> (year + 3) + 1, n |-> 0]
      <4>1. 979 + 33 * c + 4 * (q + 1) = (year + 3) + 1 /\ ~ 0 >= 366
        BY <1>1, <1>2
      <4> DEFINE t == (n + 1) % 12053
      <4>2. t % 1461 = 0 /\ t \div 1461 = q + 1
        BY <2>1, <3>1
      <4>3. YearAndDay(n + 1) = IF t % 1461 >= 366
                                THEN [y |-> 979 + 33 * ((n + 1) \div 12053) + 4 * (t \div 1461)
                                                + ((t % 1461) - 1) \div 365,
                                      n |-> ((t % 1461) - 1) % 365]
                                ELSE [y |-> 979 + 33 * ((n + 1) \div 12053) + 4 * (t \div 1461),
                                      n |-> t % 1461]
        BY DEF YearAndDay
      <4> HIDE DEF c, q, r, s, t, year
      <4> QED
        BY <2>1, <4>1, <4>2, <4>3
    <3>4. LastDayOf(year + 3) = 364
      <4>1. q < 8
        <5> HIDE DEF q, s
        <5> QED
          BY <1>2, <2>3
      <4> HIDE DEF year, q
      <4> QED
        BY <1>4, <4>1 DEF LastDayOf
    <3>5. year + 3 \in Int
      BY <1>1, <1>2
    <3> HIDE DEF year
    <3> QED
      BY <3>2, <3>3, <3>4, <3>5
  <2> QED
    <3>1. s < 1460 \/ s = 1460
      BY <1>2
    <3> QED
      BY <2>2, <2>3, <3>1
<1>6. CASE r = 12052
  <2>1. (n + 1) \div 12053 = c + 1 /\ (n + 1) % 12053 = 0
    <3> HIDE DEF c, r
    <3> QED
      BY <1>1, <1>6
  <2>2. q = 8 /\ s = 364
    BY <1>6
  <2>3. YearAndDay(n) = [y |-> year, n |-> 364]
    <3>1. ~ s >= 366
      BY <2>2
    <3> HIDE DEF year, s
    <3> QED
      BY <1>3, <2>2, <3>1
  <2>4. YearAndDay(n + 1) = [y |-> year + 1, n |-> 0]
    <3>1. 979 + 33 * (c + 1) + 4 * 0 = year + 1
      BY <1>1, <2>2
    <3>2. 0 % 1461 = 0 /\ 0 \div 1461 = 0 /\ ~ 0 >= 366
      OBVIOUS
    <3> HIDE DEF c, r, q, year
    <3> QED
      BY <2>1, <3>1, <3>2 DEF YearAndDay
  <2>5. LastDayOf(year) = 364
    <3>1. ~ q < 8
      BY <2>2
    <3>2. IsJalaliLeap(year + 0) <=> q < 8
      BY <1>4
    <3>3. year + 0 = year
      BY <1>1, <1>2
    <3> HIDE DEF year, q
    <3> QED
      BY <3>1, <3>2, <3>3 DEF LastDayOf
  <2>6. year \in Int
    BY <1>1, <1>2
  <2> HIDE DEF year
  <2> QED
    BY <2>3, <2>4, <2>5, <2>6
<1> QED
  <2>1. r < 12052 \/ r = 12052
    BY <1>1
  <2> QED
    BY <1>5, <1>6, <2>1

\* The loop stops after the months that are over.
LEMMA MonthsAreCounted ==
    ASSUME NEW n \in 0 .. 365
    PROVE  LET m == MonthsPassed(n)
           IN  /\ m \in 0 .. 11 /\ JDaysBefore(m) <= n
               /\ m < 11 => n < JDaysBefore(m + 1)
<1> DEFINE S == {0} \cup {i \in 1 .. 11 : DaysOf(jDays, i) <= n}
           k == IF n < 186 THEN n \div 31 ELSE IF n < 336 THEN 6 + (n - 186) \div 30 ELSE 11
<1>1. k \in 0 .. 11 /\ JDaysBefore(k) <= n /\ (k < 11 => n < JDaysBefore(k + 1))
  BY DEF JDaysBefore
<1>2. \A i \in 0 .. 11 : i > k => JDaysBefore(i) > n
  BY <1>1 DEF JDaysBefore
<1>3. \A i \in 1 .. 11 : DaysOf(jDays, i) = JDaysBefore(i)
  BY JalaliMonths
<1> HIDE DEF k
<1>4. k \in S /\ \A i \in S : i <= k
  <2>1. \A i \in 0 .. 11 : JDaysBefore(i) \in Int
    BY DEF JDaysBefore
  <2>2. k = 0 \/ k \in 1 .. 11
    BY <1>1
  <2>3. k \in S
    BY <1>1, <1>3, <2>2
  <2>4. ASSUME NEW i \in 1 .. 11, DaysOf(jDays, i) <= n PROVE i <= k
    <3>1. JDaysBefore(i) <= n /\ JDaysBefore(i) \in Int
      BY <1>3, <2>1, <2>4
    <3>2. ~ i > k
      BY <1>2, <3>1
    <3> QED
      BY <1>1, <3>2
  <2>5. 0 <= k
    BY <1>1
  <2> QED
    BY <2>3, <2>4, <2>5
<1>5. MonthsPassed(n) = CHOOSE x \in S : \A y \in S : x >= y
  BY DEF MonthsPassed, Max
<1>6. S \subseteq Int
  OBVIOUS
<1> HIDE DEF S
<1>7. MonthsPassed(n) = k
  <2>1. \E x \in S : \A z \in S : x >= z
    <3>1. \A z \in S : k >= z
      BY <1>4, <1>6
    <3> QED
      BY <1>4, <3>1
  <2>2. MonthsPassed(n) \in S /\ \A z \in S : MonthsPassed(n) >= z
    BY <1>5, <2>1
  <2>3. MonthsPassed(n) \in Int /\ k \in Int
    BY <1>4, <1>6, <2>2
  <2>4. MonthsPassed(n) <= k
    BY <1>4, <2>2
  <2>5. MonthsPassed(n) >= k
    BY <1>4, <2>2
  <2> QED
    BY <2>3, <2>4, <2>5
<1> QED
  BY <1>1, <1>7

\* The shown date of the day with this number.
Shown(n) == LET yd == YearAndDay(n)
                m == MonthsPassed(yd.n)
            IN  [y |-> yd.y, m |-> m + 1, d |-> yd.n - DaysOf(jDays, m) + 1]

JalaliDay == [y : Int, m : 1 .. 12, d : Int]

LEMMA ShownDatesFollow ==
    ASSUME NEW n \in Nat
    PROVE  /\ Shown(n) \in JalaliDay /\ 1 <= Shown(n).d /\ Shown(n).d <= JalaliLength(Shown(n))
           /\ Follows(Shown(n), Shown(n + 1))
<1> DEFINE y == YearAndDay(n).y
           i == YearAndDay(n).n
           m == MonthsPassed(i)
<1>1. y \in Int /\ i \in 0 .. LastDayOf(y) /\ LastDayOf(y) \in 364 .. 365
  <2>1. y \in Int /\ i \in 0 .. LastDayOf(y)
    BY YearsFollow
  <2> QED
    BY <2>1 DEF LastDayOf
<1>2. /\ m \in 0 .. 11 /\ JDaysBefore(m) <= i /\ (m < 11 => i < JDaysBefore(m + 1))
  <2>1. i \in 0 .. 365
    BY <1>1
  <2> HIDE DEF i
  <2> QED
    BY <2>1, MonthsAreCounted
<1>3. Shown(n) = [y |-> y, m |-> m + 1, d |-> i - JDaysBefore(m) + 1]
  BY <1>2, JalaliMonths DEF Shown
<1>4. \A j \in Int, k \in 0 .. 11 :
          JalaliLength([y |-> y, m |-> k + 1, d |-> j]) =
              IF k = 11 THEN LastDayOf(y) - 335 ELSE JDaysBefore(k + 1) - JDaysBefore(k)
  BY DEF JalaliLength, JDaysBefore, LastDayOf
<1>5. JalaliLength(Shown(n)) = IF m = 11 THEN LastDayOf(y) - 335
                               ELSE JDaysBefore(m + 1) - JDaysBefore(m)
  <2> DEFINE j == i - JDaysBefore(m) + 1
  <2>1. j \in Int
    BY <1>1, <1>2 DEF JDaysBefore
  <2>2. Shown(n) = [y |-> y, m |-> m + 1, d |-> j]
    BY <1>3
  <2> HIDE DEF y, i, m, j
  <2>3. JalaliLength([y |-> y, m |-> m + 1, d |-> j]) =
            IF m = 11 THEN LastDayOf(y) - 335 ELSE JDaysBefore(m + 1) - JDaysBefore(m)
    BY <1>2, <1>4, <2>1
  <2> QED
    BY <2>2, <2>3
<1>6. /\ \A k \in 0 .. 12 : JDaysBefore(k) \in Int
      /\ JDaysBefore(11) = 336 /\ JDaysBefore(0) = 0
  BY DEF JDaysBefore
<1>7. /\ Shown(n) \in JalaliDay /\ 1 <= Shown(n).d /\ Shown(n).d <= JalaliLength(Shown(n))
  <2>1. /\ i - JDaysBefore(m) + 1 \in Int /\ 1 <= i - JDaysBefore(m) + 1 /\ m + 1 \in 1 .. 12
        /\ i - JDaysBefore(m) + 1 <= IF m = 11 THEN LastDayOf(y) - 335
                                     ELSE JDaysBefore(m + 1) - JDaysBefore(m)
    <3> HIDE DEF y, i, m
    <3>1. JDaysBefore(m) \in Int /\ (m < 11 => JDaysBefore(m + 1) \in Int)
      BY <1>2, <1>6
    <3> QED
      BY <1>1, <1>2, <1>6, <3>1
  <2> HIDE DEF y, i, m
  <2> QED
    BY <1>1, <1>3, <1>5, <2>1 DEF JalaliDay
<1>8. CASE i < LastDayOf(y) /\ YearAndDay(n + 1) = [y |-> y, n |-> i + 1]
  <2> DEFINE k == MonthsPassed(i + 1)
  <2>1. /\ k \in 0 .. 11 /\ JDaysBefore(k) <= i + 1 /\ (k < 11 => i + 1 < JDaysBefore(k + 1))
    <3>1. i + 1 \in 0 .. 365
      BY <1>1, <1>8
    <3> HIDE DEF i
    <3> QED
      BY <3>1, MonthsAreCounted
  <2>2. Shown(n + 1) = [y |-> y, m |-> k + 1, d |-> (i + 1) - JDaysBefore(k) + 1]
    <3> HIDE DEF y, i
    <3> QED
      BY <1>8, <2>1, JalaliMonths DEF Shown
  <2>3. k = m \/ (k = m + 1 /\ i + 1 = JDaysBefore(m + 1))
    <3> HIDE DEF y, i, m, k
    <3> QED
      BY <1>1, <1>2, <2>1 DEF JDaysBefore
  <2>4. CASE k = m
    <3>1. (i + 1) - JDaysBefore(m) + 1 = (i - JDaysBefore(m) + 1) + 1
      BY <1>1, <1>2, <1>6
    <3> HIDE DEF y, i, m, k
    <3> QED
      BY <1>3, <2>2, <2>4, <3>1, <1>7 DEF Follows
  <2>5. CASE k = m + 1 /\ i + 1 = JDaysBefore(m + 1)
    <3>1. /\ (i + 1) - JDaysBefore(k) + 1 = 1 /\ m # 11
          /\ i - JDaysBefore(m) + 1 = JDaysBefore(m + 1) - JDaysBefore(m)
      <4> HIDE DEF y, i, m, k
      <4>1. JDaysBefore(m) \in Int /\ JDaysBefore(m + 1) \in Int /\ JDaysBefore(k) \in Int
        BY <1>2, <1>6, <2>1, <2>5
      <4> QED
        BY <1>1, <1>2, <2>1, <2>5, <4>1
    <3> HIDE DEF y, i, m, k
    <3>2. Shown(n).d = JalaliLength(Shown(n))
      BY <1>3, <1>5, <3>1
    <3>3. Shown(n + 1) = [Shown(n) EXCEPT !.m = @ + 1, !.d = 1]
      <4>1. Shown(n + 1) = [y |-> y, m |-> (m + 1) + 1, d |-> 1]
        BY <2>2, <2>5, <3>1
      <4> DEFINE h == [y |-> y, m |-> (m + 1) + 1, d |-> i - JDaysBefore(m) + 1]
      <4>2. h = [Shown(n) EXCEPT !.m = @ + 1]
        BY <1>3
      <4>3. Shown(n + 1) = [h EXCEPT !.d = 1]
        BY <4>1
      <4> HIDE DEF h
      <4> QED
        BY <4>2, <4>3
    <3>4. Follows(Shown(n), Shown(n + 1))
      BY <3>2, <3>3 DEF Follows
    <3> QED
      BY <1>7, <3>4
  <2> QED
    BY <2>3, <2>4, <2>5
<1>9. CASE i = LastDayOf(y) /\ YearAndDay(n + 1) = [y |-> y + 1, n |-> 0]
  <2>1. m = 11
    <3> HIDE DEF y, i, m
    <3> QED
      BY <1>1, <1>2, <1>9 DEF JDaysBefore
  <2>2. MonthsPassed(0) = 0
    <3> DEFINE k == MonthsPassed(0)
    <3>1. k \in 0 .. 11 /\ JDaysBefore(k) <= 0
      BY MonthsAreCounted
    <3> HIDE DEF k
    <3>2. k = 0
      BY <3>1 DEF JDaysBefore
    <3> QED
      BY <3>2 DEF k
  <2>3. Shown(n + 1) = [y |-> y + 1, m |-> 1, d |-> 1]
    <3> HIDE DEF y
    <3> QED
      BY <1>6, <1>9, <2>2, JalaliMonths DEF Shown
  <2>4. i - JDaysBefore(m) + 1 = LastDayOf(y) - 335
    <3> HIDE DEF y, i, m
    <3> QED
      BY <1>1, <1>6, <1>9, <2>1
  <2> HIDE DEF y, i, m
  <2> QED
    BY <1>3, <1>5, <2>1, <2>3, <2>4, <1>7 DEF Follows
<1>10. \/ i < LastDayOf(y) /\ YearAndDay(n + 1) = [y |-> y, n |-> i + 1]
       \/ i = LastDayOf(y) /\ YearAndDay(n + 1) = [y |-> y + 1, n |-> 0]
  BY YearsFollow
<1> QED
  BY <1>7, <1>8, <1>9, <1>10

LEMMA ToJalaliIsShown ==
    ASSUME NEW g
    PROVE  toJalali(g) = Shown(DayNumber(g) - 79)
BY DEF toJalali, Shown

\* The date is a date and shown as the table shows it.
DateInv == IsDate(date) /\ shown = toJalali(date)

LEMMA InitDates == Init => DateInv
<1> SUFFICES ASSUME Init PROVE DateInv
  OBVIOUS
<1>1. date \in Day /\ date.y = FirstYear /\ date.m = 1 /\ date.d = 1
  BY YearAssumption DEF Init, Day
<1>2. MonthLength(date) \in Int /\ MonthLength(date) >= 1
  BY <1>1, GregorianMonths DEF MonthLength
<1> QED
  BY <1>1, <1>2, YearAssumption DEF Init, DateInv, IsDate

LEMMA DatesStep ==
    ASSUME DateInv, Next
    PROVE  /\ DateInv'
           /\ IF date' = Succ(date) THEN Follows(shown, shown') ELSE Follows(shown', shown)
<1>1. ASSUME NEW g, IsDate(g)
      PROVE  Follows(toJalali(g), toJalali(Succ(g)))
  <2>1. /\ DayNumber(g) \in Nat /\ DayNumber(g) >= 365 /\ DayNumber(Succ(g)) = DayNumber(g) + 1
    BY <1>1, DayNumbersFollow
  <2>2. DayNumber(g) - 79 \in Nat /\ DayNumber(Succ(g)) - 79 = (DayNumber(g) - 79) + 1
    BY <2>1
  <2> QED
    BY <2>2, ShownDatesFollow, ToJalaliIsShown
<1>2. CASE Later
  BY <1>1, <1>2, SuccIsADate DEF DateInv, Later, Show
<1>3. CASE Earlier
  <2>1. PICK g \in [y : {date.y - 1, date.y}, m : {date.m, date.m - 1, 12} \ {0},
                    d : {date.d - 1, 28, 29, 30, 31} \ {0}] :
            g.y >= FirstYear /\ g.d <= MonthLength(g) /\ Succ(g) = date /\ Show(g)
    BY <1>3 DEF Earlier
  <2>2. date.y \in Int /\ date.m \in 1 .. 12 /\ date.d \in Int /\ date.d >= 1
    BY DEF DateInv, IsDate, Day
  <2>3. g.y \in Int /\ g.m \in 1 .. 12 /\ g.d \in Int /\ g.d >= 1
    BY <2>1, <2>2
  <2>4. g \in Day
    BY <2>1, <2>3 DEF Day
  <2>5. IsDate(g)
    BY <2>1, <2>3, <2>4, YearAssumption DEF IsDate
  <2> QED
    BY <1>1, <2>1, <2>5 DEF DateInv, Show
<1> QED
  BY <1>2, <1>3 DEF Next

LEMMA DatesAlwaysShown == Spec => []DateInv
<1>1. ASSUME DateInv, [Next]_vars PROVE DateInv'
  <2>1. CASE Next
    BY <1>1, <2>1, DatesStep
  <2>2. CASE UNCHANGED vars
    BY <1>1, <2>2 DEF vars, DateInv
  <2> QED
    BY <1>1, <2>1, <2>2
<1> QED
  BY <1>1, InitDates, PTL DEF Spec

\* Consecutive rows show consecutive dates in every year the page can be asked
\* for: at the end of every month and year of either calendar, toJalali neither
\* skips a date nor shows one twice.
THEOREM DatesFollow == Spec => DatesStayConsecutive
<1>1. ASSUME DateInv, [Next]_vars
      PROVE  [IF date' = Succ(date) THEN Follows(shown, shown') ELSE Follows(shown', shown)]_vars
  <2>1. CASE Next
    BY <1>1, <2>1, DatesStep
  <2>2. CASE UNCHANGED vars
    BY <2>2
  <2> QED
    BY <1>1, <2>1, <2>2
<1> QED
  BY <1>1, DatesAlwaysShown, PTL DEF Spec, DatesStayConsecutive

\* What toJalali shows is a date of the calendar: the last month has its 30th
\* day in a leap year of the 33-year cycle only.
THEOREM ShownIsADate == Spec => []TypeOK
<1>1. ASSUME DateInv PROVE TypeOK
  <2>1. IsDate(date) /\ shown = Shown(DayNumber(date) - 79)
    BY <1>1, ToJalaliIsShown DEF DateInv
  <2>2. DayNumber(date) - 79 \in Nat
    BY <2>1, DayNumbersFollow
  <2>3. /\ shown \in JalaliDay /\ 1 <= shown.d /\ shown.d <= JalaliLength(shown)
    BY <2>1, <2>2, ShownDatesFollow
  <2>4. /\ date \in Day /\ 1 <= date.d /\ date.d <= MonthLength(date)
    BY <2>1 DEF IsDate
  <2>5. MonthLength(date) \in Int /\ JalaliLength(shown) \in Int
    BY <2>4, GregorianMonths DEF MonthLength, JalaliLength, Day
  <2> QED
    BY <2>3, <2>4, <2>5 DEF TypeOK, JalaliDay, Day
<1> QED
  BY <1>1, DatesAlwaysShown, PTL
=============================================================================

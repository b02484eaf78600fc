----------------------------- MODULE ImpliedVol -----------------------------
(***************************************************************************)
(* The implied volatilities of the page: the loop of                       *)
(* internal/ivcalc/engine.go over the options of the feed, and the         *)
(* bisection of internal/blackscholes/blackscholes.go.                     *)
(*                                                                         *)
(* Volatilities are the points 0 .. Top of a grid, from minSigma to        *)
(* maxSigma. CallPrice is any non-decreasing function of the volatility    *)
(* below the spot (Curves). Prices are whole multiples of a step, in which *)
(* Tolerance is priceTolerance and Slack is boundsTolerance.               *)
(***************************************************************************)
EXTENDS Integers

CONSTANTS Top, Spot, Curves,
          Tolerance, Slack,
          MaxIterations,
          Width,       \* Width[i] bounds the bracket after i halvings
          MinDays

Grid == 0 .. Top
Prices == 0 .. Spot + 1

ASSUME GridAssumption == /\ Top \in Nat \ {0} /\ Spot \in Nat /\ MinDays \in Nat
                         /\ Tolerance \in Nat \ {0} /\ Slack \in Nat
ASSUME CurvesAssumption ==
    \A f \in Curves : /\ f \in [Grid -> 0 .. Spot]
                      /\ \A s, t \in Grid : s <= t => f[s] <= f[t]
\* As many halvings as are tried, but one, leave one step of the grid.
ASSUME WidthAssumption ==
    /\ MaxIterations \in Nat \ {0} /\ Width \in [0 .. MaxIterations -> Nat]
    /\ Width[0] = Top /\ Width[MaxIterations - 1] = 1 /\ Width[MaxIterations] = 1
    /\ \A i \in 0 .. MaxIterations - 1 : 2 * Width[i + 1] >= Width[i]

VARIABLES phase,      \* "idle", "halving" or "done"
          price,      \* close price of the option
          pricing,    \* its pricing
          lo, hi,     \* the bracket
          tries,      \* iterations so far
          outcome     \* "skipped", "silent", "error card" or "solved"

solveVars == <<phase, price, pricing, lo, hi, tries, outcome>>

SolveInit == /\ phase = "idle" /\ price = 0 /\ pricing = [s \in Grid |-> 0]
             /\ lo = 0 /\ hi = Top /\ tries = 0 /\ outcome = "skipped"

\* A lower bound for every volatility; the price of minSigma is close to it.
Lower(f) == f[0]

OutOfBounds(p, f) == p < Lower(f) - Slack \/ p >= Spot

\* An option of the feed, as far as the loop looks at it.
Option == [call : BOOLEAN, days : {MinDays, MinDays + 1}, strike : {0, 1},
           price : Prices, pricing : Curves]

Quote(o) == price' = o.price /\ pricing' = o.pricing
Considered(o) == o.call /\ o.days > MinDays

\* No call or a near expiry, a strike of zero, a price outside the bounds.
PassOver(o) ==
    /\ Quote(o) /\ phase' = "done"
    /\ \/ ~ Considered(o) /\ outcome' = "skipped"
       \/ Considered(o) /\ o.strike = 0 /\ outcome' = "error card"
       \/ /\ Considered(o) /\ o.strike > 0 /\ OutOfBounds(o.price, o.pricing)
          /\ outcome' = "silent"
    /\ tries' = 0
    /\ UNCHANGED <<lo, hi>>

Bisect(o) ==
    /\ Considered(o) /\ o.strike > 0 /\ ~ OutOfBounds(o.price, o.pricing)
    /\ Quote(o) /\ phase' = "halving"
    /\ lo' = 0 /\ hi' = Top /\ tries' = 0
    /\ UNCHANGED outcome

Mid == (lo + hi) \div 2
Close(s) == pricing[s] - price < Tolerance /\ price - pricing[s] < Tolerance

\* mutant: the halves are swapped.
HalveSwapped == IF pricing[Mid] < price THEN lo' = lo /\ hi' = Mid ELSE lo' = Mid /\ hi' = hi

Halve == IF pricing[Mid] > price THEN lo' = lo /\ hi' = Mid ELSE lo' = Mid /\ hi' = hi

Found == /\ phase = "halving" /\ tries < MaxIterations /\ Close(Mid)
         /\ phase' = "done" /\ outcome' = "solved"
         /\ UNCHANGED <<price, pricing, lo, hi, tries>>

Narrow == /\ phase = "halving" /\ tries < MaxIterations /\ ~ Close(Mid)
          /\ Halve
          /\ tries' = tries + 1
          /\ UNCHANGED <<phase, price, pricing, outcome>>

\* ErrNoConvergence is not ErrPriceOutOfBounds: it goes to the page.
GiveUpSolving == /\ phase = "halving" /\ tries >= MaxIterations
                 /\ phase' = "done" /\ outcome' = "error card"
                 /\ UNCHANGED <<price, pricing, lo, hi, tries>>

NextOption == /\ phase = "done"
              /\ phase' = "idle" /\ price' = 0 /\ pricing' = [s \in Grid |-> 0]
              /\ lo' = 0 /\ hi' = Top /\ tries' = 0 /\ outcome' = "skipped"

SolveNext == \/ phase = "idle" /\ (\E o \in Option : PassOver(o) \/ Bisect(o))
             \/ Found \/ Narrow \/ GiveUpSolving \/ NextOption

SolveSpec == SolveInit /\ [][SolveNext]_solveVars

-----------------------------------------------------------------------------
SolveTypeOK == /\ phase \in {"idle", "halving", "done"}
               /\ price \in Prices /\ pricing \in [Grid -> 0 .. Spot]
               /\ lo \in Grid /\ hi \in Grid /\ tries \in 0 .. MaxIterations
               /\ outcome \in {"skipped", "silent", "error card", "solved"}

\* What no halving may lose: the bracket holds every volatility that prices
\* the option as the market does, and narrows as fast as Width.
BracketHolds ==
    phase = "halving" =>
        /\ pricing \in Curves
        /\ lo <= hi /\ hi - lo <= Width[tries]
        /\ \A s \in Grid : Close(s) => lo <= s /\ s <= hi
        /\ (lo = 0 /\ tries < MaxIterations) \/ ~ Close(lo)
        /\ hi = Top \/ ~ Close(hi)

Solvable == \E s \in 0 .. Top - 1 : Close(s)

\* The bisection is complete: an option whose price some volatility below
\* maxSigma explains is never reported as not converging, however the price
\* depends on the volatility.
SolvableIsSolved ==
    phase = "done" /\ tries > 0 /\ Solvable => outcome = "solved"

\* blackscholes.go:49, "Allow a small tolerance for stale prices on illiquid
\* deep-ITM options", and ivcalc/engine.go:61, which skips prices outside the
\* bounds silently: such a price is not an error.
StalePriceIsNoError ==
    phase = "done" /\ price < Lower(pricing) /\ tries > 0 => outcome # "error card"
=============================================================================

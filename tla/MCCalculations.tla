--------------------------- MODULE MCCalculations ---------------------------
(* One instance of three calculations that share nothing: the Jalali dates,  *)
(* the answers of the vendor and the implied volatilities. Each moves while  *)
(* the others are where they start, so that their states add up.             *)
EXTENDS JalaliDates, VendorFeed, ImpliedVol

CONSTANT MaxPrice

MCCurves == {f \in [Grid -> 0 .. MaxPrice] : \A s \in 1 .. Top : f[s - 1] <= f[s]}
MCWidth == [i \in 0 .. MaxIterations |-> IF i >= 3 THEN 1 ELSE Top \div 2^i]

DatesRest == date = [y |-> FirstYear, m |-> 1, d |-> 1]
FeedRests == asked = ""
SolverRests == phase = "idle"

DatesMove == FeedRests /\ SolverRests /\ UNCHANGED <<feedVars, solveVars>>
FeedMoves == DatesRest /\ SolverRests /\ UNCHANGED <<vars, solveVars>>
SolverMoves == DatesRest /\ FeedRests /\ UNCHANGED <<vars, feedVars>>

MCInit == Init /\ FeedInit /\ SolveInit

MCNext == \/ DatesMove /\ Later
          \/ DatesMove /\ Earlier
          \/ FeedMoves /\ \E e \in Endpoints : Fetch(e)
          \/ FeedMoves /\ Respond
          \/ FeedMoves /\ Return
          \/ FeedMoves /\ Forget
          \/ SolverMoves /\ SolverRests /\ \E o \in Option : PassOver(o)
          \/ SolverMoves /\ SolverRests /\ \E o \in Option : Bisect(o)
          \/ SolverMoves /\ Found
          \/ SolverMoves /\ Narrow
          \/ SolverMoves /\ GiveUpSolving
          \/ SolverMoves /\ NextOption

MCSpec == MCInit /\ [][MCNext]_<<vars, feedVars, solveVars>>
=============================================================================

---------------------------- MODULE DailyTable ----------------------------
(***************************************************************************)
(* What the daily statistics promise, and nothing of how: a day is         *)
(* recorded once, on the day itself; the symbols stored with it are those  *)
(* it was counted from, and settle it; days that are over and not settled  *)
(* may be counted from candles, always from all of them.  MarketDays is    *)
(* shown to implement this under the conditions it needs.                  *)
(***************************************************************************)
EXTENDS Integers

CONSTANTS Days,         \* dates, numbered
          VendorCounts, \* what can be counted from an answer of the vendor
          WholeCounts,  \* WholeCounts[d]: from the candles of all symbols on d
          Missing       \* nothing stored

VARIABLES today,        \* UTC date
          counts,       \* counts[d]: the statistics of d, or Missing
          symbols       \* symbols[d]: what the symbols of d add up to, or Missing

vars == <<today, counts, symbols>>

Init == /\ today = 1
        /\ counts = [d \in Days |-> Missing]
        /\ symbols = [d \in Days |-> Missing]

Record == /\ counts[today] = Missing
          /\ \E c \in VendorCounts : counts' = [counts EXCEPT ![today] = c]
          /\ UNCHANGED <<today, symbols>>

Settle == /\ counts[today] \in VendorCounts /\ symbols[today] = Missing
          /\ symbols' = [symbols EXCEPT ![today] = counts[today]]
          /\ UNCHANGED <<today, counts>>

Fill(d) == /\ d < today /\ symbols[d] = Missing
           /\ \E c \in WholeCounts[d] : counts' = [counts EXCEPT ![d] = c]
           /\ UNCHANGED <<today, symbols>>

DayPasses == /\ today' = today + 1 /\ today' \in Days
             /\ UNCHANGED <<counts, symbols>>

Next == Record \/ Settle \/ (\E d \in Days : Fill(d)) \/ DayPasses

Spec == Init /\ [][Next]_vars
=============================================================================

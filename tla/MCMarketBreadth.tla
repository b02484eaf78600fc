--------------------------- MODULE MCMarketBreadth ---------------------------
(* Instances of MarketBreadth for TLC: changes on both sides of the 0.5 %  *)
(* bound, two shares and a fund.                                           *)
EXTENDS MarketBreadth, TLC

CONSTANTS fold, foolad, gold

MCShares == {fold, foolad}
Traded(c) == [value |-> 1, change |-> c]
Untraded == [value |-> 0, change |-> 6]
MCFeeds == {<<>>} \cup {(gold :> Traded(6)) @@ (fold :> q) @@ (foolad :> r) :
                q \in {Traded(-6), Traded(5), Traded(6)},
                r \in {Traded(6), Untraded}}
MCBreadthLimits == [high |-> 2, low |-> 1]
MCAdvanceLimits == [high |-> 2, low |-> 0]
MCRow == {"row"}
MCRead == {"read"}
=============================================================================

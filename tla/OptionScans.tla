---------------------------- MODULE OptionScans ----------------------------
(***************************************************************************)
(* What a refresh computes from one answer of the option feed: pairs and   *)
(* their arbitrage return (internal/pairs, internal/arbitrage), covered    *)
(* calls (internal/coveredcall), bull call and bear put spreads            *)
(* (internal/bullspread, internal/bearputspread).  Prices are integers;    *)
(* ratios are compared by cross-multiplication, so that each bound is the  *)
(* exact one.  The lists are sets: among rows of the same R their order is *)
(* not specified by the code.                                              *)
(***************************************************************************)
EXTENDS Integers, FiniteSets

CONSTANTS Contracts,   \* what may be listed: [type, strike, expiry]
          Quotes,      \* [close, ask, bid], 0 for an empty side of the book
          Spots,       \* closing prices of the underlying; 0: not fetched
          Expiries,
          FirstDays,   \* days to each expiry at the start
          MinDays,     \* pairs.MinDaysToExpiry and bullspread.minDays
          MaxDays,     \* bullspread.maxDays
          Finals,      \* prices of the underlying at expiry
          MaxListed    \* bound of the walk: contracts listed at a time

ContractSet == [type : {"call", "put"}, strike : Nat, expiry : Expiries]

ASSUME ContractAssumption == Contracts \subseteq ContractSet
ASSUME QuoteAssumption == Quotes \subseteq [close : Nat, ask : Nat, bid : Nat]
ASSUME SpotAssumption == Spots \subseteq Nat /\ Finals \subseteq Nat
ASSUME DaysAssumption == /\ FirstDays \in [Expiries -> Nat]
                         /\ MinDays \in Nat /\ MaxDays \in Nat
ASSUME BoundAssumption == MaxListed \in Nat

Unlisted == [close |-> 0, ask |-> 0, bid |-> -1]

VARIABLES quote,   \* quote of each contract, or Unlisted
          spot,    \* snap.Underlying.ClosePrice
          days     \* CalendarDaysUntil(now, expiry) of each expiry

vars == <<quote, spot, days>>

Init == /\ quote = [c \in Contracts |-> Unlisted]
        /\ spot \in Spots
        /\ days = FirstDays

\* The feed quotes c, or lists it no longer.  A row of a list concerns two
\* contracts at most, two rows of spreads that share a leg three.
Trade(c) == /\ quote[c] = Unlisted => Cardinality({d \in Contracts : quote[d] # Unlisted}) < MaxListed
            /\ \E q \in Quotes \cup {Unlisted} : quote' = [quote EXCEPT ![c] = q]
            /\ UNCHANGED <<spot, days>>

Move == spot' \in Spots /\ UNCHANGED <<quote, days>>

\* The walk stops when an expiry is reached: the feed drops the contract.
NextDay == /\ \A e \in Expiries : days[e] > 0
           /\ days' = [e \in Expiries |-> days[e] - 1]
           /\ UNCHANGED <<quote, spot>>

Next == (\E c \in Contracts : Trade(c)) \/ Move \/ NextDay

Spec == Init /\ [][Next]_vars

-----------------------------------------------------------------------------
Listed(type) == {c \in Contracts : c.type = type /\ quote[c] # Unlisted}

\* askPrice, bidPrice: the best order of the book, else the last price.
Ask(c) == IF quote[c].ask > 0 THEN quote[c].ask ELSE quote[c].close
Bid(c) == IF quote[c].bid > 0 THEN quote[c].bid ELSE quote[c].close

(***************************************************************************)
(* Spreads: <<K1, K2>>, K1 bought and K2 written, of one expiry.           *)
(***************************************************************************)
Window(e) == days[e] >= MinDays /\ days[e] <= MaxDays

Eligible(type) == {c \in Listed(type) : c.strike > 0 /\ Window(c.expiry)}

\* moneyness - p%, times 100 * spot.
Beyond(k, p) == 100 * (k - spot) - p * spot

NearSpot(k) == Beyond(k, 5) <= 0 /\ Beyond(k, -5) >= 0

BullFilter(kind, k) == \/ kind = "ATM" /\ NearSpot(k)
                       \/ kind = "OTM" /\ Beyond(k, 5) > 0 /\ Beyond(k, 20) <= 0

BearFilter(kind, k) == \/ kind = "ATM" /\ NearSpot(k)
                       \/ kind = "OTM" /\ Beyond(k, -5) <= 0 /\ Beyond(k, -20) >= 0

BullLegs(l) == l[1].strike < l[2].strike
BearLegs(l) == l[1].strike > l[2].strike

Width(l) == IF BullLegs(l) THEN l[2].strike - l[1].strike ELSE l[1].strike - l[2].strike

DebitAtLast(l) == quote[l[1]].close - quote[l[2]].close   \* mutant: last prices
Debit(l) == Ask(l[1]) - Bid(l[2])

MaxProfit(l) == Width(l) - Debit(l)

DebitLimit(kind) == IF kind = "OTM" THEN 25 ELSE 45   \* percent of the width

Affordable(l, kind) == Debit(l) > 0 /\ 100 * Debit(l) <= DebitLimit(kind) * Width(l)

BullSpreads(kind) ==
    {l \in Eligible("call") \X Eligible("call") :
        /\ spot > 0 /\ l[1].expiry = l[2].expiry
        /\ BullLegs(l) /\ BullFilter(kind, l[1].strike) /\ Affordable(l, kind)}

BearPutSpreads(kind) ==
    {l \in Eligible("put") \X Eligible("put") :
        /\ spot > 0 /\ l[1].expiry = l[2].expiry
        /\ BearLegs(l) /\ BearFilter(kind, l[1].strike) /\ Affordable(l, kind)}

-----------------------------------------------------------------------------
\* Match: a call and the put of the same strike and expiry.
Match == {p \in Listed("call") \X Listed("put") :
             /\ p[1].strike = p[2].strike /\ p[1].expiry = p[2].expiry
             /\ days[p[1].expiry] > MinDays}

SpreadReversed(p) == quote[p[2]].close - quote[p[1]].close   \* mutant

Spread(p) == quote[p[1]].close - quote[p[2]].close
Capital(p) == spot - Spread(p)
StressedUnit == 8                                     \* 12.5% of 8 is 1
Stressed(p) == 9 * spot - StressedUnit * Spread(p)    \* capital12_5, times 8

\* The pairs Calculate does not refuse.
Opportunities == {p \in Match : /\ spot > 0 /\ p[1].strike > 0
                                /\ quote[p[2]].close > 1
                                /\ Capital(p) > 0}

\* ReturnPct and ReturnPct12_5, as numerator and denominator.
Return(p) == [num |-> p[1].strike - Capital(p), den |-> Capital(p)]
ReturnStressed(p) == [num |-> StressedUnit * p[1].strike - Stressed(p), den |-> Stressed(p)]

-----------------------------------------------------------------------------
NetCost(c) == spot - quote[c].close

CoveredCalls == {c \in Listed("call") : spot > 0 /\ days[c.expiry] > MinDays /\ NetCost(c) > 0}

MaxROI(c) == [num |-> c.strike - NetCost(c), den |-> NetCost(c)]

PremiumYield(c) == [num |-> quote[c].close, den |-> NetCost(c)]

StaticROIUnguarded(c) == MaxROI(c)   \* mutant: the assignment without its "if k < s"

StaticROI(c) == IF c.strike < spot THEN MaxROI(c) ELSE PremiumYield(c)

-----------------------------------------------------------------------------
Lower(x, y) == IF x < y THEN x ELSE y
CallPays(c, x) == IF x > c.strike THEN x - c.strike ELSE 0
PutPays(c, x) == IF x < c.strike THEN c.strike - x ELSE 0

TypeOK == /\ quote \in [Contracts -> Quotes \cup {Unlisted}]
          /\ spot \in Spots
          /\ days \in [Expiries -> Nat]

\* What the two legs of a spread leave at expiry, after what they cost now.
BullProfit(l, x) == CallPays(l[1], x) - CallPays(l[2], x) - (Ask(l[1]) - Bid(l[2]))
BearProfit(l, x) == PutPays(l[1], x) - PutPays(l[2], x) - (Ask(l[1]) - Bid(l[2]))

\* The underlying and the put bought, the call written.
PairCost(p) == spot + quote[p[2]].close - quote[p[1]].close
PairPays(p, x) == x + PutPays(p[2], x) - CallPays(p[1], x)

BullRiskAndReward == \A kind \in {"ATM", "OTM"} : \A l \in BullSpreads(kind) :
    /\ \A x \in Finals : -Debit(l) <= BullProfit(l, x) /\ BullProfit(l, x) <= MaxProfit(l)
    /\ BullProfit(l, l[1].strike) = -Debit(l)
    /\ BullProfit(l, l[2].strike) = MaxProfit(l)
    /\ 9 * MaxProfit(l) >= 11 * Debit(l)

BearRiskAndReward == \A kind \in {"ATM", "OTM"} : \A l \in BearPutSpreads(kind) :
    /\ \A x \in Finals : -Debit(l) <= BearProfit(l, x) /\ BearProfit(l, x) <= MaxProfit(l)
    /\ BearProfit(l, l[1].strike) = -Debit(l)
    /\ BearProfit(l, l[2].strike) = MaxProfit(l)
    /\ 9 * MaxProfit(l) >= 11 * Debit(l)

\* CONTEXT.md, "Reward-to-Risk: max profit divided by its debit": wherever the
\* underlying ends up, a listed bull call or bear put spread loses at most D
\* and gains at most MP, both happen, and the reward is at least 11/9 of the
\* risk.
SpreadRiskAndReward == BullRiskAndReward /\ BearRiskAndReward

\* The variants have alert keys of their own: a spread in both would be sent
\* twice.  No bull spread is; a bear put spread is where K1 is exactly 5%
\* below the spot, since both comparisons of the code include that bound.
VariantsMeetAtTheBound ==
    /\ BullSpreads("ATM") \cap BullSpreads("OTM") = {}
    /\ \A l \in BearPutSpreads("ATM") \cap BearPutSpreads("OTM") :
          100 * l[1].strike = 95 * spot

\* The position of an opportunity (underlying, put bought, call written) is
\* worth its strike at expiry wherever the underlying ends up, so that the
\* return shown is locked in; and the stressed return is never above it.
ArbitrageIsLockedIn == \A p \in Opportunities :
    /\ \A x \in Finals : (PairPays(p, x) - PairCost(p)) * Return(p).den
                            = Return(p).num * PairCost(p)
    /\ days[p[1].expiry] = days[p[2].expiry]
    /\ ReturnStressed(p).den > 0
    /\ ReturnStressed(p).num * Return(p).den <= Return(p).num * ReturnStressed(p).den

\* The underlying bought, the call written against it.
CoveredProfit(c, x) == Lower(x, c.strike) - NetCost(c)

\* CONTEXT.md:95 says two things of the Static ROI, "premium yield on Net Cost"
\* and "its return if the Underlying is unchanged at Expiry".  They agree from
\* K = S on only; below, the code and engine_test.go:15 show the Max ROI, which
\* is the second.  So what is shown is the return of an unchanged Underlying,
\* and the Max ROI is one that no outcome exceeds.
CoveredCallReturns == \A c \in CoveredCalls :
    /\ StaticROI(c).num * NetCost(c) = CoveredProfit(c, spot) * StaticROI(c).den
    /\ \A x \in Finals : CoveredProfit(c, x) * MaxROI(c).den <= MaxROI(c).num * NetCost(c)

\* CONTEXT.md:95, "premium yield on Net Cost", and :97, "the live metric is
\* premium-based": the other reading.
StaticROIIsPremiumYield == \A c \in CoveredCalls :
    StaticROI(c).num * NetCost(c) = quote[c].close * StaticROI(c).den
=============================================================================

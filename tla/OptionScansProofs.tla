-------------------------- MODULE OptionScansProofs --------------------------
(***************************************************************************)
(* For every set of contracts, every order book and every price: what the  *)
(* lists of OptionScans say of a position is what the position pays, the   *)
(* keys of RefreshAlerts tell positions apart, and only the bound shared   *)
(* by the variants of a bear put spread raises an alert twice.             *)
(***************************************************************************)
EXTENDS RefreshAlerts, TLAPS

USE DEF ContractSet

LEMMA InitType == Init => TypeOK
BY DaysAssumption DEF Init, TypeOK

LEMMA NextType == TypeOK /\ [Next]_vars => TypeOK'
<1> SUFFICES ASSUME TypeOK, [Next]_vars PROVE TypeOK'
  OBVIOUS
<1>1. ASSUME NEW c \in Contracts, Trade(c) PROVE TypeOK'
  BY <1>1 DEF Trade, TypeOK
<1>2. CASE Move
  BY <1>2 DEF Move, TypeOK
<1>3. CASE NextDay
  <2>1. \A e \in Expiries : days[e] \in Nat /\ days[e] > 0
    BY <1>3 DEF NextDay, TypeOK
  <2>2. \A e \in Expiries : days[e] - 1 \in Nat
    BY <2>1
  <2> QED
    BY <1>3, <2>2 DEF NextDay, TypeOK
<1>4. CASE UNCHANGED vars
  BY <1>4 DEF vars, TypeOK
<1> QED
  BY <1>1, <1>2, <1>3, <1>4 DEF Next

\* Quotes, spot and days to expiry stay well typed along the walk.
THEOREM InputsWellTyped == Spec => []TypeOK
BY InitType, NextType, PTL DEF Spec

-----------------------------------------------------------------------------
\* Prices of a listed contract are whole numbers.
LEMMA PricesAreNumbers ==
    ASSUME TypeOK, NEW type, NEW c \in Listed(type)
    PROVE  /\ c.type = type /\ c.strike \in Nat /\ c.expiry \in Expiries
           /\ quote[c].close \in Nat /\ Ask(c) \in Nat /\ Bid(c) \in Nat
           /\ spot \in Nat
<1>1. c \in Contracts /\ c.type = type /\ quote[c] # Unlisted
  BY DEF Listed
<1>2. c.strike \in Nat /\ c.expiry \in Expiries
  BY <1>1, ContractAssumption
<1>3. quote[c] \in [close : Nat, ask : Nat, bid : Nat]
  BY <1>1, QuoteAssumption DEF TypeOK
<1>4. Ask(c) \in Nat /\ Bid(c) \in Nat
  BY <1>3 DEF Ask, Bid
<1> QED
  BY <1>1, <1>2, <1>3, <1>4, SpotAssumption DEF TypeOK

\* Of an affordable position the reward is at least 11/9 of the risk.
LEMMA RewardOfAffordable ==
    ASSUME NEW w \in Int, NEW d \in Int, NEW limit \in {25, 45},
           d > 0, 100 * d <= limit * w
    PROVE  0 < w /\ d < w /\ 9 * (w - d) >= 11 * d
<1>1. CASE limit = 25
  BY <1>1
<1>2. CASE limit = 45
  BY <1>2
<1> QED
  BY <1>1, <1>2

LEMMA LimitIs == \A kind : DebitLimit(kind) \in {25, 45}
BY DEF DebitLimit

\* A bull call spread pays between nothing and its width.
LEMMA BullPayoff ==
    ASSUME TypeOK, NEW kind \in {"ATM", "OTM"}, NEW l \in BullSpreads(kind)
    PROVE  /\ \A x \in Nat : -Debit(l) <= BullProfit(l, x) /\ BullProfit(l, x) <= MaxProfit(l)
           /\ BullProfit(l, l[1].strike) = -Debit(l)
           /\ BullProfit(l, l[2].strike) = MaxProfit(l)
           /\ 9 * MaxProfit(l) >= 11 * Debit(l)
<1> DEFINE k1 == l[1].strike   k2 == l[2].strike   a == Ask(l[1])   b == Bid(l[2])
<1>1. l[1] \in Listed("call") /\ l[2] \in Listed("call") /\ BullLegs(l) /\ Affordable(l, kind)
  BY DEF BullSpreads, Eligible
<1>2. k1 \in Nat /\ k2 \in Nat /\ a \in Nat /\ b \in Nat
  BY <1>1, PricesAreNumbers
<1>3. k1 < k2 /\ Width(l) = k2 - k1 /\ Debit(l) = a - b /\ MaxProfit(l) = (k2 - k1) - (a - b)
  BY <1>1 DEF BullLegs, Width, Debit, MaxProfit
<1>4. a - b > 0 /\ 100 * (a - b) <= DebitLimit(kind) * (k2 - k1)
  BY <1>1, <1>3 DEF Affordable
<1>5. 9 * MaxProfit(l) >= 11 * Debit(l)
  <2> HIDE DEF k1, k2, a, b
  <2>1. k2 - k1 \in Int /\ a - b \in Int
    BY <1>2
  <2>2. 9 * ((k2 - k1) - (a - b)) >= 11 * (a - b)
    BY <2>1, <1>4, LimitIs, RewardOfAffordable
  <2> QED
    BY <2>2, <1>3
<1>6. \A x \in Nat : BullProfit(l, x) = (IF x > k1 THEN x - k1 ELSE 0)
                                         - (IF x > k2 THEN x - k2 ELSE 0) - (a - b)
  BY DEF BullProfit, CallPays
<1> HIDE DEF k1, k2, a, b
<1>7. \A x \in Nat : -(a - b) <= BullProfit(l, x) /\ BullProfit(l, x) <= (k2 - k1) - (a - b)
  BY <1>2, <1>3, <1>6
<1>8. BullProfit(l, k1) = -(a - b) /\ BullProfit(l, k2) = (k2 - k1) - (a - b)
  BY <1>2, <1>3, <1>6
<1> QED
  BY <1>3, <1>5, <1>7, <1>8 DEF k1, k2

\* A bear put spread pays between nothing and its width.
LEMMA BearPayoff ==
    ASSUME TypeOK, NEW kind \in {"ATM", "OTM"}, NEW l \in BearPutSpreads(kind)
    PROVE  /\ \A x \in Nat : -Debit(l) <= BearProfit(l, x) /\ BearProfit(l, x) <= MaxProfit(l)
           /\ BearProfit(l, l[1].strike) = -Debit(l)
           /\ BearProfit(l, l[2].strike) = MaxProfit(l)
           /\ 9 * MaxProfit(l) >= 11 * Debit(l)
<1> DEFINE k1 == l[1].strike   k2 == l[2].strike   a == Ask(l[1])   b == Bid(l[2])
<1>1. l[1] \in Listed("put") /\ l[2] \in Listed("put") /\ BearLegs(l) /\ Affordable(l, kind)
  BY DEF BearPutSpreads, Eligible
<1>2. k1 \in Nat /\ k2 \in Nat /\ a \in Nat /\ b \in Nat
  BY <1>1, PricesAreNumbers
<1>3. k2 < k1 /\ Width(l) = k1 - k2 /\ Debit(l) = a - b /\ MaxProfit(l) = (k1 - k2) - (a - b)
  BY <1>1, <1>2 DEF BearLegs, BullLegs, Width, Debit, MaxProfit
<1>4. a - b > 0 /\ 100 * (a - b) <= DebitLimit(kind) * (k1 - k2)
  BY <1>1, <1>3 DEF Affordable
<1>5. 9 * MaxProfit(l) >= 11 * Debit(l)
  <2> HIDE DEF k1, k2, a, b
  <2>1. k1 - k2 \in Int /\ a - b \in Int
    BY <1>2
  <2>2. 9 * ((k1 - k2) - (a - b)) >= 11 * (a - b)
    BY <2>1, <1>4, LimitIs, RewardOfAffordable
  <2> QED
    BY <2>2, <1>3
<1>6. \A x \in Nat : BearProfit(l, x) = (IF x < k1 THEN k1 - x ELSE 0)
                                         - (IF x < k2 THEN k2 - x ELSE 0) - (a - b)
  BY DEF BearProfit, PutPays
<1> HIDE DEF k1, k2, a, b
<1>7. \A x \in Nat : -(a - b) <= BearProfit(l, x) /\ BearProfit(l, x) <= (k1 - k2) - (a - b)
  BY <1>2, <1>3, <1>6
<1>8. BearProfit(l, k1) = -(a - b) /\ BearProfit(l, k2) = (k1 - k2) - (a - b)
  BY <1>2, <1>3, <1>6
<1> QED
  BY <1>3, <1>5, <1>7, <1>8 DEF k1, k2

-----------------------------------------------------------------------------
\* Whatever is listed and whatever the book shows, a spread on the page loses
\* at most D, gains at most MP, and is worth at least 11/9 of its risk.
THEOREM SpreadRisk == Spec => []SpreadRiskAndReward
<1>1. TypeOK => BullRiskAndReward
  BY BullPayoff, SpotAssumption DEF BullRiskAndReward
<1>2. TypeOK => BearRiskAndReward
  BY BearPayoff, SpotAssumption DEF BearRiskAndReward
<1>3. TypeOK => SpreadRiskAndReward
  BY <1>1, <1>2 DEF SpreadRiskAndReward
<1> QED
  BY InputsWellTyped, <1>3, PTL

\* No bull spread is in both variants, so none has two alert keys; a bear put
\* spread is only 5% below the spot, exactly.
LEMMA VariantsMeet == TypeOK => VariantsMeetAtTheBound
<1>1. ASSUME TypeOK, NEW l \in BullSpreads("ATM"), l \in BullSpreads("OTM") PROVE FALSE
  <2>1. l[1] \in Listed("call") /\ BullFilter("ATM", l[1].strike) /\ BullFilter("OTM", l[1].strike)
    BY <1>1 DEF BullSpreads, Eligible
  <2>2. l[1].strike \in Nat /\ spot \in Nat
    BY <1>1, <2>1, PricesAreNumbers
  <2> QED
    BY <2>1, <2>2 DEF BullFilter, NearSpot, Beyond
<1>2. ASSUME TypeOK, NEW l \in BearPutSpreads("ATM"), l \in BearPutSpreads("OTM")
      PROVE  100 * l[1].strike = 95 * spot
  <2>1. l[1] \in Listed("put") /\ BearFilter("ATM", l[1].strike) /\ BearFilter("OTM", l[1].strike)
    BY <1>2 DEF BearPutSpreads, Eligible
  <2>2. l[1].strike \in Nat /\ spot \in Nat
    BY <1>2, <2>1, PricesAreNumbers
  <2> QED
    BY <2>1, <2>2 DEF BearFilter, NearSpot, Beyond
<1> QED
  BY <1>1, <1>2 DEF VariantsMeetAtTheBound

\* So no bull spread has two alert keys in one refresh.
THEOREM SpreadVariants == Spec => []VariantsMeetAtTheBound
BY InputsWellTyped, VariantsMeet, PTL

-----------------------------------------------------------------------------
\* Adding an eighth of the spot to the capital never raises the return.
LEMMA StressedIsLower ==
    ASSUME NEW k \in Nat, NEW c \in Nat, NEW s \in Nat
    PROVE  (8 * k - (8 * c + s)) * c <= (k - c) * (8 * c + s)
<1>1. (k - c) * (8 * c + s) - (8 * k - (8 * c + s)) * c = k * s
  BY Z3
<1>2. k * s >= 0
  BY Z3
<1>3. (k - c) * (8 * c + s) \in Int /\ (8 * k - (8 * c + s)) * c \in Int /\ k * s \in Int
  BY Z3
<1> QED
  BY <1>1, <1>2, <1>3, Z3

\* Whatever the underlying ends at, the position of a listed pair is worth the
\* strike: the return shown is the one it earns, the stressed one is not above.
THEOREM ArbitrageReturn == Spec => []ArbitrageIsLockedIn
<1>1. TypeOK => ArbitrageIsLockedIn
  <2> SUFFICES ASSUME TypeOK, NEW p \in Opportunities
      PROVE  /\ \A x \in Finals : (PairPays(p, x) - PairCost(p)) * Return(p).den
                                     = Return(p).num * PairCost(p)
             /\ days[p[1].expiry] = days[p[2].expiry]
             /\ ReturnStressed(p).den > 0
             /\ ReturnStressed(p).num * Return(p).den <= Return(p).num * ReturnStressed(p).den
    BY DEF ArbitrageIsLockedIn
  <2> DEFINE k == p[1].strike   y == quote[p[1]].close   z == quote[p[2]].close
             cap == Capital(p)
  <2>1. /\ p[1] \in Listed("call") /\ p[2] \in Listed("put")
        /\ p[1].strike = p[2].strike /\ p[1].expiry = p[2].expiry
        /\ spot > 0 /\ cap > 0
    BY DEF Opportunities, Match
  <2>2. k \in Nat /\ y \in Nat /\ z \in Nat /\ spot \in Nat
    BY <2>1, PricesAreNumbers
  <2>3. cap = spot - (y - z) /\ PairCost(p) = spot + z - y
    BY DEF Capital, Spread, PairCost
  <2>4. /\ Return(p).num = k - cap /\ Return(p).den = cap
        /\ ReturnStressed(p).num = 8 * k - (9 * spot - 8 * (y - z))
        /\ ReturnStressed(p).den = 9 * spot - 8 * (y - z)
    BY DEF Return, ReturnStressed, Stressed, StressedUnit, Spread
  <2>5. \A x \in Nat : PairPays(p, x) = x + (IF x < k THEN k - x ELSE 0)
                                          - (IF x > k THEN x - k ELSE 0)
    BY <2>1 DEF PairPays, PutPays, CallPays
  <2> HIDE DEF k, y, z, cap
  <2>6. cap \in Nat /\ PairCost(p) = cap
    BY <2>1, <2>2, <2>3
  <2>7. \A x \in Finals : PairPays(p, x) = k
    BY <2>2, <2>5, SpotAssumption
  <2>8. ReturnStressed(p).num = 8 * k - (8 * cap + spot) /\ ReturnStressed(p).den = 8 * cap + spot
    BY <2>2, <2>3, <2>4
  <2>9. (8 * k - (8 * cap + spot)) * cap <= (k - cap) * (8 * cap + spot)
    BY <2>2, <2>6, StressedIsLower
  <2>10. 8 * cap + spot > 0
    BY <2>1, <2>2, <2>6
  <2> QED
    BY <2>1, <2>4, <2>6, <2>7, <2>8, <2>9, <2>10
<1> QED
  BY InputsWellTyped, <1>1, PTL
-----------------------------------------------------------------------------
LEMMA ScalingKeepsOrder ==
    ASSUME NEW a \in Int, NEW b \in Int, NEW n \in Nat, a <= b
    PROVE  a * n <= b * n
<1>1. (b - a) * n >= 0
  BY Z3
<1>2. (b - a) * n = b * n - a * n
  BY Z3
<1>3. a * n \in Int /\ b * n \in Int
  BY Z3
<1> QED
  BY <1>1, <1>2, <1>3, Z3

\* The static return of a covered call is what an unchanged underlying leaves,
\* its maximal return is never exceeded.
THEOREM CoveredReturn == Spec => []CoveredCallReturns
<1>1. TypeOK => CoveredCallReturns
  <2> SUFFICES ASSUME TypeOK, NEW c \in CoveredCalls
      PROVE  /\ StaticROI(c).num * NetCost(c) = CoveredProfit(c, spot) * StaticROI(c).den
             /\ \A x \in Finals : CoveredProfit(c, x) * MaxROI(c).den <= MaxROI(c).num * NetCost(c)
    BY DEF CoveredCallReturns
  <2> DEFINE k == c.strike   y == quote[c].close   n == NetCost(c)
  <2>1. c \in Listed("call") /\ n > 0 /\ n = spot - y
    BY DEF CoveredCalls, NetCost
  <2>2. k \in Nat /\ y \in Nat /\ spot \in Nat
    BY <2>1, PricesAreNumbers
  <2>3. /\ MaxROI(c).num = k - n /\ MaxROI(c).den = n
        /\ StaticROI(c).num = (IF k < spot THEN k - n ELSE y) /\ StaticROI(c).den = n
    BY DEF MaxROI, StaticROI, PremiumYield
  <2>4. \A x : CoveredProfit(c, x) = (IF x < k THEN x ELSE k) - n
    BY DEF CoveredProfit, Lower
  <2> HIDE DEF k, y, n
  <2>5. n \in Nat /\ k - n \in Int
    BY <2>1, <2>2
  <2>6. StaticROI(c).num = CoveredProfit(c, spot)
    BY <2>1, <2>2, <2>3, <2>4
  <2>7. \A x \in Finals : CoveredProfit(c, x) \in Int /\ CoveredProfit(c, x) <= k - n
    BY <2>2, <2>4, <2>5, SpotAssumption
  <2>8. \A x \in Finals : CoveredProfit(c, x) * n <= (k - n) * n
    BY <2>5, <2>7, ScalingKeepsOrder
  <2> QED
    BY <2>3, <2>6, <2>8 DEF n
<1> QED
  BY InputsWellTyped, <1>1, PTL

-----------------------------------------------------------------------------
\* The alerts of a refresh.
HIDE DEF ContractSet

\* A contract is known by its type, strike and expiry.
LEMMA ContractsDiffer ==
    ASSUME NEW c \in Contracts, NEW d \in Contracts,
           c.type = d.type, c.strike = d.strike, c.expiry = d.expiry
    PROVE  c = d
BY ContractAssumption DEF ContractSet


LEMMA CoveredCallsApart ==
    ASSUME NEW a \in CoveredCallAlerts, NEW b \in CoveredCallAlerts,
           a.key = b.key \/ a.position = b.position
    PROVE  a = b
<1>1. PICK c \in CoveredCalls : a = Alert(CoveredCallKey(c), <<c>>)
  BY DEF CoveredCallAlerts
<1>2. PICK d \in CoveredCalls : b = Alert(CoveredCallKey(d), <<d>>)
  BY DEF CoveredCallAlerts
<1>3. c \in Contracts /\ d \in Contracts /\ c.type = d.type
  BY DEF CoveredCalls, Listed
<1>4. CASE a.position = b.position
  <2>1. <<c>> = <<d>>
    BY <1>1, <1>2, <1>4 DEF Alert
  <2>2. c = d
    BY <2>1
  <2> QED
    BY <1>1, <1>2, <2>2
<1>5. CASE a.key = b.key
  <2>1. CoveredCallKey(c) = CoveredCallKey(d)
    BY <1>1, <1>2, <1>5 DEF Alert
  <2>2. c.expiry = d.expiry /\ <<c.strike>> = <<d.strike>>
    BY <2>1 DEF CoveredCallKey, Key
  <2>3. c.strike = d.strike
    BY <2>2
  <2>4. c = d
    BY <1>3, <2>2, <2>3, ContractsDiffer
  <2> QED
    BY <1>1, <1>2, <2>4
<1> QED
  BY <1>4, <1>5

\* A pair is known by the strike and the expiry its legs share.
LEMMA PairsDiffer ==
    ASSUME NEW p \in Opportunities, NEW q \in Opportunities,
           p[1].strike = q[1].strike, p[1].expiry = q[1].expiry
    PROVE  p = q
<1>1. /\ p \in Listed("call") \X Listed("put") /\ q \in Listed("call") \X Listed("put")
      /\ p[1].strike = p[2].strike /\ p[1].expiry = p[2].expiry
      /\ q[1].strike = q[2].strike /\ q[1].expiry = q[2].expiry
  BY DEF Opportunities, Match
<1>2. /\ p[1] \in Contracts /\ q[1] \in Contracts /\ p[1].type = q[1].type
      /\ p[2] \in Contracts /\ q[2] \in Contracts /\ p[2].type = q[2].type
  BY <1>1 DEF Listed
<1>3. p[1] = q[1]
  BY <1>2, ContractsDiffer
<1>4. p[2] = q[2]
  BY <1>1, <1>2, ContractsDiffer
<1> QED
  BY <1>1, <1>3, <1>4

LEMMA PairsApart ==
    ASSUME NEW family, NEW p \in Opportunities, NEW q \in Opportunities,
           \/ p = q
           \/ Key(family, "", p[1].expiry, <<p[1].strike>>) = Key(family, "", q[1].expiry, <<q[1].strike>>)
    PROVE  p = q
<1>1. CASE p # q
  <2>1. p[1].expiry = q[1].expiry /\ <<p[1].strike>> = <<q[1].strike>>
    BY <1>1 DEF Key
  <2>2. p[1].strike = q[1].strike
    BY <2>1
  <2> QED
    BY <2>1, <2>2, PairsDiffer
<1> QED
  BY <1>1

LEMMA ArbitrageApart ==
    ASSUME NEW a \in ArbitrageAlerts, NEW b \in ArbitrageAlerts,
           a.key = b.key \/ a.position = b.position
    PROVE  a = b
<1>1. PICK p \in Opportunities : a = Alert(ArbitrageKey(p), p)
  BY DEF ArbitrageAlerts
<1>2. PICK q \in Opportunities : b = Alert(ArbitrageKey(q), q)
  BY DEF ArbitrageAlerts
<1>3. p = q \/ ArbitrageKey(p) = ArbitrageKey(q)
  BY <1>1, <1>2 DEF Alert
<1>4. p = q
  BY <1>3, PairsApart DEF ArbitrageKey
<1> QED
  BY <1>1, <1>2, <1>4

LEMMA ArbitrageR12Apart ==
    ASSUME NEW a \in ArbitrageR12Alerts, NEW b \in ArbitrageR12Alerts,
           a.key = b.key \/ a.position = b.position
    PROVE  a = b
<1>1. PICK p \in Opportunities : a = Alert(ArbitrageR12Key(p), p)
  BY DEF ArbitrageR12Alerts
<1>2. PICK q \in Opportunities : b = Alert(ArbitrageR12Key(q), q)
  BY DEF ArbitrageR12Alerts
<1>3. p = q \/ ArbitrageR12Key(p) = ArbitrageR12Key(q)
  BY <1>1, <1>2 DEF Alert
<1>4. p = q
  BY <1>3, PairsApart DEF ArbitrageR12Key
<1> QED
  BY <1>1, <1>2, <1>4

LEMMA BullSpreadsApart ==
    ASSUME TypeOK, NEW k \in {"ATM", "OTM"}, NEW j \in {"ATM", "OTM"},
           NEW a \in BullSpreadAlerts(k), NEW b \in BullSpreadAlerts(j),
           a.key = b.key \/ a.position = b.position
    PROVE  a = b
<1>1. PICK l \in BullSpreads(k) : a = Alert(BullSpreadKey(k, l), l)
  BY DEF BullSpreadAlerts
<1>2. PICK m \in BullSpreads(j) : b = Alert(BullSpreadKey(j, m), m)
  BY DEF BullSpreadAlerts
<1>3. l = m
  BY <1>1, <1>2 DEF Alert, BullSpreadKey, Key
<1>4. BullSpreads("ATM") \cap BullSpreads("OTM") = {}
  BY VariantsMeet DEF VariantsMeetAtTheBound
<1>5. k = j
  BY <1>3, <1>4
<1> QED
  BY <1>1, <1>2, <1>3, <1>5

\* The variants of a bear put spread do meet.
LEMMA BearPutSpreadsApart ==
    ASSUME TypeOK, NEW k \in {"ATM", "OTM"}, NEW j \in {"ATM", "OTM"},
           NEW a \in BearPutSpreadAlerts(k), NEW b \in BearPutSpreadAlerts(j)
    PROVE  /\ a.key = b.key => a = b
           /\ a.position = b.position => a = b \/ AtTheBound("bale-bps", a.position)
<1>1. PICK l \in BearPutSpreads(k) : a = Alert(BearPutSpreadKey(k, l), l)
  BY DEF BearPutSpreadAlerts
<1>2. PICK m \in BearPutSpreads(j) : b = Alert(BearPutSpreadKey(j, m), m)
  BY DEF BearPutSpreadAlerts
<1>3. a.key = b.key => a = b
  BY <1>1, <1>2 DEF Alert, BearPutSpreadKey, Key
<1>4. ASSUME a.position = b.position PROVE a = b \/ AtTheBound("bale-bps", a.position)
  <2>1. l = m /\ a.position = l
    BY <1>1, <1>2, <1>4 DEF Alert
  <2>2. CASE k = j
    BY <1>1, <1>2, <2>1, <2>2
  <2>3. CASE k # j
    <3>1. l \in BearPutSpreads("ATM") \cap BearPutSpreads("OTM")
      BY <2>1, <2>3
    <3>2. 100 * l[1].strike = 95 * spot
      BY <3>1, VariantsMeet DEF VariantsMeetAtTheBound
    <3> QED
      BY <2>1, <3>2 DEF AtTheBound
  <2> QED
    BY <2>2, <2>3
<1> QED
  BY <1>3, <1>4

LEMMA RulesApart ==
    ASSUME NEW a \in MatrixAlerts, NEW b \in MatrixAlerts,
           a.key = b.key \/ a.position = b.position
    PROVE  a = b
<1>1. PICK r \in Rules : a = Alert(Key("matrix", "", "", <<r.id>>), <<r>>)
  BY DEF MatrixAlerts
<1>2. PICK q \in Rules : b = Alert(Key("matrix", "", "", <<q.id>>), <<q>>)
  BY DEF MatrixAlerts
<1>3. <<r.id>> = <<q.id>> \/ <<r>> = <<q>>
  BY <1>1, <1>2 DEF Alert, Key
<1>4. r.id = q.id \/ r = q
  BY <1>3
<1>5. r = q
  BY <1>4, RuleAssumption
<1> QED
  BY <1>1, <1>2, <1>5

\* The family of an alert says which list it is from.
LEMMA FamilyOf ==
    ASSUME NEW a \in Raised(FALSE)
    PROVE  \/ a.key.family = "bale-cc-roi" /\ a \in CoveredCallAlerts
           \/ a.key.family = "arb" /\ a \in ArbitrageAlerts
           \/ a.key.family = "bale-arb-r12" /\ a \in ArbitrageR12Alerts
           \/ a.key.family = "matrix" /\ a \in MatrixAlerts
           \/ a.key.family = "bale-bs" /\ \E k \in {"ATM", "OTM"} : a \in BullSpreadAlerts(k)
           \/ a.key.family = "bale-bps" /\ \E k \in {"ATM", "OTM"} : a \in BearPutSpreadAlerts(k)
<1>1. ASSUME a \in CoveredCallAlerts PROVE a.key.family = "bale-cc-roi"
  <2>1. PICK c \in CoveredCalls : a = Alert(CoveredCallKey(c), <<c>>)
    BY <1>1 DEF CoveredCallAlerts
  <2> QED
    BY <2>1 DEF CoveredCallKey, Alert, Key
<1>2. ASSUME a \in ArbitrageAlerts PROVE a.key.family = "arb"
  <2>1. PICK p \in Opportunities : a = Alert(ArbitrageKey(p), p)
    BY <1>2 DEF ArbitrageAlerts
  <2> QED
    BY <2>1 DEF ArbitrageKey, Alert, Key
<1>3. ASSUME a \in ArbitrageR12Alerts PROVE a.key.family = "bale-arb-r12"
  <2>1. PICK p \in Opportunities : a = Alert(ArbitrageR12Key(p), p)
    BY <1>3 DEF ArbitrageR12Alerts
  <2> QED
    BY <2>1 DEF ArbitrageR12Key, Alert, Key
<1>4. ASSUME a \in MatrixAlerts PROVE a.key.family = "matrix"
  <2>1. PICK r \in Rules : a = Alert(Key("matrix", "", "", <<r.id>>), <<r>>)
    BY <1>4 DEF MatrixAlerts
  <2> QED
    BY <2>1 DEF Alert, Key
<1>5. ASSUME NEW k \in {"ATM", "OTM"}, a \in BullSpreadAlerts(k)
      PROVE  a.key.family = "bale-bs"
  BY <1>5 DEF BullSpreadAlerts, BullSpreadKey, Alert, Key
<1>6. ASSUME NEW k \in {"ATM", "OTM"}, a \in BearPutSpreadAlerts(k)
      PROVE  a.key.family = "bale-bps"
  BY <1>6 DEF BearPutSpreadAlerts, BearPutSpreadKey, Alert, Key
<1> QED
  BY <1>1, <1>2, <1>3, <1>4, <1>5, <1>6 DEF Raised

\* One refresh raises one alert of a kind for a position, except for a bear put
\* spread bought exactly 5% below the spot, and no alert silences another: the
\* keys of Engine.MaybeSend* tell apart what the thresholds let through.
THEOREM OneAlert == Spec => []OneAlertPerPosition
<1>1. TypeOK => OneAlertPerPosition
  <2> SUFFICES ASSUME TypeOK, NEW a \in Raised(FALSE), NEW b \in Raised(FALSE),
                      a.key.family = b.key.family
      PROVE  /\ a.key = b.key => a = b
             /\ a.position = b.position => a = b \/ AtTheBound(a.key.family, a.position)
    BY DEF OneAlertPerPosition
  <2>1. CASE a.key.family = "bale-cc-roi"
    BY <2>1, FamilyOf, CoveredCallsApart
  <2>2. CASE a.key.family = "arb"
    BY <2>2, FamilyOf, ArbitrageApart
  <2>3. CASE a.key.family = "bale-arb-r12"
    BY <2>3, FamilyOf, ArbitrageR12Apart
  <2>4. CASE a.key.family = "matrix"
    BY <2>4, FamilyOf, RulesApart
  <2>5. CASE a.key.family = "bale-bs"
    <3>1. PICK k \in {"ATM", "OTM"} : a \in BullSpreadAlerts(k)
      BY <2>5, FamilyOf
    <3>2. PICK j \in {"ATM", "OTM"} : b \in BullSpreadAlerts(j)
      BY <2>5, FamilyOf
    <3> QED
      BY <3>1, <3>2, BullSpreadsApart
  <2>6. CASE a.key.family = "bale-bps"
    <3>1. PICK k \in {"ATM", "OTM"} : a \in BearPutSpreadAlerts(k)
      BY <2>6, FamilyOf
    <3>2. PICK j \in {"ATM", "OTM"} : b \in BearPutSpreadAlerts(j)
      BY <2>6, FamilyOf
    <3> QED
      BY <2>6, <3>1, <3>2, BearPutSpreadsApart
  <2> QED
    BY <2>1, <2>2, <2>3, <2>4, <2>5, <2>6, FamilyOf
<1> QED
  BY InputsWellTyped, <1>1, PTL
=============================================================================

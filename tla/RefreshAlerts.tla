--------------------------- MODULE RefreshAlerts ---------------------------
(***************************************************************************)
(* The alerts a refresh raises over its option scans: the dispatch of      *)
(* Service.Refresh (internal/scanner/service.go), the thresholds and keys  *)
(* of internal/alerts/engine.go and the matrix rules of                    *)
(* internal/matrixalerts.  What becomes of an alert, once raised, is in    *)
(* AlertDelivery, which sends one alert per key and window.                *)
(***************************************************************************)
EXTENDS OptionScans, Sequences

CONSTANTS \* in percent, as are the R of spreads; 0 disables
          ArbitrageRThreshold, ArbitrageR12Threshold, CoveredCallROIThreshold,
          BullSpreadThreshold, BearPutSpreadThreshold,   \* of each variant
          Rules   \* [id, a, b, operator, threshold]

ThresholdSet == [{"ATM", "OTM"} -> Nat]
RuleSet == [id : Nat, a : Contracts, b : Contracts, operator : {">=", "<=", "=="}, threshold : Int]

ASSUME ThresholdAssumption ==
    /\ ArbitrageRThreshold \in Nat /\ ArbitrageR12Threshold \in Nat
    /\ CoveredCallROIThreshold \in Nat
    /\ BullSpreadThreshold \in ThresholdSet /\ BearPutSpreadThreshold \in ThresholdSet
\* LoadRules does not check it: of two rules with one id, one silences the other.
ASSUME RuleAssumption ==
    /\ Rules \subseteq RuleSet
    /\ \A r, q \in Rules : r.id = q.id => r = q

-----------------------------------------------------------------------------
Reaches(ratio, threshold) == threshold > 0 /\ 100 * ratio.num >= threshold * ratio.den

RewardToRisk(l) == [num |-> MaxProfit(l), den |-> Debit(l)]

Key(family, kind, expiry, of) ==
    [family |-> family, kind |-> kind, expiry |-> expiry, of |-> of]
Alert(key, position) == [key |-> key, position |-> position]

CoveredCallKey(c) == Key("bale-cc-roi", "", c.expiry, <<c.strike>>)
CoveredCallAlerts ==
    {Alert(CoveredCallKey(c), <<c>>) :
        c \in {d \in CoveredCalls : Reaches(StaticROI(d), CoveredCallROIThreshold)}}

ArbitrageKey(p) == Key("arb", "", p[1].expiry, <<p[1].strike>>)
ArbitrageAlerts ==
    {Alert(ArbitrageKey(p), p) : p \in {q \in Opportunities : Reaches(Return(q), ArbitrageRThreshold)}}

ArbitrageR12Key(p) == Key("bale-arb-r12", "", p[1].expiry, <<p[1].strike>>)
ArbitrageR12Alerts ==
    {Alert(ArbitrageR12Key(p), p) :
        p \in {q \in Opportunities : Reaches(ReturnStressed(q), ArbitrageR12Threshold)}}

BullSpreadKeyOfK2(kind, l) == Key("bale-bs", kind, l[1].expiry, <<l[2]>>)   \* mutant: no K1

BullSpreadKey(kind, l) == Key("bale-bs", kind, l[1].expiry, l)
BullSpreadAlerts(kind) ==
    {Alert(BullSpreadKey(kind, l), l) :
        l \in {m \in BullSpreads(kind) : Reaches(RewardToRisk(m), BullSpreadThreshold[kind])}}

BearPutSpreadKey(kind, l) == Key("bale-bps", kind, l[1].expiry, l)
BearPutSpreadAlerts(kind) ==
    {Alert(BearPutSpreadKey(kind, l), l) :
        l \in {m \in BearPutSpreads(kind) : Reaches(RewardToRisk(m), BearPutSpreadThreshold[kind])}}

\* Both symbols of a rule are listed; an unknown operator never triggers.
Evaluate(r) == LET diff == quote[r.a].close - quote[r.b].close
               IN  \/ r.operator = ">=" /\ diff >= r.threshold
                   \/ r.operator = "<=" /\ diff <= r.threshold
                   \/ r.operator = "==" /\ diff = r.threshold
Triggered(r) == quote[r.a] # Unlisted /\ quote[r.b] # Unlisted /\ Evaluate(r)
MatrixAlerts == {Alert(Key("matrix", "", "", <<r.id>>), <<r>>) : r \in {q \in Rules : Triggered(q)}}

\* On a holiday the scans are shown and nothing is raised.
Raised(holiday) ==
    IF holiday THEN {}
    ELSE CoveredCallAlerts \cup ArbitrageAlerts \cup ArbitrageR12Alerts \cup MatrixAlerts
         \cup UNION {BullSpreadAlerts(kind) \cup BearPutSpreadAlerts(kind) : kind \in {"ATM", "OTM"}}

-----------------------------------------------------------------------------
\* Both comparisons of bearputspread include a strike 5% below the spot.
AtTheBound(family, position) == family = "bale-bps" /\ 100 * position[1].strike = 95 * spot

\* One refresh raises one alert of a kind for a position, although the variants
\* of a spread have keys and thresholds of their own: the exception is a bear
\* put spread bought exactly 5% below the spot. And no alert is lost to
\* another one: two alerts with the same key are the same.
OneAlertPerPosition ==
    \A a, b \in Raised(FALSE) :
        /\ a.key = b.key => a = b
        /\ a.position = b.position /\ a.key.family = b.key.family
              => a = b \/ AtTheBound(a.key.family, a.position)

\* ADR 0007:52 and CHANGELOG.md:58, "bale-bs:{kind}:{expiry}:{K2}": bull spreads
\* of one variant and expiry that write the same call share a key.
BullSpreadKeyNamesK2 ==
    \A a, b \in {x \in Raised(FALSE) : x.key.family = "bale-bs"} :
        /\ a.key.kind = b.key.kind /\ a.key.expiry = b.key.expiry
        /\ a.position[2] = b.position[2]
        => a.key = b.key
=============================================================================

--------------------------- MODULE MCOptionScans ---------------------------
(* Instances of RefreshAlerts for TLC: strikes on and beyond the bounds of the *)
(* variants, books with and without orders on each side.                     *)
EXTENDS RefreshAlerts

Contract(t, k, e) == [type |-> t, strike |-> k, expiry |-> e]
Q(c, a, b) == [close |-> c, ask |-> a, bid |-> b]

MCContracts == {Contract("call", k, "near") : k \in {80, 100, 105, 120}}
                  \cup {Contract("put", k, "near") : k \in {80, 95, 100}}
                  \cup {Contract("call", 120, "far"), Contract("put", 80, "far")}

MCExpiries == {"near", "far"}
MCFirstDays == [near |-> 3, far |-> 6]
MCSpots == {0, 100, 120}
MCQuotes == {Q(0, 0, 0), Q(1, 0, 0), Q(3, 5, 1), Q(9, 0, 8), Q(2, 1, 3),
             Q(30, 0, 0), Q(130, 0, 0)}
MCBullThreshold == [ATM |-> 200, OTM |-> 300]
MCBearThreshold == [ATM |-> 150, OTM |-> 300]
Rule(i, a, b, op, t) == [id |-> i, a |-> a, b |-> b, operator |-> op, threshold |-> t]
MCRules == {Rule(1, Contract("call", 105, "near"), Contract("call", 120, "near"), ">=", 2),
            Rule(2, Contract("put", 80, "near"), Contract("put", 95, "near"), "<=", -2),
            Rule(3, Contract("call", 105, "near"), Contract("call", 120, "near"), "==", 0)}
MCFinals == {0, 80, 90, 95, 98, 100, 103, 105, 110, 120, 150}
=============================================================================

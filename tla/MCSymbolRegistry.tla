-------------------------- MODULE MCSymbolRegistry --------------------------
(* Instances of SymbolRegistry for TLC. *)
EXTENDS SymbolRegistry, TLC

CONSTANTS background, page, a, b

MCOne == {background}
MCTwo == {background, page}
MCNames == {a, b}
Q(s, v, chg, vol) == [share |-> s, value |-> v, change |-> chg, volume |-> vol]
Calm == Q(TRUE, 1, 35, 99)        \* a strong move without a queue
Near == Q(TRUE, 1, 35, 100)
Limit == Q(TRUE, 1, 49, 0)
Fund == Q(FALSE, 1, 50, 100)
One(n, q) == [m \in {n} |-> q]
Both(n, q, m, p) == [k \in {n, m} |-> IF k = n THEN q ELSE p]
MCFeeds == {One(n, Fund) : n \in MCNames} \cup
           UNION {{Both(n, Near, m, Limit), Both(n, Calm, m, Limit)} :
                    <<n, m>> \in {<<a, b>>, <<b, a>>}}
MCTies == MCFeeds \cup {Both(a, Limit, b, Limit)}
MCWeekend == {1, 5}   \* one day of trading, three off, trading again
MCThreeDays == {1, 2, 3}
MCSymmetry == Permutations(MCTwo) \cup Permutations(MCNames)
=============================================================================

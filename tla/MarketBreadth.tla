---------------------------- MODULE MarketBreadth ----------------------------
(***************************************************************************)
(* What a refresh derives from the market: the counts of a day and its     *)
(* per-symbol table (internal/market/classify.go), the history it averages *)
(* (Service.Refresh, mergeTodayIntoHistory), the Breadth Thrust and        *)
(* Advance/Decline indicators (internal/indicators/market.go), the alerts  *)
(* on them, and the page that shows all of it.                             *)
(*                                                                         *)
(* A refresh is one step here; MarketDays interleaves it.  Ratios are      *)
(* multiples of 1/Scale, means are kept as a sum and a number of days.     *)
(***************************************************************************)
EXTENDS Integers, FiniteSets, SequencesExt, FiniteSetsExt, Functions

CONSTANTS Shares,      \* the Stock Universe
          Feeds,       \* answers of /api/?all: name -> value traded and
                       \* final_price_change_percent (in tenths of a percent)
          MaxDay,      \* days are 1 .. MaxDay; the program starts on day 2
          HistoryDays, \* rows LastDays returns (30 in the code)
          Window,      \* days averaged (10 in the code)
          Scale,       \* a common multiple of the possible denominators
          BreadthLimits, AdvanceLimits,   \* Thresholds, in multiples of 1/Scale
          FaultKinds   \* {"read", "row", "table"}: statements of the store that may fail

ASSUME WindowAssumption == Window \in Nat \ {0} /\ HistoryDays \in Nat \ {0}
ASSUME UniverseAssumption == IsFiniteSet(Shares)
ASSUME FeedAssumption == /\ <<>> \in Feeds
                         /\ \A feed \in Feeds : \A s \in DOMAIN feed :
                               feed[s].value \in Int /\ feed[s].change \in Int
ASSUME DayAssumption == MaxDay \in Nat /\ MaxDay >= 2
ASSUME ScaleAssumption == /\ Scale \in Nat \ {0}
                          /\ \A n \in 1 .. Cardinality(Shares) : Scale % n = 0
ASSUME LimitsAssumption == \A limits \in {BreadthLimits, AdvanceLimits} :
                               limits.high \in Int /\ limits.low \in Int

VARIABLES day,     \* UTC date
          closed,  \* after 13:00 Tehran
          rows,    \* market_daily_stats: day -> counts
          tables,  \* market_symbol_snapshot: day -> symbol -> status
          view,    \* the snapshot the last step returned
          sent     \* the alerts it handed to the alert engine

vars == <<day, closed, rows, tables, view, sent>>

-----------------------------------------------------------------------------
\* Funds, options and rights are in the feed too and never counted; the empty
\* feed is a failed fetch.
Counted(feed) == {s \in DOMAIN feed \cap Shares : feed[s].value > 0}

ClassifyDay(feed) ==
    LET C == Counted(feed)
    IN [positive |-> Cardinality({s \in C : feed[s].change > 5}),
        negative |-> Cardinality({s \in C : feed[s].change < -5}),
        total |-> Cardinality(C)]

SymbolRowsInclusive(feed) ==   \* mutant: >= 0.5
    [s \in Counted(feed) |-> IF feed[s].change >= 5 THEN "positive"
                             ELSE IF feed[s].change < -5 THEN "negative" ELSE "neutral"]

SymbolRows(feed) ==
    [s \in Counted(feed) |-> IF feed[s].change > 5 THEN "positive"
                             ELSE IF feed[s].change < -5 THEN "negative" ELSE "neutral"]

-----------------------------------------------------------------------------
\* UpsertDay, UpsertSymbolSnapshot: what is stored of a day replaces what was.
Stored(table, d, value) == [e \in DOMAIN table \cup {d} |-> IF e = d THEN value ELSE table[e]]

Row(d, counts) == [day |-> d, counts |-> counts]

Nth(S, i) == CHOOSE d \in S : Cardinality({e \in S : e < d}) = i - 1

\* LastDays: the newest rows, in chronological order.
LastDays(n) ==
    LET newest == {d \in DOMAIN rows : Cardinality({e \in DOMAIN rows : e > d}) < n}
    IN [i \in 1 .. Cardinality(newest) |-> Row(Nth(newest, i), rows[Nth(newest, i)])]

mergeTodayIntoHistory(history, today) ==
    IF \E i \in DOMAIN history : history[i].day = day
    THEN [i \in DOMAIN history |-> IF history[i].day = day THEN Row(day, today) ELSE history[i]]
    ELSE Append(history, Row(day, today))

BreadthDailyValue(c) == (Scale * c.positive) \div c.total

AdvanceDeclineDailyValue(c) ==
    IF c.positive <= 0 /\ c.negative <= 0 THEN 0
    ELSE (Scale * c.positive) \div Max({c.negative, 1})

DailyValue(kind, c) == IF kind = "breadth" THEN BreadthDailyValue(c)
                       ELSE AdvanceDeclineDailyValue(c)
Limits(kind) == IF kind = "breadth" THEN BreadthLimits ELSE AdvanceLimits

Sum(s) == FoldLeft(LAMBDA a, b : a + b, 0, s)

AverageOfTheFirst(values) ==   \* mutant: values[:n]
    LET n == Min({Window, Len(values)})
    IN [sum |-> Sum(SubSeq(values, 1, n)), days |-> n]

AverageLast(values) ==
    LET n == Min({Window, Len(values)})
    IN [sum |-> Sum(SubSeq(values, Len(values) - n + 1, Len(values))), days |-> n]

AlertStateOfASum(limits, mean) ==   \* mutant: the sum is compared, not the mean
    IF limits.high > 0 /\ mean.sum >= limits.high THEN "high"
    ELSE IF limits.low > 0 /\ mean.sum <= limits.low THEN "low"
    ELSE "normal"

AlertState(limits, mean) ==
    IF limits.high > 0 /\ mean.sum >= limits.high * mean.days THEN "high"
    ELSE IF limits.low > 0 /\ mean.sum <= limits.low * mean.days THEN "low"
    ELSE "normal"

NoResult == [current |-> 0, mean |-> [sum |-> 0, days |-> 0], state |-> ""]

\* Evaluate of either engine: rows without traded symbols are skipped.
Evaluate(history, kind) ==
    LET kept == {i \in DOMAIN history : history[i].counts.total > 0}
        values == [i \in 1 .. Cardinality(kept) |-> DailyValue(kind, history[Nth(kept, i)].counts)]
        mean == AverageLast(values)
    IN IF values = <<>> THEN NoResult
       ELSE [current |-> Last(values), mean |-> mean, state |-> AlertState(Limits(kind), mean)]

\* DailyHistory: newest first, the rows of the window marked.
DailyHistory(history) ==
    Reverse([i \in DOMAIN history |->
        [day |-> history[i].day, counts |-> history[i].counts,
         inWindow |-> i > Len(history) - Window]])

LatestSymbolSnapshot(t) == IF t = <<>> THEN <<>> ELSE t[Max(DOMAIN t)]

-----------------------------------------------------------------------------
NoView == [breadth |-> NoResult, advance |-> NoResult, history |-> <<>>, symbols |-> <<>>]

Init == /\ day = 2 /\ closed = FALSE
        /\ rows = <<>> /\ tables = <<>>
        /\ view = NoView /\ sent = {}

\* Counts on record for the day are used again.
Frozen(history) == {i \in DOMAIN history : history[i].day = day}
Today(feed, history) == IF Frozen(history) = {} THEN ClassifyDay(feed)
                        ELSE history[CHOOSE i \in Frozen(history) : TRUE].counts

HasToday(feed, history) == feed # <<>> /\ Today(feed, history).total > 0
IsHoliday(feed, history) == /\ HasToday(feed, history) /\ history # <<>>
                            /\ Last(history).counts = Today(feed, history)
Records(feed, history) == /\ closed /\ HasToday(feed, history)
                          /\ ~ IsHoliday(feed, history) /\ Frozen(history) = {}

\* The row and the table of the day, by two statements that may fail.
StoreToday(feed, history) ==
    IF Records(feed, history)
    THEN /\ rows' \in {Stored(rows, day, Today(feed, history))}
                      \cup {rows : k \in FaultKinds \cap {"row"}}
         /\ tables' \in {Stored(tables, day, SymbolRows(feed))}
                        \cup {tables : k \in FaultKinds \cap {"table"}}
    ELSE UNCHANGED <<rows, tables>>

\* Service.Refresh, the part on the market.
Refresh ==
    \E feed \in Feeds,
       history \in {LastDays(HistoryDays)} \cup {<<>> : k \in FaultKinds \cap {"read"}} :
        LET merged == IF Records(feed, history)
                      THEN mergeTodayIntoHistory(history, Today(feed, history)) ELSE history
            breadth == Evaluate(merged, "breadth")
            advance == Evaluate(merged, "advance")
        IN /\ StoreToday(feed, history)
           /\ view' = [breadth |-> breadth, advance |-> advance,
                       history |-> DailyHistory(merged),
                       symbols |-> LatestSymbolSnapshot(tables')]
           /\ sent' = IF IsHoliday(feed, history) THEN {}
                      ELSE {[kind |-> "breadth", result |-> breadth] : x \in {breadth.state} \ {""}}
                           \cup {[kind |-> "advance", result |-> advance] : x \in {advance.state} \ {""}}
           /\ UNCHANGED <<day, closed>>

\* One write of a backfill: any past day without a per-symbol table.
Fill ==
    \E d \in 1 .. day - 1, counts \in {ClassifyDay(feed) : feed \in Feeds} :
        /\ d \notin DOMAIN tables
        /\ counts.total > 0
        /\ rows' = Stored(rows, d, counts)
        /\ view' = NoView /\ sent' = {}
        /\ UNCHANGED <<day, closed, tables>>

\* 13:00 Tehran, then midnight UTC.  The walk starts over after MaxDay with an
\* empty store, so that a day can always end.
Clock ==
    /\ view' = NoView /\ sent' = {}
    /\ \/ ~closed /\ closed' = TRUE /\ UNCHANGED <<day, rows, tables>>
       \/ /\ closed /\ day < MaxDay
          /\ closed' = FALSE /\ day' = day + 1
          /\ UNCHANGED <<rows, tables>>
       \/ /\ closed /\ day = MaxDay
          /\ closed' = FALSE /\ day' = 2
          /\ rows' = <<>> /\ tables' = <<>>

Next == Refresh \/ Fill \/ Clock

Spec == Init /\ [][Next]_vars

-----------------------------------------------------------------------------
CountsOf(table) ==
    [positive |-> Cardinality({s \in DOMAIN table : table[s] = "positive"}),
     negative |-> Cardinality({s \in DOMAIN table : table[s] = "negative"}),
     total |-> Cardinality(DOMAIN table)]

IsCounts(c) == c.total \in 1 .. Cardinality(Shares) /\ c.positive \in Nat /\ c.negative \in Nat
               /\ c.positive + c.negative <= c.total

TypeOK == /\ day \in 2 .. MaxDay /\ closed \in BOOLEAN
          /\ DOMAIN rows \cup DOMAIN tables \subseteq 1 .. day
          /\ \A d \in DOMAIN rows : IsCounts(rows[d])
          /\ \A d \in DOMAIN tables : DOMAIN tables[d] \subseteq Shares
          /\ Len(view.history) <= HistoryDays + 1
          /\ \A r \in sent : r.result.state \in {"high", "low", "normal"}

\* The counts of a day and the table of its symbols are computed by two
\* filters (ClassifyDay, SymbolRows) and stored by two statements, and days
\* are rewritten by backfills and by refreshes that could not read the store:
\* whenever a day has both, the table adds up to the counts.
TableExplainsCounts ==
    \A d \in DOMAIN rows \cap DOMAIN tables : rows[d] = CountsOf(tables[d])

Marked(table) == {i \in DOMAIN table : table[i].inWindow}

MeanOver(result, kind, table) ==
    /\ result.mean.days = Cardinality(Marked(table))
    /\ result.mean.sum = MapThenSumSet(LAMBDA i : DailyValue(kind, table[i].counts), Marked(table))

\* The averages of /market are the averages of the rows its table marks as
\* the window, and the current value is that of the newest row, though
\* Evaluate drops rows, Refresh appends one, and the marks are set elsewhere.
AverageAgreesWithTable ==
    view.history # <<>> =>
        /\ MeanOver(view.breadth, "breadth", view.history)
        /\ MeanOver(view.advance, "advance", view.history)
        /\ view.breadth.current = BreadthDailyValue(view.history[1].counts)

\* An alert has its reason on the page: "high" needs a day of the window at or
\* above the limit, "low" one at or below, however few days are averaged.
Explains(a, value) == \/ a.result.state = "high" /\ value >= Limits(a.kind).high
                      \/ a.result.state = "low" /\ value <= Limits(a.kind).low
                      \/ a.result.state = "normal"
AlertHasItsDay ==
    \A a \in sent : \E i \in Marked(view.history) : Explains(a, DailyValue(a.kind, view.history[i].counts))

\* CONTEXT.md: "the alerting signal is its rolling 10-day average".  An alert
\* averages the whole window, or every stored day while there are fewer.
AlertsUseTheWindow ==
    \A a \in sent : a.result.mean.days >= Min({Window, Cardinality(DOMAIN rows)})
=============================================================================

--------------------------- MODULE SymbolRegistry ---------------------------
(***************************************************************************)
(* The buy-queue page: the symbol registry and the streaks that every      *)
(* refresh keeps up to date (internal/market/sqlitestore.go:               *)
(* RegisterSymbols, UpsertQueueStreaks) and the list of candidates it      *)
(* makes of them (internal/market/queue.go: ScanQueue; called by           *)
(* Service.Refresh).  The feed is whatever the vendor answers: on days     *)
(* without trading it repeats an old answer.                               *)
(***************************************************************************)
EXTENDS Integers, Sequences, FiniteSets, FiniteSetsExt

CONSTANTS Refreshers,   \* refreshes that may overlap
          Names,        \* symbols
          Feeds,        \* answers of the vendor: a quote for some of the symbols
          NearLimit, AtLimit, MinQueueVolume,
          TradingDays,  \* days on which the market opens
          MaxDay,       \* days are 1 .. MaxDay (UTC dates)
          MaxCalls,     \* refreshes that find a buy queue, in total
          MaxFaults     \* database errors, in total

ASSUME DayAssumption == MaxDay \in Nat \ {0} /\ TradingDays \subseteq 1 .. MaxDay
ASSUME CallAssumption == MaxCalls \in Nat \ {0} /\ MaxFaults \in Nat

\* [share, value, change, volume]: neither an option, a right nor a fund; the
\* trade value, the change of the price and the volume of the first buy row.
Quote == [share : BOOLEAN, value : Nat, change : Int, volume : Nat]
ASSUME FeedAssumption == \A f \in Feeds :
    /\ DOMAIN f \in SUBSET Names \ {{}} /\ IsFiniteSet(DOMAIN f)
    /\ \A n \in DOMAIN f : f[n] \in Quote
ASSUME QueueAssumption == NearLimit \in Int /\ AtLimit \in Int /\ MinQueueVolume \in Nat

Days == 1 .. MaxDay

\* The closures UpsertQueueStreaks is written for: a weekend, Friday and
\* Saturday off, with a day to spare.  Four days in a row have a trading day.
ASSUME WeekendAssumption == \A d \in Days :
    d + 4 < MaxDay => \E e \in TradingDays : d < e /\ e <= d + 4

VARIABLES day,       \* UTC date
          calls,     \* refreshes so far that found a buy queue
          registry,  \* symbol_registry: first_seen_date of each name, 0 = no row
          streak,    \* queue_streak: [n, last] of each name, n = 0: no row
          pc,        \* per refresh: its next step
          feed,      \* per refresh: the quotes it fetched
          empty,     \* per refresh: COUNT(*) was 0
          flagged,   \* per refresh: what RegisterSymbols returned
          list,      \* per refresh: QueueCandidates of the snapshot it built
          first,     \* history: day on which each name was first inserted
          seeds,     \* history: names inserted into the empty registry
          queued,    \* history: days on which each name was stored as queued
          faults

tables == <<registry, streak>>
history == <<first, seeds, queued>>
locals == <<pc, feed, empty, flagged, list>>
vars == <<day, calls, tables, locals, history, faults>>

NoStreak == [n |-> 0, last |-> 0]
NoFeed == [n \in {} |-> 0]

Init == /\ day = 1 /\ calls = 0
        /\ registry = [n \in Names |-> 0]
        /\ streak = [n \in Names |-> NoStreak]
        /\ pc = [r \in Refreshers |-> "idle"]
        /\ feed = [r \in Refreshers |-> NoFeed]
        /\ empty = [r \in Refreshers |-> FALSE]
        /\ flagged = [r \in Refreshers |-> {}]
        /\ list = [r \in Refreshers |-> <<>>]
        /\ first = [n \in Names |-> 0] /\ seeds = {}
        /\ queued = [n \in Names |-> {}]
        /\ faults = 0

Fault == faults < MaxFaults /\ faults' = faults + 1

Goto(r, step) == pc' = [pc EXCEPT ![r] = step]

\* A big move needs no queue; a smaller one needs volume in the first row.
IsAtLimit(q) == q.change >= AtLimit
IsNearLimit(q) == q.change >= NearLimit /\ q.volume >= MinQueueVolume
Candidate(q) == q.share /\ q.value > 0 /\ (IsAtLimit(q) \/ IsNearLimit(q))

InQueue(f) == {n \in DOMAIN f : Candidate(f[n])}

Score(q, isIPO) == IF ~ IsAtLimit(q) THEN 1 ELSE IF isIPO THEN 3 ELSE 2

\* The comparison of sort.Slice, of rows whose streaks are not filled in.
Before(c, d) == \/ c.score > d.score
                \/ /\ c.score = d.score
                   /\ \/ c.volume > d.volume
                      \/ c.volume = d.volume /\ c.change > d.change

Sorted(rows) == {l \in [1 .. Cardinality(rows) -> rows] :
                    \A i, j \in DOMAIN l : i < j => l[i] # l[j] /\ ~ Before(l[j], l[i])}

\* ScanQueue, called without streaks; sort.Slice leaves the order of ties open.
ScanQueue(f, new) == Sorted(
    {[name |-> n, score |-> Score(f[n], n \in new),
      volume |-> f[n].volume, change |-> f[n].change] : n \in InQueue(f)})

\* Refresh with a non-empty feed.
Fetch(r) ==
    /\ pc[r] = "idle"
    /\ \E f \in Feeds :
          /\ \/ InQueue(f) = {} /\ UNCHANGED calls
             \/ InQueue(f) # {} /\ calls < MaxCalls /\ calls' = calls + 1
          /\ feed' = [feed EXCEPT ![r] = f]
    /\ flagged' = [flagged EXCEPT ![r] = {}]
    /\ list' = [list EXCEPT ![r] = <<>>]
    /\ Goto(r, "count")
    /\ UNCHANGED <<day, tables, empty, history, faults>>

\* RegisterSymbols: SELECT COUNT(*), outside the transaction.
Count(r) ==
    /\ pc[r] = "count"
    /\ \/ /\ empty' = [empty EXCEPT ![r] = \A n \in Names : registry[n] = 0]
          /\ Goto(r, "insert")
          /\ UNCHANGED faults
       \/ Fault /\ Goto(r, "streak") /\ UNCHANGED empty
    /\ UNCHANGED <<day, calls, tables, feed, flagged, list, history>>

\* mutant: INSERT OR REPLACE.
InsertReplacing(r) == registry' = [n \in Names |->
    IF n \in DOMAIN feed[r] THEN day ELSE registry[n]]

\* INSERT OR IGNORE of every name, in one transaction.
InsertNames(r) == registry' = [n \in Names |->
    IF n \in DOMAIN feed[r] /\ registry[n] = 0 THEN day ELSE registry[n]]

Insert(r) ==
    /\ pc[r] = "insert"
    /\ \/ /\ InsertNames(r)
          /\ first' = [n \in Names |->
                IF n \in DOMAIN feed[r] /\ first[n] = 0 THEN day ELSE first[n]]
          /\ seeds' = IF \A n \in Names : registry[n] = 0 THEN DOMAIN feed[r] ELSE seeds
          /\ Goto(r, IF empty[r] THEN "streak" ELSE "select")
          /\ UNCHANGED faults
       \/ Fault /\ Goto(r, "streak") /\ UNCHANGED <<registry, first, seeds>>
    /\ UNCHANGED <<day, calls, streak, feed, empty, flagged, list, queued>>

\* SELECT the names of the feed whose first_seen_date is today.
NewNames(r) == {n \in DOMAIN feed[r] : registry[n] = day}

Select(r) ==
    /\ pc[r] = "select"
    /\ \/ flagged' = [flagged EXCEPT ![r] = NewNames(r)] /\ UNCHANGED faults
       \/ Fault /\ UNCHANGED flagged
    /\ Goto(r, "streak")
    /\ UNCHANGED <<day, calls, tables, feed, empty, list, history>>

ContinuesShortly(s) == s.n > 0 /\ day - s.last < 4   \* mutant: < for <=

\* CASE WHEN julianday(today) - julianday(last_date) <= 4.
Continues(s) == s.n > 0 /\ day - s.last <= 4

NextStreak(s) == [n |-> IF Continues(s) THEN s.n + 1 ELSE 1, last |-> day]

\* mutant: a symbol that is not in the queue now loses its streak.
StreaksOfQueue(queue) == [n \in Names |-> IF n \in queue THEN NextStreak(streak[n]) ELSE NoStreak]

\* INSERT ... ON CONFLICT DO UPDATE of every name in the queue, and of no other.
NextStreaks(queue) == [n \in Names |-> IF n \in queue THEN NextStreak(streak[n]) ELSE streak[n]]

\* The candidates, with the streaks that are known.
ShowList(r, known) == \E l \in ScanQueue(feed[r], flagged[r]) :
    list' = [list EXCEPT ![r] = [i \in DOMAIN l |->
        [name |-> l[i].name, score |-> l[i].score,
         streak |-> IF l[i].name \in known THEN streak[l[i].name].n ELSE 0]]]

RefreshOver(r) == /\ Goto(r, "idle")
                  /\ feed' = [feed EXCEPT ![r] = NoFeed]
                  /\ empty' = [empty EXCEPT ![r] = FALSE]

\* UpsertQueueStreaks for what ScanQueue keeps, if it keeps anything, in one
\* transaction; without it the page shows no streaks.
Upsert(r) ==
    LET queue == InQueue(feed[r])
    IN  /\ pc[r] = "streak"
        /\ \/ /\ queue = {}
              /\ RefreshOver(r)
              /\ UNCHANGED <<streak, queued, list, faults>>
           \/ /\ queue # {}
              /\ streak' = NextStreaks(queue)
              /\ queued' = [n \in Names |-> IF n \in queue THEN queued[n] \cup {day} ELSE queued[n]]
              /\ Goto(r, "read")
              /\ UNCHANGED <<feed, empty, list, faults>>
           \/ /\ queue # {} /\ Fault
              /\ ShowList(r, {})
              /\ RefreshOver(r)
              /\ UNCHANGED <<streak, queued>>
        /\ UNCHANGED <<day, calls, registry, flagged, first, seeds>>

\* Its SELECT, after the commit; an error may leave it with some of the rows.
ReadStreaks(r) ==
    /\ pc[r] = "read"
    /\ \/ ShowList(r, Names) /\ UNCHANGED faults
       \/ Fault /\ \E known \in SUBSET Names : ShowList(r, known)
    /\ RefreshOver(r)
    /\ UNCHANGED <<day, calls, tables, flagged, history>>

\* What the refreshes of a past day found is not looked at any more.
NextDay == /\ day < MaxDay
           /\ \A r \in Refreshers : pc[r] = "idle"
           /\ day' = day + 1
           /\ flagged' = [r \in Refreshers |-> {}]
           /\ list' = [r \in Refreshers |-> <<>>]
           /\ UNCHANGED <<calls, tables, pc, feed, empty, history, faults>>

Next == \/ \E r \in Refreshers : \/ Fetch(r) \/ Count(r) \/ Insert(r) \/ Select(r)
                                 \/ Upsert(r) \/ ReadStreaks(r)
        \/ NextDay

Spec == Init /\ [][Next]_vars

-----------------------------------------------------------------------------
TypeOK == /\ day \in Days /\ calls \in 0 .. MaxCalls
          /\ registry \in [Names -> 0 .. MaxDay]
          /\ streak \in [Names -> [n : Nat, last : 0 .. MaxDay]]
          /\ pc \in [Refreshers -> {"idle", "count", "insert", "select", "streak", "read"}]
          /\ feed \in [Refreshers -> Feeds \cup {NoFeed}]
          /\ empty \in [Refreshers -> BOOLEAN]
          /\ flagged \in [Refreshers -> SUBSET Names]
          /\ list \in [Refreshers -> Seq([name : Names, score : 1 .. 3, streak : Nat])]
          /\ first \in [Names -> 0 .. MaxDay] /\ seeds \in SUBSET Names
          /\ queued \in [Names -> SUBSET Days]
          /\ faults \in Nat

\* A symbol is shown as a new listing only on the day it was first stored,
\* however often it leaves the feed and comes back.
FlaggedIsNew == \A r \in Refreshers : \A n \in flagged[r] : first[n] = day

\* The trading days from d to the last day n was stored as queued on.
Since(n, d) == {e \in TradingDays : d <= e /\ \E q \in queued[n] : e <= q}

\* A streak of k covers the current run of n, however early it is said to begin.
Covers(k, n) == \A d \in Days : Since(n, d) \subseteq queued[n] => k >= Cardinality(Since(n, d))

\* A weekend, a failed transaction or an overlapping refresh never shortens a
\* streak: it covers every run of trading days, each of them stored as queued,
\* that leads to the last day stored.
StreakNeverUndercounts == \A n \in Names : Covers(streak[n].n, n)

\* The list on the page, put together from the feed, the registry and the
\* streaks while other refreshes store streaks of other feeds, between the
\* transaction of this one and its SELECT too: it starts with the new listings
\* at the limit, which first appeared today; a streak is shown for every
\* candidate unless a statement failed, and none is shown shorter than the run
\* of trading days the symbol was queued on.
ListIsExplained == \A r \in Refreshers : \A i \in DOMAIN list[r] :
    /\ list[r][i].score = 3 => first[list[r][i].name] = day
    /\ IF list[r][i].streak = 0 THEN faults > 0 ELSE Covers(list[r][i].streak, list[r][i].name)
    /\ \A j \in DOMAIN list[r] : i < j => list[r][i].score >= list[r][j].score

\* queue.go:71: of two candidates with the same score the one with the longer
\* streak comes first.
TiesShowLongerStreakFirst == \A r \in Refreshers : \A i, j \in DOMAIN list[r] :
    i < j /\ list[r][i].score = list[r][j].score => list[r][i].streak >= list[r][j].streak

\* sqlitestore.go:314, "so the entire symbol universe isn't flagged as IPOs":
\* a name that seeded the empty registry is not reported as new.
SeedIsNotFlagged == \A r \in Refreshers : flagged[r] \cap seeds = {}

\* queue.go:16, "consecutive trading days in buy queue": a streak does not
\* exceed the days on which the symbol was in the queue.
StreakCountsDays == \A n \in Names : streak[n].n <= Cardinality(queued[n])
=============================================================================

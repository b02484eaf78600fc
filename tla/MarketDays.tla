----------------------------- MODULE MarketDays -----------------------------
(***************************************************************************)
(* The daily market statistics: how Service.Refresh records a trading day  *)
(* and its per-symbol snapshot (internal/scanner/service.go), how the      *)
(* backfill of the scheduler and the one of cmd/rebackfill fill past days  *)
(* from candles (internal/market/backfill.go), and the tables both write   *)
(* (internal/market/sqlitestore.go).                                       *)
(*                                                                         *)
(* Statistics are abstracted to where they come from: a live classification*)
(* of the market of one session, which the vendor may still revise, or an  *)
(* aggregate of candles over some of the symbol batches.                   *)
(***************************************************************************)
EXTENDS Integers, FiniteSets, FiniteSetsExt

CONSTANTS Refreshers,     \* refreshes that may overlap: background, page
          Fillers,        \* "scheduler" and/or "cli"
          MaxDay,         \* days are 1 .. MaxDay (UTC dates)
          MaxDrift,       \* how often the vendor revises one session
          PostCloseDrift, \* whether it does so after 13:00 Tehran
          NBatches,       \* symbol batches of a backfill
          RequiredDays,   \* backfillRequiredDays
          FaultKinds,     \* which of the fault kinds below may happen
          MaxFaults       \* how many of them, in total

AllFaults == {"fetch", "read", "write", "snapwrite", "gate", "preserve",
              "candle", "cancel", "crash"}
AllFillers == {"scheduler", "cli"}

ASSUME FillerAssumption == Fillers \subseteq AllFillers /\ Refreshers \cap AllFillers = {}
ASSUME DayAssumption == MaxDay \in Nat \ {0}
ASSUME BatchAssumption == NBatches \in Nat \ {0}
ASSUME DriftAssumption == MaxDrift \in Nat /\ PostCloseDrift \in BOOLEAN
ASSUME LimitAssumption == RequiredDays \in Nat /\ MaxFaults \in Nat
                          /\ FaultKinds \subseteq AllFaults

Days == 1 .. MaxDay
Phases == {"morning", "afternoon", "night"}

\* Counts of a day.  Two of them are equal only if they are the same
\* classification (docs/adr/0006 accepts that two sessions never coincide).
Live(d, v) == [src |-> "live", day |-> d, v |-> v]
Candles(d, n) == [src |-> "candle", day |-> d, v |-> n]
None == [src |-> "none", day |-> 0, v |-> 0]         \* no row
NoTrades == [src |-> "empty", day |-> 0, v |-> 0]    \* answered, total = 0
NoAnswer == [src |-> "failed", day |-> 0, v |-> 0]   \* FetchAllSymbols failed

LiveCounts == {Live(d, v) : d \in Days, v \in 0 .. MaxDrift}
Quotes == LiveCounts \cup {NoTrades}
Stats == LiveCounts \cup {Candles(d, n) : d \in Days, n \in 1 .. NBatches}

VARIABLES day, phase,   \* UTC date; before 13:00 Tehran, after, after midnight
          sessions,     \* days on which the market opened
          api,          \* what the vendor answers now
          rows,         \* market_daily_stats: rows[d], or None
          snaps,        \* market_symbol_snapshot: snaps[d], or None
          rpc,          \* per refresh: its next step
          quote,        \* per refresh: the symbols it fetched
          muted,        \* per refresh: its last isHolidaySnapshot
          bpc,          \* per backfill: its next step
          bday,         \* per backfill: today, as computed at its start
          keep,         \* per backfill: preserveDates
          batch,        \* per backfill: batches done
          got,          \* per backfill: allDays, as batches counted per day
          left,         \* per backfill: days still to be written
          spans,        \* refreshes and backfills the clock overtook once
          faults        \* faults so far

clock == <<day, phase, sessions>>
refresh == <<rpc, quote, muted>>
fill == <<bpc, bday, keep, batch, got, left>>
vars == <<clock, api, rows, snaps, refresh, fill, spans, faults>>

Fault(kind) == /\ kind \in FaultKinds
               /\ faults < MaxFaults
               /\ faults' = faults + 1

NoGot == [d \in Days |-> 0]

Init == /\ day = 1 /\ phase = "morning" /\ sessions = {}
        /\ api = NoTrades
        /\ rows = [d \in Days |-> None]
        /\ snaps = [d \in Days |-> None]
        /\ rpc = [r \in Refreshers |-> "idle"]
        /\ quote = [r \in Refreshers |-> NoAnswer]
        /\ muted = [r \in Refreshers |-> FALSE]
        /\ bpc = [b \in Fillers |-> "idle"]
        /\ bday = [b \in Fillers |-> 1]
        /\ keep = [b \in Fillers |-> {}]
        /\ batch = [b \in Fillers |-> 0]
        /\ got = [b \in Fillers |-> NoGot]
        /\ left = [b \in Fillers |-> {}]
        /\ spans = {}
        /\ faults = 0

-----------------------------------------------------------------------------
(***************************************************************************)
(* The clock and the vendor.  13:00 and midnight Tehran, midnight UTC and  *)
(* the opening of the market are hours apart, a refresh is over within two *)
(* minutes and a backfill within sixty (its context): none of them spans   *)
(* two of those instants.                                                  *)
(***************************************************************************)
Running == {r \in Refreshers : rpc[r] # "idle"} \cup {b \in Fillers : bpc[b] # "idle"}

ClockMoves == /\ Running \cap spans = {}
              /\ spans' = Running

OpenSession ==
    /\ phase = "morning" /\ day \notin sessions
    /\ ClockMoves
    /\ sessions' = sessions \cup {day}
    /\ api' = Live(day, 0)
    /\ UNCHANGED <<day, phase, rows, snaps, refresh, fill, faults>>

\* On a day without a session the vendor repeats its last one, or nothing.
NextPhase ==
    /\ ClockMoves
    /\ \/ /\ phase = "morning" /\ phase' = "afternoon"
          /\ UNCHANGED <<day, api>>
       \/ /\ phase = "afternoon" /\ phase' = "night"
          /\ UNCHANGED <<day, api>>
       \/ /\ phase = "night" /\ phase' = "morning"
          /\ day < MaxDay /\ day' = day + 1
          /\ api' \in {api, NoTrades}
    /\ UNCHANGED <<sessions, rows, snaps, refresh, fill, faults>>

Drift ==
    /\ \/ phase = "morning" /\ day \in sessions
       \/ phase = "afternoon" /\ PostCloseDrift
    /\ api.src = "live" /\ api.v < MaxDrift
    /\ api' = [api EXCEPT !.v = @ + 1]
    /\ UNCHANGED <<clock, rows, snaps, refresh, fill, spans, faults>>

-----------------------------------------------------------------------------
\* Refresh: FetchAllSymbols.
Fetch(r) ==
    /\ rpc[r] = "idle"
    /\ rpc' = [rpc EXCEPT ![r] = "load"]
    /\ \/ quote' = [quote EXCEPT ![r] = api] /\ UNCHANGED faults
       \/ Fault("fetch") /\ quote' = [quote EXCEPT ![r] = NoAnswer]
    /\ spans' = spans \ {r}
    /\ UNCHANGED <<clock, api, rows, snaps, muted, fill>>

\* history[len(history)-1]: the row of the latest date, if there is one.
Latest(h) == LET recorded == {d \in Days : h[d] # None}
             IN IF recorded = {} THEN None ELSE h[Max(recorded)]

\* frozenDayInHistory: today's row, once there is one, replaces the quote.
TodayStats(h, q) == IF h[day] # None THEN h[day] ELSE q

Counted(stats) == stats \notin {None, NoTrades, NoAnswer}   \* Total > 0

IsHolidaySnapshot(h, q) == /\ q # NoAnswer
                           /\ Counted(TodayStats(h, q))
                           /\ Latest(h) = TodayStats(h, q)

RecordAnyTime(h, q) == /\ q # NoAnswer           \* mutant: no wait for 13:00
                       /\ Counted(TodayStats(h, q))
                       /\ ~ IsHolidaySnapshot(h, q)
                       /\ h[day] = None

RecordToday(h, q) == /\ phase = "afternoon"      \* isTehranAfter(13, 0)
                     /\ q # NoAnswer
                     /\ Counted(TodayStats(h, q))
                     /\ ~ IsHolidaySnapshot(h, q)
                     /\ h[day] = None            \* not alreadyFrozen

\* The refresh is over, and its variables are gone.
EndRefresh(r) == /\ rpc' = [rpc EXCEPT ![r] = "idle"]
                 /\ quote' = [quote EXCEPT ![r] = NoAnswer]

\* Refresh: LastDays, then the holiday guard and the decision to record.
\* When LastDays fails the refresh goes on with an empty history.
LoadFrom(r, h) ==
    /\ muted' = [muted EXCEPT ![r] = IsHolidaySnapshot(h, quote[r])]
    /\ IF RecordToday(h, quote[r])
       THEN rpc' = [rpc EXCEPT ![r] = "record"] /\ UNCHANGED quote
       ELSE EndRefresh(r)

Load(r) ==
    /\ rpc[r] = "load"
    /\ \/ LoadFrom(r, rows) /\ UNCHANGED faults
       \/ Fault("read") /\ LoadFrom(r, [d \in Days |-> None])
    /\ UNCHANGED <<clock, api, rows, snaps, fill, spans>>

\* Refresh: UpsertToday.  Its error is ignored.
Record(r) ==
    /\ rpc[r] = "record"
    /\ rpc' = [rpc EXCEPT ![r] = "snapshot"]
    /\ \/ rows' = [rows EXCEPT ![day] = quote[r]] /\ UNCHANGED faults
       \/ Fault("write") /\ UNCHANGED rows
    /\ UNCHANGED <<clock, api, snaps, quote, muted, fill, spans>>

\* mutant: the symbols are fetched again for the snapshot.
SaveSnapshotRefetched(r) ==
    /\ rpc[r] = "snapshot"
    /\ EndRefresh(r)
    /\ \/ snaps' = [snaps EXCEPT ![day] = api] /\ UNCHANGED faults
       \/ Fault("snapwrite") /\ UNCHANGED snaps
    /\ UNCHANGED <<clock, api, rows, muted, fill, spans>>

\* Refresh: UpsertSymbolSnapshot, a transaction of its own; error ignored.
SaveSnapshot(r) ==
    /\ rpc[r] = "snapshot"
    /\ EndRefresh(r)
    /\ \/ snaps' = [snaps EXCEPT ![day] = quote[r]] /\ UNCHANGED faults
       \/ Fault("snapwrite") /\ UNCHANGED snaps
    /\ UNCHANGED <<clock, api, rows, muted, fill, spans>>

-----------------------------------------------------------------------------
\* The days of the gate's window that have rows; the window, sixteen days, is
\* longer than any walk.  An error of ExistingDays opens the gate as well.
HistoryIsShort == Cardinality({d \in Days : rows[d] # None}) < RequiredDays
NeedsBackfill == (HistoryIsShort /\ UNCHANGED faults) \/ Fault("gate")

SnapshotDays == {d \in Days : snaps[d] # None}   \* ExistingSnapshotDays

TehranToday == IF phase = "night" THEN day + 1 ELSE day

\* runBackfill, or main of cmd/rebackfill, up to the first batch.  Without a
\* traded symbol there is nothing to do.  Of the two reads of a start one may
\* fail.
StartFill(b) ==
    /\ bpc[b] = "idle" /\ api # NoTrades
    /\ \/ /\ b = "scheduler" /\ NeedsBackfill
          /\ keep' = [keep EXCEPT ![b] = SnapshotDays]
       \/ /\ b = "scheduler" /\ HistoryIsShort /\ Fault("preserve")
          /\ keep' = [keep EXCEPT ![b] = {}]
       \/ /\ b = "cli" /\ keep' = [keep EXCEPT ![b] = {TehranToday}]
          /\ UNCHANGED faults
    /\ bpc' = [bpc EXCEPT ![b] = "batch"]
    /\ bday' = [bday EXCEPT ![b] = day]
    /\ spans' = spans \ {b}
    /\ UNCHANGED <<clock, api, rows, snaps, refresh, batch, got, left>>

\* mutants: today is not skipped; the day before is skipped too.
FillDaysWithToday(b) == {d \in sessions : d <= bday[b]}
FillDaysTooFew(b) == {d \in sessions : d + 1 < bday[b]}

\* Days the candles of the window cover, today left out.
FillDays(b) == {d \in sessions : d < bday[b]}

\* mutant: preserveDates ignored.
ToWriteAll(b, g) == {d \in Days : g[d] > 0}

\* The days to write once every batch is in.
ToWrite(b, g) == {d \in Days : g[d] > 0} \ keep[b]

(***************************************************************************)
(* One batch: its candles are added to allDays.  Candles that cannot be    *)
(* fetched are left out without an error; the fault stands for the batch   *)
(* whose fetches failed.  Nothing is written before the last batch.        *)
(***************************************************************************)
Batch(b) ==
    /\ bpc[b] = "batch"
    /\ batch' = [batch EXCEPT ![b] = @ + 1]
    /\ \/ /\ got' = [got EXCEPT ![b] = [d \in Days |->
                        IF d \in FillDays(b) THEN @[d] + 1 ELSE @[d]]]
          /\ UNCHANGED faults
       \/ Fault("candle") /\ UNCHANGED got
    /\ \/ /\ batch'[b] < NBatches
          /\ UNCHANGED <<bpc, left>>
       \/ /\ batch'[b] = NBatches
          /\ bpc' = [bpc EXCEPT ![b] = "write"]
          /\ left' = [left EXCEPT ![b] = ToWrite(b, got'[b])]
    /\ UNCHANGED <<clock, api, rows, snaps, refresh, bday, keep, spans>>

\* BackfillHistory returns, and its variables are gone.
FillOver(B) ==
    /\ bpc' = [b \in Fillers |-> IF b \in B THEN "idle" ELSE bpc[b]]
    /\ keep' = [b \in Fillers |-> IF b \in B THEN {} ELSE keep[b]]
    /\ batch' = [b \in Fillers |-> IF b \in B THEN 0 ELSE batch[b]]
    /\ got' = [b \in Fillers |-> IF b \in B THEN NoGot ELSE got[b]]
    /\ left' = [b \in Fillers |-> IF b \in B THEN {} ELSE left[b]]
    /\ UNCHANGED bday

\* mutant: a cancelled backfill stores the batches it has.
CancelFillAndWrite(b) ==
    /\ bpc[b] = "batch"
    /\ Fault("cancel")
    /\ bpc' = [bpc EXCEPT ![b] = "write"]
    /\ left' = [left EXCEPT ![b] = ToWrite(b, got[b])]
    /\ UNCHANGED <<clock, api, rows, snaps, refresh, bday, keep, batch, got, spans>>

\* The context ends (shutdown, sixty minutes): no further batch, and every
\* further UpsertDay fails.
CancelFill(b) ==
    /\ bpc[b] \in {"batch", "write"}
    /\ Fault("cancel")
    /\ FillOver({b})
    /\ UNCHANGED <<clock, api, rows, snaps, refresh, spans>>

\* UpsertDay, in the order the map yields the days; its error is ignored.
WriteDay(b, d) ==
    /\ bpc[b] = "write" /\ d \in left[b]
    /\ left' = [left EXCEPT ![b] = @ \ {d}]
    /\ \/ rows' = [rows EXCEPT ![d] = Candles(d, got[b][d])] /\ UNCHANGED faults
       \/ Fault("write") /\ UNCHANGED rows
    /\ UNCHANGED <<clock, api, snaps, refresh, bpc, bday, keep, batch, got, spans>>

EndFill(b) ==
    /\ bpc[b] = "write" /\ left[b] = {}
    /\ FillOver({b})
    /\ UNCHANGED <<clock, api, rows, snaps, refresh, spans, faults>>

\* The server dies and is started again; cmd/rebackfill is another process.
Crash ==
    /\ Fault("crash")
    /\ rpc' = [r \in Refreshers |-> "idle"]
    /\ quote' = [r \in Refreshers |-> NoAnswer]
    /\ FillOver(Fillers \cap {"scheduler"})
    /\ UNCHANGED <<clock, api, rows, snaps, muted, spans>>

Next == \/ OpenSession \/ NextPhase \/ Drift \/ Crash
        \/ \E r \in Refreshers : Fetch(r) \/ Load(r) \/ Record(r) \/ SaveSnapshot(r)
        \/ \E b \in Fillers : \/ StartFill(b) \/ Batch(b) \/ CancelFill(b) \/ EndFill(b)
                              \/ \E d \in Days : WriteDay(b, d)

Spec == Init /\ [][Next]_vars

-----------------------------------------------------------------------------
TypeOK == /\ day \in Days /\ phase \in Phases /\ sessions \in SUBSET Days
          /\ api \in Quotes
          /\ rows \in [Days -> Stats \cup {None}]
          /\ snaps \in [Days -> Stats \cup {None}]
          /\ rpc \in [Refreshers -> {"idle", "load", "record", "snapshot"}]
          /\ quote \in [Refreshers -> Quotes \cup {NoAnswer}]
          /\ muted \in [Refreshers -> BOOLEAN]
          /\ bpc \in [Fillers -> {"idle", "batch", "write"}]
          /\ bday \in [Fillers -> Days]
          /\ keep \in [Fillers -> SUBSET (1 .. (MaxDay + 1))]
          /\ batch \in [Fillers -> 0 .. NBatches]
          /\ got \in [Fillers -> [Days -> 0 .. NBatches]]
          /\ left \in [Fillers -> SUBSET Days]
          /\ spans \in SUBSET (Refreshers \cup Fillers)
          /\ faults \in Nat

\* What is stored under the date of a session are counts of that session,
\* however refreshes, backfills, faults and the vendor's revisions interleave
\* with the clock: never the previous session the vendor still serves.
RowOfItsOwnSession == \A d \in sessions : rows[d] # None => rows[d].day = d

\* "Today is skipped" (BackfillHistory): today's row never comes from
\* candles, even when a backfill is overtaken by midnight.
TodayIsLive == rows[day].src # "candle"

\* "Recorded once after 13:00 Tehran ... frozen" (CONTEXT.md), and "Backfill
\* must not overwrite these rows" (ExistingSnapshotDays): a live row with its
\* snapshot is never changed again.
FrozenRow == [][\A d \in Days :
    rows[d].src = "live" /\ snaps[d] # None => rows'[d] = rows[d]]_vars

\* The per-symbol snapshot shown on /market and the day's counts come from
\* the same answer of the vendor.
SnapshotMatchesRow == \A d \in Days :
    rows[d].src = "live" /\ snaps[d] # None => snaps[d] = rows[d]

\* A backfill that runs to its end leaves no past session without counts
\* ("the backfill still seeds/repairs history", NeedsBackfill).
FillLeavesNoGap == [][\A b \in Fillers :
    bpc[b] = "write" /\ bpc'[b] = "idle" /\ left[b] = {}
        => \A d \in sessions : d < bday[b] => rows[d] # None]_vars

\* Counts from candles are written only once every batch is in: a cancelled
\* or interrupted backfill never leaves counts of a part of the symbols.
CandleRowsAreWhole == \A d \in Days : rows[d].src = "candle" => rows[d].v = NBatches

\* The tables as one table of days: recorded once, settled by their symbols,
\* filled only where nothing is settled.
Table == INSTANCE DailyTable
         WITH today <- day, counts <- rows, symbols <- snaps, Missing <- None,
              VendorCounts <- LiveCounts,
              WholeCounts <- [d \in Days |-> {Candles(d, NBatches)}]

\* Refreshes and backfills together keep what the documents promise of the days
\* ("recorded once after 13:00 Tehran", "backfill must not overwrite these rows"):
\* every write of either table is a step DailyTable allows at that moment.
ImplementsDailyTable == Table!Spec

\* CONTEXT.md, "this is a reliable holiday signal" (docs/adr/0006: "If they
\* are identical, skip recording"): with the last session recorded, a day on
\* which the market stayed closed gets no row.
HolidayRecognised == \A d \in Days \ sessions :
    rows[d].src = "live" => rows[rows[d].day].src # "live"

\* Alerts are muted on holidays (service_test.go:107, :112): a refresh that
\* has today's session in hand is not taken for a holiday.
TradingDayIsNotMuted == [][\A r \in Refreshers :
    rpc[r] = "load" /\ rpc'[r] # "load" /\ day \in sessions /\ quote[r].day = day
        => ~ muted'[r]]_vars

\* backfill.go:65, "After each batch the aggregated day stats are written to
\* the store immediately": once a batch is in, its days have rows.
BatchProgressIsSaved == \A b \in Fillers :
    batch[b] > 0 => \A d \in Days : got[b][d] > 0 /\ d \notin keep[b] => rows[d] # None
=============================================================================

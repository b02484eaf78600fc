# Verification of AHRM

AHRM watches the Tehran stock exchange: it fetches quotes and option books from
the SourceArena vendor, derives market indicators and option strategies, keeps
daily statistics in SQLite, sends alerts to Bale chats and serves a web page.
This directory holds TLA+ models of it, TLC configurations that check them on
small instances, and proofs for TLAPS. Every definition is translated from the
Go source; `PROJECT.json` maps each to its lines. Paths below are relative to
the root of the repository.

    tlc -workers 2 -config MarketDays.cfg MCMarketDays.tla
    tlapm AlertDeliveryProofs.tla

## 1. The system

One process (`cmd/server`), one maintenance command (`cmd/rebackfill`) and two scripts
(`scripts/sync-breadth-from-snapshot.py`, which a cron job runs at 20:05, and
`scripts/rebuild-stats-from-snapshots.py`, run by hand) share a SQLite file. The scripts
are not modelled (section 6). What runs at once in the server:

| Routine | Starts | Does |
|---|---|---|
| background refresh | `server/refresh.go`, ticker | `Service.Refresh`, stores the snapshot |
| page request | `server/pages.go`, each request | serves the cached snapshot or runs `Refresh` itself |
| backfill scheduler | `scanner/service.go:489`, at start and 20:00 Tehran | fills past days from candles, up to an hour |
| halt scheduler | `scanner/symbol_halts.go:34` | synchronises halted symbols, announces reopenings |
| event stream | `server/server.go:64`, one per browser | forwards alerts as server-sent events |

### Inventory

| Component | State | Operations | Hard because |
|---|---|---|---|
| Alert delivery: `alerts/engine.go`, `alerts/store.go`, `bale/client.go` | `alert_history` (key, sent_at) | claim, post to each chat, release, prune at start | concurrent claims, partial fan-out, lost answers, crash between claim and answer |
| Daily statistics: `scanner/service.go`, `market/backfill.go`, `market/sqlitestore.go`, `cmd/rebackfill` | `market_daily_stats`, `market_symbol_snapshot` | record the day after 13:00, backfill, rebackfill | overlapping refreshes, vendor revisions, holidays, partial writes, cancellation, a second process |
| Market breadth: `indicators/market.go`, `market/classify.go`, `Refresh` | none of its own | classify, average, compare with thresholds, build the table | windows over incomplete history, several code paths that must agree |
| Registry and buy queues: `market/sqlitestore.go:256-373`, `market/queue.go` | `symbol_registry`, `queue_streaks`, the list on the page | register names, report new ones, select and sort candidates, extend streaks, read them back | several refreshes a day, overlapping ones between the steps |
| Symbol halts: `scanner/symbol_halts.go`, `market/sqlitestore.go:375-547` | `symbol_halts`, `symbol_halt_events` | replace, append, check for reopenings, read for a page | two writers, two-query reads, retries, repeated names |
| Snapshot cache: `server/pages.go`, `server/refresh.go` | snapshot, time, read-write lock | look, look again, refresh, store | lock hand-over, long refreshes under the lock, stale stores |
| Alert stream: `server/broadcaster.go`, `server/server.go`, `cmd/server/main.go` | subscribers and their channels, life of the process | subscribe, publish, write, disconnect; start, bind, stop, shut down | slow readers, reordering, streams that never end while the server stops |
| Option scans: `pairs`, `arbitrage`, `coveredcall`, `bullspread`, `bearputspread` | none | select contracts, compute returns | boundary values, empty sides of a book |
| Jalali dates: `server/jalali.go` | none | convert a date | leap years of two calendars |
| Alerts of a refresh and matrix rules: `alerts/engine.go`, `matrixalerts`, `Refresh` | none | compare with thresholds, build keys, evaluate rules | two positions under one key, one position under two |
| Vendor client and decoders: `sourcearena/client.go`, `sourcearena/models.go` | none | fetch, recognise the shape of an answer, decode | attempts in sequence, of which an early one may accept too much |
| Implied volatility: `ivcalc/engine.go`, `blackscholes.ImpliedVolatility` | the bracket | bisect | losing the solution, running out of iterations, prices at the bounds |
| Scripts on the database: `scripts/sync-breadth-from-snapshot.py`, `scripts/rebuild-stats-from-snapshots.py` | `market_daily_stats` | copy the counts of a stored snapshot into the row of its day | a third writer of the rows; not modelled, see section 6 |
| Option price matrices, historical volatility, BourseCrawl client, configuration, templates, file store | - | - | not modelled, see section 6 |

The refresh joins them: it fetches, registers symbols and streaks, reads the
history, records the day, evaluates indicators and scans, hands alerts to the
engine (which publishes to the stream) and returns the snapshot the cache keeps.

## 2. The modules

| Module | Models | Instances |
|---|---|---|
| `AlertDedup` | abstract: a key has at most one claimant, a claim is kept or given up, kept keys stay taken for the window | - |
| `AlertDelivery` | `Engine.send`, the store, the Bale client, crash and restart | `MCAlertDelivery` |
| `DailyTable` | abstract: a day is recorded once, settled by its symbols, filled from whole candles while it is not settled | - |
| `MarketDays` | recording, scheduled backfill, `cmd/rebackfill`, clock, vendor | `MCMarketDays` |
| `MarketBreadth` | classification, history, indicators, alerts, page table | `MCMarketBreadth` |
| `SymbolRegistry` | `RegisterSymbols`, `ScanQueue`, `UpsertQueueStreaks`, the list on the page | `MCSymbolRegistry` |
| `SymbolHalts` | synchronisation, reopen check, page reads | `MCSymbolHalts` |
| `SnapshotCache` | `getSnapshot`, background refresh, the lock | `MCSnapshotCache` |
| `AlertStream` | broadcaster and event handlers, start and shutdown of the process | itself |
| `OptionScans` | the five option engines | `MCOptionScans` |
| `RefreshAlerts` | the alerts of a refresh over its scans (EXTENDS `OptionScans`) | `MCOptionScans` |
| `JalaliDates` | `gregorianToJalali` | `MCCalculations` |
| `VendorFeed` | `Client.doGet`, the envelope check, the decoders | `MCCalculations`, itself for four findings |
| `ImpliedVol` | the loop over the options, the bisection | `MCCalculations` |
| `MarketDaysProofs`, `SymbolRegistryProofs`, `SymbolHaltsProofs`, `SnapshotCacheProofs` | theorems about the module each is named after | - |
| `AlertDeliveryProofs` | theorems about `AlertDelivery` and `AlertStream` | - |
| `MarketBreadthProofs` | theorems about `MarketBreadth` and `VendorFeed`, which need the same facts about lists and counting | - |
| `OptionScansProofs` | theorems about `OptionScans` and `RefreshAlerts` | - |
| `CalculationsProofs` | theorems about `ImpliedVol` and `JalaliDates` | - |

How state and actions correspond to the code:

* **AlertDelivery.** `sentAt` is the table (a plain `INSERT` after a look
  for a recent row: the two ways `TryClaim` refuses are told apart),
  `pc`/`key`/`next`/`failed` are the locals of one call of `send`. `Attempt` is
  `send` up to `TryClaim` (one critical section under the mutex of the
  store), `Post` one turn of the loop over chats, `Settle` the rest. The
  alert text is left out, the key is a model value. `copies`, `confirmed` and
  `orphans` are observations that no action reads.
* **MarketDays.** Counts are abstracted to where they come from (session, vendor
  revision, number of candle batches). A refresh is split where another routine
  may come between: fetch, load, record, save the snapshot. A backfill is split
  into its batches and its single writes. Time is a day and a phase (before 13:00
  Tehran, after, after midnight); the model states how many such instants one
  run may span. `NeedsBackfill` counts all days: a walk is shorter than the sixteen
  days of its window; when they cannot be read (`"gate"`) the backfill runs as well.
* **MarketBreadth.** The computation of one refresh in full, as a single step:
  the interleavings are in `MarketDays`. Ratios are integers in units of
  `1/Scale`, means a sum and a number of days, so that no rounding is involved.
* **SymbolRegistry.** One action per SQL transaction or query: `Count`, `Insert` and
  `Select` of `RegisterSymbols`, `Upsert` (the transaction that extends the streaks) and `ReadStreaks` (the
  `SELECT` after it, which may stop halfway). A refresh computes its list with
  `ScanQueue` between them, from its own feed and flagged names, and `ShowList` adds
  the streaks it read. A quote is a value, a change in tenths of a percent and a volume.
* **SymbolHalts.** One action per SQL transaction; the two queries of
  `LatestSymbolHalts` are separate steps. Message texts are reduced to
  the keyword classes the code looks for. An event carries its text and its time
  apart, since the code takes the two from different places for a listed symbol
  (`ListingEvent`): the text from the item, else from the message listed first, else
  from the crawler; the time from a notice, else from the item, else from that message.
  A message is a number, in order of publication; an "undated" one has the key `unknown`. The reopen check looks at one
  message per symbol, the first in the answer of the vendor; that this is the newest
  (`NewestFirst`) is an assumption about the vendor which the name
  `latestMessagesBySymbol` makes and the code does not establish.
* **SnapshotCache.** `sync.RWMutex` is modelled by its documented behaviour
  (a waiting writer blocks later readers); `Tick` is the clock that ages
  snapshots.
* **AlertStream.** Bounded channels, one goroutine per published alert. The
  process is `life`: the routines start before the port is bound (`Bind`), `Stop`
  is the signal, `ShutdownDone` and `ShutdownTimeout` the two ways `Shutdown`
  returns, `Die` a crash or a port in use. An event stream is a request that
  never ends, so that it is the deadline that ends a stop.
* **RefreshAlerts.** A key is a record of what its format string joins, and a
  refresh the set of its alerts with the positions they are about. Thresholds are
  in percent. Rules are assumed to have distinct ids, which `LoadRules` does not
  check: two rules with one id silence each other. The alerts on market breadth
  are in `MarketBreadth`; what becomes of an alert is in `AlertDelivery`.
* **VendorFeed.** An answer is a shape (list, object, object of objects, text, null,
  broken) under a key, with a status and the flags of the envelope. An element names
  itself by a member "name", "symbol" or "ticker", by "name" and one of the others, or
  not at all, and each decoder looks for these in its own order (`NameOf`). Of a map the
  key is given as "name" to an object without that member (`KeyedName`), whatever else
  it is called by. One field is a number, a numeric string, another string or missing.
  An envelope in which `success`, `message` or `error_code` has another JSON type
  (`mistyped`) does not unmarshal and lets the answer pass, as in `checkAPIEnvelope`.
  The decoders try their attempts in the order of the code. A token is configured;
  status 500 stands for no answer, too. As in the code, the attempts
  differ in what they accept: numbers in strings pass in options and are refused in
  wrapped symbols, and some second attempts can never succeed.
* **ImpliedVol.** Volatilities are points of a grid and the price is *any*
  non-decreasing function of them, of which the formula of Black and Scholes is one;
  `Width[i]` bounds the bracket after `i` halvings.
* **OptionScans, JalaliDates.** The pure parts as operators; the state enumerates
  the inputs. Prices are integers and ratios are compared by
  cross-multiplication, so the bounds are exact: the code computes them in
  `float64`, where a strike exactly on a bound may fall to either side.
* **MCCalculations** puts the dates, the vendor feed and the bisection side by
  side: they share nothing, each step is a step of one of them while the others
  rest, and the states of the three add up instead of multiplying.

## 3. The runs

All runs check deadlock. "Pass" runs end with the whole state space explored;
the two "violation" runs find the counterexample of a finding.

| Run | Question |
|---|---|
| `AlertDelivery` | With two senders, two chats, every fault: one sender per key, the row stays while its sender posts, rows are only left for a reason, a confirmed alert stays quiet, all of it implements `AlertDedup`, and a persisting condition is confirmed in the end. |
| `AlertStale` (violation) | Finding 1. |
| `MarketDays` | One refresh at a time with the scheduled backfill, drift, lost snapshots, cancellation, crash: a row once recorded stays, agrees with its symbol table, candle rows are whole, a finished backfill leaves no gap, and all writes together implement `DailyTable`. |
| `MarketDaysAll` | What holds with overlapping refreshes, both backfills and any fault: rows are never those of a later session, today is never filled from candles. |
| `MarketRace` (violation) | Finding 3. |
| `MarketBreadth` | Tables add up to counts, averages to the rows the page marks, alerts have a reason in the window. |
| `SymbolRegistry` | Two overlapping refreshes with failing statements, up to three of which store streaks: flagged symbols are new; a streak never undercounts; the list on the page agrees with the registry and the streaks, also when another refresh stores streaks of another feed between the transaction and the `SELECT` of this one: new listings first, and no streak missing unless a statement failed. |
| `SymbolHalts` | A symbol listed with and without a date. Pages are no older than their stamp; every message is recorded, and once, but for findings 12 and 22; the table follows the feed, reopenings are announced. |
| `SnapshotCache` | One page request refreshes at a time, the age of what is served is bounded, every request is answered, the cache recovers from failed refreshes. |
| `AlertStream` | No page is shown an alert twice, in whatever order alerts are published and however often pages and server come back; publishing never waits; a burst that fits is shown; a stop ends the process although streams never end. |
| `OptionScans` | Up to three contracts listed, so that two spreads may share a leg: what the page says of a position is what it pays; a refresh raises one alert for a position (bear put spreads at the bound of their variants excepted), under a key of its own. |
| `Calculations` | Whatever the shape of the answer, a refusal of the vendor that is read is an error, and a list is decoded whole (and under its names, but for the maps of finding 21); an option that has an implied volatility gets one; Jalali dates shown are consecutive. |

Sixteen more configurations are kept for use by hand. `HaltsCrawled.cfg` adds the
notice crawler and listings with messages of their own to `SymbolHalts` and passes
(type invariant and safety). The other fifteen each fail: fourteen reproduce the
findings of section 5 that no run shows, and `HaltsOldestFirst.cfg` shows what
the assumption `NewestFirst` is for (a reopening behind an older message of the same
symbol is never announced). `RegistryOneRefresh.cfg`, `FeedRefusals.cfg`, `HaltsMixed.cfg`,
`MarketPartial.cfg` and `OptionsDocumented.cfg` each fail several properties. `tlc -continue`
reports the violations as it meets them (their traces may fill its buffer before the end of a
long walk); to see one property alone, leave the others out of the last line. The module of a
configuration is the one whose constants it assigns: `FeedRefusals.cfg` goes with
`VendorFeed`, `StalePrices.cfg` with `MCCalculations`, `RegistryOneRefresh.cfg` with
`MCSymbolRegistry`, `HaltsUndated.cfg` with `MCSymbolHalts`, `OptionsDocumented.cfg` with
`MCOptionScans`.

No run spends a property on a type invariant: `TypeOK` (`StreamTypeOK` in `AlertStream`)
is proved for eight modules (section 4), and checked by adding it to a configuration.

### Bounds, and why they are enough

* Two concurrent senders, refreshes or readers: every race found or excluded here
  is between two calls; keys, symbols and days are independent in the code, so
  one or two of each suffice. Symmetry is used in runs without liveness only.
* Faults are counted (`MaxFaults`, one or two). A run says nothing of more faults than
  that, and the comment of a property speaks of "a" fault where the run has one; the
  theorems of section 4 have no such bound.
* Windows shrink with the clock: 24 hours are two units, ten days are two,
  `LastDays(30)` is two rows. The relations the code depends on (less, equal, more
  than the window; fewer and more rows than the limit) all occur.
* Three days give a session, a following day with or without one, and a day to
  backfill. Two batches give a partial backfill.
* `MarketBreadth` uses changes of -0.6, 0.5 and 0.6 percent, an untraded share
  and a fund, and a row that may fail to be stored. `TableExplainsCounts` also holds
  when instead the read of the history or the write of the table may fail, and in
  none of the instances with two of the three: an old row or table is then joined to
  one of another answer. `AlertsUseTheWindow` fails when the read does (finding 14).
* `SymbolRegistry` spans five days: a day of trading, three off, one of trading,
  the longest gap a streak bridges. `WeekendAssumption` says that longer closures do
  not occur: a streak starts again after one, as `UpsertQueueStreaks` is written to.
  A run is counted up to the last day on which the symbol was stored, since a streak
  says nothing of the days after it. Three refreshes find a buy queue (`MaxCalls`, in total): two on one
  day, so that one of them stores streaks while the other makes its list, and one on another.
  Of its six feeds (`MCFeeds`) two list a fund
  only; the others list both shares, one of them at the daily limit and the other
  near it with enough volume, or near it with one share less than
  enough: every score, and a candidate that drops out. `MCTies`, for
  `RegistryOneRefresh.cfg`, adds a feed with both at the limit.
* `SymbolHalts`: one symbol, listed by its name or with a date, two messages (halts or
  reopenings), three changes of the vendor, one fault.
  Three changes are what it takes to list a symbol, publish its reopening and
  publish a later message that hides it. `HaltsCrawled.cfg` has the items with a message,
  and messages of every dated kind.
* `OptionScans` lists at most three contracts at a time (`MaxListed`): a row of a list
  concerns two, two spreads that share a leg concern three, and the proofs need no such
  bound. Prices are small grids on
  both sides of every bound; dates cover 1996 to
  2036, both kinds of century year excluded but 2000, and more than one cycle of
  33 years.
* `Calculations` has lists of up to two elements with two names (order, doubling and
  a nameless element among named ones), in every combination of the members that name an element, nine points of volatility with every
  pricing of `MCCurves` (flat, steep, a jump anywhere), and four iterations, one more
  than the grid needs, as the code has more than its tolerance needs.
* `AlertStream`: a buffer of two and three alerts, one more than it holds; ten seconds
  of shutdown are one tick (before and after the deadline), one page request in flight.

### Fairness

Weak fairness on what a goroutine does next once it runs: HTTP calls have time
limits, SQLite statements finish, timers fire. `AlertDelivery` also needs the
refresh ticker to offer a persisting opportunity again, which is what
`StartBackgroundRefresh` does, and a dead process to be started again, which
systemd does (`deploy/ahrm.service:11`, `Restart=on-failure`). Strong fairness is used for acquiring the read
lock (Go's `RWMutex` does not starve readers) and for the reopen check, whose
ticker meets the synchronisation in other states each time. Once `Shutdown` is
called, time passes and it returns when it can (`ShutdownWaits`, `ShutdownDone`,
`ShutdownTimeout`); nothing makes a client leave, a page request end or
a stop happen. Clients that stop reading get none. Faults are finite in number, in no other way restricted.

## 4. What is proved

`AlertDeliveryProofs`, for any sets of senders and keys, any number of chats,
any window and bounds:

* `SendInv` (types; no call is running while the process is down; a posting sender
  owns its row; one sender per key) is inductive. One sender per key alone is not:
  a second sender could claim if the row of the first were gone, so the invariant
  must say that the row stays. `TypeCorrect`, `MutualExclusion` and
  `RowOutlivesSend` follow.
* `ConfirmedStaysQuiet` needs `QuietInv`: a confirmed key either still has the row
  of that send or its window is over, and whoever is posting claimed later.
* `RowsAreAccountedFor` needs what the loop over the chats has done so far: while a
  sender without a failure is at chat `next`, all chats before it were reached since
  the row was stored (`ReachedInv`), and no row is of a time to come (`PastInv`).
* `DeliveryImplementsDedup`: each step of the program is a step of `AlertDedup` or
  leaves its variables alone, under the mapping `holderOf`, `sentAt`.

In the same module, about `AlertStream`, for any clients, channel capacities and numbers of
alerts: `StreamTypeCorrect`, and `AlertsShownOnce`. An alert goes from its goroutine to
channels and from there to pages, and is never in two of these places of one page: that needs that
an alert is new when it is sent (only numbers up to `sent` are anywhere), that a channel holds it once, that a
channel ends with its stream, and that a process that is down left nothing behind (`DownIsEmpty`).

`OptionScansProofs`, for any contracts, quotes and prices: the risk and reward
of both spreads are those of their pay-off (`SpreadRisk`), bull variants
are disjoint and bear variants share exactly their bound (`SpreadVariants`), the return of a parity pair is locked in whatever the underlying
does and the stressed return is not above it (`ArbitrageReturn`), and the static
return of a covered call is what an unchanged underlying leaves, its maximal return
never exceeded (`CoveredReturn`). Each rests on `TypeOK`, which is an invariant of
the walk through the inputs, and on arithmetic about one listed position; the two
steps that multiply unknowns are lemmas (`StressedIsLower`, `ScalingKeepsOrder`).

In the same module, about `RefreshAlerts`, for any contracts, thresholds and rules with distinct ids:
alerts of different families have different keys (`FamilyOf`), and within a family
equal keys mean equal positions (one lemma per family); `OneAlert` joins them. The
one exception, a bear put spread whose bought strike is exactly 5 percent below the
spot and which is in both variants, is that of `SpreadVariants`.

`MarketDaysProofs`, for any number of days, refreshes, backfills and batches. With
every fault, crashes and overlaps, `RowsAreOfTheirSession` and `TodayIsSkipped`
hold. They need that the vendor serves today's session once the market is open
(`ClockInv`) and what a refresh may hold from before (`QuoteInv`): it fetched before
the opening and the clock moved under it. That only works because no refresh spans
two instants of the clock (`spans`), which is how the model states that a refresh
takes minutes. The other results fail in general, as the
configurations of section 5 show, so each names what it excludes:

| Theorem | Hypotheses | Without them |
|---|---|---|
| `CandleRowsCountEveryBatch` | `CandlesArrive` | `MarketPartial` |
| `SnapshotIsOfItsRow` | `RowsStored`, `OneByOne` | a row that failed, or is overwritten, is not that of the snapshot |
| `LiveRowsAreFrozen` | these and `Preserved` | `MarketRace`, `MarketPreserve` |
| `FillsLeaveNoGap` | `RowsStored`, `CandlesArrive` | a row or its candles are missing |
| `DaysImplementTable` | all four | the above |

`CandlesArrive`: candles can be fetched; `RowsStored`: rows can be written;
`OneByOne`: refreshes do not overlap and read the history; `Preserved`: the backfill
reads which days to preserve, and `cmd/rebackfill` is not run. They are statements about
the constants `FaultKinds`, `Refreshers` and `Fillers`; the run `MarketDays` is an
instance of all four, with crashes, cancellation, lost snapshots and revisions left.

`DaysImplementTable` puts them together: under all four hypotheses each write is a step of
`DailyTable`, under the mapping that reads `rows` and `snaps` as its tables (`TableStep`).
`Record` writes a day that has nothing (`AloneInv`), `SaveSnapshot` settles the day by
what its row was counted from, and `WriteDay` meets a day that is over (`FillInv`) and not settled
(`KeepInv`), with the candles of every batch (`BatchInv`).

`SymbolRegistryProofs`, for any names, feeds, numbers of refreshes and faults.
`FlagsAreNew` rests on the table being only added to (`RowInv`). `StreaksCoverRuns`:
`UpsertCovers` says that the `CASE` of the upsert
lengthens a streak by one day when the run goes on, and that a run
that starts again has one day, since after more than four days a trading day was missed
(`WeekendAssumption`). `ListAgrees` needs that what an entry says stays so until the
day is over although other refreshes store streaks meanwhile (`ListInv`): the name was stored today
already, so that its run cannot grow. That every candidate's streak is shown unless a statement
failed needs that a candidate which was queued has a row the `SELECT` finds.

`SymbolHaltsProofs`, for any symbols, listings, kinds of messages and faults.
`PageIsNotOlder`: check times only go up, and a page that has read one reads rows at least
as new, because halts and time are replaced in one transaction (`StampInv`).
`MessagesRecordedOnce`: the synchronisation and the reopen check build the same event of a
message, which the key of the history then keeps once (`EventInv`), with two exceptions: a
message with both kinds of keywords (finding 12), and the event with which a symbol that is
listed with a date and no text repeats its halt message under that date (finding 22).

`SnapshotCacheProofs`, for any number of page requests and any time limits: the lock
has one holder and waits in a queue without repetitions (`LockInv`, `QueueInv`), so that
`PagesRefreshOneAtATime`. `ServedIsYoung`: a page serves nothing older than `cacheTTL` and two
refreshes. The difficult case is the background refresh, which stores what it computed
before it waited: `WaitInv` says that it has waited for one page refresh at most, since
the pages behind that one find its snapshot fresh, and no time passes while a lock
can be handed over.

`MarketBreadthProofs`, for any universe, feeds and number of days:
`TablesExplainCounts`, if at most one kind of statement of a refresh fails
(`OneKindOfFault`; the limit is real, see the bounds above). `ClassifyDay` and
`SymbolRows` agree on every feed (`TableOfCounts`), and a refresh that could read the
history finds the row of today in it, because no row is newer and `LastDays` returns the
newest (`TodayIsInHistory`). The invariant adds that a table without a row
is left by a row that failed.

The rest of the module has no hypothesis but the named assumptions.

* Sums are folds, and the k-th day of a set of days is found by counting: what they give takes induction
  over data, and the induction theorems of the library take an operator, which no prover here can instantiate. `NatSteps` and `SetSteps` state induction
  with a *set* of good numbers, or of good subsets, in place of that operator; they follow
  from the well-foundedness of the numbers. From them: the k-th of a set exists and lists the set
  (`NthLists`), a sum is what remains plus the element taken out (`SumTakesOut`), does not
  depend on the order (`SumOfTheReverse`), and n values that are all below a bound sum up to less than n
  times the bound (`SumIsBounded`).
* `AveragesAgree`. The code counts the window from the end of the history, the page lists the newest
  day first and marks rows by their position, and the day that is not stored yet is appended in
  between. What is averaged and what is marked are each shown to be the last `Window` days of the same
  history (`EvaluateTakesAll`, `MarkedAreTheFirst`, `MergedIsHistory`); `AverageIsOfTheMarked`
  joins them. It is inductive only with the bound on the length of the page and the types of what is stored (`PageInv`).
* `AlertsHaveTheirDay`. If every marked day were below the upper limit, the
  sum would be below that limit times the number of days (`SumIsBounded`), and the average not at it.
* About `VendorFeed`, for lists of any length: `RefusalsAreErrors`. The envelope refuses by
  status and by `success`; an object with nothing but an `Error` member gets past it, and then every
  decoder but that of the indicators refuses it (`ErrorsAreRefused`; finding 16). Excepted are the
  refusals nobody reads (`Unread`): the envelope does not unmarshal and passes them, and there is
  a list beside the mark, or the decoder makes an empty one of the answer (finding 20).
* `DecodedWhole`: each decoder keeps exactly the elements with a name (or a symbol and a text), and each name as often as it was
  sent, but for maps of objects that name themselves by another member than "name", which are renamed to their keys
  (`Renamed`; finding 21). A decoder's result is a list of the names at certain positions (`NamesAtExactly`), or a rearrangement
  of one; a bijection between positions keeps how often each name occurs (`CountThrough`), and the values
  of an object, in whatever order, are such a rearrangement (`ObjectListCarries`).

`CalculationsProofs`:

* For any grid and any set of non-decreasing pricings: the
  invariant is that the bracket holds every volatility that explains the price and is
  no wider than `Width` (`BracketKeeps`). That alone does not give completeness: at the
  last iteration the bracket is one step wide, and the proof needs that the upper end was
  either tried or is the limit, and the lower end tried or still the start
  (`BracketHolds` says both). `SolverIsComplete` follows: the loop gives
  up only if no volatility below the limit explains the price.
* For every year after 1600: `DatesFollow`, and `ShownIsADate`. Gregorian days are
  numbered one by one (`DayNumbersFollow`), the next number is the next day of the 33-year
  cycle or the first of its next year (`YearsFollow`), and the loop over the months finds the
  month (`MonthsAreCounted`). The leap years fall out of the arithmetic: every first year
  of a group of four but the short last group of the cycle.

The assumptions are the named `ASSUME`s of the modules, which TLC evaluates.

## 5. Findings

Each is a counterexample TLC finds, in the configuration named, to a property that
states what a comment or document of the repository says. The first and the third
are among the runs of section 3, with their quotations in `PROJECT.json`; the
others are found by running their configuration by hand.

| | Finding | Configuration: property | Says otherwise |
|---|---|---|---|
| 1 | A row older than 24 hours still blocks its key until a restart. | `AlertStale`: `StaleRowRetriggers` | `docs/adr/0007-alert-dedup-once-per-day.md:72` |
| 2 | A fan-out that fails for one chat sends the others the alert twice. | `AlertDuplicate`: `NoDuplicateInWindow` | `CONTEXT.md:201` |
| 3 | Two refreshes after 13:00 overwrite each other's frozen row. | `MarketRace`: `FrozenRow` | `CONTEXT.md:123` |
| 4 | An error reading the days to preserve lets the backfill overwrite them. | `MarketPreserve`: `FrozenRow` | `internal/market/sqlitestore.go:168` |
| 5 | A revision after 13:00 makes the next holiday a trading day. | `MarketHoliday`: `HolidayRecognised` | `CONTEXT.md:128` |
| 6 | After recording, the rest of a trading day counts as a holiday and alerts are muted. | `MarketMuted`: `TradingDayIsNotMuted` | `internal/scanner/service_test.go:112` |
| 7 | A cancelled backfill has saved nothing. | `MarketPartial`: `BatchProgressIsSaved` | `internal/market/backfill.go:65` |
| 8 | Candles that fail are silently missing from a day's totals. | `MarketPartial`: `CandleRowsAreWhole` | `internal/market/backfill.go:93` |
| 9 | The second refresh on an empty registry flags all symbols as IPOs. | `RegistryOneRefresh`: `SeedIsNotFlagged` | `internal/market/sqlitestore.go:314` |
| 10 | Streaks count refreshes, not days. | `RegistryOneRefresh`: `StreakCountsDays` | `internal/market/queue.go:16` |
| 11 | A name listed twice stops the halt table for good. | `HaltsRepeated`: `HaltsFollowFeed` | `internal/scanner/symbol_halts.go:53` |
| 12 | A message with both kinds of keywords is recorded twice. | `HaltsMixed`: `MixedMessageOnce` | `CONTEXT.md:177` |
| 13 | A slow stream client is skipped, not dropped. | `StreamSlow`: `SlowClientIsDropped` | `internal/server/broadcaster.go:29` |
| 14 | When the history cannot be read, today alone is alerted on as the average. | `BreadthOneDay`: `AlertsUseTheWindow` | `CONTEXT.md:149` |
| 15 | An answer without a list is an empty table of halts, not an error to retry. | `FeedRefusals`: `HaltsAnswerIsAList` | `internal/scanner/symbol_halts.go:158` |
| 16 | An error the vendor reports for the indicators is decoded as indicators. | `FeedRefusals`: `IndicatorRefusalIsAnError` | `docs/adr/0005-cold-start-backfill-and-banner-gate.md:22` |
| 17 | A price within the tolerance of the lower bound is admitted and then reported as an error. | `StalePrices`: `StalePriceIsNoError` | `internal/blackscholes/blackscholes.go:49`, `internal/ivcalc/engine.go:61` |
| 18 | Candidates with equal scores are sorted before their streaks are known. | `RegistryOneRefresh`: `TiesShowLongerStreakFirst` | `internal/market/queue.go:71` |
| 19 | The second reopening without a time stamp within a day is taken for the first. | `HaltsUndated`: `ReopenIsAnnounced` | `CONTEXT.md:206` |
| 20 | A refusal whose `error_code` is no number, or whose `message` is no string, passes the envelope check: an empty table of halts. | `FeedRefusals`: `HaltsRefusalIsAnError` | `internal/scanner/symbol_halts.go:158` |
| 21 | Of a map, objects that name themselves by `symbol` or `ticker` are renamed to their keys. | `FeedRefusals`: `MapsKeepNames` | `internal/sourcearena/models.go:207` |
| 22 | The halt message of a symbol that is listed with a date and no text is recorded twice, under two times. | `HaltsMixed`: `ListedMessageOnce` | `CONTEXT.md:177` |
| 23 | The key of a bull spread names K1 as well as K2: spreads that share the written call are alerted one by one. | `OptionsDocumented`: `BullSpreadKeyNamesK2` | `docs/adr/0007-alert-dedup-once-per-day.md:52`, `CHANGELOG.md:58` |
| 24 | The Static ROI of a call in the money is not its premium yield. | `OptionsDocumented`: `StaticROIIsPremiumYield` | `CONTEXT.md:95` |

Of finding 24 the documents disagree among themselves: `CONTEXT.md:95` gives two readings in
one sentence, the premium yield and the return of an unchanged underlying, which differ for a
strike below the spot; `AHRM_NEW_FEATURES.md:15` has a third formula, which `CONTEXT.md:97`
calls legacy. The code follows the second reading (and so does
`internal/coveredcall/engine_test.go:15`), which is what `CoveredCallReturns` states.

## 6. What is only model-checked, and what is not modelled

Only model-checked:

* Liveness, and what depends on fairness: outside the prover's reach.
  These are the leads-to and eventuality properties of `AlertDelivery`, `SymbolHalts`,
  `SnapshotCache` and `AlertStream`. Every other property of a passing run is stated by a theorem.
* That the instances of the findings fail: a counterexample needs no proof.

Not modelled, and why:

* Option price matrices: differences of all pairs of prices. A definition would
  restate the code, and nothing in it can go wrong in a way a test would not reach.
* Historical volatility, and the formula of Black and Scholes: logarithms, roots
  and the normal distribution in floating point. `ImpliedVol` needs of the formula
  only that it does not decrease.
* The BourseCrawl client: one HTTP call that supplies the text of a reason; whether
  it answers is a choice in `SymbolHalts`.
* Configuration (environment variables, read once), templates and assets (rendering),
  logging, the file of matrix rules.
* The two scripts: they copy the counts of a stored per-symbol snapshot into the row of its
  day, one for the current day after the backfill of 20:00 (`scripts/install-breadth-sync-cron.sh:9`), the
  other for all days. Where a row agrees with its snapshot (`SnapshotMatchesRow`) this changes
  nothing; where the model shows that they may differ (a row that failed or was
  overwritten, findings 3 and 4) it is a write no property here speaks of. The text a
  Bale alert shows is left out, too.
* The file store: it is used by neither command.
* `net/http` and SQLite themselves, which are modelled by how the code uses them.

## 7. Plan

Done, in this order: alert delivery with its abstract specification and proofs,
daily statistics, registry, halts, cache, stream, dates, option scans, breadth;
then process life, vendor decoders, implied volatility with proofs, alerts of a
refresh with proofs, the list of buy queues, undated messages; then proofs of the
invariants of registry, halts, cache, daily statistics, breadth, decoders and dates; then
proofs about averages, alerts, whole decoding and the stream, and the abstract table of days.
Next:

1. A module that composes `SnapshotCache` with `AlertDelivery` through a refresh
   that is cancelled in the middle of its alerts.
2. The two hypotheses of `DailyTable` a change of the code could remove: a row written
   only if the day has none (finding 3), and a backfill that does not run without the days to
   preserve (finding 4).

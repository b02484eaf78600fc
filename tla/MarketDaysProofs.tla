--------------------------- MODULE MarketDaysProofs ---------------------------
(***************************************************************************)
(* Proofs about MarketDays, for any number of days, refreshes, backfills   *)
(* and batches.  What a row says of its session holds with every fault;    *)
(* the other results name the faults and the overlaps they exclude, which  *)
(* are the ones the violation runs show to matter.                         *)
(***************************************************************************)
EXTENDS MarketDays, TLAPS

\* The hypotheses of the theorems.
CandlesArrive == "candle" \notin FaultKinds
RowsStored == "write" \notin FaultKinds
OneByOne == "read" \notin FaultKinds /\ \A p, q \in Refreshers : p = q
Preserved == "preserve" \notin FaultKinds /\ "cli" \notin Fillers

\* Nothing is on record of a day that is not over 13:00, and the vendor
\* answers with today's session once the market has opened.
ClockInv == /\ \A d \in sessions : d <= day
            /\ day \in sessions => api.src = "live" /\ api.day = day
            /\ \A d \in Days : d > day \/ (d = day /\ phase = "morning")
                                  => rows[d] = None /\ snaps[d] = None

\* A refresh holds a quote of today's session, unless it was overtaken by the
\* opening; it records after 13:00, and midnight UTC does not overtake it.
QuoteInv == \A r \in Refreshers :
    /\ rpc[r] # "idle" /\ quote[r].src = "live" /\ day \in sessions
          => quote[r].day = day \/ (phase = "morning" /\ r \in spans)
    /\ rpc[r] \in {"record", "snapshot"}
          => quote[r].src = "live" /\ phase # "morning" /\ (phase = "night" => r \in spans)

\* A backfill has counts of days before its start only.
FillInv == \A b \in Fillers :
    /\ bday[b] <= day
    /\ \A d \in Days : got[b][d] <= batch[b] /\ (got[b][d] > 0 => d < bday[b])
    /\ \A d \in left[b] : d < bday[b] /\ got[b][d] > 0 /\ d \notin keep[b]
    /\ bpc[b] = "idle" => batch[b] = 0 /\ got[b] = NoGot /\ left[b] = {}

\* While candles can be fetched, every batch has all the days.
BatchInv == CandlesArrive => \A b \in Fillers :
    /\ bpc[b] # "idle" => \A d \in Days : got[b][d] = IF d \in FillDays(b) THEN batch[b] ELSE 0
    /\ bpc[b] = "write" => batch[b] = NBatches

\* While rows can be written, a snapshot has its row.
StoredInv == RowsStored =>
    /\ \A d \in Days : snaps[d] # None => rows[d] # None
    /\ \A r \in Refreshers : rpc[r] = "snapshot" => rows[day] # None
    /\ \A b \in Fillers : bpc[b] # "idle" => \A d \in Days :
          d \in keep[b] /\ d < bday[b] => rows[d] # None

\* With one refresh at a time, the row it records is the only one of the day.
AloneInv == RowsStored /\ OneByOne => \A r \in Refreshers :
    /\ rpc[r] = "record" => rows[day] = None
    /\ rpc[r] = "snapshot" => rows[day] = quote[r] /\ snaps[day] = None

\* A day a backfill has still to write, or has in the table.
GapInv == RowsStored /\ CandlesArrive => \A b \in Fillers : bpc[b] = "write" =>
    \A d \in Days : d \in FillDays(b) => d \in left[b] \/ rows[d] # None

\* A scheduled backfill keeps off the days that have a snapshot.
KeepInv == Preserved => \A b \in Fillers : bpc[b] # "idle" =>
    \A d \in Days : d < bday[b] /\ snaps[d] # None => d \in keep[b]

IInv == /\ TypeOK /\ ClockInv /\ QuoteInv /\ FillInv
        /\ RowOfItsOwnSession /\ TodayIsLive
        /\ BatchInv /\ (CandlesArrive => CandleRowsAreWhole)
        /\ StoredInv /\ AloneInv /\ (RowsStored /\ OneByOne => SnapshotMatchesRow)
        /\ GapInv /\ KeepInv
-----------------------------------------------------------------------------
\* Where counts come from.
LEMMA Sources ==
    /\ \A q \in Quotes \cup {NoAnswer} :
          /\ Counted(q) <=> q.src = "live"
          /\ q.src = "live" => q \in Stats /\ q.day \in Days
    /\ \A x \in Stats : x # None /\ x.src \in {"live", "candle"}
    /\ \A d \in Days, n \in 1 .. NBatches :
          Candles(d, n) \in Stats /\ Candles(d, n).src = "candle"
          /\ Candles(d, n).day = d /\ Candles(d, n).v = n
    /\ None.src = "none" /\ NoAnswer.src = "failed"
<1>1. ASSUME NEW q \in Quotes \cup {NoAnswer}
      PROVE  /\ Counted(q) <=> q.src = "live"
             /\ q.src = "live" => q \in Stats /\ q.day \in Days
  <2>1. CASE q \in LiveCounts
    <3>1. PICK d \in Days, v \in 0 .. MaxDrift : q = Live(d, v)
      BY <2>1 DEF LiveCounts
    <3>2. q.src = "live" /\ q.day = d
      BY <3>1 DEF Live
    <3>3. None.src = "none" /\ NoTrades.src = "empty" /\ NoAnswer.src = "failed"
      BY DEF None, NoTrades, NoAnswer
    <3>4. q \in Stats
      BY <3>1 DEF Stats, LiveCounts
    <3> QED
      BY <3>2, <3>3, <3>4 DEF Counted
  <2>2. CASE q = NoTrades \/ q = NoAnswer
    BY <2>2 DEF Counted, NoTrades, NoAnswer
  <2> QED
    BY <2>1, <2>2 DEF Quotes
<1>2. \A x \in Stats : x # None /\ x.src \in {"live", "candle"}
  BY DEF Stats, LiveCounts, Live, Candles, None
<1>3. \A d \in Days, n \in 1 .. NBatches :
          Candles(d, n) \in Stats /\ Candles(d, n).src = "candle"
          /\ Candles(d, n).day = d /\ Candles(d, n).v = n
  <2> TAKE d \in Days, n \in 1 .. NBatches
  <2>1. Candles(d, n) \in Stats
    BY DEF Stats
  <2> QED
    BY <2>1 DEF Candles
<1>4. None.src = "none" /\ NoAnswer.src = "failed"
  BY DEF None, NoAnswer
<1> QED
  BY <1>1, <1>2, <1>3, <1>4

LEMMA DaysAreNumbers ==
    TypeOK => /\ day \in Nat /\ day \in Days /\ Days \subseteq Nat
              /\ \A b \in Fillers : bday[b] \in Nat
BY DayAssumption DEF TypeOK, Days

\* The clock and the refreshes leave the backfills alone: the days before the
\* start of one keep their sessions and snapshots, and no row goes away.
LEMMA FillsKept ==
    ASSUME IInv, UNCHANGED <<bpc, bday, keep, batch, got, left>>,
           day' \in Nat, day <= day',
           \A d \in Days : d < day => (d \in sessions' <=> d \in sessions) /\ snaps'[d] = snaps[d],
           \A d \in Days : rows[d] # None => rows'[d] # None
    PROVE  FillInv' /\ BatchInv' /\ GapInv' /\ KeepInv'
<1>0. TypeOK /\ FillInv /\ BatchInv /\ GapInv /\ KeepInv
  BY DEF IInv
<1>1. /\ day \in Nat /\ Days \subseteq Nat /\ \A b \in Fillers : bday[b] \in Nat /\ bday[b] <= day
      /\ sessions \subseteq Days
  BY <1>0, DaysAreNumbers DEF FillInv, TypeOK
<1>2. FillInv'
  BY <1>0, <1>1 DEF FillInv
<1>3. ASSUME NEW b \in Fillers, NEW d \in Days PROVE d \in FillDays(b)' <=> d \in FillDays(b)
  BY <1>1 DEF FillDays
<1>4. BatchInv'
  BY <1>0, <1>3 DEF BatchInv
<1>5. GapInv'
  BY <1>0, <1>3 DEF GapInv
<1>6. KeepInv'
  <2> SUFFICES ASSUME Preserved, NEW b \in Fillers, bpc[b] # "idle",
                      NEW d \in Days, d < bday[b], snaps'[d] # None
               PROVE  d \in keep[b]
    BY DEF KeepInv
  <2>1. d < day
    BY <1>1
  <2> QED
    BY <1>0, <2>1 DEF KeepInv
<1> QED
  BY <1>2, <1>4, <1>5, <1>6
\* A step that leaves both tables and their days alone keeps what they say.
LEMMA TablesKept ==
    ASSUME IInv, UNCHANGED <<rows, snaps, sessions, day>>
    PROVE  /\ RowOfItsOwnSession' /\ TodayIsLive'
           /\ (CandlesArrive => CandleRowsAreWhole)'
           /\ (RowsStored /\ OneByOne => SnapshotMatchesRow)'
<1>1. RowOfItsOwnSession' /\ TodayIsLive'
  BY DEF IInv, RowOfItsOwnSession, TodayIsLive
<1>2. (CandlesArrive => CandleRowsAreWhole)'
  BY DEF IInv, CandleRowsAreWhole
<1>3. (RowsStored /\ OneByOne => SnapshotMatchesRow)'
  BY DEF IInv, SnapshotMatchesRow
<1> QED
  BY <1>1, <1>2, <1>3

LEMMA InitIInv == Init => IInv
<1> SUFFICES ASSUME Init PROVE IInv
  OBVIOUS
<1>1. /\ 1 \in Days /\ Days \subseteq Nat /\ 0 \in 0 .. NBatches
  BY DayAssumption, BatchAssumption DEF Days
<1>2. TypeOK
  <2>1. api \in Quotes /\ day \in Days /\ phase \in Phases /\ sessions \in SUBSET Days
    BY <1>1 DEF Init, Quotes, Phases
  <2>2. NoGot \in [Days -> 0 .. NBatches]
    BY <1>1 DEF NoGot
  <2>3. /\ rows \in [Days -> Stats \cup {None}] /\ snaps \in [Days -> Stats \cup {None}]
        /\ rpc \in [Refreshers -> {"idle", "load", "record", "snapshot"}]
        /\ quote \in [Refreshers -> Quotes \cup {NoAnswer}]
        /\ muted \in [Refreshers -> BOOLEAN]
    BY DEF Init
  <2>4. /\ bpc \in [Fillers -> {"idle", "batch", "write"}]
        /\ bday \in [Fillers -> Days]
        /\ keep \in [Fillers -> SUBSET (1 .. (MaxDay + 1))]
        /\ batch \in [Fillers -> 0 .. NBatches]
        /\ got \in [Fillers -> [Days -> 0 .. NBatches]]
        /\ left \in [Fillers -> SUBSET Days]
    BY <1>1, <2>2 DEF Init
  <2>5. spans \in SUBSET (Refreshers \cup Fillers) /\ faults \in Nat
    BY DEF Init
  <2> QED
    BY <2>1, <2>3, <2>4, <2>5 DEF TypeOK
<1>3. /\ \A r \in Refreshers : rpc[r] = "idle"
      /\ \A b \in Fillers : /\ bpc[b] = "idle" /\ bday[b] = 1 /\ batch[b] = 0
                            /\ got[b] = NoGot /\ left[b] = {}
      /\ \A d \in Days : rows[d] = None /\ snaps[d] = None
      /\ day = 1 /\ sessions = {}
  BY DEF Init
<1>4. ClockInv /\ QuoteInv
  BY <1>3 DEF ClockInv, QuoteInv
<1>5. FillInv
  <2>1. \A d \in Days : NoGot[d] = 0
    BY DEF NoGot
  <2> QED
    BY <1>3, <2>1 DEF FillInv
<1>6. RowOfItsOwnSession /\ TodayIsLive /\ CandleRowsAreWhole /\ SnapshotMatchesRow
  BY <1>1, <1>3, Sources DEF RowOfItsOwnSession, TodayIsLive, CandleRowsAreWhole, SnapshotMatchesRow
<1>7. BatchInv /\ StoredInv /\ AloneInv /\ GapInv /\ KeepInv
  BY <1>3 DEF BatchInv, StoredInv, AloneInv, GapInv, KeepInv
<1> QED
  BY <1>2, <1>4, <1>5, <1>6, <1>7 DEF IInv

\* The types, and what the row and the snapshot of a day can be.
LEMMA NextType ==
    ASSUME TypeOK, QuoteInv, FillInv, [Next]_vars
    PROVE  TypeOK'
<1>0. /\ day \in Days /\ phase \in Phases /\ sessions \in SUBSET Days
      /\ api \in Quotes
      /\ rows \in [Days -> Stats \cup {None}] /\ snaps \in [Days -> Stats \cup {None}]
      /\ rpc \in [Refreshers -> {"idle", "load", "record", "snapshot"}]
      /\ quote \in [Refreshers -> Quotes \cup {NoAnswer}]
      /\ muted \in [Refreshers -> BOOLEAN]
      /\ bpc \in [Fillers -> {"idle", "batch", "write"}] /\ bday \in [Fillers -> Days]
      /\ keep \in [Fillers -> SUBSET (1 .. (MaxDay + 1))] /\ batch \in [Fillers -> 0 .. NBatches]
      /\ got \in [Fillers -> [Days -> 0 .. NBatches]] /\ left \in [Fillers -> SUBSET Days]
      /\ spans \in SUBSET (Refreshers \cup Fillers) /\ faults \in Nat
  BY DEF TypeOK
<1>1. Running \in SUBSET (Refreshers \cup Fillers) /\ Days \subseteq Nat /\ MaxDay \in Nat
  BY DayAssumption DEF Running, Days
<1>2. ASSUME NEW kind, Fault(kind) PROVE faults' \in Nat
  BY <1>0, <1>2 DEF Fault
<1>3. CASE OpenSession
  <2>1. api' \in Quotes
    <3>1. 0 \in 0 .. MaxDrift
      BY DriftAssumption
    <3> QED
      <4>1. api' = Live(day, 0) /\ day \in Days
        BY <1>0, <1>3 DEF OpenSession
      <4>2. Live(day, 0) \in LiveCounts
        BY <3>1, <4>1 DEF LiveCounts
      <4> QED
        BY <4>1, <4>2 DEF Quotes
  <2> QED
    BY <1>0, <1>1, <1>3, <2>1 DEF OpenSession, ClockMoves, refresh, fill, TypeOK
<1>4. CASE NextPhase
  <2>1. day' \in Days /\ phase' \in Phases /\ api' \in Quotes
    BY <1>0, <1>1, <1>4 DEF NextPhase, Days, Phases, Quotes
  <2> QED
    BY <1>0, <1>1, <1>4, <2>1 DEF NextPhase, ClockMoves, refresh, fill, TypeOK
<1>5. CASE Drift
  <2>1. api' \in Quotes
    <3>1. api # NoTrades /\ api.v < MaxDrift /\ api' = [api EXCEPT !.v = @ + 1]
      BY <1>5 DEF Drift, NoTrades
    <3>2. PICK d \in Days, v \in 0 .. MaxDrift : api = Live(d, v)
      BY <1>0, <3>1 DEF Quotes, LiveCounts
    <3>3. v + 1 \in 0 .. MaxDrift /\ api' = Live(d, v + 1)
      BY <3>1, <3>2, DriftAssumption DEF Live
    <3> QED
      BY <3>3 DEF Quotes, LiveCounts
  <2> QED
    BY <1>0, <1>5, <2>1 DEF Drift, clock, refresh, fill, TypeOK
<1>6. ASSUME NEW r \in Refreshers, Fetch(r) PROVE TypeOK'
  <2>1. quote' \in [Refreshers -> Quotes \cup {NoAnswer}] /\ faults' \in Nat
    BY <1>0, <1>2, <1>6 DEF Fetch
  <2>2. rpc' \in [Refreshers -> {"idle", "load", "record", "snapshot"}]
    BY <1>0, <1>6 DEF Fetch
  <2> QED
    BY <1>0, <1>6, <2>1, <2>2 DEF Fetch, clock, fill, TypeOK
<1>7. ASSUME NEW r \in Refreshers, Load(r) PROVE TypeOK'
  <2>1. PICK h : LoadFrom(r, h)
    BY <1>7 DEF Load
  <2>2. /\ rpc' \in [Refreshers -> {"idle", "load", "record", "snapshot"}]
        /\ quote' \in [Refreshers -> Quotes \cup {NoAnswer}]
    BY <1>0, <2>1 DEF LoadFrom, EndRefresh
  <2>3. muted' \in [Refreshers -> BOOLEAN]
    <3>1. IsHolidaySnapshot(h, quote[r]) \in BOOLEAN
      BY DEF IsHolidaySnapshot
    <3>2. muted' = [muted EXCEPT ![r] = IsHolidaySnapshot(h, quote[r])]
      BY <2>1 DEF LoadFrom
    <3>3. muted \in [Refreshers -> BOOLEAN]
      BY <1>0
    <3> HIDE <1>0
    <3> QED
      BY <3>1, <3>2, <3>3, Zenon
  <2>4. faults' \in Nat
    BY <1>0, <1>2, <1>7 DEF Load
  <2> QED
    BY <1>0, <1>7, <2>2, <2>3, <2>4 DEF Load, clock, fill, TypeOK
<1>8. ASSUME NEW r \in Refreshers, Record(r) PROVE TypeOK'
  <2>1. quote[r] \in Stats
    BY <1>0, <1>8, Sources DEF Record, QuoteInv
  <2>2. rows' \in [Days -> Stats \cup {None}]
    BY <1>0, <1>8, <2>1 DEF Record
  <2>3. rpc' \in [Refreshers -> {"idle", "load", "record", "snapshot"}] /\ faults' \in Nat
    BY <1>0, <1>2, <1>8 DEF Record
  <2> QED
    BY <1>0, <1>8, <2>2, <2>3 DEF Record, clock, fill, TypeOK
<1>9. ASSUME NEW r \in Refreshers, SaveSnapshot(r) PROVE TypeOK'
  <2>1. quote[r] \in Stats
    BY <1>0, <1>9, Sources DEF SaveSnapshot, QuoteInv
  <2>2. snaps' \in [Days -> Stats \cup {None}] /\ faults' \in Nat
    BY <1>0, <1>2, <1>9, <2>1 DEF SaveSnapshot
  <2>3. /\ rpc' \in [Refreshers -> {"idle", "load", "record", "snapshot"}]
        /\ quote' \in [Refreshers -> Quotes \cup {NoAnswer}]
    BY <1>0, <1>9 DEF SaveSnapshot, EndRefresh
  <2> QED
    BY <1>0, <1>9, <2>2, <2>3 DEF SaveSnapshot, clock, fill, TypeOK
<1>10. ASSUME NEW b \in Fillers, StartFill(b) PROVE TypeOK'
  <2>1. SnapshotDays \subseteq 1 .. (MaxDay + 1) /\ TehranToday \in 1 .. (MaxDay + 1)
    BY <1>0, <1>1 DEF SnapshotDays, TehranToday, Days
  <2>2. keep' \in [Fillers -> SUBSET (1 .. (MaxDay + 1))] /\ faults' \in Nat
    <3>1. PICK K : K \in {SnapshotDays, {}, {TehranToday}} /\ keep' = [keep EXCEPT ![b] = K]
      BY <1>10 DEF StartFill
    <3>2. K \subseteq 1 .. (MaxDay + 1)
      BY <2>1, <3>1
    <3>3. keep \in [Fillers -> SUBSET (1 .. (MaxDay + 1))]
      BY <1>0
    <3>4. keep' \in [Fillers -> SUBSET (1 .. (MaxDay + 1))]
      BY <3>1, <3>2, <3>3
    <3>5. faults' \in Nat
      BY <1>0, <1>2, <1>10 DEF StartFill, NeedsBackfill
    <3> QED
      BY <3>4, <3>5
  <2>3. bpc' \in [Fillers -> {"idle", "batch", "write"}] /\ bday' \in [Fillers -> Days]
    BY <1>0, <1>10 DEF StartFill
  <2> QED
    BY <1>0, <1>10, <2>2, <2>3 DEF StartFill, clock, refresh, TypeOK
<1>11. ASSUME NEW b \in Fillers, Batch(b) PROVE TypeOK'
  <2>1. batch'[b] = batch[b] + 1 /\ batch[b] + 1 \in 0 .. NBatches
    BY <1>0, <1>11, BatchAssumption DEF Batch
  <2>2. batch' \in [Fillers -> 0 .. NBatches]
    BY <1>0, <1>11, <2>1 DEF Batch
  <2>3. got' \in [Fillers -> [Days -> 0 .. NBatches]]
    <3>1. \A d \in Days : got[b][d] + 1 \in 0 .. NBatches
      <4> TAKE d \in Days
      <4>1. got[b][d] <= batch[b]
        BY DEF FillInv
      <4>2. got[b][d] \in Nat /\ batch[b] \in Nat /\ NBatches \in Nat
        BY <1>0, BatchAssumption
      <4> QED
        BY <2>1, <4>1, <4>2
    <3>2. [d \in Days |-> IF d \in FillDays(b) THEN got[b][d] + 1 ELSE got[b][d]]
              \in [Days -> 0 .. NBatches]
      BY <1>0, <3>1
    <3> QED
      BY <1>0, <1>11, <3>2 DEF Batch
  <2>4. bpc' \in [Fillers -> {"idle", "batch", "write"}] /\ left' \in [Fillers -> SUBSET Days]
    <3>1. ToWrite(b, got'[b]) \subseteq Days
      BY DEF ToWrite
    <3>2. \/ UNCHANGED <<bpc, left>>
          \/ /\ bpc' = [bpc EXCEPT ![b] = "write"]
             /\ left' = [left EXCEPT ![b] = ToWrite(b, got'[b])]
      BY <1>11 DEF Batch
    <3>3. /\ bpc \in [Fillers -> {"idle", "batch", "write"}] /\ left \in [Fillers -> SUBSET Days]
      BY <1>0
    <3> QED
      BY <3>1, <3>2, <3>3
  <2>5. faults' \in Nat
    BY <1>0, <1>2, <1>11 DEF Batch
  <2> QED
    BY <1>0, <1>11, <2>2, <2>3, <2>4, <2>5 DEF Batch, clock, refresh, TypeOK
<1>12. ASSUME NEW B, FillOver(B)
       PROVE  /\ bpc' \in [Fillers -> {"idle", "batch", "write"}] /\ bday' \in [Fillers -> Days]
              /\ keep' \in [Fillers -> SUBSET (1 .. (MaxDay + 1))] /\ batch' \in [Fillers -> 0 .. NBatches]
              /\ got' \in [Fillers -> [Days -> 0 .. NBatches]] /\ left' \in [Fillers -> SUBSET Days]
  <2>1. NoGot \in [Days -> 0 .. NBatches] /\ 0 \in 0 .. NBatches
    BY BatchAssumption DEF NoGot
  <2> QED
    BY <1>0, <1>12, <2>1 DEF FillOver
<1>13. ASSUME NEW b \in Fillers, CancelFill(b) \/ EndFill(b) PROVE TypeOK'
  <2>1. FillOver({b}) /\ faults' \in Nat
    BY <1>0, <1>2, <1>13 DEF CancelFill, EndFill
  <2>2. UNCHANGED <<day, phase, sessions, api, rows, snaps, rpc, quote, muted, spans>>
    BY <1>13 DEF CancelFill, EndFill, clock, refresh
  <2> QED
    BY <1>0, <1>12, <2>1, <2>2 DEF TypeOK
<1>14. ASSUME NEW b \in Fillers, NEW d \in Days, WriteDay(b, d) PROVE TypeOK'
  <2>1. got[b][d] \in 1 .. NBatches
    BY <1>0, <1>14 DEF WriteDay, FillInv
  <2>2. rows' \in [Days -> Stats \cup {None}]
    <3>1. Candles(d, got[b][d]) \in Stats
      BY <2>1, Sources
    <3>2. rows' = rows \/ rows' = [rows EXCEPT ![d] = Candles(d, got[b][d])]
      BY <1>14 DEF WriteDay
    <3>3. rows \in [Days -> Stats \cup {None}]
      BY <1>0
    <3> QED
      BY <3>1, <3>2, <3>3
  <2>3. left' \in [Fillers -> SUBSET Days] /\ faults' \in Nat
    BY <1>0, <1>2, <1>14 DEF WriteDay
  <2> QED
    BY <1>0, <1>14, <2>2, <2>3 DEF WriteDay, clock, refresh, TypeOK
<1>15. CASE Crash
  <2>1. /\ rpc' \in [Refreshers -> {"idle", "load", "record", "snapshot"}]
        /\ quote' \in [Refreshers -> Quotes \cup {NoAnswer}] /\ faults' \in Nat
    BY <1>0, <1>2, <1>15 DEF Crash
  <2> QED
    BY <1>0, <1>12, <1>15, <2>1 DEF Crash, clock, TypeOK
<1>16. CASE UNCHANGED vars
  BY <1>0, <1>16 DEF vars, clock, refresh, fill, TypeOK
<1> QED
  BY <1>3, <1>4, <1>5, <1>6, <1>7, <1>8, <1>9, <1>10, <1>11, <1>13, <1>14, <1>15, <1>16 DEF Next
-----------------------------------------------------------------------------
\* What every action below starts from.
LEMMA Facts ==
    ASSUME IInv
    PROVE  /\ day \in Nat /\ day \in Days /\ Days \subseteq Nat /\ sessions \subseteq Days
           /\ phase \in Phases
           /\ rpc \in [Refreshers -> {"idle", "load", "record", "snapshot"}]
           /\ quote \in [Refreshers -> Quotes \cup {NoAnswer}]
           /\ rows \in [Days -> Stats \cup {None}] /\ snaps \in [Days -> Stats \cup {None}]
           /\ ClockInv /\ QuoteInv /\ FillInv
           /\ BatchInv /\ StoredInv /\ AloneInv /\ GapInv /\ KeepInv
           /\ RowOfItsOwnSession /\ TodayIsLive
           /\ (CandlesArrive => CandleRowsAreWhole)
           /\ (RowsStored /\ OneByOne => SnapshotMatchesRow)
BY DaysAreNumbers DEF IInv, TypeOK

\* The opening of the market, before anything of the day is on record.
LEMMA OpenKeeps ==
    ASSUME IInv, TypeOK', OpenSession
    PROVE  IInv'
<1>0. /\ phase = "morning" /\ day \notin sessions /\ sessions' = sessions \cup {day}
      /\ api' = Live(day, 0) /\ spans' = Running
      /\ day' = day /\ phase' = phase /\ rows' = rows /\ snaps' = snaps
      /\ rpc' = rpc /\ quote' = quote
      /\ bpc' = bpc /\ bday' = bday /\ keep' = keep /\ batch' = batch /\ got' = got /\ left' = left
  BY DEF OpenSession, ClockMoves, refresh, fill
<1>1. rows[day] = None /\ snaps[day] = None
  BY <1>0, Facts DEF ClockInv
<1>2. ClockInv'
  <2>1. Live(day, 0).src = "live" /\ Live(day, 0).day = day
    BY DEF Live
  <2> QED
    BY <1>0, <2>1, Facts DEF ClockInv
<1>3. QuoteInv'
  BY <1>0, Facts DEF QuoteInv, Running
<1>4. FillInv' /\ BatchInv' /\ GapInv' /\ KeepInv'
  BY <1>0, Facts, FillsKept
<1>5. RowOfItsOwnSession' /\ TodayIsLive'
  BY <1>0, <1>1, Facts DEF RowOfItsOwnSession, TodayIsLive
<1>6. (CandlesArrive => CandleRowsAreWhole)'
  BY <1>0, Facts DEF CandleRowsAreWhole
<1>7. (RowsStored /\ OneByOne => SnapshotMatchesRow)'
  BY <1>0, Facts DEF SnapshotMatchesRow
<1>8. StoredInv' /\ AloneInv'
  BY <1>0, Facts DEF StoredInv, AloneInv
<1> QED
  BY <1>2, <1>3, <1>4, <1>5, <1>6, <1>7, <1>8 DEF IInv

\* 13:00, midnight in Tehran, and midnight UTC, when no refresh that records
\* is left over.
LEMMA PhaseKeeps ==
    ASSUME IInv, TypeOK', NextPhase
    PROVE  IInv'
<1>0. /\ Running \cap spans = {} /\ spans' = Running
      /\ sessions' = sessions /\ rows' = rows /\ snaps' = snaps
      /\ rpc' = rpc /\ quote' = quote
      /\ bpc' = bpc /\ bday' = bday /\ keep' = keep /\ batch' = batch /\ got' = got /\ left' = left
  BY DEF NextPhase, ClockMoves, refresh, fill
<1>1. \/ /\ phase = "morning" /\ phase' = "afternoon" /\ day' = day /\ api' = api
      \/ /\ phase = "afternoon" /\ phase' = "night" /\ day' = day /\ api' = api
      \/ /\ phase = "night" /\ phase' = "morning" /\ day' = day + 1
  BY DEF NextPhase
<1>2. \A r \in Refreshers : rpc[r] # "idle" => r \notin spans /\ r \in spans'
  BY <1>0 DEF Running
<1>3. FillInv' /\ BatchInv' /\ GapInv' /\ KeepInv'
  BY <1>0, <1>1, Facts, FillsKept
<1>4. CASE day' = day
  <2>1. ClockInv'
    BY <1>0, <1>1, <1>4, Facts DEF ClockInv
  <2>2. QuoteInv'
    BY <1>0, <1>1, <1>2, <1>4, Facts DEF QuoteInv
  <2>3. /\ RowOfItsOwnSession' /\ TodayIsLive' /\ (CandlesArrive => CandleRowsAreWhole)'
        /\ (RowsStored /\ OneByOne => SnapshotMatchesRow)'
    BY <1>0, <1>4, TablesKept
  <2>4. StoredInv' /\ AloneInv'
    BY <1>0, <1>4, Facts DEF StoredInv, AloneInv
  <2> QED
    BY <1>3, <2>1, <2>2, <2>3, <2>4 DEF IInv
<1>5. CASE day' = day + 1 /\ phase = "night" /\ phase' = "morning"
  <2>1. day' \notin sessions /\ day' \in Days /\ rows[day'] = None
    BY <1>5, Facts DEF ClockInv, TypeOK
  <2>2. \A r \in Refreshers : rpc[r] \notin {"record", "snapshot"}
    BY <1>2, <1>5, Facts DEF QuoteInv
  <2>3. ClockInv'
    <3>1. \A d \in sessions : d <= day'
      BY <1>5, Facts DEF ClockInv
    <3>2. \A d \in Days : d >= day' => rows[d] = None /\ snaps[d] = None
      BY <1>5, Facts DEF ClockInv
    <3>3. day' \in Nat
      BY <1>5, Facts
    <3> QED
      BY <1>0, <2>1, <3>1, <3>2, <3>3, Facts DEF ClockInv
  <2>4. QuoteInv'
    BY <1>0, <2>1, <2>2 DEF QuoteInv
  <2>5. RowOfItsOwnSession' /\ TodayIsLive'
    BY <1>0, <2>1, Facts, Sources DEF RowOfItsOwnSession, TodayIsLive
  <2>6. /\ (CandlesArrive => CandleRowsAreWhole)'
        /\ (RowsStored /\ OneByOne => SnapshotMatchesRow)'
    BY <1>0, Facts DEF CandleRowsAreWhole, SnapshotMatchesRow
  <2>7. StoredInv' /\ AloneInv'
    BY <1>0, <2>2, Facts DEF StoredInv, AloneInv
  <2> QED
    BY <1>3, <2>3, <2>4, <2>5, <2>6, <2>7 DEF IInv
<1> QED
  BY <1>1, <1>4, <1>5

LEMMA DriftKeeps ==
    ASSUME IInv, TypeOK', Drift
    PROVE  IInv'
<1>0. /\ day' = day /\ phase' = phase /\ sessions' = sessions /\ rows' = rows /\ snaps' = snaps
      /\ rpc' = rpc /\ quote' = quote /\ spans' = spans
      /\ bpc' = bpc /\ bday' = bday /\ keep' = keep /\ batch' = batch /\ got' = got /\ left' = left
  BY DEF Drift, clock, refresh, fill
<1>1. api'.src = api.src /\ api'.day = api.day
  <2>1. api \in LiveCounts \cup {NoTrades}
    BY DEF IInv, TypeOK, Quotes
  <2> QED
    BY <2>1 DEF Drift, LiveCounts, Live, NoTrades
<1>2. ClockInv'
  BY <1>0, <1>1, Facts DEF ClockInv
<1>3. QuoteInv' /\ StoredInv' /\ AloneInv'
  BY <1>0, Facts DEF QuoteInv, StoredInv, AloneInv
<1>4. FillInv' /\ BatchInv' /\ GapInv' /\ KeepInv'
  BY <1>0, Facts, FillsKept
<1> QED
  BY <1>0, <1>2, <1>3, <1>4, TablesKept DEF IInv

-----------------------------------------------------------------------------
\* Refreshes: the quote is of the session the vendor has when it is fetched.
LEMMA FetchKeeps ==
    ASSUME IInv, TypeOK', NEW r \in Refreshers, Fetch(r)
    PROVE  IInv'
<1>0. /\ day' = day /\ phase' = phase /\ sessions' = sessions /\ rows' = rows /\ snaps' = snaps
      /\ api' = api /\ spans' = spans \ {r}
      /\ bpc' = bpc /\ bday' = bday /\ keep' = keep /\ batch' = batch /\ got' = got /\ left' = left
      /\ rpc[r] = "idle" /\ rpc' = [rpc EXCEPT ![r] = "load"]
      /\ quote' = [quote EXCEPT ![r] = api] \/ quote' = [quote EXCEPT ![r] = NoAnswer]
  BY DEF Fetch, clock, fill
<1>1. /\ rpc'[r] = "load" /\ (quote'[r] = api \/ quote'[r].src = "failed")
      /\ \A p \in Refreshers : p # r => rpc'[p] = rpc[p] /\ quote'[p] = quote[p]
  BY <1>0, Facts, Sources
<1>2. ClockInv'
  BY <1>0, Facts DEF ClockInv
<1>3. QuoteInv'
  <2> SUFFICES ASSUME NEW p \in Refreshers
               PROVE  /\ rpc'[p] # "idle" /\ quote'[p].src = "live" /\ day \in sessions
                            => quote'[p].day = day \/ (phase = "morning" /\ p \in spans')
                      /\ rpc'[p] \in {"record", "snapshot"}
                            => quote'[p].src = "live" /\ phase # "morning" /\ (phase = "night" => p \in spans')
    BY <1>0 DEF QuoteInv
  <2>1. CASE p = r
    BY <1>1, <2>1, Facts DEF ClockInv
  <2>2. CASE p # r
    BY <1>0, <1>1, <2>2, Facts DEF QuoteInv
  <2> QED
    BY <2>1, <2>2
<1>4. FillInv' /\ BatchInv' /\ GapInv' /\ KeepInv'
  BY <1>0, Facts, FillsKept
<1>5. StoredInv' /\ AloneInv'
  BY <1>0, <1>1, Facts DEF StoredInv, AloneInv
<1> QED
  BY <1>0, <1>2, <1>3, <1>4, <1>5, TablesKept DEF IInv

LEMMA LoadKeeps ==
    ASSUME IInv, TypeOK', NEW r \in Refreshers, Load(r)
    PROVE  IInv'
<1>0. /\ day' = day /\ phase' = phase /\ sessions' = sessions /\ rows' = rows /\ snaps' = snaps
      /\ api' = api /\ spans' = spans
      /\ bpc' = bpc /\ bday' = bday /\ keep' = keep /\ batch' = batch /\ got' = got /\ left' = left
      /\ rpc[r] = "load"
  BY DEF Load, clock, fill
<1>1. PICK h : LoadFrom(r, h) /\ ("read" \notin FaultKinds => h = rows)
  BY DEF Load, Fault
<1>2. \A p \in Refreshers : p # r => rpc'[p] = rpc[p] /\ quote'[p] = quote[p]
  BY <1>1, Facts DEF LoadFrom, EndRefresh
<1>3. \/ rpc'[r] = "idle"
      \/ /\ rpc'[r] = "record" /\ quote'[r] = quote[r]
         /\ quote[r].src = "live" /\ phase = "afternoon" /\ h[day] = None
  <2>1. CASE RecordToday(h, quote[r])
    <3>1. TodayStats(h, quote[r]) = quote[r] /\ Counted(quote[r])
      BY <2>1 DEF RecordToday, TodayStats
    <3>2. quote[r].src = "live"
      BY <3>1, Facts, Sources
    <3> QED
      BY <1>1, <2>1, <3>2, Facts DEF LoadFrom, RecordToday
  <2>2. CASE ~ RecordToday(h, quote[r])
    BY <1>1, <2>2, Facts DEF LoadFrom, EndRefresh
  <2> QED
    BY <2>1, <2>2
<1>4. ClockInv'
  BY <1>0, Facts DEF ClockInv
<1>5. QuoteInv'
  <2> SUFFICES ASSUME NEW p \in Refreshers
               PROVE  /\ rpc'[p] # "idle" /\ quote'[p].src = "live" /\ day \in sessions
                            => quote'[p].day = day \/ (phase = "morning" /\ p \in spans)
                      /\ rpc'[p] \in {"record", "snapshot"}
                            => quote'[p].src = "live" /\ phase # "morning" /\ (phase = "night" => p \in spans)
    BY <1>0 DEF QuoteInv
  <2>1. CASE p = r
    BY <1>0, <1>3, <2>1, Facts DEF QuoteInv
  <2>2. CASE p # r
    BY <1>2, <2>2, Facts DEF QuoteInv
  <2> QED
    BY <2>1, <2>2
<1>6. FillInv' /\ BatchInv' /\ GapInv' /\ KeepInv'
  BY <1>0, Facts, FillsKept
<1>7. StoredInv'
  BY <1>0, <1>2, <1>3, Facts DEF StoredInv
<1>8. AloneInv'
  BY <1>0, <1>1, <1>2, <1>3, Facts DEF AloneInv, OneByOne
<1> QED
  BY <1>0, <1>4, <1>5, <1>6, <1>7, <1>8, TablesKept DEF IInv

\* UpsertToday: the day is past 13:00, and its session, if it has one, is the
\* session of the quote.
LEMMA RecordKeeps ==
    ASSUME IInv, TypeOK', NEW r \in Refreshers, Record(r)
    PROVE  IInv'
<1>0. /\ day' = day /\ phase' = phase /\ sessions' = sessions /\ snaps' = snaps
      /\ api' = api /\ spans' = spans /\ quote' = quote
      /\ bpc' = bpc /\ bday' = bday /\ keep' = keep /\ batch' = batch /\ got' = got /\ left' = left
      /\ rpc[r] = "record" /\ rpc' = [rpc EXCEPT ![r] = "snapshot"]
      /\ rows' = [rows EXCEPT ![day] = quote[r]] \/ (rows' = rows /\ ~ RowsStored)
  BY DEF Record, clock, fill, Fault, RowsStored
<1>1. /\ rpc'[r] = "snapshot" /\ \A p \in Refreshers : p # r => rpc'[p] = rpc[p]
      /\ \A d \in Days : d # day => rows'[d] = rows[d]
      /\ rows'[day] = quote[r] \/ (rows'[day] = rows[day] /\ ~ RowsStored)
  BY <1>0, Facts
<1>2. /\ quote[r].src = "live" /\ quote[r] \in Stats /\ quote[r] # None
      /\ phase # "morning" /\ (day \in sessions => quote[r].day = day)
  BY <1>0, Facts, Sources DEF QuoteInv
<1>3. ClockInv'
  BY <1>0, <1>1, <1>2, Facts DEF ClockInv
<1>4. QuoteInv'
  BY <1>0, <1>1, Facts DEF QuoteInv
<1>5. \A d \in Days : rows[d] # None => rows'[d] # None
  BY <1>1, <1>2
<1>6. FillInv' /\ BatchInv' /\ GapInv' /\ KeepInv'
  BY <1>0, <1>5, Facts, FillsKept
<1>7. RowOfItsOwnSession' /\ TodayIsLive'
  BY <1>0, <1>1, <1>2, Facts DEF RowOfItsOwnSession, TodayIsLive
<1>8. (CandlesArrive => CandleRowsAreWhole)'
  BY <1>1, <1>2, Facts DEF CandleRowsAreWhole
<1>9. StoredInv'
  BY <1>0, <1>1, <1>2, <1>5, Facts DEF StoredInv
<1>10. RowsStored /\ OneByOne => snaps[day] = None /\ \A p \in Refreshers : p = r
  BY <1>0, Facts DEF AloneInv, StoredInv, OneByOne
<1>11. AloneInv'
  BY <1>0, <1>1, <1>10 DEF AloneInv
<1>12. (RowsStored /\ OneByOne => SnapshotMatchesRow)'
  BY <1>0, <1>1, <1>10, Facts DEF SnapshotMatchesRow
<1> QED
  BY <1>3, <1>4, <1>6, <1>7, <1>8, <1>9, <1>11, <1>12 DEF IInv

\* UpsertSymbolSnapshot.
LEMMA SnapshotKeeps ==
    ASSUME IInv, TypeOK', NEW r \in Refreshers, SaveSnapshot(r)
    PROVE  IInv'
<1>0. /\ day' = day /\ phase' = phase /\ sessions' = sessions /\ rows' = rows
      /\ api' = api /\ spans' = spans
      /\ bpc' = bpc /\ bday' = bday /\ keep' = keep /\ batch' = batch /\ got' = got /\ left' = left
      /\ rpc[r] = "snapshot" /\ EndRefresh(r)
      /\ snaps' = [snaps EXCEPT ![day] = quote[r]] \/ snaps' = snaps
  BY DEF SaveSnapshot, clock, fill
<1>1. /\ rpc'[r] = "idle"
      /\ \A p \in Refreshers : p # r => rpc'[p] = rpc[p] /\ quote'[p] = quote[p]
      /\ \A d \in Days : d # day => snaps'[d] = snaps[d]
      /\ snaps'[day] = quote[r] \/ snaps'[day] = snaps[day]
  BY <1>0, Facts DEF EndRefresh
<1>2. phase # "morning"
  BY <1>0, Facts DEF QuoteInv
<1>3. ClockInv'
  BY <1>0, <1>1, <1>2, Facts DEF ClockInv
<1>4. QuoteInv'
  BY <1>0, <1>1, Facts DEF QuoteInv
<1>5. FillInv' /\ BatchInv' /\ GapInv' /\ KeepInv'
  BY <1>0, <1>1, Facts, FillsKept
<1>6. RowOfItsOwnSession' /\ TodayIsLive' /\ (CandlesArrive => CandleRowsAreWhole)'
  BY <1>0, Facts DEF RowOfItsOwnSession, TodayIsLive, CandleRowsAreWhole
<1>7. StoredInv'
  BY <1>0, <1>1, Facts DEF StoredInv
<1>8. AloneInv'
  BY <1>0, <1>1, Facts DEF AloneInv, OneByOne
<1>9. (RowsStored /\ OneByOne => SnapshotMatchesRow)'
  BY <1>0, <1>1, Facts DEF SnapshotMatchesRow, AloneInv
<1> QED
  BY <1>3, <1>4, <1>5, <1>6, <1>7, <1>8, <1>9 DEF IInv
-----------------------------------------------------------------------------
\* Backfills.  What such a step leaves to the refreshes.
LEMMA RefreshesKept ==
    ASSUME IInv, UNCHANGED <<day, phase, sessions, api, rows, snaps, rpc, quote>>,
           \A r \in Refreshers : r \in spans' <=> r \in spans
    PROVE  ClockInv' /\ QuoteInv' /\ AloneInv'
<1>1. ClockInv' /\ AloneInv'
  BY Facts DEF ClockInv, AloneInv
<1>2. QuoteInv'
  BY Facts DEF QuoteInv
<1> QED
  BY <1>1, <1>2

\* A fill starts from nothing, and preserves what has a snapshot.
LEMMA StartKeeps ==
    ASSUME IInv, TypeOK', NEW b \in Fillers, StartFill(b)
    PROVE  IInv'
<1>0. /\ day' = day /\ phase' = phase /\ sessions' = sessions /\ api' = api
      /\ rows' = rows /\ snaps' = snaps /\ rpc' = rpc /\ quote' = quote
      /\ batch' = batch /\ got' = got /\ left' = left
      /\ spans' = spans \ {b} /\ bpc[b] = "idle"
      /\ bpc' = [bpc EXCEPT ![b] = "batch"] /\ bday' = [bday EXCEPT ![b] = day]
  BY DEF StartFill, clock, refresh
<1>1. /\ bpc'[b] = "batch" /\ bday'[b] = day
      /\ batch[b] = 0 /\ got[b] = NoGot /\ left[b] = {}
      /\ \A c \in Fillers : c # b => bpc'[c] = bpc[c] /\ bday'[c] = bday[c] /\ keep'[c] = keep[c]
  <2>1. batch[b] = 0 /\ got[b] = NoGot /\ left[b] = {}
    BY <1>0, Facts DEF FillInv
  <2>2. \A c \in Fillers : c # b => keep'[c] = keep[c]
    BY DEF StartFill, IInv, TypeOK
  <2>3. bpc \in [Fillers -> {"idle", "batch", "write"}] /\ bday \in [Fillers -> Days]
    BY DEF IInv, TypeOK
  <2> QED
    BY <1>0, <2>1, <2>2, <2>3
<1>2. /\ \A d \in Days : d \in keep'[b] /\ d < day => snaps[d] # None
      /\ Preserved => \A d \in Days : snaps[d] # None => d \in keep'[b]
  <2>1. keep \in [Fillers -> SUBSET (1 .. (MaxDay + 1))]
    BY DEF IInv, TypeOK
  <2>2. CASE keep' = [keep EXCEPT ![b] = SnapshotDays]
    BY <2>1, <2>2 DEF SnapshotDays
  <2>3. CASE keep' = [keep EXCEPT ![b] = {}] /\ Fault("preserve")
    BY <2>1, <2>3 DEF Fault, Preserved
  <2>4. CASE keep' = [keep EXCEPT ![b] = {TehranToday}] /\ b = "cli"
    <3>1. keep'[b] = {TehranToday}
      BY <2>1, <2>4
    <3>2. TehranToday >= day
      BY Facts DEF TehranToday
    <3> QED
      BY <2>4, <3>1, <3>2, Facts DEF Preserved, TehranToday
  <2> QED
    BY <2>2, <2>3, <2>4 DEF StartFill
<1>3. ClockInv' /\ QuoteInv' /\ AloneInv'
  <2>1. b \notin Refreshers
    BY FillerAssumption
  <2> QED
    BY <1>0, <2>1, RefreshesKept
<1>4. \A d \in Days : NoGot[d] = 0
  BY DEF NoGot
<1>5. FillInv'
  BY <1>0, <1>1, <1>4, Facts DEF FillInv
<1>6. BatchInv'
  <2> SUFFICES ASSUME CandlesArrive, NEW c \in Fillers
               PROVE  /\ bpc'[c] # "idle" => \A d \in Days :
                            got'[c][d] = IF d \in FillDays(c)' THEN batch'[c] ELSE 0
                      /\ bpc'[c] = "write" => batch'[c] = NBatches
    BY DEF BatchInv
  <2>1. CASE c = b
    BY <1>0, <1>1, <1>4, <2>1
  <2>2. CASE c # b
    <3>1. \A d \in Days : d \in FillDays(c)' <=> d \in FillDays(c)
      BY <1>0, <1>1, <2>2 DEF FillDays
    <3> QED
      BY <1>0, <1>1, <2>2, <3>1, Facts DEF BatchInv
  <2> QED
    BY <2>1, <2>2
<1>7. StoredInv'
  BY <1>0, <1>1, <1>2, Facts DEF StoredInv
<1>8. GapInv'
  BY <1>0, <1>1, Facts DEF GapInv, FillDays
<1>9. KeepInv'
  BY <1>0, <1>1, <1>2, Facts DEF KeepInv
<1> QED
  BY <1>0, <1>3, <1>5, <1>6, <1>7, <1>8, <1>9, TablesKept DEF IInv

\* A batch adds one to every day of the fill; the last one says what to write.
LEMMA BatchKeeps ==
    ASSUME IInv, TypeOK', NEW b \in Fillers, Batch(b)
    PROVE  IInv'
<1>0. /\ day' = day /\ phase' = phase /\ sessions' = sessions /\ api' = api
      /\ rows' = rows /\ snaps' = snaps /\ rpc' = rpc /\ quote' = quote
      /\ keep' = keep /\ bday' = bday /\ spans' = spans
      /\ bpc[b] = "batch" /\ batch' = [batch EXCEPT ![b] = @ + 1]
  BY DEF Batch, clock, refresh
<1>1. /\ bpc \in [Fillers -> {"idle", "batch", "write"}] /\ batch \in [Fillers -> 0 .. NBatches]
      /\ got \in [Fillers -> [Days -> 0 .. NBatches]] /\ left \in [Fillers -> SUBSET Days]
      /\ NBatches \in Nat /\ \A c \in Fillers : bday[c] \in Nat
  BY BatchAssumption, DaysAreNumbers DEF IInv, TypeOK
<1>2. /\ batch'[b] = batch[b] + 1 /\ batch[b] \in Nat
      /\ \A c \in Fillers : c # b => /\ batch'[c] = batch[c] /\ got'[c] = got[c]
                                     /\ left'[c] = left[c] /\ bpc'[c] = bpc[c]
  BY <1>0, <1>1 DEF Batch
<1>3. /\ \/ \A d \in Days : got'[b][d] = IF d \in FillDays(b) THEN got[b][d] + 1 ELSE got[b][d]
         \/ got'[b] = got[b] /\ ~ CandlesArrive
      /\ \A d \in Days : got[b][d] \in Nat
  BY <1>1 DEF Batch, Fault, CandlesArrive
<1>4. \/ bpc'[b] = "batch" /\ left'[b] = left[b]
      \/ bpc'[b] = "write" /\ left'[b] = ToWrite(b, got'[b]) /\ batch'[b] = NBatches
  BY <1>0, <1>1 DEF Batch
<1>5. ClockInv' /\ QuoteInv' /\ AloneInv'
  BY <1>0, RefreshesKept
<1>6. FillInv'
  <2>1. ASSUME NEW d \in Days
        PROVE  got'[b][d] <= batch'[b] /\ (got'[b][d] > 0 => d < bday[b]) /\ got'[b][d] >= got[b][d]
    <3>1. got[b][d] <= batch[b] /\ (got[b][d] > 0 => d < bday[b])
      BY Facts DEF FillInv
    <3> QED
      BY <1>2, <1>3, <3>1 DEF FillDays
  <2>2. ASSUME NEW d \in left'[b]
        PROVE  d < bday[b] /\ got'[b][d] > 0 /\ d \notin keep[b]
    <3>1. CASE left'[b] = left[b]
      <4>1. d < bday[b] /\ got[b][d] > 0 /\ d \notin keep[b] /\ d \in Days
        BY <1>1, <2>2, <3>1, Facts DEF FillInv
      <4>2. got'[b][d] >= got[b][d] /\ got[b][d] \in Nat
        BY <1>3, <2>1, <4>1
      <4>3. got'[b][d] \in Nat
        BY <1>3, <4>1, <4>2
      <4> QED
        BY <4>1, <4>2, <4>3
    <3>2. CASE left'[b] = ToWrite(b, got'[b])
      BY <2>1, <2>2, <3>2 DEF ToWrite
    <3> QED
      BY <1>4, <3>1, <3>2
  <2> QED
    BY <1>0, <1>2, <1>4, <2>1, <2>2, Facts DEF FillInv
<1>7. \A c \in Fillers : FillDays(c)' = FillDays(c)
  BY <1>0 DEF FillDays
<1>8. BatchInv'
  <2> SUFFICES ASSUME CandlesArrive, NEW c \in Fillers
               PROVE  /\ bpc'[c] # "idle" => \A d \in Days :
                            got'[c][d] = IF d \in FillDays(c) THEN batch'[c] ELSE 0
                      /\ bpc'[c] = "write" => batch'[c] = NBatches
    BY <1>7 DEF BatchInv
  <2>1. CASE c = b
    <3>1. \A d \in Days : got[b][d] = IF d \in FillDays(b) THEN batch[b] ELSE 0
      BY <1>0, Facts DEF BatchInv
    <3> QED
      BY <1>2, <1>3, <1>4, <2>1, <3>1
  <2>2. CASE c # b
    BY <1>2, <2>2, Facts DEF BatchInv
  <2> QED
    BY <2>1, <2>2
<1>9. StoredInv'
  BY <1>0, <1>2, <1>4, Facts DEF StoredInv
<1>10. GapInv'
  <2> SUFFICES ASSUME RowsStored, CandlesArrive, NEW c \in Fillers, bpc'[c] = "write",
                      NEW d \in Days, d \in FillDays(c)
               PROVE  d \in left'[c] \/ rows[d] # None
    BY <1>0, <1>7 DEF GapInv
  <2>1. CASE c = b
    <3>1. got'[b][d] = NBatches /\ NBatches > 0
      BY <1>4, <1>7, <1>8, <2>1, BatchAssumption DEF BatchInv
    <3>2. d < bday[b]
      BY <2>1 DEF FillDays
    <3>3. d \in keep[b] => rows[d] # None
      BY <1>0, <3>2, Facts DEF StoredInv
    <3> QED
      BY <1>4, <2>1, <3>1, <3>3 DEF ToWrite
  <2>2. CASE c # b
    BY <1>2, <2>2, Facts DEF GapInv
  <2> QED
    BY <2>1, <2>2
<1>11. KeepInv'
  BY <1>0, <1>2, Facts DEF KeepInv
<1> QED
  BY <1>0, <1>5, <1>6, <1>8, <1>9, <1>10, <1>11, TablesKept DEF IInv

\* The end of fills, by whatever cause.
LEMMA OverKeeps ==
    ASSUME IInv, NEW B, FillOver(B)
    PROVE  \A b \in Fillers :
              /\ bday'[b] = bday[b]
              /\ \/ bpc'[b] = "idle" /\ batch'[b] = 0 /\ got'[b] = NoGot /\ left'[b] = {}
                 \/ /\ bpc'[b] = bpc[b] /\ keep'[b] = keep[b] /\ batch'[b] = batch[b]
                    /\ got'[b] = got[b] /\ left'[b] = left[b]
BY DEF FillOver

LEMMA FillsEnd ==
    ASSUME IInv, NEW B, FillOver(B), UNCHANGED <<day, sessions, rows, snaps>>,
           \A r \in Refreshers : rpc'[r] = "snapshot" => rpc[r] = "snapshot"
    PROVE  FillInv' /\ BatchInv' /\ StoredInv' /\ GapInv' /\ KeepInv'
<1>1. \A c \in Fillers : FillDays(c)' = FillDays(c)
  BY DEF FillDays, FillOver
<1>2. \A d \in Days : NoGot[d] = 0
  BY DEF NoGot
<1>3. FillInv'
  BY <1>2, OverKeeps, Facts DEF FillInv
<1>4. BatchInv'
  BY <1>1, OverKeeps, Facts DEF BatchInv
<1>5. StoredInv'
  BY OverKeeps, Facts DEF StoredInv
<1>6. GapInv'
  BY <1>1, OverKeeps, Facts DEF GapInv
<1>7. KeepInv'
  BY OverKeeps, Facts DEF KeepInv
<1> QED
  BY <1>3, <1>4, <1>5, <1>6, <1>7

LEMMA EndKeeps ==
    ASSUME IInv, TypeOK', NEW b \in Fillers, CancelFill(b) \/ EndFill(b)
    PROVE  IInv'
<1>0. /\ day' = day /\ phase' = phase /\ sessions' = sessions /\ api' = api
      /\ rows' = rows /\ snaps' = snaps /\ rpc' = rpc /\ quote' = quote /\ spans' = spans
      /\ FillOver({b})
  BY DEF CancelFill, EndFill, clock, refresh
<1> QED
  BY <1>0, FillsEnd, RefreshesKept, TablesKept DEF IInv

\* The server dies: no refresh is left, and no fill of its own.
LEMMA CrashKeeps ==
    ASSUME IInv, TypeOK', Crash
    PROVE  IInv'
<1>0. /\ day' = day /\ phase' = phase /\ sessions' = sessions /\ api' = api
      /\ rows' = rows /\ snaps' = snaps /\ spans' = spans
      /\ \A r \in Refreshers : rpc'[r] = "idle"
      /\ FillOver(Fillers \cap {"scheduler"})
  BY DEF Crash, clock
<1>1. ClockInv' /\ QuoteInv' /\ AloneInv'
  BY <1>0, Facts DEF ClockInv, QuoteInv, AloneInv
<1> QED
  BY <1>0, <1>1, FillsEnd, TablesKept DEF IInv

\* UpsertDay: a past day, of which every batch has counts.
LEMMA WriteKeeps ==
    ASSUME IInv, TypeOK', NEW b \in Fillers, NEW d \in Days, WriteDay(b, d)
    PROVE  IInv'
<1>0. /\ day' = day /\ phase' = phase /\ sessions' = sessions /\ api' = api
      /\ snaps' = snaps /\ rpc' = rpc /\ quote' = quote /\ spans' = spans
      /\ bpc' = bpc /\ bday' = bday /\ keep' = keep /\ batch' = batch /\ got' = got
      /\ bpc[b] = "write" /\ d \in left[b] /\ left' = [left EXCEPT ![b] = @ \ {d}]
      /\ rows' = [rows EXCEPT ![d] = Candles(d, got[b][d])] \/ (rows' = rows /\ ~ RowsStored)
  BY DEF WriteDay, clock, refresh, Fault, RowsStored
<1>1. /\ got \in [Fillers -> [Days -> 0 .. NBatches]] /\ left \in [Fillers -> SUBSET Days]
      /\ \A c \in Fillers : bday[c] \in Nat /\ bday[c] <= day
  BY DaysAreNumbers, Facts DEF IInv, TypeOK, FillInv
<1>2. d < bday[b] /\ d < day /\ got[b][d] \in 1 .. NBatches /\ d \notin keep[b]
  BY <1>0, <1>1, Facts DEF FillInv
<1>3. /\ Candles(d, got[b][d]) # None /\ Candles(d, got[b][d]).src = "candle"
      /\ Candles(d, got[b][d]).day = d /\ Candles(d, got[b][d]).v = got[b][d]
  BY <1>2, Sources
<1>4. /\ \A c \in Days : c # d => rows'[c] = rows[c]
      /\ rows'[d] = Candles(d, got[b][d]) \/ (rows'[d] = rows[d] /\ ~ RowsStored)
      /\ rows'[day] = rows[day]
  BY <1>0, <1>2, Facts
<1>5. /\ \A c \in Fillers : c # b => left'[c] = left[c]
      /\ left'[b] = left[b] \ {d}
  BY <1>0, <1>1
<1>6. ClockInv'
  BY <1>0, <1>2, <1>4, Facts DEF ClockInv
<1>7. QuoteInv'
  BY <1>0, Facts DEF QuoteInv
<1>8. FillInv'
  BY <1>0, <1>5, Facts DEF FillInv
<1>9. \A c \in Fillers : FillDays(c)' = FillDays(c)
  BY <1>0 DEF FillDays
<1>10. BatchInv'
  BY <1>0, <1>9, Facts DEF BatchInv
<1>11. \A c \in Days : rows[c] # None => rows'[c] # None
  BY <1>3, <1>4
<1>12. StoredInv' /\ AloneInv'
  BY <1>0, <1>4, <1>11, Facts DEF StoredInv, AloneInv
<1>13. GapInv'
  BY <1>0, <1>3, <1>4, <1>5, <1>9, <1>11, Facts DEF GapInv
<1>14. KeepInv'
  BY <1>0, Facts DEF KeepInv
<1>15. RowOfItsOwnSession' /\ TodayIsLive'
  BY <1>0, <1>3, <1>4, Facts DEF RowOfItsOwnSession, TodayIsLive
<1>16. (CandlesArrive => CandleRowsAreWhole)'
  <2>1. CandlesArrive => got[b][d] = NBatches
    BY <1>0, <1>2, Facts DEF BatchInv
  <2> QED
    BY <1>3, <1>4, <2>1, Facts DEF CandleRowsAreWhole
<1>17. (RowsStored /\ OneByOne => SnapshotMatchesRow)'
  BY <1>0, <1>3, <1>4, Facts DEF SnapshotMatchesRow
<1> QED
  BY <1>6, <1>7, <1>8, <1>10, <1>12, <1>13, <1>14, <1>15, <1>16, <1>17 DEF IInv

LEMMA NextIInv == IInv /\ [Next]_vars => IInv'
<1> SUFFICES ASSUME IInv, [Next]_vars PROVE IInv'
  OBVIOUS
<1>1. TypeOK'
  BY NextType DEF IInv
<1>2. CASE UNCHANGED vars
  <2>1. /\ UNCHANGED <<day, phase, sessions, api, rows, snaps, rpc, quote, spans>>
        /\ UNCHANGED <<bpc, bday, keep, batch, got, left>>
    BY <1>2 DEF vars, clock, refresh, fill
  <2>2. FillInv' /\ BatchInv' /\ GapInv' /\ KeepInv'
    BY <2>1, Facts, FillsKept
  <2>3. StoredInv'
    BY <2>1, Facts DEF StoredInv
  <2> QED
    BY <1>1, <2>1, <2>2, <2>3, RefreshesKept, TablesKept DEF IInv
<1> QED
  BY <1>1, <1>2, OpenKeeps, PhaseKeeps, DriftKeeps, CrashKeeps, FetchKeeps, LoadKeeps, RecordKeeps,
     SnapshotKeeps, StartKeeps, BatchKeeps, EndKeeps, WriteKeeps DEF Next

LEMMA Invariant == Spec => []IInv
BY InitIInv, NextIInv, PTL DEF Spec
-----------------------------------------------------------------------------
\* The clock, the tables, the refreshes and the backfills keep their types.
THEOREM TypeCorrect == Spec => []TypeOK
<1>1. IInv => TypeOK
  BY DEF IInv
<1> QED
  BY <1>1, Invariant, PTL

\* Whatever fails and whatever overlaps, what is stored under the date of a
\* session are counts of that session, not those of the session before.
THEOREM RowsAreOfTheirSession == Spec => []RowOfItsOwnSession
<1>1. IInv => RowOfItsOwnSession
  BY DEF IInv
<1> QED
  BY <1>1, Invariant, PTL

\* No backfill, not even one that midnight overtakes, writes today's row.
THEOREM TodayIsSkipped == Spec => []TodayIsLive
<1>1. IInv => TodayIsLive
  BY DEF IInv
<1> QED
  BY <1>1, Invariant, PTL

\* As long as candles can be fetched, a row from candles counts every batch,
\* whichever backfills overlap, are cancelled or die.
THEOREM CandleRowsCountEveryBatch == CandlesArrive => (Spec => []CandleRowsAreWhole)
<1> SUFFICES ASSUME CandlesArrive PROVE Spec => []CandleRowsAreWhole
  OBVIOUS
<1>1. IInv => CandleRowsAreWhole
  BY DEF IInv
<1> QED
  BY <1>1, Invariant, PTL

\* With one refresh at a time and a database that reads and writes rows, the
\* snapshot of a day and its row are of one answer, whatever the backfills do.
THEOREM SnapshotIsOfItsRow == RowsStored /\ OneByOne => (Spec => []SnapshotMatchesRow)
<1> SUFFICES ASSUME RowsStored, OneByOne PROVE Spec => []SnapshotMatchesRow
  OBVIOUS
<1>1. IInv => SnapshotMatchesRow
  BY DEF IInv
<1> QED
  BY <1>1, Invariant, PTL

\* A live row with its snapshot is frozen, if besides the backfill reads which
\* days have one and nobody runs cmd/rebackfill.
THEOREM LiveRowsAreFrozen == RowsStored /\ OneByOne /\ Preserved => (Spec => FrozenRow)
<1> SUFFICES ASSUME RowsStored, OneByOne, Preserved PROVE Spec => FrozenRow
  OBVIOUS
<1>1. ASSUME IInv, [Next]_vars, NEW d \in Days, rows[d].src = "live", snaps[d] # None
      PROVE  rows'[d] = rows[d]
  <2>1. rows[d] # None
    BY <1>1, Sources
  <2>2. ASSUME NEW r \in Refreshers, Record(r) PROVE rows'[d] = rows[d]
    <3>1. rows[day] = None
      BY <1>1, <2>2, Facts DEF Record, AloneInv
    <3> QED
      BY <1>1, <2>1, <2>2, <3>1, Facts DEF Record
  <2>3. ASSUME NEW b \in Fillers, NEW e \in Days, WriteDay(b, e) PROVE rows'[d] = rows[d]
    <3>1. bpc[b] = "write" /\ e \in left[b]
      BY <2>3 DEF WriteDay
    <3>2. e < bday[b] /\ e \notin keep[b]
      BY <1>1, <3>1, Facts DEF FillInv
    <3>3. d # e
      BY <1>1, <3>1, <3>2, Facts DEF KeepInv
    <3> QED
      BY <1>1, <2>3, <3>3, Facts DEF WriteDay
  <2>4. CASE UNCHANGED vars
    BY <2>4 DEF vars
  <2> QED
    BY <1>1, <2>2, <2>3, <2>4 DEF Next, OpenSession, NextPhase, Drift, Crash, Fetch, Load,
       SaveSnapshot, StartFill, Batch, CancelFill, EndFill
<1>2. IInv /\ [Next]_vars => [\A d \in Days :
          rows[d].src = "live" /\ snaps[d] # None => rows'[d] = rows[d]]_vars
  BY <1>1
<1> QED
  BY <1>2, Invariant, PTL DEF Spec, FrozenRow

\* A backfill that runs to its end leaves no past session without a row, as
\* long as candles can be fetched and rows written.
THEOREM FillsLeaveNoGap == RowsStored /\ CandlesArrive => (Spec => FillLeavesNoGap)
<1> SUFFICES ASSUME RowsStored, CandlesArrive PROVE Spec => FillLeavesNoGap
  OBVIOUS
<1>1. IInv => \A b \in Fillers : bpc[b] = "write" /\ left[b] = {}
                  => \A d \in sessions : d < bday[b] => rows[d] # None
  <2> SUFFICES ASSUME IInv, NEW b \in Fillers, bpc[b] = "write", left[b] = {},
                      NEW d \in sessions, d < bday[b]
               PROVE  rows[d] # None
    OBVIOUS
  <2>1. d \in Days /\ d \in FillDays(b)
    BY Facts DEF FillDays
  <2> QED
    BY <2>1, Facts DEF GapInv
<1>2. IInv /\ [Next]_vars => [\A b \in Fillers :
          bpc[b] = "write" /\ bpc'[b] = "idle" /\ left[b] = {}
              => \A d \in sessions : d < bday[b] => rows[d] # None]_vars
  BY <1>1
<1> QED
  BY <1>2, Invariant, PTL DEF Spec, FillLeavesNoGap

-----------------------------------------------------------------------------
\* Every write of a refresh or of a backfill is a step of the table of days.
LEMMA TableStep ==
    RowsStored /\ OneByOne /\ Preserved /\ CandlesArrive
        => (IInv /\ IInv' /\ [Next]_vars => [Table!Next]_(Table!vars))
<1> SUFFICES ASSUME RowsStored, OneByOne, Preserved, CandlesArrive, IInv, IInv', [Next]_vars
             PROVE  [Table!Next]_(Table!vars)
  OBVIOUS
<1>1. ASSUME NEW r \in Refreshers, Record(r) PROVE Table!Record
  <2>1. rpc[r] = "record" /\ day \in Days /\ UNCHANGED <<day, snaps>>
    BY <1>1, Facts DEF Record, clock, TypeOK
  <2>2. rows[day] = None
    BY <2>1, Facts DEF AloneInv
  <2>3. quote[r] \in LiveCounts
    <3>1. quote[r].src = "live" /\ quote[r] \in Quotes \cup {NoAnswer}
      BY <2>1, Facts DEF QuoteInv, TypeOK
    <3>2. NoAnswer.src # "live" /\ NoTrades.src # "live"
      BY DEF NoAnswer, NoTrades
    <3> QED
      BY <3>1, <3>2 DEF Quotes
  <2>4. rows' = [rows EXCEPT ![day] = quote[r]]
    BY <1>1 DEF Record, Fault, RowsStored
  <2> QED
    BY <2>1, <2>2, <2>3, <2>4 DEF Table!Record
<1>2. ASSUME NEW r \in Refreshers, SaveSnapshot(r)
      PROVE  Table!Settle \/ UNCHANGED <<day, rows, snaps>>
  <2>1. rpc[r] = "snapshot" /\ UNCHANGED <<day, rows>>
    BY <1>2 DEF SaveSnapshot, clock
  <2>2. rows[day] = quote[r] /\ snaps[day] = None
    BY <2>1, Facts DEF AloneInv
  <2>3. quote[r] \in LiveCounts
    <3>1. quote[r].src = "live" /\ quote[r] \in Quotes \cup {NoAnswer}
      BY <2>1, Facts DEF QuoteInv, TypeOK
    <3>2. NoAnswer.src # "live" /\ NoTrades.src # "live"
      BY DEF NoAnswer, NoTrades
    <3> QED
      BY <3>1, <3>2 DEF Quotes
  <2>4. snaps' = [snaps EXCEPT ![day] = quote[r]] \/ snaps' = snaps
    BY <1>2 DEF SaveSnapshot
  <2> QED
    BY <2>1, <2>2, <2>3, <2>4 DEF Table!Settle
<1>3. ASSUME NEW b \in Fillers, NEW d \in Days, WriteDay(b, d) PROVE Table!Fill(d)
  <2>1. bpc[b] = "write" /\ d \in left[b] /\ UNCHANGED <<day, snaps>>
    BY <1>3 DEF WriteDay, clock
  <2>2. d < bday[b] /\ bday[b] <= day /\ d \notin keep[b] /\ got[b][d] > 0
    BY <2>1, Facts DEF FillInv
  <2>3. d < day
    <3>1. d \in Nat /\ day \in Nat /\ bday[b] \in Nat
      BY DaysAreNumbers DEF IInv
    <3> QED
      BY <2>2, <3>1
  <2>4. snaps[d] = None
    BY <2>1, <2>2, Facts DEF KeepInv
  <2>5. got[b][d] = NBatches
    BY <2>1, <2>2, Facts DEF BatchInv
  <2>6. rows' = [rows EXCEPT ![d] = Candles(d, NBatches)]
    BY <1>3, <2>5 DEF WriteDay, Fault, RowsStored
  <2> QED
    BY <2>1, <2>3, <2>4, <2>6 DEF Table!Fill
<1>4. CASE NextPhase
  <2>1. UNCHANGED <<rows, snaps>> /\ (day' = day \/ day' = day + 1) /\ day' \in Days
    <3>1. day' \in Days
      BY DEF IInv, TypeOK
    <3>2. UNCHANGED <<rows, snaps>> /\ (day' = day \/ day' = day + 1)
      BY <1>4 DEF NextPhase
    <3> QED
      BY <3>1, <3>2
  <2> QED
    BY <2>1 DEF Table!Next, Table!DayPasses, Table!vars
<1>5. CASE UNCHANGED <<day, rows, snaps>>
  BY <1>5 DEF Table!vars
<1>6. CASE OpenSession \/ Drift \/ Crash \/ UNCHANGED vars
  BY <1>5, <1>6 DEF OpenSession, Drift, Crash, vars, clock
<1>7. ASSUME NEW r \in Refreshers, Fetch(r) \/ Load(r) PROVE UNCHANGED <<day, rows, snaps>>
  BY <1>7 DEF Fetch, Load, clock
<1>8. ASSUME NEW b \in Fillers, StartFill(b) \/ Batch(b) \/ CancelFill(b) \/ EndFill(b)
      PROVE  UNCHANGED <<day, rows, snaps>>
  BY <1>8 DEF StartFill, Batch, CancelFill, EndFill, clock
<1> QED
  BY <1>1, <1>2, <1>3, <1>4, <1>5, <1>6, <1>7, <1>8 DEF Next, Table!Next

\* With one refresh at a time, a database that reads and writes rows, candles
\* that arrive and no use of cmd/rebackfill, refreshes and backfills implement
\* the table of days, whatever is fetched, cancelled, lost of the symbols or
\* interrupted by a crash, and for any number of days, batches and revisions.
THEOREM DaysImplementTable ==
    RowsStored /\ OneByOne /\ Preserved /\ CandlesArrive => (Spec => ImplementsDailyTable)
<1> SUFFICES ASSUME RowsStored, OneByOne, Preserved, CandlesArrive
             PROVE  Spec => ImplementsDailyTable
  OBVIOUS
<1>1. Init => Table!Init
  BY DEF Init, Table!Init
<1>2. IInv /\ IInv' /\ [Next]_vars => [Table!Next]_(Table!vars)
  BY TableStep
<1> QED
  BY <1>1, <1>2, Invariant, PTL DEF Spec, ImplementsDailyTable, Table!Spec
=============================================================================

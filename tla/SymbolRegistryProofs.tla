------------------------ MODULE SymbolRegistryProofs ------------------------
(***************************************************************************)
(* Proofs about SymbolRegistry, for any number of overlapping refreshes    *)
(* and names, any feeds and any calendar whose closures are as short as    *)
(* WeekendAssumption says: what is flagged is new, a streak is not shorter *)
(* than its run of trading days, and the list agrees with both.            *)
(***************************************************************************)
EXTENDS SymbolRegistry, FiniteSetTheorems, SequenceTheorems, TLAPS

Entry == [name : Names, score : 1 .. 3, streak : Nat]

\* The row of a name is the day it was first inserted: nothing replaces it.
RowInv == registry = first

\* The row of a streak holds the last day it was stored on.
StreakInv == \A n \in Names :
    /\ \A q \in queued[n] : q \in 1 .. day /\ q <= streak[n].last
    /\ streak[n].n > 0 => streak[n].last \in queued[n]
    /\ streak[n].n = 0 => queued[n] = {}

\* Between its transaction and its SELECT, what a refresh queued is on record.
ReadInv == \A r \in Refreshers : pc[r] = "read" =>
    \A n \in InQueue(feed[r]) : day \in queued[n]

\* What an entry of the list says stays so: its name was stored today, so
\* that no other refresh lengthens the run before the day is over.
Explained(e) == /\ e.score = 3 => first[e.name] = day
                /\ e.streak # 0 => day \in queued[e.name] /\ Covers(e.streak, e.name)
                /\ e.streak = 0 => faults > 0

ListInv == \A r \in Refreshers :
    /\ \A e \in Entry : (\E i \in DOMAIN list[r] : list[r][i] = e) => Explained(e)
    /\ \A i, j \in DOMAIN list[r] : i < j => list[r][i].score >= list[r][j].score

IInv == /\ TypeOK /\ RowInv /\ FlaggedIsNew /\ StreakInv /\ StreakNeverUndercounts
        /\ ReadInv /\ ListInv

-----------------------------------------------------------------------------
\* Runs: Since and Covers read only what is stored of their own name.
LEMMA SameRun ==
    ASSUME NEW n \in Names, NEW k \in Nat, queued'[n] = queued[n]
    PROVE  Covers(k, n)' <=> Covers(k, n)
BY DEF Covers, Since

\* A run is a finite set of days.
LEMMA RunIsFinite ==
    ASSUME NEW n \in Names, NEW d \in Days
    PROVE  IsFiniteSet(Since(n, d)) /\ Cardinality(Since(n, d)) \in Nat
<1>1. IsFiniteSet(Days)
  BY DayAssumption, FS_Interval DEF Days
<1>2. Since(n, d) \in SUBSET Days
  BY DayAssumption DEF Since, Days
<1> QED
  BY <1>1, <1>2, FS_Subset, FS_CardinalityType

\* The two branches of the CASE of UpsertQueueStreaks: a run that goes on is
\* one day longer at most, and a run that starts again has one day, because
\* after more than four days a trading day was missed.
LEMMA UpsertCovers ==
    ASSUME TypeOK, StreakInv, StreakNeverUndercounts, NEW n \in Names,
           queued'[n] = queued[n] \cup {day},
           NEW k \in Nat, k = NextStreak(streak[n]).n
    PROVE  Covers(k, n)'
<1> SUFFICES ASSUME NEW d \in Days, Since(n, d)' \subseteq queued'[n]
             PROVE  k >= Cardinality(Since(n, d)')
  BY DEF Covers
<1> DEFINE old == Since(n, d)
           new == Since(n, d)'
           last == streak[n].last
<1>0. /\ day \in Days /\ day \in Nat /\ last \in Nat /\ streak[n].n \in Nat /\ d \in Nat
      /\ TradingDays \subseteq Days /\ Days \subseteq Nat /\ MaxDay \in Nat
      /\ queued[n] \subseteq Days
  BY DayAssumption DEF TypeOK, Days
<1>1. /\ new = {e \in TradingDays : d <= e /\ e <= day}
      /\ new \subseteq queued[n] \cup {day}
  <2>1. \A q \in queued'[n] : q <= day
    BY <1>0 DEF StreakInv
  <2>2. day \in queued'[n]
    OBVIOUS
  <2> QED
    BY <1>0, <2>1, <2>2 DEF Since
<1>2. Cardinality({day}) = 1 /\ IsFiniteSet({day})
  BY FS_Singleton
<1>3. CASE new \subseteq {day}
  <2>1. Cardinality(new) <= 1
    BY <1>2, <1>3, FS_Subset
  <2>2. k >= 1
    BY <1>0 DEF NextStreak
  <2>3. Cardinality(new) \in Nat
    BY <1>2, <1>3, FS_Subset, FS_CardinalityType
  <2> QED
    BY <2>1, <2>2, <2>3
<1>4. CASE ~ (new \subseteq {day})
  <2>1. PICK e \in new : e # day
    BY <1>4
  <2>2. e \in queued[n] /\ e <= last /\ last \in queued[n] /\ streak[n].n > 0 /\ last <= day
    BY <1>0, <1>1, <2>1 DEF StreakInv
  <2>3. CASE day - last <= 4
    <3>1. k = streak[n].n + 1
      BY <1>0, <2>2, <2>3 DEF NextStreak, Continues
    <3>2. old \subseteq new
      BY <1>0, <1>1, <2>2 DEF Since, StreakInv
    <3>3. new \subseteq old \cup {day}
      <4> SUFFICES ASSUME NEW f \in new, f # day PROVE f \in old
        OBVIOUS
      <4>1. f \in TradingDays /\ d <= f
        BY <1>1
      <4>2. f \in queued[n] /\ f <= f
        BY <1>0, <1>1, <4>1
      <4> QED
        BY <4>1, <4>2 DEF Since
    <3>4. old \subseteq queued[n]
      <4> SUFFICES ASSUME NEW f \in old PROVE f \in queued[n]
        OBVIOUS
      <4>1. f \in queued[n] \cup {day}
        BY <1>1, <3>2
      <4>2. CASE f = day
        <5>1. PICK q \in queued[n] : f <= q
          BY DEF Since
        <5>2. q <= day /\ q \in Nat
          BY <1>0, <5>1 DEF StreakInv
        <5> QED
          BY <1>0, <4>2, <5>1, <5>2
      <4> QED
        BY <4>1, <4>2
    <3>5. streak[n].n >= Cardinality(old)
      BY <3>4 DEF StreakNeverUndercounts, Covers
    <3>6. IsFiniteSet(old) /\ Cardinality(old) \in Nat
      BY RunIsFinite
    <3>7. /\ IsFiniteSet(old \cup {day}) /\ Cardinality(old \cup {day}) <= Cardinality(old) + 1
          /\ Cardinality(old \cup {day}) \in Nat
      <4> HIDE DEF old
      <4>1. /\ IsFiniteSet(old \cup {day})
            /\ Cardinality(old \cup {day})
                  = IF day \in old THEN Cardinality(old) ELSE Cardinality(old) + 1
        BY <3>6, FS_AddElement
      <4> QED
        BY <3>6, <4>1
    <3>8. Cardinality(new) <= Cardinality(old \cup {day}) /\ Cardinality(new) \in Nat
      BY <3>3, <3>7, FS_Subset, FS_CardinalityType
    <3> QED
      BY <1>0, <3>1, <3>5, <3>6, <3>7, <3>8
  <2>4. CASE day - last > 4
    <3>1. last \in Days /\ last + 4 < MaxDay
      BY <1>0, <2>2, <2>4 DEF Days
    <3>2. PICK f \in TradingDays : last < f /\ f <= last + 4
      BY <3>1, WeekendAssumption
    <3>3. d <= f /\ f < day /\ f \in Nat
      <4>1. d \in Nat /\ e \in Nat /\ last \in Nat /\ day \in Nat /\ f \in Nat
        BY <1>0, <1>1, <2>1, <2>2
      <4>2. d <= e
        BY <1>1, <2>1
      <4> HIDE DEF last, old, new
      <4> QED
        BY <2>2, <2>4, <3>2, <4>1, <4>2
    <3>4. f \in queued[n]
      BY <1>0, <1>1, <3>3
    <3> QED
      BY <1>0, <3>2, <3>3, <3>4 DEF StreakInv
  <2> QED
    BY <1>0, <2>3, <2>4
<1> QED
  BY <1>3, <1>4
-----------------------------------------------------------------------------
\* Only quotes of the feed are queued, and they are finitely many.
LEMMA QueueOfFeed ==
    ASSUME TypeOK, NEW r \in Refreshers
    PROVE  /\ InQueue(feed[r]) \subseteq Names /\ IsFiniteSet(InQueue(feed[r]))
           /\ \A n \in InQueue(feed[r]) : feed[r][n] \in Quote
<1>1. CASE feed[r] = NoFeed
  <2>1. InQueue(feed[r]) = {}
    BY <1>1 DEF InQueue, NoFeed
  <2> QED
    BY <2>1, FS_EmptySet
<1>2. CASE feed[r] \in Feeds
  <2>1. /\ DOMAIN feed[r] \subseteq Names /\ IsFiniteSet(DOMAIN feed[r])
        /\ \A n \in DOMAIN feed[r] : feed[r][n] \in Quote
    BY <1>2, FeedAssumption
  <2>2. InQueue(feed[r]) \in SUBSET DOMAIN feed[r]
    BY DEF InQueue
  <2> QED
    BY <2>1, <2>2, FS_Subset
<1> QED
  BY <1>1, <1>2 DEF TypeOK

\* The rows ScanQueue sorts: one per queued name, finitely many.
Rows(f, new) ==
    {[name |-> n, score |-> Score(f[n], n \in new),
      volume |-> f[n].volume, change |-> f[n].change] : n \in InQueue(f)}

LEMMA RowsAreFinite ==
    ASSUME NEW f, NEW new, IsFiniteSet(InQueue(f))
    PROVE  IsFiniteSet(Rows(f, new)) /\ Cardinality(Rows(f, new)) \in Nat
<1> DEFINE S == InQueue(f)
           g == [n \in S |-> [name |-> n, score |-> Score(f[n], n \in new),
                              volume |-> f[n].volume, change |-> f[n].change]]
<1>1. Rows(f, new) = {g[n] : n \in S}
  BY DEF Rows
<1>2. g \in Surjection(S, Rows(f, new))
  <2>1. g \in [S -> Rows(f, new)]
    BY DEF Rows
  <2> QED
    BY <1>1, <2>1 DEF Surjection
<1> QED
  BY <1>2, FS_Surjection, FS_CardinalityType

\* What ShowList leaves on the page: an entry per queued name, in the order of
\* the scores; the best score needs a flag, and a streak is read from its row.
LEMMA ShowListSays ==
    ASSUME TypeOK, NEW r \in Refreshers, NEW known, ShowList(r, known)
    PROVE  /\ list' \in [Refreshers -> Seq(Entry)]
           /\ \A p \in Refreshers : p # r => list'[p] = list[p]
           /\ \A i \in DOMAIN list'[r] :
                 LET e == list'[r][i]
                 IN  /\ e \in Entry /\ e.name \in InQueue(feed[r])
                     /\ e.score = 3 => e.name \in flagged[r]
                     /\ e.streak = IF e.name \in known THEN streak[e.name].n ELSE 0
           /\ \A i, j \in DOMAIN list'[r] : i < j => list'[r][i].score >= list'[r][j].score
<1> DEFINE rows == Rows(feed[r], flagged[r])
           count == Cardinality(rows)
<1>1. PICK l \in ScanQueue(feed[r], flagged[r]) : list' = [list EXCEPT ![r] =
          [i \in DOMAIN l |-> [name |-> l[i].name, score |-> l[i].score,
                               streak |-> IF l[i].name \in known THEN streak[l[i].name].n ELSE 0]]]
  BY DEF ShowList
<1>2. /\ l \in [1 .. count -> rows] /\ count \in Nat
      /\ \A i, j \in 1 .. count : i < j => ~ Before(l[j], l[i])
  <2>1. l \in Sorted(rows)
    BY <1>1 DEF ScanQueue, Rows
  <2>2. count \in Nat
    BY QueueOfFeed, RowsAreFinite
  <2>3. l \in [1 .. count -> rows]
    BY <2>1 DEF Sorted
  <2>4. DOMAIN l = 1 .. count
    BY <2>3
  <2> QED
    BY <2>1, <2>2, <2>3, <2>4 DEF Sorted
<1>3. ASSUME NEW i \in 1 .. count
      PROVE  /\ l[i].name \in InQueue(feed[r]) /\ l[i].name \in Names /\ l[i].score \in 1 .. 3
             /\ l[i].score = 3 => l[i].name \in flagged[r]
  <2>1. l[i] \in rows
    BY <1>2
  <2>2. PICK n \in InQueue(feed[r]) : l[i] =
            [name |-> n, score |-> Score(feed[r][n], n \in flagged[r]),
             volume |-> feed[r][n].volume, change |-> feed[r][n].change]
    BY <2>1 DEF Rows
  <2> QED
    BY <2>2, QueueOfFeed DEF Score
<1> DEFINE shown == [i \in 1 .. count |-> [name |-> l[i].name, score |-> l[i].score,
                        streak |-> IF l[i].name \in known THEN streak[l[i].name].n ELSE 0]]
<1>4. list' = [list EXCEPT ![r] = shown]
  BY <1>1, <1>2
<1>5. shown \in Seq(Entry)
  <2>1. \A i \in 1 .. count : shown[i] \in Entry
    BY <1>3 DEF Entry, TypeOK
  <2>2. shown \in [1 .. count -> Entry]
    BY <2>1
  <2> QED
    BY <1>2, <2>2, SeqDef
<1>6. list'[r] = shown /\ DOMAIN shown = 1 .. count
  BY <1>4 DEF TypeOK
<1>7. list' \in [Refreshers -> Seq(Entry)] /\ \A p \in Refreshers : p # r => list'[p] = list[p]
  BY <1>4, <1>5 DEF TypeOK, Entry
<1>8. ASSUME NEW i \in 1 .. count
      PROVE  LET e == shown[i]
             IN  /\ e \in Entry /\ e.name \in InQueue(feed[r])
                 /\ e.score = 3 => e.name \in flagged[r]
                 /\ e.streak = IF e.name \in known THEN streak[e.name].n ELSE 0
  BY <1>3 DEF Entry, TypeOK
<1>9. ASSUME NEW i \in 1 .. count, NEW j \in 1 .. count, i < j
      PROVE  shown[i].score >= shown[j].score
  <2>1. ~ (l[j].score > l[i].score)
    BY <1>2, <1>9 DEF Before
  <2> QED
    BY <1>3, <2>1
<1> QED
  BY <1>6, <1>7, <1>8, <1>9
-----------------------------------------------------------------------------
LEMMA InitIInv == Init => IInv
<1> SUFFICES ASSUME Init PROVE IInv
  OBVIOUS
<1>1. /\ 1 \in Days /\ 0 \in 0 .. MaxDay /\ 0 \in 0 .. MaxCalls
      /\ <<>> \in Seq(Entry)
  BY DayAssumption, CallAssumption DEF Days
<1>2. TypeOK
  <2>1. streak \in [Names -> [n : Nat, last : 0 .. MaxDay]]
    BY <1>1 DEF Init, NoStreak
  <2>2. list \in [Refreshers -> Seq(Entry)]
    BY <1>1 DEF Init
  <2> QED
    BY <1>1, <2>1, <2>2 DEF Init, TypeOK, Entry
<1>3. \A n \in Names : streak[n].n = 0 /\ queued[n] = {} /\ \A d \in Days : Since(n, d) = {}
  BY DEF Init, NoStreak, Since
<1>4. Cardinality({}) = 0
  BY FS_EmptySet
<1>5. StreakNeverUndercounts
  BY <1>3, <1>4 DEF StreakNeverUndercounts, Covers
<1> QED
  BY <1>2, <1>3, <1>5 DEF Init, IInv, RowInv, FlaggedIsNew, StreakInv, ReadInv, ListInv

\* An entry stays explained while the day, the name's first day and its record
\* of queued days stay.
LEMMA StaysExplained ==
    ASSUME NEW e \in Entry, day' = day,
           e.score = 3 => first[e.name] = day /\ first'[e.name] = first[e.name],
           e.streak # 0 => /\ day \in queued[e.name] /\ Covers(e.streak, e.name)
                           /\ queued'[e.name] = queued[e.name],
           e.streak = 0 => faults' > 0
    PROVE  Explained(e)'
<1>1. e.name \in Names /\ e.streak \in Nat
  BY DEF Entry
<1>2. CASE e.streak = 0
  BY <1>2 DEF Explained
<1>3. CASE e.streak # 0
  <2>1. Covers(e.streak, e.name)'
    BY <1>1, <1>3, SameRun
  <2> QED
    BY <1>3, <2>1 DEF Explained
<1> QED
  BY <1>2, <1>3

\* A step that leaves the streaks, the days and the lists alone.
LEMMA StreaksKept ==
    ASSUME IInv, UNCHANGED <<day, streak, queued>>
    PROVE  StreakInv' /\ StreakNeverUndercounts'
<1>1. StreakInv'
  BY DEF IInv, StreakInv
<1>2. ASSUME NEW n \in Names, NEW k, k = streak[n].n PROVE Covers(k, n)'
  <2>1. k \in Nat
    BY <1>2 DEF IInv, TypeOK
  <2>2. Covers(k, n)
    BY <1>2 DEF IInv, StreakNeverUndercounts
  <2> QED
    BY <2>1, <2>2, SameRun
<1>3. StreakNeverUndercounts'
  BY <1>2 DEF StreakNeverUndercounts
<1> QED
  BY <1>1, <1>3

\* The lists that a step does not change stay explained.
LEMMA ListsKept ==
    ASSUME IInv, day' = day,
           \A n \in Names : first[n] = day => first'[n] = day,
           \A n \in Names : day \in queued[n] => queued'[n] = queued[n],
           faults' = faults \/ faults' = faults + 1,
           NEW r \in Refreshers, list'[r] = list[r] \/ list'[r] = <<>>
    PROVE  /\ \A e \in Entry : (\E i \in DOMAIN list'[r] : list'[r][i] = e) => Explained(e)'
           /\ \A i, j \in DOMAIN list'[r] : i < j => list'[r][i].score >= list'[r][j].score
<1>1. CASE list'[r] = <<>>
  BY <1>1
<1>2. CASE list'[r] = list[r]
  <2>1. ASSUME NEW e \in Entry, \E i \in DOMAIN list'[r] : list'[r][i] = e PROVE Explained(e)'
    <3>1. Explained(e)
      BY <1>2, <2>1 DEF IInv, ListInv
    <3>2. e.name \in Names
      BY DEF Entry
    <3>3. /\ e.streak # 0 => queued'[e.name] = queued[e.name]
          /\ e.score = 3 => first'[e.name] = first[e.name]
      BY <3>1, <3>2 DEF Explained
    <3>4. e.streak = 0 => faults' > 0
      BY <3>1 DEF Explained, IInv, TypeOK
    <3> QED
      BY <3>1, <3>3, <3>4, StaysExplained DEF Explained
  <2>2. \A i, j \in DOMAIN list'[r] : i < j => list'[r][i].score >= list'[r][j].score
    BY <1>2 DEF IInv, ListInv
  <2> QED
    BY <2>1, <2>2
<1> QED
  BY <1>1, <1>2

\* The list a refresh has just made: flags are of today, and the streaks it
\* shows are those of the table, for names it stored today itself.
LEMMA ShownIsExplained ==
    ASSUME IInv, NEW r \in Refreshers, NEW known, ShowList(r, known),
           UNCHANGED <<day, first, queued>>,
           \A n \in InQueue(feed[r]) : IF n \in known THEN day \in queued[n] ELSE faults' > 0
    PROVE  /\ \A e \in Entry : (\E i \in DOMAIN list'[r] : list'[r][i] = e) => Explained(e)'
           /\ \A i, j \in DOMAIN list'[r] : i < j => list'[r][i].score >= list'[r][j].score
<1>0. TypeOK
  BY DEF IInv
<1>1. ASSUME NEW e \in Entry, \E i \in DOMAIN list'[r] : list'[r][i] = e PROVE Explained(e)'
  <2>1. /\ e.name \in InQueue(feed[r])
        /\ e.score = 3 => e.name \in flagged[r]
        /\ e.streak = IF e.name \in known THEN streak[e.name].n ELSE 0
    BY <1>0, <1>1, ShowListSays
  <2>2. e.name \in Names /\ e.streak \in Nat
    BY DEF Entry
  <2>3. e.score = 3 => first[e.name] = day
    BY <2>1 DEF IInv, FlaggedIsNew
  <2>4. e.streak # 0 => day \in queued[e.name] /\ Covers(e.streak, e.name)
    BY <2>1, <2>2 DEF IInv, StreakNeverUndercounts
  <2>5. e.streak = 0 => faults' > 0
    BY <2>1, <2>2 DEF IInv, StreakInv
  <2> QED
    BY <2>3, <2>4, <2>5, StaysExplained
<1> QED
  BY <1>0, <1>1, ShowListSays
\* Refreshes between their transaction and their SELECT, when no new one gets there.
LEMMA ReadsKept ==
    ASSUME IInv, day' = day, \A n \in Names : queued[n] \subseteq queued'[n],
           \A p \in Refreshers : pc'[p] = "read" => pc[p] = "read" /\ feed'[p] = feed[p]
    PROVE  ReadInv'
<1> SUFFICES ASSUME NEW p \in Refreshers, pc'[p] = "read", NEW n \in InQueue(feed'[p])
             PROVE  day \in queued'[n]
  BY DEF ReadInv
<1>1. pc[p] = "read" /\ n \in InQueue(feed[p])
  OBVIOUS
<1>2. n \in Names
  BY <1>1, QueueOfFeed DEF IInv
<1> QED
  BY <1>1, <1>2 DEF IInv, ReadInv

\* The names of a feed.
LEMMA NamesOfFeed ==
    ASSUME TypeOK, NEW r \in Refreshers
    PROVE  DOMAIN feed[r] \subseteq Names
<1>1. DOMAIN NoFeed = {}
  BY DEF NoFeed
<1> QED
  BY <1>1, FeedAssumption DEF TypeOK

LEMMA FetchKeeps ==
    ASSUME IInv, NEW r \in Refreshers, Fetch(r)
    PROVE  IInv'
<1>0. /\ UNCHANGED <<day, registry, streak, empty, first, seeds, queued, faults>>
      /\ list' = [list EXCEPT ![r] = <<>>] /\ flagged' = [flagged EXCEPT ![r] = {}]
      /\ pc' = [pc EXCEPT ![r] = "count"]
      /\ \E f \in Feeds : feed' = [feed EXCEPT ![r] = f]
      /\ calls' = calls \/ (calls < MaxCalls /\ calls' = calls + 1)
  BY DEF Fetch, Goto, tables, history
<1>1. TypeOK'
  <2>1. calls' \in 0 .. MaxCalls
    BY <1>0, CallAssumption DEF IInv, TypeOK
  <2>2. list' \in [Refreshers -> Seq(Entry)]
    <3>1. list \in [Refreshers -> Seq(Entry)]
      BY DEF IInv, TypeOK, Entry
    <3>2. <<>> \in Seq(Entry)
      OBVIOUS
    <3> QED
      BY <1>0, <3>1, <3>2
  <2>3. /\ pc' \in [Refreshers -> {"idle", "count", "insert", "select", "streak", "read"}]
        /\ flagged' \in [Refreshers -> SUBSET Names]
        /\ feed' \in [Refreshers -> Feeds \cup {NoFeed}]
    BY <1>0 DEF IInv, TypeOK
  <2> QED
    BY <1>0, <2>1, <2>2, <2>3 DEF IInv, TypeOK, Entry
<1>2. /\ list'[r] = <<>> /\ flagged'[r] = {} /\ pc'[r] = "count"
      /\ \A p \in Refreshers : p # r => /\ list'[p] = list[p] /\ flagged'[p] = flagged[p]
                                       /\ pc'[p] = pc[p] /\ feed'[p] = feed[p]
  BY <1>0 DEF IInv, TypeOK
<1>3. RowInv' /\ FlaggedIsNew'
  BY <1>0, <1>2 DEF IInv, RowInv, FlaggedIsNew
<1>4. ReadInv'
  BY <1>0, <1>2, ReadsKept
<1>5. ListInv'
  <2>1. \A p \in Refreshers : list'[p] = list[p] \/ list'[p] = <<>>
    BY <1>2
  <2> QED
    BY <1>0, <2>1, ListsKept DEF ListInv
<1> QED
  BY <1>0, <1>1, <1>3, <1>4, <1>5, StreaksKept DEF IInv

\* The three statements of RegisterSymbols.
LEMMA RegisterKeeps ==
    ASSUME IInv, NEW r \in Refreshers, Count(r) \/ Insert(r) \/ Select(r)
    PROVE  IInv'
<1>0. /\ UNCHANGED <<day, calls, streak, queued, feed, list>>
      /\ \E step \in {"insert", "select", "streak"} : pc' = [pc EXCEPT ![r] = step]
      /\ faults' = faults \/ faults' = faults + 1
  BY DEF Count, Insert, Select, Goto, Fault, tables, history
<1>1. \/ UNCHANGED <<registry, first>>
      \/ /\ registry' = [n \in Names |-> IF n \in DOMAIN feed[r] /\ registry[n] = 0 THEN day ELSE registry[n]]
         /\ first' = [n \in Names |-> IF n \in DOMAIN feed[r] /\ first[n] = 0 THEN day ELSE first[n]]
  BY DEF Count, Insert, Select, tables, history, InsertNames
<1>2. /\ empty' = empty \/ \E b \in BOOLEAN : empty' = [empty EXCEPT ![r] = b]
      /\ seeds' = seeds \/ seeds' = DOMAIN feed[r]
  BY DEF Count, Insert, Select, tables, history
<1>3. flagged' = flagged \/ (flagged' = [flagged EXCEPT ![r] = NewNames(r)] /\ UNCHANGED <<registry, first>>)
  BY DEF Count, Insert, Select, tables, history
<1>4. TypeOK'
  <2>1. /\ registry' \in [Names -> 0 .. MaxDay] /\ first' \in [Names -> 0 .. MaxDay]
    <3>1. /\ registry \in [Names -> 0 .. MaxDay] /\ first \in [Names -> 0 .. MaxDay]
          /\ day \in 0 .. MaxDay
      BY DayAssumption DEF IInv, TypeOK, Days
    <3>2. CASE UNCHANGED <<registry, first>>
      BY <3>1, <3>2
    <3>3. CASE ~ UNCHANGED <<registry, first>>
      BY <1>1, <3>1, <3>3
    <3> QED
      BY <3>2, <3>3
  <2>2. NewNames(r) \subseteq Names /\ DOMAIN feed[r] \subseteq Names
    BY NamesOfFeed DEF IInv, NewNames
  <2>3. flagged' \in [Refreshers -> SUBSET Names] /\ seeds' \in SUBSET Names
    <3>1. flagged \in [Refreshers -> SUBSET Names] /\ seeds \in SUBSET Names
      BY DEF IInv, TypeOK
    <3>2. [flagged EXCEPT ![r] = NewNames(r)] \in [Refreshers -> SUBSET Names]
      BY <2>2, <3>1
    <3>3. flagged' \in [Refreshers -> SUBSET Names]
      BY <1>3, <3>1, <3>2
    <3>4. seeds' \in SUBSET Names
      BY <1>2, <2>2, <3>1
    <3> QED
      BY <3>3, <3>4
  <2>4. empty' \in [Refreshers -> BOOLEAN]
    <3>1. empty \in [Refreshers -> BOOLEAN]
      BY DEF IInv, TypeOK
    <3> QED
      BY <1>2, <3>1, Zenon
  <2>5. pc' \in [Refreshers -> {"idle", "count", "insert", "select", "streak", "read"}]
    BY <1>0 DEF IInv, TypeOK
  <2>6. faults' \in Nat
    BY <1>0 DEF IInv, TypeOK
  <2>7. TypeOK
    BY DEF IInv
  <2>8. /\ day' = day /\ calls' = calls /\ streak' = streak /\ queued' = queued
        /\ feed' = feed /\ list' = list
    BY <1>0
  <2> QED
    BY <2>1, <2>3, <2>4, <2>5, <2>6, <2>7, <2>8 DEF TypeOK
<1>5. RowInv'
  BY <1>1 DEF IInv, RowInv
<1>6. \A n \in Names : first[n] = day => first'[n] = day
  BY <1>1
<1>7. FlaggedIsNew'
  <2>1. \A n \in NewNames(r) : n \in Names /\ first[n] = day
    BY NamesOfFeed DEF IInv, NewNames, RowInv
  <2>2. \A p \in Refreshers : \A n \in flagged'[p] : n \in Names /\ first[n] = day
    BY <1>3, <2>1 DEF IInv, TypeOK, FlaggedIsNew
  <2> QED
    BY <1>0, <1>6, <2>2 DEF FlaggedIsNew
<1>8. ReadInv'
  <2>1. \A p \in Refreshers : pc'[p] = "read" => pc[p] = "read"
    BY <1>0 DEF IInv, TypeOK
  <2> QED
    BY <1>0, <2>1, ReadsKept
<1>9. ListInv'
  BY <1>0, <1>6, ListsKept DEF ListInv
<1> QED
  BY <1>0, <1>4, <1>5, <1>7, <1>8, <1>9, StreaksKept DEF IInv

\* The end of a refresh.
LEMMA OverKeeps ==
    ASSUME IInv, NEW r \in Refreshers, RefreshOver(r), NEW known,
           UNCHANGED <<day, calls, registry, streak, flagged, first, seeds, queued>>,
           faults' = faults \/ faults' = faults + 1,
           \/ UNCHANGED list
           \/ /\ ShowList(r, known)
              /\ \A n \in InQueue(feed[r]) : IF n \in known THEN day \in queued[n] ELSE faults' > 0
    PROVE  IInv'
<1>0. /\ pc' = [pc EXCEPT ![r] = "idle"] /\ feed' = [feed EXCEPT ![r] = NoFeed]
      /\ empty' = [empty EXCEPT ![r] = FALSE]
  BY DEF RefreshOver, Goto
<1>1. TypeOK'
  <2>1. list' \in [Refreshers -> Seq(Entry)]
    BY ShowListSays DEF IInv, TypeOK, Entry
  <2>2. empty' \in [Refreshers -> BOOLEAN]
    <3>1. empty \in [Refreshers -> BOOLEAN]
      BY DEF IInv, TypeOK
    <3> QED
      BY <1>0, <3>1, Zenon
  <2>3. /\ pc' \in [Refreshers -> {"idle", "count", "insert", "select", "streak", "read"}]
        /\ feed' \in [Refreshers -> Feeds \cup {NoFeed}]
    BY <1>0 DEF IInv, TypeOK
  <2>4. faults' \in Nat /\ TypeOK
    <3>1. TypeOK
      BY DEF IInv
    <3>2. faults \in Nat
      BY <3>1 DEF TypeOK
    <3> QED
      BY <3>1, <3>2
  <2>5. /\ day' = day /\ calls' = calls /\ registry' = registry /\ streak' = streak
        /\ flagged' = flagged /\ first' = first /\ seeds' = seeds /\ queued' = queued
    OBVIOUS
  <2> QED
    BY <2>1, <2>2, <2>3, <2>4, <2>5 DEF TypeOK, Entry
<1>2. RowInv' /\ FlaggedIsNew'
  BY DEF IInv, RowInv, FlaggedIsNew
<1>3. ReadInv'
  <2>1. \A p \in Refreshers : pc'[p] = "read" => pc[p] = "read" /\ feed'[p] = feed[p]
    BY <1>0 DEF IInv, TypeOK
  <2> QED
    BY <2>1, ReadsKept
<1>4. ListInv'
  <2>1. CASE UNCHANGED list
    BY <2>1, ListsKept DEF ListInv
  <2>2. CASE /\ ShowList(r, known)
             /\ \A n \in InQueue(feed[r]) : IF n \in known THEN day \in queued[n] ELSE faults' > 0
    <3>1. \A p \in Refreshers : p # r => list'[p] = list[p]
      BY <2>2, ShowListSays DEF IInv
    <3>2. ASSUME NEW p \in Refreshers
          PROVE  /\ \A e \in Entry : (\E i \in DOMAIN list'[p] : list'[p][i] = e) => Explained(e)'
                 /\ \A i, j \in DOMAIN list'[p] : i < j => list'[p][i].score >= list'[p][j].score
      <4>1. CASE p = r
        BY <2>2, <4>1, ShownIsExplained
      <4>2. CASE p # r
        BY <3>1, <4>2, ListsKept
      <4> QED
        BY <4>1, <4>2
    <3> QED
      BY <3>2 DEF ListInv
  <2> QED
    BY <2>1, <2>2
<1> QED
  BY <1>1, <1>2, <1>3, <1>4, StreaksKept DEF IInv

\* The transaction of UpsertQueueStreaks.
LEMMA StoreKeeps ==
    ASSUME IInv, NEW r \in Refreshers, NEW queue, queue = InQueue(feed[r]),
           streak' = NextStreaks(queue),
           queued' = [n \in Names |-> IF n \in queue THEN queued[n] \cup {day} ELSE queued[n]],
           Goto(r, "read"),
           UNCHANGED <<day, calls, registry, feed, empty, flagged, list, first, seeds, faults>>
    PROVE  IInv'
<1>0. /\ queue \subseteq Names /\ day \in Days /\ day \in Nat /\ day \in 0 .. MaxDay
      /\ \A n \in Names : /\ streak[n] \in [n : Nat, last : 0 .. MaxDay]
                          /\ queued[n] \subseteq Days
  <2>1. TypeOK
    BY DEF IInv
  <2>2. queue \subseteq Names
    BY <2>1, QueueOfFeed
  <2>3. day \in Days /\ day \in Nat /\ day \in 0 .. MaxDay
    BY <2>1, DayAssumption DEF TypeOK, Days
  <2>4. \A n \in Names : streak[n] \in [n : Nat, last : 0 .. MaxDay] /\ queued[n] \subseteq Days
    BY <2>1 DEF TypeOK
  <2> QED
    BY <2>2, <2>3, <2>4
<1>1. \A n \in Names : NextStreak(streak[n]) \in [n : Nat, last : 0 .. MaxDay]
  BY <1>0 DEF NextStreak
<1> streak' = [n \in Names |-> IF n \in queue THEN NextStreak(streak[n]) ELSE streak[n]]
  BY DEF NextStreaks
<1>2. TypeOK'
  <2>1. streak' \in [Names -> [n : Nat, last : 0 .. MaxDay]]
    BY <1>0, <1>1
  <2>2. queued' \in [Names -> SUBSET Days]
    BY <1>0
  <2>3. pc' \in [Refreshers -> {"idle", "count", "insert", "select", "streak", "read"}]
    BY DEF IInv, TypeOK, Goto
  <2> QED
    BY <2>1, <2>2, <2>3 DEF IInv, TypeOK
<1>3. RowInv' /\ FlaggedIsNew'
  BY DEF IInv, RowInv, FlaggedIsNew
<1>4. StreakInv'
  <2> SUFFICES ASSUME NEW n \in Names
               PROVE  /\ \A q \in queued'[n] : q \in 1 .. day /\ q <= streak'[n].last
                      /\ streak'[n].n > 0 => streak'[n].last \in queued'[n]
                      /\ streak'[n].n = 0 => queued'[n] = {}
    BY DEF StreakInv
  <2>1. CASE n \in queue
    <3>1. queued'[n] = queued[n] \cup {day} /\ streak'[n] = NextStreak(streak[n])
      BY <2>1
    <3>2. streak'[n].last = day /\ streak'[n].n > 0
      BY <1>0, <3>1 DEF NextStreak
    <3>3. \A q \in queued[n] : q \in 1 .. day
      BY DEF IInv, StreakInv
    <3> QED
      BY <1>0, <3>1, <3>2, <3>3 DEF Days
  <2>2. CASE n \notin queue
    BY <2>2 DEF IInv, StreakInv
  <2> QED
    BY <2>1, <2>2
<1>5. ASSUME NEW n \in Names, NEW k, k = streak'[n].n PROVE Covers(k, n)'
  <2>1. CASE n \in queue
    <3>1. queued'[n] = queued[n] \cup {day} /\ k = NextStreak(streak[n]).n /\ k \in Nat
      BY <1>1, <1>5, <2>1
    <3> QED
      BY <3>1, UpsertCovers DEF IInv
  <2>2. CASE n \notin queue
    <3>1. queued'[n] = queued[n] /\ k = streak[n].n /\ k \in Nat
      BY <1>0, <1>5, <2>2
    <3>2. Covers(k, n)
      BY <3>1 DEF IInv, StreakNeverUndercounts
    <3> QED
      BY <3>1, <3>2, SameRun
  <2> QED
    BY <2>1, <2>2
<1>6. StreakNeverUndercounts'
  BY <1>5 DEF StreakNeverUndercounts
<1>7. ReadInv'
  <2> SUFFICES ASSUME NEW p \in Refreshers, pc'[p] = "read", NEW n \in InQueue(feed[p])
               PROVE  day \in queued'[n]
    BY DEF ReadInv
  <2>1. n \in Names
    BY QueueOfFeed DEF IInv
  <2>2. CASE p = r
    BY <2>1, <2>2
  <2>3. CASE p # r
    <3>1. pc[p] = "read"
      BY <2>3 DEF Goto, IInv, TypeOK
    <3>2. day \in queued[n]
      BY <3>1 DEF IInv, ReadInv
    <3> QED
      BY <2>1, <3>2
  <2> QED
    BY <2>2, <2>3
<1>8. ListInv'
  <2>1. \A n \in Names : day \in queued[n] => queued'[n] = queued[n]
    BY <1>0
  <2> QED
    BY <2>1, ListsKept DEF ListInv
<1> QED
  BY <1>2, <1>3, <1>4, <1>6, <1>7, <1>8 DEF IInv

LEMMA NextIInv == IInv /\ [Next]_vars => IInv'
<1> SUFFICES ASSUME IInv, [Next]_vars PROVE IInv'
  OBVIOUS
<1>1. ASSUME NEW r \in Refreshers, Fetch(r) PROVE IInv'
  BY <1>1, FetchKeeps
<1>2. ASSUME NEW r \in Refreshers, Count(r) \/ Insert(r) \/ Select(r) PROVE IInv'
  BY <1>2, RegisterKeeps
<1>3. ASSUME NEW r \in Refreshers, Upsert(r) PROVE IInv'
  <2> DEFINE queue == InQueue(feed[r])
  <2>0. UNCHANGED <<day, calls, registry, flagged, first, seeds>>
    BY <1>3 DEF Upsert
  <2>1. CASE UNCHANGED list /\ RefreshOver(r) /\ UNCHANGED <<streak, queued, faults>>
    BY <2>0, <2>1, OverKeeps
  <2>2. CASE ShowList(r, {}) /\ RefreshOver(r) /\ UNCHANGED <<streak, queued>> /\ Fault
    <3>1. faults' = faults + 1 /\ faults' > 0
      BY <2>2 DEF Fault, IInv, TypeOK
    <3> QED
      BY <2>0, <2>2, <3>1, OverKeeps
  <2>3. CASE /\ streak' = NextStreaks(queue)
             /\ queued' = [n \in Names |-> IF n \in queue THEN queued[n] \cup {day} ELSE queued[n]]
             /\ Goto(r, "read") /\ UNCHANGED <<feed, empty, list, faults>>
    BY <2>0, <2>3, StoreKeeps
  <2> QED
    BY <1>3, <2>1, <2>2, <2>3 DEF Upsert
<1>4. ASSUME NEW r \in Refreshers, ReadStreaks(r) PROVE IInv'
  <2>1. \A n \in InQueue(feed[r]) : day \in queued[n]
    BY <1>4 DEF ReadStreaks, IInv, ReadInv
  <2>2. PICK known \in SUBSET Names :
            ShowList(r, known) /\ (Fault \/ (known = Names /\ UNCHANGED faults))
    BY <1>4 DEF ReadStreaks
  <2>3. (faults' = faults \/ faults' = faults + 1) /\ (known = Names \/ faults' > 0)
    BY <2>2 DEF Fault, IInv, TypeOK
  <2>4. \A n \in InQueue(feed[r]) : IF n \in known THEN day \in queued[n] ELSE faults' > 0
    BY <2>1, <2>3, QueueOfFeed DEF IInv
  <2> QED
    BY <1>4, <2>2, <2>3, <2>4, OverKeeps DEF ReadStreaks, tables, history
<1>5. CASE NextDay
  <2>0. /\ UNCHANGED <<registry, streak, pc, feed, empty, first, seeds, queued, faults>>
        /\ day' = day + 1 /\ calls' = calls /\ day < MaxDay
        /\ \A r \in Refreshers : pc[r] = "idle" /\ flagged'[r] = {} /\ list'[r] = <<>>
        /\ flagged' = [r \in Refreshers |-> {}] /\ list' = [r \in Refreshers |-> <<>>]
    BY <1>5 DEF NextDay, tables, history
  <2>1. TypeOK'
    <3>1. day' \in Days /\ calls' \in 0 .. MaxCalls
      BY <2>0, DayAssumption, CallAssumption DEF IInv, TypeOK, Days
    <3>2. list' \in [Refreshers -> Seq(Entry)] /\ flagged' \in [Refreshers -> SUBSET Names]
      BY <2>0
    <3> QED
      BY <2>0, <3>1, <3>2 DEF IInv, TypeOK, Entry
  <2>2. StreakInv'
    BY <2>0 DEF IInv, StreakInv, TypeOK, Days
  <2>3. StreakNeverUndercounts'
    <3>1. ASSUME NEW n \in Names, NEW k, k = streak[n].n PROVE Covers(k, n)'
      BY <2>0, <3>1, SameRun DEF IInv, TypeOK, StreakNeverUndercounts
    <3> QED
      BY <2>0, <3>1 DEF StreakNeverUndercounts
  <2>4. RowInv' /\ FlaggedIsNew' /\ ReadInv'
    BY <2>0 DEF IInv, RowInv, FlaggedIsNew, ReadInv
  <2>5. ListInv'
    BY <2>0 DEF ListInv
  <2> QED
    BY <2>1, <2>2, <2>3, <2>4, <2>5 DEF IInv
<1>6. CASE UNCHANGED vars
  <2>0. UNCHANGED <<day, calls, registry, streak, pc, feed, empty, flagged, list, first, seeds, queued, faults>>
    BY <1>6 DEF vars, tables, locals, history
  <2>1. TypeOK' /\ RowInv' /\ FlaggedIsNew' /\ ReadInv'
    BY <2>0 DEF IInv, TypeOK, RowInv, FlaggedIsNew, ReadInv
  <2>2. ListInv'
    BY <2>0, ListsKept DEF ListInv
  <2> QED
    BY <2>0, <2>1, <2>2, StreaksKept DEF IInv
<1> QED
  BY <1>1, <1>2, <1>3, <1>4, <1>5, <1>6 DEF Next

LEMMA Invariant == Spec => []IInv
BY InitIInv, NextIInv, PTL DEF Spec

-----------------------------------------------------------------------------
\* The tables, the refreshes and the list keep their types.
THEOREM TypeCorrect == Spec => []TypeOK
<1>1. IInv => TypeOK
  BY DEF IInv
<1> QED
  BY <1>1, Invariant, PTL

\* Whatever RegisterSymbols flags was first stored today, with any number of
\* refreshes between its COUNT, its INSERT and its SELECT.
THEOREM FlagsAreNew == Spec => []FlaggedIsNew
<1>1. IInv => FlaggedIsNew
  BY DEF IInv
<1> QED
  BY <1>1, Invariant, PTL

\* No weekend, failed transaction or overlapping refresh shortens a streak.
THEOREM StreaksCoverRuns == Spec => []StreakNeverUndercounts
<1>1. IInv => StreakNeverUndercounts
  BY DEF IInv
<1> QED
  BY <1>1, Invariant, PTL

\* The list of QueueCandidates agrees with the registry and the streaks as
\* long as it is shown, whatever the other refreshes of the day store, and
\* without an error of the database it shows the streak of every candidate.
THEOREM ListAgrees == Spec => []ListIsExplained
<1>1. IInv => ListIsExplained
  <2> SUFFICES ASSUME IInv, NEW r \in Refreshers, NEW i \in DOMAIN list[r]
               PROVE  /\ list[r][i].score = 3 => first[list[r][i].name] = day
                      /\ IF list[r][i].streak = 0 THEN faults > 0
                         ELSE Covers(list[r][i].streak, list[r][i].name)
                      /\ \A j \in DOMAIN list[r] : i < j => list[r][i].score >= list[r][j].score
    BY DEF ListIsExplained
  <2>1. list[r] \in Seq(Entry)
    BY DEF IInv, TypeOK, Entry
  <2>2. list[r][i] \in Entry
    BY <2>1
  <2>3. Explained(list[r][i])
    BY <2>2 DEF IInv, ListInv
  <2> QED
    BY <2>3 DEF Explained, IInv, ListInv
<1> QED
  BY <1>1, Invariant, PTL
=============================================================================

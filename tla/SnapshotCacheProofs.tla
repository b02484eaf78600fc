------------------------ MODULE SnapshotCacheProofs ------------------------
(***************************************************************************)
(* Proofs about SnapshotCache, for any number of page requests and any     *)
(* time limits: the lock of getSnapshot lets one page refresh at a time,   *)
(* and what is served is younger than cacheTTL and two refreshes.          *)
(***************************************************************************)
EXTENDS SnapshotCache, TLAPS

Waits(p) == \E i \in 1 .. Len(queue) : queue[i] = p

\* The lock: who reads, who holds it, and who waits in the queue, once each.
LockInv == /\ \A p \in Pages : pc[p] = "read" <=> p \in readers
           /\ \A p \in Procs : pc[p] = "locked" => writer = p
           /\ \A p \in Pages : pc[p] = "refresh" => writer = p
           /\ writer # Nobody => \/ pc[writer] \in {"lock", "locked"}
                                 \/ writer \in Pages /\ pc[writer] = "refresh"
           /\ \A p \in Procs : pc[p] = "lock" => p = writer \/ Waits(p)
           /\ pc[Background] \in {"idle", "refresh", "lock", "locked"}

QueueInv == /\ \A i \in 1 .. Len(queue) : pc[queue[i]] = "lock" /\ queue[i] # writer
            /\ \A i, j \in 1 .. Len(queue) : queue[i] = queue[j] => i = j

PageRefreshes == writer \in Pages /\ pc[writer] = "refresh"

\* A waiting background refresh is old for one of two reasons: the page that
\* refreshes before it, which it has waited for as long as that page runs, or
\* a page that has just stored, after which no time passes until its turn.
WaitInv ==
    pc[Background] \in {"lock", "locked"} =>
        \/ work[Background].age <= RefreshTimeout
        \/ PageRefreshes /\ work[Background].age <= RefreshTimeout + work[writer].age
        \/ /\ ~ PageRefreshes /\ filled /\ stored = 0
           /\ work[Background].age <= 2 * RefreshTimeout

AgeInv == /\ \A p \in Procs : pc[p] = "refresh" => work[p].age <= RefreshTimeout
          /\ \A p \in Pages : pc[p] # "refresh" => work[p].age = 0
          /\ pc[Background] = "idle" => work[Background].age = 0
          /\ filled /\ stored <= TTL => cache.age <= stored + 2 * RefreshTimeout

IInv == TypeOK /\ LockInv /\ QueueInv /\ WaitInv /\ AgeInv /\ ServedAgeIsBounded

-----------------------------------------------------------------------------
\* What the steps of the lock do to the queue.
LEMMA AppendToQueue ==
    ASSUME queue \in Seq(Procs), NEW p \in Procs
    PROVE  LET q == Append(queue, p)
           IN  /\ q \in Seq(Procs) /\ Len(q) = Len(queue) + 1
               /\ \A i \in 1 .. Len(queue) : q[i] = queue[i]
               /\ q[Len(queue) + 1] = p
OBVIOUS

LEMMA HeadAndTail ==
    ASSUME queue \in Seq(Procs), queue # <<>>
    PROVE  /\ Head(queue) \in Procs /\ Head(queue) = queue[1] /\ 1 \in 1 .. Len(queue)
           /\ Tail(queue) \in Seq(Procs) /\ Len(Tail(queue)) = Len(queue) - 1
           /\ \A i \in 1 .. Len(Tail(queue)) : Tail(queue)[i] = queue[i + 1] /\ i + 1 \in 1 .. Len(queue)
OBVIOUS

\* Ages are numbers, and the bounds are compared with numbers.
LEMMA Numbers ==
    /\ TTL \in Nat /\ TTL > 0 /\ RefreshTimeout \in Nat /\ RefreshTimeout > 0
    /\ MaxAge \in Nat /\ MaxAge = TTL + 2 * RefreshTimeout + 1
    /\ NoWork \in Snapshots /\ NoWork.age = 0
BY TimeAssumption DEF MaxAge, AgeBound, NoWork, Snapshots

LEMMA Processes ==
    /\ Background \in Procs /\ Background \notin Pages /\ Pages \subseteq Procs
    /\ Nobody \notin Procs /\ Procs = Pages \cup {Background}
BY ProcAssumption DEF Procs

LEMMA SnapshotType ==
    ASSUME NEW s \in Snapshots
    PROVE  /\ s.age \in Nat /\ s.age <= MaxAge /\ Older(s.age) \in 0 .. MaxAge
           /\ Older(s.age) <= s.age + 1
           /\ s.age < MaxAge => Older(s.age) = s.age + 1
           /\ [s EXCEPT !.age = Older(@)] \in Snapshots
           /\ [s EXCEPT !.age = Older(@)].age = Older(s.age)
           /\ [s EXCEPT !.ok = FALSE] \in Snapshots
           /\ [s EXCEPT !.ok = FALSE].age = s.age
<1>1. s.age \in 0 .. MaxAge /\ s.ok \in BOOLEAN /\ MaxAge \in Nat
  BY Numbers DEF Snapshots
<1>2. Older(s.age) \in 0 .. MaxAge
  BY <1>1 DEF Older
<1>3. Older(s.age) <= s.age + 1 /\ (s.age < MaxAge => Older(s.age) = s.age + 1)
  BY <1>1 DEF Older
<1>4. \A a \in 0 .. MaxAge : /\ [s EXCEPT !.age = a] \in Snapshots
                              /\ [s EXCEPT !.age = a].age = a
  BY DEF Snapshots
<1>5. [s EXCEPT !.ok = FALSE] \in Snapshots /\ [s EXCEPT !.ok = FALSE].age = s.age
  BY DEF Snapshots
<1> QED
  BY <1>1, <1>2, <1>3, <1>4, <1>5

LEMMA AgeType == \A s \in Snapshots : s.age \in Nat /\ s.age <= MaxAge
BY Numbers DEF Snapshots

\* What a tick makes of a snapshot.
LEMMA OneOlder ==
    ASSUME NEW s \in Snapshots, NEW t, t = [s EXCEPT !.age = Older(@)]
    PROVE  /\ s.age \in Nat /\ t.age \in Nat /\ t.age <= s.age + 1
           /\ s.age < MaxAge => t.age = s.age + 1
<1>1. /\ s.age \in Nat /\ Older(s.age) \in 0 .. MaxAge /\ Older(s.age) <= s.age + 1
      /\ s.age < MaxAge => Older(s.age) = s.age + 1
  BY SnapshotType
<1>2. t.age = Older(s.age)
  BY DEF Snapshots
<1> QED
  BY <1>1, <1>2, Numbers

-----------------------------------------------------------------------------
LEMMA NextType == TypeOK /\ [Next]_vars => TypeOK'
<1> SUFFICES ASSUME TypeOK, [Next]_vars PROVE TypeOK'
  OBVIOUS
<1> USE Processes, Numbers
<1>1. ASSUME NEW p \in Pages, Request(p) PROVE TypeOK'
  BY <1>1 DEF TypeOK, Request, Goto, Steps, lock
<1>2. ASSUME NEW p \in Pages, ReadLock(p) PROVE TypeOK'
  BY <1>2 DEF TypeOK, ReadLock, Goto, Steps
<1>3. ASSUME NEW p \in Pages, ReadCache(p) PROVE TypeOK'
  <2>1. queue' = queue \/ queue' = Append(queue, p)
    BY <1>3 DEF ReadCache, Look
  <2>2. queue' \in Seq(Procs)
    BY <2>1, AppendToQueue DEF TypeOK
  <2> QED
    BY <1>3, <2>2 DEF TypeOK, ReadCache, Look, Serve, Goto, Steps
<1>4. ASSUME NEW p \in Pages, LookAgain(p) PROVE TypeOK'
  BY <1>4 DEF TypeOK, LookAgain, Recheck, Serve, Goto, Steps
<1>5. ASSUME NEW p \in Pages, PageStores(p) PROVE TypeOK'
  BY <1>5 DEF TypeOK, PageStores, Store, Serve, Goto, Steps
<1>6. ASSUME TakeTurn PROVE TypeOK'
  BY <1>6, HeadAndTail DEF TypeOK, TakeTurn
<1>7. ASSUME Enter PROVE TypeOK'
  BY <1>7 DEF TypeOK, Enter, Goto, Steps, lock
<1>8. ASSUME NEW p \in Procs, RefreshFails(p) PROVE TypeOK'
  <2>1. [work[p] EXCEPT !.ok = FALSE] \in Snapshots
    BY SnapshotType DEF TypeOK
  <2>2. work' = [work EXCEPT ![p] = [work[p] EXCEPT !.ok = FALSE]]
    BY <1>8 DEF RefreshFails
  <2>3. work' \in [Procs -> Snapshots]
    BY <2>1, <2>2 DEF TypeOK
  <2> QED
    BY <1>8, <2>3 DEF TypeOK, RefreshFails, lock
<1>9. ASSUME StartRefresh PROVE TypeOK'
  BY <1>9 DEF TypeOK, StartRefresh, Goto, Steps, lock
<1>10. ASSUME EndRefresh PROVE TypeOK'
  BY <1>10, AppendToQueue DEF TypeOK, EndRefresh, Goto, Steps
<1>11. ASSUME SetSnapshot PROVE TypeOK'
  BY <1>11 DEF TypeOK, SetSnapshot, Resumes, Store, Goto, Steps
<1>12. ASSUME Tick PROVE TypeOK'
  <2>1. cache' \in Snapshots
    <3>1. cache' = [cache EXCEPT !.age = Older(@)] \/ cache' = cache
      BY <1>12, Zenon DEF Tick, TypeOK, Snapshots
    <3> QED
      BY <3>1, SnapshotType DEF TypeOK
  <2>2. work' \in [Procs -> Snapshots]
    <3>1. \A p \in Procs : (IF Ageing(p) THEN [work[p] EXCEPT !.age = Older(@)]
                                         ELSE work[p]) \in Snapshots
      BY SnapshotType DEF TypeOK
    <3> QED
      BY <1>12, <3>1 DEF Tick
  <2>3. stored' \in 0 .. (TTL + 1)
    BY <1>12 DEF Tick, TypeOK
  <2> QED
    BY <1>12, <2>1, <2>2, <2>3 DEF Tick, TypeOK, lock
<1>13. ASSUME UNCHANGED vars PROVE TypeOK'
  BY <1>13 DEF TypeOK, vars, lock
<1> QED
  BY <1>1, <1>2, <1>3, <1>4, <1>5, <1>6, <1>7, <1>8, <1>9, <1>10, <1>11, <1>12, <1>13 DEF Next

-----------------------------------------------------------------------------
LockHeld == TypeOK /\ LockInv /\ QueueInv

\* A step that appends to the queue a process which neither waits nor writes.
LEMMA JoinQueue ==
    ASSUME LockHeld, NEW p \in Procs, pc[p] \in {"read", "refresh"}, writer # p,
           queue' = Append(queue, p), Goto(p, "lock"), writer' = writer
    PROVE  /\ QueueInv'
           /\ \A q \in Procs : pc'[q] = "lock" => q = writer' \/ Waits(q)'
<1>1. /\ Len(queue') = Len(queue) + 1 /\ queue'[Len(queue) + 1] = p
      /\ \A i \in 1 .. Len(queue) : queue'[i] = queue[i]
      /\ Len(queue) \in Nat
  BY AppendToQueue DEF LockHeld, TypeOK
<1>2. \A i \in 1 .. Len(queue) : queue[i] \in Procs /\ pc[queue[i]] = "lock"
                                 /\ queue[i] # writer /\ queue[i] # p
  BY DEF LockHeld, TypeOK, QueueInv
<1>3. \A q \in Procs : pc'[q] = IF q = p THEN "lock" ELSE pc[q]
  BY DEF LockHeld, TypeOK, Goto
<1>4. \A i \in 1 .. Len(queue') : i \in 1 .. Len(queue) \/ i = Len(queue) + 1
  BY <1>1
<1>5. QueueInv'
  <2>1. \A i \in 1 .. Len(queue') : pc'[queue'[i]] = "lock" /\ queue'[i] # writer'
    BY <1>1, <1>2, <1>3, <1>4
  <2>2. \A i, j \in 1 .. Len(queue') : queue'[i] = queue'[j] => i = j
    BY <1>1, <1>2, <1>4 DEF LockHeld, QueueInv
  <2> QED
    BY <2>1, <2>2 DEF QueueInv
<1>6. ASSUME NEW q \in Procs, pc'[q] = "lock" PROVE q = writer' \/ Waits(q)'
  <2>1. CASE q = p
    <3>1. Len(queue) + 1 \in 1 .. Len(queue')
      BY <1>1
    <3> QED
      BY <1>1, <2>1, <3>1 DEF Waits
  <2>2. CASE q # p
    <3>1. q = writer \/ Waits(q)
      BY <1>3, <1>6, <2>2 DEF LockHeld, LockInv
    <3>2. \A i \in 1 .. Len(queue) : i \in 1 .. Len(queue')
      BY <1>1
    <3> QED
      BY <1>1, <3>1, <3>2 DEF Waits
  <2> QED
    BY <2>1, <2>2
<1> QED
  BY <1>5, <1>6

\* A step of one process that is not in the queue, before or after, leaves it.
LEMMA QueueStays ==
    ASSUME LockHeld, queue' = queue,
           \A i \in 1 .. Len(queue) : pc'[queue[i]] = pc[queue[i]] /\ queue[i] # writer'
    PROVE  QueueInv'
BY DEF LockHeld, QueueInv

LEMMA NextLock == LockHeld /\ [Next]_vars => LockInv' /\ QueueInv'
<1> SUFFICES ASSUME LockHeld, [Next]_vars PROVE LockInv' /\ QueueInv'
  OBVIOUS
<1> USE Processes DEF LockHeld
<1>q. \A i \in 1 .. Len(queue) : queue[i] \in Procs /\ pc[queue[i]] = "lock" /\ queue[i] # writer
  BY DEF TypeOK, QueueInv
<1>1. ASSUME NEW p \in Pages, Request(p) PROVE LockInv' /\ QueueInv'
  <2>1. \A q \in Procs : pc'[q] = IF q = p THEN "arrive" ELSE pc[q]
    BY <1>1 DEF Request, Goto, TypeOK
  <2>2. pc[p] = "idle" /\ UNCHANGED <<readers, writer, queue>>
    BY <1>1 DEF Request, lock
  <2>3. QueueInv'
    BY <1>q, <2>1, <2>2, QueueStays
  <2> QED
    BY <2>1, <2>2, <2>3 DEF LockInv, Waits, TypeOK
<1>2. ASSUME NEW p \in Pages, ReadLock(p) PROVE LockInv' /\ QueueInv'
  <2>1. \A q \in Procs : pc'[q] = IF q = p THEN "read" ELSE pc[q]
    BY <1>2 DEF ReadLock, Goto, TypeOK
  <2>2. pc[p] = "arrive" /\ readers' = readers \cup {p} /\ UNCHANGED <<writer, queue>>
    BY <1>2 DEF ReadLock
  <2>3. QueueInv'
    BY <1>q, <2>1, <2>2, QueueStays
  <2> QED
    BY <2>1, <2>2, <2>3 DEF LockInv, Waits, TypeOK
<1>3. ASSUME NEW p \in Pages, ReadCache(p) PROVE LockInv' /\ QueueInv'
  <2>1. pc[p] = "read" /\ readers' = readers \ {p} /\ writer' = writer /\ writer # p
    BY <1>3 DEF ReadCache, Look, LockInv
  <2>2. CASE Goto(p, "idle") /\ queue' = queue
    <3>1. \A q \in Procs : pc'[q] = IF q = p THEN "idle" ELSE pc[q]
      BY <2>2 DEF Goto, TypeOK
    <3>2. QueueInv'
      BY <1>q, <2>1, <2>2, <3>1, QueueStays
    <3> QED
      BY <2>1, <2>2, <3>1, <3>2 DEF LockInv, Waits, TypeOK
  <2>3. CASE Goto(p, "lock") /\ queue' = Append(queue, p)
    <3>1. \A q \in Procs : pc'[q] = IF q = p THEN "lock" ELSE pc[q]
      BY <2>3 DEF Goto, TypeOK
    <3>2. QueueInv' /\ \A q \in Procs : pc'[q] = "lock" => q = writer' \/ Waits(q)'
      BY <2>1, <2>3, JoinQueue
    <3> QED
      BY <2>1, <3>1, <3>2 DEF LockInv, TypeOK
  <2> QED
    BY <1>3, <2>2, <2>3 DEF ReadCache, Look
<1>4. ASSUME NEW p \in Pages, LookAgain(p) PROVE LockInv' /\ QueueInv'
  <2>1. pc[p] = "locked" /\ writer = p /\ UNCHANGED <<readers, queue>>
    BY <1>4 DEF LookAgain, LockInv
  <2>2. CASE Goto(p, "idle") /\ writer' = Nobody
    <3>1. \A q \in Procs : pc'[q] = IF q = p THEN "idle" ELSE pc[q]
      BY <2>2 DEF Goto, TypeOK
    <3>2. QueueInv'
      BY <1>q, <2>1, <2>2, <3>1, QueueStays
    <3> QED
      BY <2>1, <2>2, <3>1, <3>2 DEF LockInv, Waits, TypeOK
  <2>3. CASE Goto(p, "refresh") /\ writer' = writer
    <3>1. \A q \in Procs : pc'[q] = IF q = p THEN "refresh" ELSE pc[q]
      BY <2>3 DEF Goto, TypeOK
    <3>2. QueueInv'
      BY <1>q, <2>1, <2>3, <3>1, QueueStays
    <3> QED
      BY <2>1, <2>3, <3>1, <3>2 DEF LockInv, Waits, TypeOK
  <2> QED
    BY <1>4, <2>2, <2>3 DEF LookAgain, Recheck
<1>5. ASSUME NEW p \in Pages, PageStores(p) PROVE LockInv' /\ QueueInv'
  <2>1. pc[p] = "refresh" /\ writer = p /\ writer' = Nobody /\ UNCHANGED <<readers, queue>>
    BY <1>5 DEF PageStores, Store, LockInv
  <2>2. \A q \in Procs : pc'[q] = IF q = p THEN "idle" ELSE pc[q]
    BY <1>5 DEF PageStores, Goto, TypeOK
  <2>3. QueueInv'
    BY <1>q, <2>1, <2>2, QueueStays
  <2> QED
    BY <2>1, <2>2, <2>3 DEF LockInv, Waits, TypeOK
<1>6. ASSUME TakeTurn PROVE LockInv' /\ QueueInv'
  <2>1. /\ writer = Nobody /\ writer' = queue[1] /\ queue' = Tail(queue)
        /\ UNCHANGED <<readers, pc>> /\ 1 \in 1 .. Len(queue) /\ writer' \in Procs
        /\ Len(queue') = Len(queue) - 1 /\ Len(queue) \in Nat
        /\ \A i \in 1 .. Len(queue') : queue'[i] = queue[i + 1] /\ i + 1 \in 1 .. Len(queue)
    BY <1>6, HeadAndTail DEF TakeTurn, TypeOK
  <2>2. QueueInv'
    <3>1. \A i \in 1 .. Len(queue') : i + 1 # 1
      OBVIOUS
    <3>2. \A i \in 1 .. Len(queue') : pc'[queue'[i]] = "lock" /\ queue'[i] # writer'
      BY <2>1, <3>1 DEF QueueInv
    <3>3. \A i, j \in 1 .. Len(queue') : i + 1 = j + 1 => i = j
      OBVIOUS
    <3>4. \A i, j \in 1 .. Len(queue') : queue'[i] = queue'[j] => i = j
      BY <2>1, <3>3 DEF QueueInv
    <3> QED
      BY <3>2, <3>4 DEF QueueInv
  <2>3. ASSUME NEW q \in Procs, pc'[q] = "lock" PROVE q = writer' \/ Waits(q)'
    <3>1. PICK i \in 1 .. Len(queue) : queue[i] = q
      BY <2>1, <2>3 DEF LockInv, Waits
    <3>2. CASE i = 1
      BY <2>1, <3>1, <3>2
    <3>3. CASE i # 1
      <4>1. i - 1 \in 1 .. Len(queue') /\ (i - 1) + 1 = i
        BY <2>1, <3>3
      <4>2. queue'[i - 1] = q
        BY <2>1, <3>1, <4>1
      <4> QED
        BY <4>1, <4>2 DEF Waits
    <3> QED
      BY <3>2, <3>3
  <2>4. pc[writer'] = "lock"
    BY <1>q, <2>1
  <2> QED
    BY <2>1, <2>2, <2>3, <2>4 DEF LockInv, TypeOK
<1>7. ASSUME Enter PROVE LockInv' /\ QueueInv'
  <2>1. /\ writer \in Procs /\ pc[writer] = "lock"
        /\ UNCHANGED <<readers, writer, queue>>
    BY <1>7 DEF Enter, lock, TypeOK
  <2>2. \A q \in Procs : pc'[q] = IF q = writer THEN "locked" ELSE pc[q]
    BY <1>7, <2>1 DEF Enter, Goto, TypeOK
  <2>3. QueueInv'
    BY <1>q, <2>1, <2>2, QueueStays
  <2> QED
    BY <2>1, <2>2, <2>3 DEF LockInv, Waits, TypeOK
<1>8. ASSUME NEW p \in Procs, RefreshFails(p) PROVE LockInv' /\ QueueInv'
  BY <1>8 DEF RefreshFails, lock, LockInv, QueueInv, Waits
<1>9. ASSUME StartRefresh PROVE LockInv' /\ QueueInv'
  <2>1. /\ pc[Background] = "idle" /\ UNCHANGED <<readers, writer, queue>>
        /\ \A q \in Procs : pc'[q] = IF q = Background THEN "refresh" ELSE pc[q]
    BY <1>9 DEF StartRefresh, Goto, lock, TypeOK
  <2>2. QueueInv'
    BY <1>q, <2>1, QueueStays
  <2> QED
    BY <2>1, <2>2 DEF LockInv, Waits, TypeOK
<1>10. ASSUME EndRefresh PROVE LockInv' /\ QueueInv'
  <2>1. /\ pc[Background] = "refresh" /\ UNCHANGED <<readers, writer>>
        /\ queue' = Append(queue, Background) /\ Goto(Background, "lock")
        /\ \A q \in Procs : pc'[q] = IF q = Background THEN "lock" ELSE pc[q]
    BY <1>10 DEF EndRefresh, Goto, TypeOK
  <2>2. writer # Background
    BY <2>1 DEF LockInv
  <2>3. QueueInv' /\ \A q \in Procs : pc'[q] = "lock" => q = writer' \/ Waits(q)'
    BY <2>1, <2>2, JoinQueue
  <2> QED
    BY <2>1, <2>2, <2>3 DEF LockInv, TypeOK
<1>11. ASSUME SetSnapshot PROVE LockInv' /\ QueueInv'
  <2>1. /\ pc[Background] = "locked" /\ writer = Background /\ writer' = Nobody
        /\ UNCHANGED <<readers, queue>>
        /\ \A q \in Procs : pc'[q] = IF q = Background THEN "idle" ELSE pc[q]
    BY <1>11 DEF SetSnapshot, Resumes, Store, Goto, TypeOK, LockInv
  <2>2. QueueInv'
    BY <1>q, <2>1, QueueStays
  <2> QED
    BY <2>1, <2>2 DEF LockInv, Waits, TypeOK
<1>12. ASSUME Tick PROVE LockInv' /\ QueueInv'
  BY <1>12 DEF Tick, lock, LockInv, QueueInv, Waits
<1>13. ASSUME UNCHANGED vars PROVE LockInv' /\ QueueInv'
  BY <1>13 DEF vars, lock, LockInv, QueueInv, Waits
<1> QED
  BY <1>1, <1>2, <1>3, <1>4, <1>5, <1>6, <1>7, <1>8, <1>9, <1>10, <1>11, <1>12, <1>13 DEF Next

-----------------------------------------------------------------------------
Ages == WaitInv /\ AgeInv /\ ServedAgeIsBounded

\* A step that leaves the cache, the clock, all work and who refreshes alone.
LEMMA AgesStay ==
    ASSUME LockHeld, Ages, UNCHANGED <<cache, stored, filled, work, served>>,
           PageRefreshes' <=> PageRefreshes, PageRefreshes => writer' = writer,
           \A p \in Procs : pc'[p] = "refresh" <=> pc[p] = "refresh",
           pc'[Background] \in {"lock", "locked"} => pc[Background] \in {"lock", "locked"},
           pc'[Background] = "idle" => pc[Background] = "idle"
    PROVE  Ages'
<1> USE Processes
<1>1. WaitInv'
  BY DEF Ages, WaitInv, PageRefreshes
<1>2. AgeInv'
  BY DEF Ages, AgeInv
<1> QED
  BY <1>1, <1>2 DEF Ages, ServedAgeIsBounded

\* What a fresh cache serves is young enough.
LEMMA ServedFresh ==
    ASSUME TypeOK, AgeInv, Fresh
    PROVE  cache.age < AgeBound
<1>1. cache.age \in Nat /\ stored \in Nat
  BY AgeType DEF TypeOK
<1>2. cache.age <= stored + 2 * RefreshTimeout /\ stored < TTL
  BY <1>1, Numbers DEF AgeInv, Fresh
<1> QED
  BY <1>1, <1>2, Numbers DEF AgeBound

\* Time passes as fast for the page that refreshes as for who waits behind it.
LEMMA TickWaits == LockHeld /\ Ages /\ Tick => WaitInv'
<1> SUFFICES ASSUME LockHeld, Ages, Tick, pc[Background] \in {"lock", "locked"}
             PROVE  WaitInv'
  BY DEF WaitInv, Tick
<1> USE Processes
<1> DEFINE B == Background
<1>1. UNCHANGED <<pc, writer, queue>> /\ ~ Urgent
  BY DEF Tick, lock
<1>2. PageRefreshes
  <2>1. pc[B] = "locked" => writer = B
    BY DEF LockHeld, LockInv
  <2>2. pc[B] = "lock" => writer = B \/ Waits(B)
    BY DEF LockHeld, LockInv
  <2>3. Waits(B) => queue # <<>>
    BY DEF Waits
  <2>4. writer # Nobody
    BY <1>1, <2>1, <2>2, <2>3 DEF Urgent
  <2>5. pc[writer] \notin {"lock", "locked"}
    BY <1>1, <2>4 DEF Urgent
  <2> QED
    BY <2>4, <2>5 DEF LockHeld, LockInv, PageRefreshes
<1>3. PageRefreshes' /\ writer \in Procs /\ B \in Procs /\ writer # B
  BY <1>1, <1>2 DEF PageRefreshes
<1>4. work'[B] = [work[B] EXCEPT !.age = Older(@)]
  BY <1>3 DEF Tick, Ageing
<1>5. work'[writer] = [work[writer] EXCEPT !.age = Older(@)]
  BY <1>2, <1>3 DEF Tick, Ageing, PageRefreshes
<1>6. work[B] \in Snapshots /\ work[writer] \in Snapshots
  BY <1>3 DEF LockHeld, TypeOK
<1>7. work[writer].age < RefreshTimeout /\ RefreshTimeout < MaxAge
  BY <1>2, <1>3, Numbers DEF Tick, PageRefreshes
<1>8. work'[writer].age = work[writer].age + 1
  <2>1. work[writer].age \in Nat /\ work[writer].age < MaxAge
    BY <1>6, <1>7, AgeType, Numbers
  <2> QED
    BY <1>5, <1>6, <2>1, OneOlder
<1>9. work'[B].age <= work[B].age + 1 /\ work[B].age \in Nat /\ work[writer].age \in Nat
  BY <1>4, <1>6, OneOlder
<1>10. work[B].age <= RefreshTimeout + work[writer].age
  BY <1>2, <1>9, Numbers DEF Ages, WaitInv
<1>11. work'[B].age <= RefreshTimeout + work'[writer].age
  <2>1. work'[B].age \in Nat
    BY <1>4, <1>6, SnapshotType, Numbers
  <2> QED
    BY <1>8, <1>9, <1>10, <2>1, Numbers
<1> QED
  BY <1>1, <1>3, <1>11 DEF WaitInv

LEMMA TickAges == LockHeld /\ Ages /\ Tick => AgeInv'
<1> SUFFICES ASSUME LockHeld, Ages, Tick PROVE AgeInv'
  OBVIOUS
<1> USE Processes, Numbers
<1>0. UNCHANGED <<pc, filled>>
  BY DEF Tick
<1>1. ASSUME NEW p \in Procs, pc[p] = "refresh" PROVE work'[p].age <= RefreshTimeout
  <2>1. work[p] \in Snapshots /\ work[p].age < RefreshTimeout
    BY <1>1 DEF LockHeld, TypeOK, Tick
  <2>2. work'[p] = [work[p] EXCEPT !.age = Older(@)]
    BY <1>1 DEF Tick, Ageing
  <2>3. work'[p].age = work[p].age + 1 /\ work[p].age \in Nat
    <3>1. work[p].age \in Nat /\ work[p].age < MaxAge
      BY <2>1, AgeType
    <3> QED
      BY <2>1, <2>2, <3>1, OneOlder
  <2> QED
    BY <2>1, <2>3
<1>2. ASSUME NEW p \in Pages, pc[p] # "refresh" PROVE work'[p].age = 0
  BY <1>2 DEF Tick, Ageing, Ages, AgeInv
<1>3. pc[Background] = "idle" => work'[Background].age = 0
  BY DEF Tick, Ageing, Ages, AgeInv
<1>4. filled /\ stored' <= TTL => cache'.age <= stored' + 2 * RefreshTimeout
  <2> SUFFICES ASSUME filled, stored' <= TTL PROVE cache'.age <= stored' + 2 * RefreshTimeout
    OBVIOUS
  <2>1. stored \in Nat /\ stored <= TTL /\ stored' = stored + 1
    BY DEF Tick, LockHeld, TypeOK
  <2>2. cache \in Snapshots /\ cache' = [cache EXCEPT !.age = Older(@)]
    BY DEF Tick, LockHeld, TypeOK
  <2>3. cache'.age <= cache.age + 1 /\ cache'.age \in Nat /\ cache.age \in Nat
    BY <2>2, SnapshotType
  <2> QED
    BY <2>1, <2>3 DEF Ages, AgeInv
<1> QED
  BY <1>0, <1>1, <1>2, <1>3, <1>4 DEF AgeInv

LEMMA NextAges == LockHeld /\ Ages /\ [Next]_vars => Ages'
<1> SUFFICES ASSUME LockHeld, Ages, [Next]_vars PROVE Ages'
  OBVIOUS
<1> USE Processes DEF LockHeld
<1> DEFINE B == Background
<1>1. ASSUME NEW p \in Pages, Request(p) PROVE Ages'
  <2>1. /\ pc[p] = "idle" /\ \A q \in Procs : pc'[q] = IF q = p THEN "arrive" ELSE pc[q]
        /\ UNCHANGED <<cache, stored, filled, work, served, writer>>
    BY <1>1 DEF Request, Goto, TypeOK, lock
  <2> QED
    BY <2>1, AgesStay DEF PageRefreshes
<1>2. ASSUME NEW p \in Pages, ReadLock(p) PROVE Ages'
  <2>1. /\ pc[p] = "arrive" /\ \A q \in Procs : pc'[q] = IF q = p THEN "read" ELSE pc[q]
        /\ UNCHANGED <<cache, stored, filled, work, served, writer>>
    BY <1>2 DEF ReadLock, Goto, TypeOK
  <2> QED
    BY <2>1, AgesStay DEF PageRefreshes
<1>3. ASSUME NEW p \in Pages, ReadCache(p) PROVE Ages'
  <2>1. /\ pc[p] = "read"
        /\ \A q \in Procs \ {p} : pc'[q] = pc[q]
        /\ pc'[p] # "refresh"
        /\ UNCHANGED <<cache, stored, filled, work, writer>>
        /\ served' = served \/ (Fresh /\ served' = [served EXCEPT ![p] = cache])
    BY <1>3 DEF ReadCache, Look, Serve, Goto, TypeOK
  <2>2. WaitInv'
    BY <2>1 DEF Ages, WaitInv, PageRefreshes
  <2>3. AgeInv'
    BY <2>1 DEF Ages, AgeInv
  <2>4. ServedAgeIsBounded'
    BY <2>1, ServedFresh DEF Ages, ServedAgeIsBounded, TypeOK
  <2> QED
    BY <2>2, <2>3, <2>4 DEF Ages
<1>4. ASSUME NEW p \in Pages, LookAgain(p) PROVE Ages'
  <2>1. /\ pc[p] = "locked" /\ writer = p
        /\ \A q \in Procs \ {p} : pc'[q] = pc[q]
        /\ UNCHANGED <<cache, stored, filled, work>>
    BY <1>4 DEF LookAgain, Recheck, Goto, TypeOK, LockInv
  <2>2. CASE Fresh /\ Serve(p, cache) /\ Goto(p, "idle") /\ writer' = Nobody
    <3>1. pc'[p] = "idle" /\ served' = [served EXCEPT ![p] = cache]
      BY <2>2 DEF Serve, Goto, TypeOK
    <3>2. WaitInv'
      BY <2>1, <2>2, <3>1 DEF Ages, WaitInv, PageRefreshes
    <3>3. AgeInv'
      BY <2>1, <3>1 DEF Ages, AgeInv
    <3>4. ServedAgeIsBounded'
      BY <2>2, <3>1, ServedFresh DEF Ages, ServedAgeIsBounded, TypeOK
    <3> QED
      BY <3>2, <3>3, <3>4 DEF Ages
  <2>3. CASE ~ Fresh /\ Goto(p, "refresh") /\ UNCHANGED <<writer, served>>
    <3>1. pc'[p] = "refresh"
      BY <2>3 DEF Goto, TypeOK
    <3>2. work[p].age = 0
      BY <2>1 DEF Ages, AgeInv
    <3>3. WaitInv'
      <4>1. ~ PageRefreshes /\ PageRefreshes' /\ ~ (filled /\ stored = 0)
        BY <2>1, <2>3, <3>1, Numbers DEF PageRefreshes, Fresh
      <4>2. pc[B] \in {"lock", "locked"} => work[B].age <= RefreshTimeout
        BY <4>1 DEF Ages, WaitInv
      <4> QED
        BY <2>1, <4>2 DEF WaitInv
    <3>4. AgeInv'
      BY <2>1, <3>1, <3>2, Numbers DEF Ages, AgeInv
    <3> QED
      BY <2>3, <3>3, <3>4 DEF Ages, ServedAgeIsBounded
  <2> QED
    BY <1>4, <2>2, <2>3 DEF LookAgain, Recheck
<1>5. ASSUME NEW p \in Pages, PageStores(p) PROVE Ages'
  <2>1. /\ pc[p] = "refresh" /\ writer = p /\ writer' = Nobody /\ pc'[p] = "idle"
        /\ \A q \in Procs \ {p} : pc'[q] = pc[q] /\ work'[q] = work[q]
        /\ work'[p] = NoWork /\ cache' = work[p] /\ stored' = 0 /\ filled' = TRUE
        /\ served' = [served EXCEPT ![p] = work[p]]
    BY <1>5 DEF PageStores, Store, Serve, Goto, TypeOK, LockInv
  <2>2. work[p].age \in Nat /\ work[p].age <= RefreshTimeout
    BY <2>1, SnapshotType DEF Ages, AgeInv, TypeOK
  <2>3. WaitInv'
    <3>1. PageRefreshes /\ ~ PageRefreshes'
      BY <2>1 DEF PageRefreshes
    <3>2. work[B].age \in Nat
      BY SnapshotType DEF TypeOK
    <3>3. pc[B] \in {"lock", "locked"} => work[B].age <= 2 * RefreshTimeout
      BY <2>1, <2>2, <3>1, <3>2, Numbers DEF Ages, WaitInv
    <3> QED
      BY <2>1, <3>1, <3>3 DEF WaitInv
  <2>4. AgeInv'
    BY <2>1, <2>2, Numbers DEF Ages, AgeInv
  <2>5. ServedAgeIsBounded'
    BY <2>1, <2>2, Numbers DEF Ages, ServedAgeIsBounded, AgeBound, TypeOK
  <2> QED
    BY <2>3, <2>4, <2>5 DEF Ages
<1>6. ASSUME TakeTurn PROVE Ages'
  <2>1. /\ writer = Nobody /\ writer' = queue[1] /\ pc[queue[1]] = "lock"
        /\ UNCHANGED <<cache, stored, filled, work, served, pc>>
    BY <1>6, HeadAndTail DEF TakeTurn, TypeOK, QueueInv
  <2> QED
    BY <2>1, AgesStay DEF PageRefreshes
<1>7. ASSUME Enter PROVE Ages'
  <2>1. /\ writer \in Procs /\ pc[writer] = "lock"
        /\ \A q \in Procs : pc'[q] = IF q = writer THEN "locked" ELSE pc[q]
        /\ UNCHANGED <<cache, stored, filled, work, served, writer>>
    BY <1>7 DEF Enter, Goto, lock, TypeOK
  <2> QED
    BY <2>1, AgesStay DEF PageRefreshes
<1>8. ASSUME NEW p \in Procs, RefreshFails(p) PROVE Ages'
  <2>1. \A q \in Procs : work'[q].age = work[q].age
    BY <1>8, SnapshotType DEF RefreshFails, TypeOK
  <2>2. UNCHANGED <<cache, stored, filled, writer, pc, served>>
    BY <1>8 DEF RefreshFails, lock
  <2>3. WaitInv'
    BY <2>1, <2>2 DEF Ages, WaitInv, PageRefreshes
  <2>4. AgeInv'
    BY <2>1, <2>2 DEF Ages, AgeInv
  <2> QED
    BY <2>2, <2>3, <2>4 DEF Ages, ServedAgeIsBounded
<1>9. ASSUME StartRefresh PROVE Ages'
  <2>1. /\ pc[B] = "idle" /\ pc'[B] = "refresh" /\ \A q \in Pages : pc'[q] = pc[q]
        /\ UNCHANGED <<cache, stored, filled, writer, work, served>>
    BY <1>9 DEF StartRefresh, Goto, lock, TypeOK
  <2>2. WaitInv'
    BY <2>1 DEF WaitInv
  <2>3. AgeInv'
    BY <2>1, Numbers DEF Ages, AgeInv
  <2> QED
    BY <2>1, <2>2, <2>3 DEF Ages, ServedAgeIsBounded
<1>10. ASSUME EndRefresh PROVE Ages'
  <2>1. /\ pc[B] = "refresh" /\ pc'[B] = "lock" /\ \A q \in Pages : pc'[q] = pc[q]
        /\ UNCHANGED <<cache, stored, filled, writer, work, served>>
    BY <1>10 DEF EndRefresh, Goto, TypeOK
  <2>2. WaitInv'
    BY <2>1 DEF Ages, AgeInv, WaitInv
  <2>3. AgeInv'
    BY <2>1 DEF Ages, AgeInv
  <2> QED
    BY <2>1, <2>2, <2>3 DEF Ages, ServedAgeIsBounded
<1>11. ASSUME SetSnapshot PROVE Ages'
  <2>1. /\ pc[B] = "locked" /\ writer = B /\ writer' = Nobody /\ pc'[B] = "idle"
        /\ \A q \in Pages : pc'[q] = pc[q] /\ work'[q] = work[q]
        /\ work'[B] = NoWork /\ cache' = work[B] /\ stored' = 0 /\ filled' = TRUE
        /\ UNCHANGED served
    BY <1>11 DEF SetSnapshot, Resumes, Store, Goto, TypeOK, LockInv
  <2>2. work[B].age \in Nat /\ work[B].age <= 2 * RefreshTimeout
    <3>1. ~ PageRefreshes
      BY <2>1 DEF PageRefreshes
    <3>2. work[B].age \in Nat
      BY SnapshotType DEF TypeOK
    <3> QED
      BY <2>1, <3>1, <3>2, Numbers DEF Ages, WaitInv
  <2>3. WaitInv'
    BY <2>1 DEF WaitInv
  <2>4. AgeInv'
    BY <2>1, <2>2, Numbers DEF Ages, AgeInv
  <2> QED
    BY <2>1, <2>3, <2>4 DEF Ages, ServedAgeIsBounded
<1>12. ASSUME Tick PROVE Ages'
  <2>1. ServedAgeIsBounded'
    BY <1>12 DEF Tick, Ages, ServedAgeIsBounded
  <2> QED
    BY <1>12, <2>1, TickWaits, TickAges DEF Ages
<1>13. ASSUME UNCHANGED vars PROVE Ages'
  BY <1>13 DEF vars, lock, Ages, WaitInv, PageRefreshes, AgeInv, ServedAgeIsBounded
<1> QED
  BY <1>1, <1>2, <1>3, <1>4, <1>5, <1>6, <1>7, <1>8, <1>9, <1>10, <1>11, <1>12, <1>13 DEF Next

-----------------------------------------------------------------------------
LEMMA InitInv == Init => IInv
<1> SUFFICES ASSUME Init PROVE IInv
  OBVIOUS
<1> USE Processes, Numbers
<1>1. TypeOK
  <2>1. cache \in Snapshots /\ stored \in 0 .. (TTL + 1) /\ faults \in Nat
    BY DEF Init
  <2>2. queue \in Seq(Procs) /\ readers \in SUBSET Pages /\ writer \in Procs \cup {Nobody}
    BY DEF Init
  <2>3. pc \in [Procs -> Steps] /\ filled \in BOOLEAN
    BY DEF Init, Steps
  <2>4. work \in [Procs -> Snapshots] /\ served \in [Pages -> Snapshots]
    BY DEF Init
  <2> QED
    BY <2>1, <2>2, <2>3, <2>4 DEF TypeOK
<1>2. LockInv
  BY DEF Init, LockInv
<1>3. QueueInv
  BY DEF Init, QueueInv
<1>4. WaitInv /\ AgeInv
  BY DEF Init, WaitInv, AgeInv
<1>5. ServedAgeIsBounded
  BY DEF Init, ServedAgeIsBounded, AgeBound
<1> QED
  BY <1>1, <1>2, <1>3, <1>4, <1>5 DEF IInv

LEMMA NextInv == IInv /\ [Next]_vars => IInv'
BY NextType, NextLock, NextAges DEF IInv, LockHeld, Ages

\* The lock of getSnapshot and the ages of what it guards, in every behaviour.
LEMMA Invariant == Spec => []IInv
BY InitInv, NextInv, PTL DEF Spec

\* Every reachable state is well typed.
THEOREM TypeCorrect == Spec => []TypeOK
<1>1. IInv => TypeOK
  BY DEF IInv
<1> QED
  BY <1>1, Invariant, PTL

\* However many page requests find the cache expired at once, one of them
\* refreshes and the others wait for it: whoever refreshes holds the lock.
THEOREM PagesRefreshOneAtATime == Spec => []OnePageRefreshes
<1>1. IInv => OnePageRefreshes
  BY DEF IInv, LockInv, OnePageRefreshes
<1> QED
  BY <1>1, Invariant, PTL

\* No page is ever given data as old as the cache's time to live and two
\* refreshes, although the background refresh may wait for the lock with the
\* data it has: it never waits for more than one refresh.
THEOREM ServedIsYoung == Spec => []ServedAgeIsBounded
<1>1. IInv => ServedAgeIsBounded
  BY DEF IInv
<1> QED
  BY <1>1, Invariant, PTL
=============================================================================

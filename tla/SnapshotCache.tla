--------------------------- MODULE SnapshotCache ---------------------------
(***************************************************************************)
(* The snapshot the web pages show (internal/server/pages.go getSnapshot,  *)
(* internal/server/refresh.go): a cache behind a read-write lock, filled   *)
(* by the background refresh and by the first page request that finds it   *)
(* expired, which holds the lock while it refreshes.                       *)
(*                                                                         *)
(* There is no clock: every age grows with Tick and stops growing at       *)
(* MaxAge, beyond every bound stated below.                                *)
(***************************************************************************)
EXTENDS Integers, Sequences, FiniteSets

CONSTANTS Pages,          \* concurrent page requests
          Background,     \* the goroutine of StartBackgroundRefresh
          Nobody,
          TTL,            \* cacheTTL
          RefreshTimeout, \* 120 seconds: bound of one Refresh
          MaxFaults       \* refreshes that fail, in total

ASSUME ProcAssumption == Background \notin Pages /\ Nobody \notin Pages \cup {Background}
ASSUME TimeAssumption == TTL \in Nat \ {0} /\ RefreshTimeout \in Nat \ {0}
ASSUME FaultAssumption == MaxFaults \in Nat

Procs == Pages \cup {Background}
AgeBound == TTL + 2 * RefreshTimeout
MaxAge == AgeBound + 1
Snapshots == [age : 0 .. MaxAge, ok : BOOLEAN]
NoWork == [age |-> 0, ok |-> TRUE]

VARIABLES cache,     \* snapCache: age of its data (GeneratedAt), free of errors?
          stored,    \* time since snapAt
          filled,    \* snapAt is not zero
          readers,   \* holders of the read lock
          writer,    \* who holds the write lock, or waits for readers to leave
          queue,     \* the others in Lock, in order
          pc,        \* per process: its next step
          work,      \* per process: the snapshot it is making or has made
          served,    \* per page: the last snapshot it was given, as it was then
          faults

lock == <<readers, writer, queue>>
vars == <<cache, stored, filled, lock, pc, work, served, faults>>

Init == /\ cache = NoWork /\ stored = 0 /\ filled = FALSE
        /\ readers = {} /\ writer = Nobody /\ queue = <<>>
        /\ pc = [p \in Procs |-> "idle"]
        /\ work = [p \in Procs |-> NoWork]
        /\ served = [p \in Pages |-> NoWork]
        /\ faults = 0

Goto(p, step) == pc' = [pc EXCEPT ![p] = step]

FreshInclusive == filled /\ stored <= TTL   \* mutant: <= for <

\* time.Since(s.snapAt) < ttl && !s.snapAt.IsZero()
Fresh == filled /\ stored < TTL

Serve(p, snap) == served' = [served EXCEPT ![p] = snap]

-----------------------------------------------------------------------------
(***************************************************************************)
(* The lock, as sync.RWMutex works: a reader waits only for the writer     *)
(* whose turn it is, and that writer waits for the readers to leave.       *)
(***************************************************************************)
Request(p) == /\ pc[p] = "idle"
              /\ Goto(p, "arrive")
              /\ UNCHANGED <<cache, stored, filled, lock, work, served, faults>>

ReadLock(p) == /\ pc[p] = "arrive" /\ writer = Nobody
               /\ readers' = readers \cup {p}
               /\ Goto(p, "read")
               /\ UNCHANGED <<cache, stored, filled, writer, queue, work, served, faults>>

TakeTurn == /\ queue # <<>> /\ writer = Nobody
            /\ writer' = Head(queue) /\ queue' = Tail(queue)
            /\ UNCHANGED <<cache, stored, filled, readers, pc, work, served, faults>>

Enter == /\ writer # Nobody /\ pc[writer] = "lock" /\ readers = {}
         /\ Goto(writer, "locked")
         /\ UNCHANGED <<cache, stored, filled, lock, work, served, faults>>

-----------------------------------------------------------------------------
\* mutant: no RUnlock when the cache has expired.
LookKeepingLock(p) ==
    \/ /\ Fresh
       /\ Serve(p, cache) /\ Goto(p, "idle")
       /\ readers' = readers \ {p}
       /\ UNCHANGED queue
    \/ /\ ~ Fresh
       /\ Goto(p, "lock") /\ queue' = Append(queue, p)
       /\ UNCHANGED <<served, readers>>

\* getSnapshot: the first look at the cache, and RUnlock either way.
Look(p) ==
    /\ readers' = readers \ {p}
    /\ \/ /\ Fresh
          /\ Serve(p, cache) /\ Goto(p, "idle")
          /\ UNCHANGED queue
       \/ /\ ~ Fresh
          /\ Goto(p, "lock") /\ queue' = Append(queue, p)
          /\ UNCHANGED served

ReadCache(p) ==
    /\ pc[p] = "read"
    /\ Look(p)
    /\ UNCHANGED <<cache, stored, filled, writer, work, faults>>

\* mutant: the lock is released while the page refreshes.
RecheckUnlocking(p) ==
    /\ writer' = Nobody
    /\ \/ Fresh /\ Serve(p, cache) /\ Goto(p, "idle")
       \/ ~ Fresh /\ Goto(p, "refresh") /\ UNCHANGED served

\* The second look, under the write lock; Refresh starts if it is needed.
Recheck(p) ==
    \/ Fresh /\ Serve(p, cache) /\ Goto(p, "idle") /\ writer' = Nobody
    \/ ~ Fresh /\ Goto(p, "refresh") /\ UNCHANGED <<writer, served>>

LookAgain(p) ==
    /\ pc[p] = "locked"
    /\ Recheck(p)
    /\ UNCHANGED <<cache, stored, filled, readers, queue, work, faults>>

\* The vendor fails, or the request goes away and its context with it: the
\* snapshot will hold errors in place of data.
RefreshFails(p) ==
    /\ pc[p] = "refresh" /\ work[p].ok
    /\ faults < MaxFaults /\ faults' = faults + 1
    /\ work' = [work EXCEPT ![p].ok = FALSE]
    /\ UNCHANGED <<cache, stored, filled, lock, pc, served>>

Store(p) == /\ cache' = work[p] /\ stored' = 0 /\ filled' = TRUE
            /\ work' = [work EXCEPT ![p] = NoWork]
            /\ writer' = Nobody

\* Refresh returns to getSnapshot: store, serve, unlock.
PageStores(p) ==
    /\ pc[p] = "refresh"
    /\ Store(p) /\ Serve(p, work[p]) /\ Goto(p, "idle")
    /\ UNCHANGED <<readers, queue, faults>>

-----------------------------------------------------------------------------
\* runRefresh, at the ticker's pace, which is left open here.
StartRefresh ==
    /\ pc[Background] = "idle"
    /\ Goto(Background, "refresh")
    /\ UNCHANGED <<cache, stored, filled, lock, work, served, faults>>

\* Refresh returns to runRefresh, which calls setSnapshot.
EndRefresh ==
    /\ pc[Background] = "refresh"
    /\ Goto(Background, "lock") /\ queue' = Append(queue, Background)
    /\ UNCHANGED <<cache, stored, filled, readers, writer, work, served, faults>>

\* mutant: the goroutine ends after a refresh with errors.
GivesUp == Goto(Background, IF work[Background].ok THEN "idle" ELSE "ended")

Resumes == Goto(Background, "idle")

\* setSnapshot, once it has the lock, whatever the cache holds by then.
SetSnapshot ==
    /\ pc[Background] = "locked"
    /\ Store(Background) /\ Resumes
    /\ UNCHANGED <<readers, queue, served, faults>>

-----------------------------------------------------------------------------
Older(age) == IF age < MaxAge THEN age + 1 ELSE age

\* The background goroutine carries its snapshot while it waits for the lock.
Ageing(p) == pc[p] = "refresh" \/ (p = Background /\ pc[p] \in {"lock", "locked"})

\* Somebody is about to do something that takes no time.
Urgent == \/ \E p \in Procs : pc[p] = "read"
          \/ writer = Nobody /\ (queue # <<>> \/ \E p \in Pages : pc[p] = "arrive")
          \/ writer # Nobody /\ pc[writer] \in {"lock", "locked"}

\* One unit of time; the context of a Refresh ends it before its timeout.
Tick ==
    /\ ~ Urgent
    /\ \A p \in Procs : pc[p] = "refresh" => work[p].age < RefreshTimeout
    /\ cache' = [cache EXCEPT !.age = IF filled THEN Older(@) ELSE @]
    /\ stored' = IF stored <= TTL THEN stored + 1 ELSE stored
    /\ work' = [p \in Procs |-> IF Ageing(p) THEN [work[p] EXCEPT !.age = Older(@)]
                                             ELSE work[p]]
    /\ UNCHANGED <<filled, lock, pc, served, faults>>

Next == \/ \E p \in Pages : \/ Request(p) \/ ReadLock(p) \/ ReadCache(p)
                             \/ LookAgain(p) \/ PageStores(p)
        \/ TakeTurn \/ Enter
        \/ \E p \in Procs : RefreshFails(p)
        \/ StartRefresh \/ EndRefresh \/ SetSnapshot
        \/ Tick

Spec == Init /\ [][Next]_vars

(***************************************************************************)
(* Every step goes on, and Unlock lets the readers in that wait before the *)
(* next writer takes its turn.  Nobody has to request a page.              *)
(***************************************************************************)
Fairness == /\ \A p \in Pages : SF_vars(ReadLock(p)) /\ WF_vars(ReadCache(p))
                             /\ WF_vars(LookAgain(p)) /\ WF_vars(PageStores(p))
            /\ WF_vars(TakeTurn) /\ WF_vars(Enter)
            /\ WF_vars(StartRefresh) /\ WF_vars(EndRefresh) /\ WF_vars(SetSnapshot)

FairSpec == Spec /\ Fairness

-----------------------------------------------------------------------------
Steps == {"idle", "arrive", "read", "lock", "locked", "refresh"}

TypeOK == /\ cache \in Snapshots /\ stored \in 0 .. (TTL + 1) /\ filled \in BOOLEAN
          /\ readers \in SUBSET Pages
          /\ writer \in Procs \cup {Nobody}
          /\ queue \in Seq(Procs)
          /\ pc \in [Procs -> Steps]
          /\ work \in [Procs -> Snapshots]
          /\ served \in [Pages -> Snapshots]
          /\ faults \in Nat

\* Pages never refresh two at a time, so that with the background goroutine
\* at most two refreshes overlap: every store below the scanner relies on it.
OnePageRefreshes == \A p, q \in Pages : pc[p] = "refresh" /\ pc[q] = "refresh" => p = q

\* Data shown is never older than the cache's time to live and two refreshes:
\* its own, and the one the background goroutine may have to wait for before
\* it can store what it fetched.
ServedAgeIsBounded == \A p \in Pages : served[p].age < AgeBound

\* A page request is answered, although the cache may expire, the lock may be
\* held during a refresh, and the read lock has to be given up for it.
NoRequestHangs == \A p \in Pages : pc[p] = "arrive" ~> pc[p] = "idle"

\* A snapshot full of errors (vendor down, visitor gone) does not stay: with
\* the vendor back, the cache ends up with data even if nobody visits.
CacheRecovers == <>[](filled /\ cache.ok)
=============================================================================

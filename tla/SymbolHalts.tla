---------------------------- MODULE SymbolHalts ----------------------------
(***************************************************************************)
(* Halted symbols (internal/scanner/symbol_halts.go): the sync that copies *)
(* the vendor's closed-symbols feed into symbol_halts and records events,  *)
(* the check that announces reopenings, the page refresh that reads the    *)
(* result (Service.Refresh), and the tables between them                   *)
(* (internal/market/sqlitestore.go).                                       *)
(*                                                                         *)
(* A supervisor message is its number in the order of publication, which   *)
(* stands for its text and, unless it is undated, its time.  The vendor    *)
(* keeps listing what it once published.                                   *)
(***************************************************************************)
EXTENDS Integers, Sequences, FiniteSets, FiniteSetsExt

CONSTANTS Symbols,
          Readers,      \* refreshes that may overlap
          Listings,     \* how the closed-symbols feed may list a symbol
          Kinds,        \* which kinds of supervisor messages appear
          NewestFirst,  \* whether the vendor lists the newest message first
          MaxMessages,  \* bound of the supervisor feed
          MaxTime,      \* bound of the vendor's changes
          Crawler,      \* whether a bourse crawler is configured
          FaultKinds,   \* which of the fault kinds below may happen
          MaxFaults     \* how many of them, in total

\* bare: name only; dated: with a date, worded: with a message, full: with both;
\* twice: two items whose names normalise to the same symbol.
AllListings == {"bare", "dated", "worded", "full", "twice"}
\* What the keywords of a message say; both: a halt and a reopening keyword;
\* undated: a reopening without a time of publication.
AllKinds == {"halt", "reopen", "both", "other", "undated"}
AllFaults == {"closed", "messages", "read", "replace", "append", "send", "crash"}

ASSUME ListingAssumption == Listings \subseteq AllListings
ASSUME KindAssumption == Kinds \subseteq AllKinds
ASSUME LimitAssumption == /\ MaxMessages \in Nat /\ MaxTime \in Nat /\ MaxFaults \in Nat
                          /\ Crawler \in BOOLEAN /\ NewestFirst \in BOOLEAN
                          /\ FaultKinds \subseteq AllFaults

VARIABLES now,        \* changes of the vendor so far
          open,       \* isTehranMarketHours
          closed,     \* closed_symbols: how each symbol is listed, or "absent"
          msgs,       \* supervisor messages: [sym, kind]
          halted,     \* symbol_halts
          checkedAt,  \* symbol_halt_sync.checked_at, -1: no row
          events,     \* symbol_halt_events, by hashEventKey
          announced,  \* messages the chats acknowledged
          spc, sclosed, sevents,        \* the sync: step, feed, events to append
          rpc, rhalted, rtodo, rsent,   \* the check: step, haltedSet, messages
          pread,      \* a refresh: checked_at as of its first query, -1: none
          pstale,     \* history: the page last built has rows older than its stamp
          faults

vendor == <<now, open, closed, msgs>>
store == <<halted, checkedAt, events>>
sync == <<spc, sclosed, sevents>>
check == <<rpc, rhalted, rtodo, rsent>>
page == <<pread, pstale>>
vars == <<vendor, store, announced, sync, check, page, faults>>

Fault(kind) == /\ kind \in FaultKinds
               /\ faults < MaxFaults
               /\ faults' = faults + 1

Absent == [s \in Symbols |-> "absent"]
Listed(feed) == {s \in Symbols : feed[s] # "absent"}

Init == /\ now = 0 /\ open = FALSE /\ closed = Absent /\ msgs = <<>>
        /\ halted = {} /\ checkedAt = -1 /\ events = {} /\ announced = {}
        /\ spc = "idle" /\ sclosed = Absent /\ sevents = {}
        /\ rpc = "idle" /\ rhalted = {} /\ rtodo = {} /\ rsent = {}
        /\ pread = [r \in Readers |-> -1]
        /\ pstale = [r \in Readers |-> FALSE]
        /\ faults = 0

-----------------------------------------------------------------------------
\* The vendor and the clock.
Tick == now < MaxTime /\ now' = now + 1

ChangeListing(s, how) == /\ Tick /\ closed[s] # how
                         /\ closed' = [closed EXCEPT ![s] = how]
                         /\ UNCHANGED <<open, msgs, store, announced, sync, check, page, faults>>

Publish(s, k) == /\ Tick /\ Len(msgs) < MaxMessages
                 /\ msgs' = Append(msgs, [sym |-> s, kind |-> k])
                 /\ UNCHANGED <<open, closed, store, announced, sync, check, page, faults>>

MarketHours == /\ open' = ~ open
               /\ UNCHANGED <<now, closed, msgs, store, announced, sync, check, page, faults>>

-----------------------------------------------------------------------------
HaltKinds == {"halt", "both"}                  \* isHaltSupervisorMessage
ReopenKinds == {"reopen", "both", "undated"}   \* isReopenSupervisorMessage

\* mutant: the newest message of the symbol, if it is one to keep.
LatestIfKept(s, kinds) ==
    LET i == Max({j \in DOMAIN msgs : msgs[j].sym = s} \cup {0})
    IN IF i # 0 /\ msgs[i].kind \in kinds THEN i ELSE 0

\* latestMessagesBySymbol: the message to keep that is listed first, which is
\* the newest if the vendor lists it so; 0 if there is none.
LatestMessage(s, kinds) ==
    LET kept == {i \in DOMAIN msgs : msgs[i].sym = s /\ msgs[i].kind \in kinds}
    IN IF kept = {} THEN 0 ELSE IF NewestFirst THEN Max(kept) ELSE Min(kept)

\* Texts and times that are not a supervisor message's.
Nothing == 0
Own == -1      \* of the item of the closed-symbols feed
Notice == -2   \* of the crawled notice

Event(s, type, text, at, src) ==
    [sym |-> s, type |-> type, text |-> text, at |-> at, src |-> src]

EventType(i) == CASE msgs[i].kind \in HaltKinds -> "halt"
                  [] msgs[i].kind \in ReopenKinds \ HaltKinds -> "reopen"
                  [] OTHER -> "supervisor"

\* PublishedAt, empty for an undated message.
PublishedAt(i) == IF msgs[i].kind = "undated" THEN Nothing ELSE i

MessageEvent(i) == Event(msgs[i].sym, EventType(i), i, PublishedAt(i), "sourcearena")

\* mutant: reopenings are left to the check.
HaltEvents == {MessageEvent(i) : i \in {j \in DOMAIN msgs : msgs[j].kind \notin ReopenKinds}}

SupervisorEvents == {MessageEvent(i) : i \in DOMAIN msgs}

\* The halt event of a listed symbol. Its text is the item's own message, else
\* the halt message listed first (0: none, or no messages in hand), else what
\* the crawler finds; its time is that of a notice, else the item's, else that of
\* the message, whichever text was taken.
ListingEvent(s, latest, notice) ==
    LET worded  == sclosed[s] \in {"worded", "full"}
        crawled == ~ worded /\ latest = 0 /\ notice # "none"
    IN  Event(s, "halt",
              IF worded THEN Own ELSE IF crawled THEN Notice ELSE latest,
              IF crawled /\ notice = "dated" THEN Notice
              ELSE IF sclosed[s] \in {"dated", "full"} THEN Own
              ELSE IF latest = 0 THEN Nothing ELSE PublishedAt(latest),
              IF crawled THEN "bourse-crawl" ELSE "sourcearena")

\* fetchHaltReasonFromBourse: a notice, with a time or without, or none.
Notices == [Symbols -> IF Crawler THEN {"none", "timeless", "dated"} ELSE {"none"}]

-----------------------------------------------------------------------------
SyncOver == spc' = "idle" /\ sclosed' = Absent /\ sevents' = {}

\* fetchClosedSymbolsWithRetry; the fault stands for its last attempt.
SyncClosed ==
    /\ spc = "idle"
    /\ \/ spc' = "messages" /\ sclosed' = closed /\ UNCHANGED <<sevents, faults>>
       \/ Fault("closed") /\ UNCHANGED sync
    /\ UNCHANGED <<vendor, store, announced, check, page>>

\* FetchSupervisorMessages, whose error is survived, and the list of events.
SyncMessages ==
    /\ spc = "messages"
    /\ spc' = "replace"
    /\ \E notices \in Notices :
       \/ /\ sevents' = {ListingEvent(s, LatestMessage(s, HaltKinds), notices[s])
                            : s \in Listed(sclosed)} \cup SupervisorEvents
          /\ UNCHANGED faults
       \/ /\ Fault("messages")
          /\ sevents' = {ListingEvent(s, 0, notices[s]) : s \in Listed(sclosed)}
    /\ UNCHANGED <<vendor, store, announced, sclosed, check, page>>

MergeHalts == halted' = halted \cup Listed(sclosed)   \* mutant: no DELETE

\* DELETE, then INSERT of every item, in one transaction.
ReplaceHalts == halted' = Listed(sclosed)

\* ReplaceSymbolHalts.  Two items of one name break the primary key; any
\* error ends the sync with the tables as they were.
SyncReplace ==
    /\ spc = "replace"
    /\ \/ /\ \A s \in Symbols : sclosed[s] # "twice"
          /\ ReplaceHalts
          /\ checkedAt' = now
          /\ spc' = "append"
          /\ UNCHANGED <<sclosed, sevents, faults>>
       \/ /\ \E s \in Symbols : sclosed[s] = "twice"
          /\ SyncOver
          /\ UNCHANGED <<halted, checkedAt, faults>>
       \/ /\ Fault("replace")
          /\ SyncOver
          /\ UNCHANGED <<halted, checkedAt>>
    /\ UNCHANGED <<vendor, events, announced, check, page>>

\* AppendSymbolHaltEvents: INSERT OR IGNORE, in a transaction of its own.
SyncAppend ==
    /\ spc = "append"
    /\ SyncOver
    /\ \/ events' = events \cup sevents /\ UNCHANGED faults
       \/ Fault("append") /\ UNCHANGED events
    /\ UNCHANGED <<vendor, halted, checkedAt, announced, check, page>>

-----------------------------------------------------------------------------
CheckOver == rpc' = "idle" /\ rhalted' = {} /\ rtodo' = {} /\ rsent' = {}

\* checkReopenAnnouncements: the halted symbols, from the store.
CheckHalts ==
    /\ open /\ rpc = "idle" /\ halted # {}
    /\ \/ rpc' = "messages" /\ rhalted' = halted /\ UNCHANGED <<rtodo, rsent, faults>>
       \/ Fault("read") /\ UNCHANGED check
    /\ UNCHANGED <<vendor, store, announced, sync, page>>

\* FetchSupervisorMessages: the newest reopening of each halted symbol.
CheckMessages ==
    /\ rpc = "messages"
    /\ \/ LET found == {LatestMessage(s, ReopenKinds) : s \in rhalted} \ {0}
          IN /\ IF found = {} THEN CheckOver
                ELSE rpc' = "send" /\ rtodo' = found /\ UNCHANGED <<rhalted, rsent>>
             /\ UNCHANGED faults
       \/ Fault("messages") /\ CheckOver
    /\ UNCHANGED <<vendor, store, announced, sync, page>>

\* The key of the alert: the symbol and the time, "unknown" without one.
ReopenKey(i) == <<msgs[i].sym, PublishedAt(i)>>
Claimed(i) == \E j \in announced : ReopenKey(j) = ReopenKey(i)

\* MaybeSendSymbolReopen, in the order the map yields: nothing is sent under a
\* key that was announced (the window of AlertDelivery is longer than the
\* model runs); an error is ignored.
Announce(i) ==
    /\ rpc = "send" /\ i \in rtodo
    /\ rtodo' = rtodo \ {i} /\ rsent' = rsent \cup {i}
    /\ \/ Claimed(i) /\ UNCHANGED <<announced, faults>>
       \/ ~ Claimed(i) /\ announced' = announced \cup {i} /\ UNCHANGED faults
       \/ ~ Claimed(i) /\ Fault("send") /\ UNCHANGED announced
    /\ UNCHANGED <<vendor, store, sync, rpc, rhalted, page>>

\* mutant: the check names itself as the source of the event.
CheckedEvent(i) == Event(msgs[i].sym, "reopen", i, PublishedAt(i), "reopen-check")

ReopenEvent(i) == Event(msgs[i].sym, "reopen", i, PublishedAt(i), "sourcearena")

CheckAppend ==
    /\ rpc = "send" /\ rtodo = {}
    /\ CheckOver
    /\ \/ events' = events \cup {ReopenEvent(i) : i \in rsent} /\ UNCHANGED faults
       \/ Fault("append") /\ UNCHANGED events
    /\ UNCHANGED <<vendor, halted, checkedAt, announced, sync, page>>

-----------------------------------------------------------------------------
\* mutant: the rows are read first.
PageShowsSwapped(r) == [stamp |-> checkedAt, rows |-> pread[r]]

\* LatestSymbolHalts: the check time, then the rows, without a transaction
\* around the two.  Rows stand for the time when they were stored.
PageShows(r) == [stamp |-> pread[r], rows |-> checkedAt]

\* Without a check time there is nothing to show, and the rows are not read.
Page(r) ==
    /\ checkedAt # -1
    /\ \/ /\ pread[r] = -1
          /\ pread' = [pread EXCEPT ![r] = checkedAt]
          /\ UNCHANGED pstale
       \/ /\ pread[r] # -1
          /\ pread' = [pread EXCEPT ![r] = -1]
          /\ pstale' = [pstale EXCEPT ![r] = PageShows(r).rows < PageShows(r).stamp]
    /\ UNCHANGED <<vendor, store, announced, sync, check, faults>>

\* The process dies and is started again.
Crash ==
    /\ Fault("crash")
    /\ SyncOver /\ CheckOver
    /\ pread' = [r \in Readers |-> -1]
    /\ UNCHANGED <<vendor, store, announced, pstale>>

Next == \/ \E s \in Symbols, how \in Listings \cup {"absent"} : ChangeListing(s, how)
        \/ \E s \in Symbols, k \in Kinds : Publish(s, k)
        \/ MarketHours
        \/ SyncClosed \/ SyncMessages \/ SyncReplace \/ SyncAppend
        \/ CheckHalts \/ CheckMessages \/ CheckAppend
        \/ \E i \in 1 .. MaxMessages : Announce(i)
        \/ \E r \in Readers : Page(r)
        \/ Crash

Spec == Init /\ [][Next]_vars

(***************************************************************************)
(* The market opens and closes every day.  The sync runs at start, at 8:00 *)
(* and every five minutes of market hours, the check every two minutes of  *)
(* them; every call either is under a context with a timeout.              *)
(***************************************************************************)
Fairness == /\ WF_vars(MarketHours)
            /\ WF_vars(SyncClosed) /\ WF_vars(SyncMessages)
            /\ WF_vars(SyncReplace) /\ WF_vars(SyncAppend)
            /\ SF_vars(CheckHalts) /\ WF_vars(CheckMessages) /\ WF_vars(CheckAppend)
            /\ \A i \in 1 .. MaxMessages : WF_vars(Announce(i))

FairSpec == Spec /\ Fairness

-----------------------------------------------------------------------------
EventSet == [sym : Symbols, type : {"halt", "reopen", "supervisor"},
             text : Notice .. MaxMessages, at : Notice .. MaxMessages,
             src : {"sourcearena", "bourse-crawl"}]

TypeOK == /\ now \in 0 .. MaxTime /\ open \in BOOLEAN
          /\ closed \in [Symbols -> Listings \cup {"absent"}]
          /\ msgs \in Seq([sym : Symbols, kind : Kinds]) /\ Len(msgs) <= MaxMessages
          /\ halted \in SUBSET Symbols /\ checkedAt \in -1 .. MaxTime
          /\ events \subseteq EventSet
          /\ announced \in SUBSET (1 .. MaxMessages)
          /\ spc \in {"idle", "messages", "replace", "append"}
          /\ sclosed \in [Symbols -> Listings \cup {"absent"}]
          /\ sevents \subseteq EventSet
          /\ rpc \in {"idle", "messages", "send"}
          /\ rhalted \in SUBSET Symbols
          /\ rtodo \in SUBSET (1 .. MaxMessages) /\ rsent \in SUBSET (1 .. MaxMessages)
          /\ pread \in [Readers -> -1 .. MaxTime]
          /\ pstale \in [Readers -> BOOLEAN]
          /\ faults \in Nat

\* The rows of /halts are at least as recent as the check time shown above
\* them, although a sync may commit between the two queries.
PageNotOlderThanStamp == \A r \in Readers : ~ pstale[r]

\* What the history has of a message, whatever time it is given.
MessageEvents(i) == {e \in events : e.text = i}

\* The sync and the check both record a reopening, the list and the messages both
\* a halt, in either order and as often as they run; the history keeps it once,
\* apart from a halt under the date of a listed symbol without a message.
DatedByList(e) == msgs[e.text].kind = "halt" /\ e.at = Own
MessageRecordedOnce == \A i \in DOMAIN msgs :
    msgs[i].kind # "both" => Cardinality({e \in MessageEvents(i) : ~ DatedByList(e)}) <= 1

\* symbol_halts.go:53, "keep refreshing while the market is open": once the
\* feed is at rest, the table ends up as the feed.
HaltsFollowFeed == <>[](halted = Listed(closed))

\* Every message the vendor lists ends up in the history, whatever append
\* failed or was cut short before.
EveryMessageIsRecorded == \A i \in 1 .. MaxMessages :
    i <= Len(msgs) ~> \E e \in MessageEvents(i) : e.at = PublishedAt(i)

Pending(i) == /\ i \in DOMAIN msgs
              /\ msgs[i].sym \in halted
              /\ msgs[i].kind \in ReopenKinds
              /\ \A j \in DOMAIN msgs : j > i =>
                    ~ (msgs[j].sym = msgs[i].sym /\ msgs[j].kind \in ReopenKinds)
              /\ i \notin announced

\* A reopening of a halted symbol does not stay unannounced: it is sent,
\* unless the symbol leaves the table, or a newer reopening replaces it,
\* before the check gets to it.
ReopenIsAnnounced == \A i \in 1 .. MaxMessages : Pending(i) ~> ~ Pending(i)

\* CONTEXT.md:177, "a persisted historical record of one halt-related lifecycle
\* message": the history holds one event of each message, also of one that has
\* the keywords of a halt and of a reopening, and of a halt that the list, too,
\* has, with a date of its own.
MixedMessageOnce == \A i \in DOMAIN msgs :
    msgs[i].kind = "both" => Cardinality(MessageEvents(i)) <= 1
ListedMessageOnce == \A i \in DOMAIN msgs :
    msgs[i].kind = "halt" => Cardinality(MessageEvents(i)) <= 1
=============================================================================

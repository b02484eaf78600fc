-------------------------- MODULE SymbolHaltsProofs --------------------------
(***************************************************************************)
(* Proofs about SymbolHalts, for any symbols, any feeds of the vendor, any *)
(* faults and any number of pages: a page does not show rows older than    *)
(* its check time, and a message is recorded once.                         *)
(***************************************************************************)
EXTENDS SymbolHalts, FiniteSetTheorems, WellFoundedInduction, TLAPS

Message == [sym : Symbols, kind : Kinds]

\* Check times go up, and a page cannot have read one that is still to come.
StampInv == /\ checkedAt <= now
            /\ \A r \in Readers : pread[r] <= checkedAt

\* An event that was made from a message is the event of that message, or has
\* the date of a listing, unless the message says both that the symbol is halted
\* and that it is open again.
FromMessage(e) == /\ e.text <= Len(msgs)
                  /\ e.text \in DOMAIN msgs /\ msgs[e.text].kind # "both" =>
                        e = MessageEvent(e.text) \/ DatedByList(e)

\* Both writers of the history keep to it, and the check only announces what
\* the vendor lists as a reopening.
EventInv == /\ \A e \in events \cup sevents : FromMessage(e)
            /\ \A i \in rtodo \cup rsent : i \in DOMAIN msgs /\ msgs[i].kind \in ReopenKinds

IInv == TypeOK /\ StampInv /\ PageNotOlderThanStamp /\ EventInv

-----------------------------------------------------------------------------
\* The least and the greatest number of a set of message numbers.
LEMMA Least ==
    ASSUME NEW n \in Nat, NEW S \in SUBSET (1 .. n), S # {}
    PROVE  /\ \E x \in S : \A y \in S : x <= y
           /\ \E x \in S : \A y \in S : x >= y
<1> DEFINE R == OpToRel(<, Nat)
<1>1. IsWellFoundedOn(R, Nat)
  BY NatLessThanWellFounded
<1>2. \A x, y \in Nat : x < y => <<x, y>> \in R
  BY DEF OpToRel
<1> HIDE DEF R
<1>3. \A T \in SUBSET Nat : T # {} => \E x \in T : \A y \in T : x <= y
  <2> TAKE T \in SUBSET Nat
  <2> HAVE T # {}
  <2>1. PICK x \in T : \A y \in T : ~ (<<y, x>> \in R)
    BY <1>1, WFMin
  <2>2. ASSUME NEW y \in T PROVE x <= y
    <3>1. x \in Nat /\ y \in Nat
      OBVIOUS
    <3>2. ~ (y < x)
      BY <1>2, <2>1, <3>1
    <3> QED
      BY <3>1, <3>2
  <2> QED
    BY <2>2
<1>0. \A i, j, k \in Int : k - i <= k - j => i >= j
  OBVIOUS
<1> DEFINE T == {n - x : x \in S}
<1>4. /\ T \in SUBSET Nat /\ T # {}
      /\ \A y \in S : y \in Int /\ n - y \in T
      /\ \A t \in T : \E x \in S : t = n - x
  <2>1. \A x \in S : x \in Int /\ n - x \in Nat
    OBVIOUS
  <2>2. \A t \in T : t \in Nat
    BY <2>1
  <2>3. PICK x \in S : TRUE
    OBVIOUS
  <2>4. \A y \in S : n - y \in T
    OBVIOUS
  <2>5. \A t \in T : \E y \in S : t = n - y
    OBVIOUS
  <2> HIDE DEF T
  <2> QED
    BY <2>1, <2>2, <2>3, <2>4, <2>5
<1> HIDE DEF T
<1>5. PICK t \in T : \A u \in T : t <= u
  BY <1>3, <1>4
<1>6. PICK x \in S : t = n - x
  BY <1>4, <1>5
<1>7. ASSUME NEW y \in S PROVE x >= y
  <2>1. n - x <= n - y
    BY <1>4, <1>5, <1>6
  <2>2. x \in Int /\ y \in Int /\ n \in Int
    BY <1>4
  <2> QED
    BY <1>0, <2>1, <2>2
<1>8. S \in SUBSET Nat
  OBVIOUS
<1> QED
  BY <1>3, <1>7, <1>8

\* latestMessagesBySymbol finds a message of the symbol, of a wanted kind.
LEMMA LatestIsListed ==
    ASSUME TypeOK, NEW s \in Symbols, NEW kinds, LatestMessage(s, kinds) # 0
    PROVE  LET i == LatestMessage(s, kinds)
           IN  /\ i \in 1 .. Len(msgs) /\ i \in DOMAIN msgs
               /\ msgs[i].sym = s /\ msgs[i].kind \in kinds
<1> DEFINE kept == {i \in DOMAIN msgs : msgs[i].sym = s /\ msgs[i].kind \in kinds}
<1>1. Len(msgs) \in Nat /\ DOMAIN msgs = 1 .. Len(msgs)
  BY DEF TypeOK
<1>2. kept # {} /\ kept \in SUBSET (1 .. Len(msgs))
  BY <1>1 DEF LatestMessage
<1>3. /\ \E x \in kept : \A y \in kept : x <= y
      /\ \E x \in kept : \A y \in kept : x >= y
  <2> HIDE DEF kept
  <2> QED
    BY <1>1, <1>2, Least
<1>4. Max(kept) \in kept /\ Min(kept) \in kept
  BY <1>3 DEF Max, Min
<1>5. LatestMessage(s, kinds) \in kept
  BY <1>2, <1>4 DEF LatestMessage
<1> QED
  BY <1>1, <1>5

\* A message of the feed, and the events made from it, are well typed.
LEMMA MessageTyped ==
    ASSUME TypeOK, NEW i \in DOMAIN msgs
    PROVE  /\ i \in 1 .. MaxMessages /\ i <= Len(msgs)
           /\ msgs[i].sym \in Symbols /\ msgs[i].kind \in Kinds
           /\ MessageEvent(i) \in EventSet /\ ReopenEvent(i) \in EventSet
<1>1. /\ msgs \in Seq(Message) /\ Len(msgs) <= MaxMessages /\ MaxMessages \in Nat
      /\ DOMAIN msgs = 1 .. Len(msgs) /\ Len(msgs) \in Nat
  BY LimitAssumption DEF TypeOK, Message
<1>2. i \in 1 .. MaxMessages /\ i <= Len(msgs)
  BY <1>1
<1>3. msgs[i] \in Message
  BY <1>1
<1>4. msgs[i].sym \in Symbols /\ msgs[i].kind \in Kinds
  BY <1>3 DEF Message
<1>5. PublishedAt(i) \in Notice .. MaxMessages /\ i \in Notice .. MaxMessages
  BY <1>1, <1>2 DEF PublishedAt, Notice, Nothing
<1>6. EventType(i) \in {"halt", "reopen", "supervisor"}
  BY DEF EventType
<1>7. MessageEvent(i) \in EventSet /\ ReopenEvent(i) \in EventSet
  BY <1>4, <1>5, <1>6 DEF MessageEvent, ReopenEvent, Event, EventSet
<1> QED
  BY <1>2, <1>4, <1>7

\* The event of a listed symbol is well typed and, when its text is a
\* message's, is the event of that message or has the date of the listing.
LEMMA ListingFromMessage ==
    ASSUME TypeOK, NEW s \in Symbols, NEW notice,
           NEW i, i = 0 \/ i = LatestMessage(s, HaltKinds)
    PROVE  ListingEvent(s, i, notice) \in EventSet /\ FromMessage(ListingEvent(s, i, notice))
<1> DEFINE e == ListingEvent(s, i, notice)
           latestAt == IF i = 0 THEN Nothing ELSE PublishedAt(i)
<1>1. /\ MaxMessages \in Nat /\ Len(msgs) \in Nat /\ DOMAIN msgs = 1 .. Len(msgs)
      /\ Len(msgs) <= MaxMessages
  BY LimitAssumption DEF TypeOK
<1>2. /\ e.sym = s /\ e.type = "halt" /\ e.src \in {"sourcearena", "bourse-crawl"}
      /\ e.text \in {Own, Notice, i} /\ e.at \in {Own, Notice, latestAt}
      /\ e = Event(e.sym, e.type, e.text, e.at, e.src)
  BY DEF ListingEvent, Event
<1>3. e.text \notin {Own, Notice} => (e.at \in {Own, latestAt} /\ e.src = "sourcearena") \/ i = 0
  BY DEF ListingEvent, Event, Nothing, Own, Notice
<1> HIDE DEF e
<1>4. i = 0 \/ (/\ i \in DOMAIN msgs /\ i \in 1 .. MaxMessages /\ i <= Len(msgs)
                /\ msgs[i].sym = s /\ msgs[i].kind \in HaltKinds)
  <2>1. CASE i # 0
    <3>1. i \in DOMAIN msgs /\ msgs[i].sym = s /\ msgs[i].kind \in HaltKinds
      BY <2>1, LatestIsListed
    <3> QED
      BY <3>1, MessageTyped
  <2> QED
    BY <2>1
<1>5. e.text \in Notice .. MaxMessages /\ e.at \in Notice .. MaxMessages
  BY <1>1, <1>2, <1>4 DEF PublishedAt, Nothing, Own, Notice
<1>6. e \in EventSet
  BY <1>2, <1>5 DEF Event, EventSet
<1>7. CASE e.text \notin DOMAIN msgs
  <2>1. e.text <= Len(msgs)
    BY <1>1, <1>2, <1>4 DEF Own, Notice
  <2> QED
    BY <1>6, <1>7, <2>1 DEF FromMessage, e
<1>8. CASE e.text \in DOMAIN msgs
  <2>1. e.text \notin {Own, Notice} /\ e.text # 0
    BY <1>1, <1>8 DEF Own, Notice
  <2>2. /\ e.text = i /\ i # 0 /\ msgs[i].sym = s /\ msgs[i].kind \in HaltKinds /\ i <= Len(msgs)
        /\ e.at \in {Own, PublishedAt(i)} /\ e.src = "sourcearena"
    BY <1>2, <1>3, <1>4, <2>1
  <2>3. CASE e.at = PublishedAt(i)
    <3>1. e = MessageEvent(i)
      BY <1>2, <2>2, <2>3 DEF MessageEvent, EventType
    <3> QED
      BY <1>6, <2>2, <3>1 DEF FromMessage, e
  <2>4. CASE e.at = Own
    <3>1. msgs[i].kind # "both" => DatedByList(e)
      BY <2>2, <2>4 DEF DatedByList, HaltKinds
    <3> QED
      BY <1>6, <2>2, <3>1 DEF FromMessage, e
  <2> QED
    BY <2>2, <2>3, <2>4
<1> QED
  BY <1>7, <1>8

\* What FetchSupervisorMessages finds to announce.
LEMMA FoundIsReopening ==
    ASSUME TypeOK, NEW s \in Symbols, NEW i, i = LatestMessage(s, ReopenKinds), i # 0
    PROVE  i \in DOMAIN msgs /\ i \in 1 .. MaxMessages /\ msgs[i].kind \in ReopenKinds
<1>1. i \in DOMAIN msgs /\ msgs[i].kind \in ReopenKinds
  BY LatestIsListed
<1> QED
  BY <1>1, MessageTyped

-----------------------------------------------------------------------------
\* Every step of the sync, of the check, of a page and of the vendor keeps
\* the types.
LEMMA NextType == TypeOK /\ EventInv /\ [Next]_vars => TypeOK'
<1> SUFFICES ASSUME TypeOK, EventInv, [Next]_vars PROVE TypeOK'
  OBVIOUS
<1>0. MaxMessages \in Nat /\ MaxTime \in Nat
  BY LimitAssumption
<1>1. ASSUME NEW s \in Symbols, NEW how \in Listings \cup {"absent"}, ChangeListing(s, how)
      PROVE  TypeOK'
  BY <1>0, <1>1 DEF ChangeListing, Tick, TypeOK, store, sync, check, page
<1>2. ASSUME NEW s \in Symbols, NEW k \in Kinds, Publish(s, k) PROVE TypeOK'
  <2>1. msgs' \in Seq([sym : Symbols, kind : Kinds]) /\ Len(msgs') <= MaxMessages
    BY <1>0, <1>2 DEF Publish, TypeOK
  <2> QED
    BY <1>0, <1>2, <2>1 DEF Publish, Tick, TypeOK, store, sync, check, page
<1>3. ASSUME MarketHours PROVE TypeOK'
  BY <1>3 DEF MarketHours, TypeOK, store, sync, check, page
<1>4. ASSUME SyncClosed PROVE TypeOK'
  BY <1>4 DEF SyncClosed, Fault, TypeOK, vendor, store, sync, check, page
<1>5. ASSUME SyncMessages PROVE TypeOK'
  <2>1. PICK notices \in Notices :
           sevents' = {ListingEvent(s, LatestMessage(s, HaltKinds), notices[s])
                          : s \in Listed(sclosed)} \cup SupervisorEvents
           \/ sevents' = {ListingEvent(s, 0, notices[s]) : s \in Listed(sclosed)}
    BY <1>5 DEF SyncMessages
  <2>2. Listed(sclosed) \subseteq Symbols
    BY DEF Listed
  <2>3. \A s \in Symbols : /\ ListingEvent(s, LatestMessage(s, HaltKinds), notices[s]) \in EventSet
                            /\ ListingEvent(s, 0, notices[s]) \in EventSet
    <3> TAKE s \in Symbols
    <3> QED
      BY ListingFromMessage
  <2>4. SupervisorEvents \subseteq EventSet
    BY MessageTyped DEF SupervisorEvents
  <2>5. sevents' \subseteq EventSet
    BY <2>1, <2>2, <2>3, <2>4
  <2>6. faults' \in Nat
    BY <1>5 DEF SyncMessages, Fault, TypeOK
  <2> QED
    BY <1>5, <2>5, <2>6 DEF SyncMessages, TypeOK, vendor, store, check, page
<1>6. ASSUME SyncReplace PROVE TypeOK'
  <2>1. halted' \in SUBSET Symbols /\ checkedAt' \in -1 .. MaxTime /\ faults' \in Nat
    BY <1>0, <1>6 DEF SyncReplace, ReplaceHalts, Listed, Fault, TypeOK
  <2>2. /\ sclosed' \in [Symbols -> Listings \cup {"absent"}] /\ sevents' \subseteq EventSet
        /\ spc' \in {"idle", "messages", "replace", "append"}
    BY <1>6 DEF SyncReplace, SyncOver, Absent, TypeOK
  <2> QED
    BY <1>6, <2>1, <2>2 DEF SyncReplace, TypeOK, vendor, check, page
<1>7. ASSUME SyncAppend PROVE TypeOK'
  <2>1. events' \subseteq EventSet /\ faults' \in Nat
    BY <1>7 DEF SyncAppend, Fault, TypeOK
  <2> QED
    BY <1>7, <2>1 DEF SyncAppend, SyncOver, Absent, TypeOK, vendor, check, page
<1>8. ASSUME CheckHalts PROVE TypeOK'
  <2>1. /\ rpc' \in {"idle", "messages", "send"} /\ rhalted' \in SUBSET Symbols
        /\ UNCHANGED <<rtodo, rsent>>
    BY <1>8 DEF CheckHalts, TypeOK, check
  <2>2. faults' \in Nat
    BY <1>8 DEF CheckHalts, Fault, TypeOK
  <2> QED
    BY <1>8, <2>1, <2>2 DEF CheckHalts, TypeOK, vendor, store, sync, page
<1>9. ASSUME CheckMessages PROVE TypeOK'
  <2> DEFINE found == {LatestMessage(s, ReopenKinds) : s \in rhalted} \ {0}
  <2>1. found \subseteq 1 .. MaxMessages
    BY FoundIsReopening DEF TypeOK
  <2>2. /\ rpc' \in {"idle", "messages", "send"} /\ rhalted' \in SUBSET Symbols
        /\ rtodo' \in SUBSET (1 .. MaxMessages) /\ rsent' \in SUBSET (1 .. MaxMessages)
        /\ faults' \in Nat
    <3> HIDE DEF found
    <3>1. CheckOver \/ (rpc' = "send" /\ rtodo' = found /\ UNCHANGED <<rhalted, rsent>>)
      BY <1>9 DEF CheckMessages, found
    <3>2. faults' \in Nat
      BY <1>9 DEF CheckMessages, Fault, TypeOK
    <3> QED
      BY <2>1, <3>1, <3>2 DEF CheckOver, TypeOK
  <2> QED
    BY <1>9, <2>2 DEF CheckMessages, TypeOK, vendor, store, sync, page
<1>10. ASSUME NEW i \in 1 .. MaxMessages, Announce(i) PROVE TypeOK'
  <2>1. /\ rtodo' \in SUBSET (1 .. MaxMessages) /\ rsent' \in SUBSET (1 .. MaxMessages)
        /\ announced' \in SUBSET (1 .. MaxMessages)
    BY <1>10 DEF Announce, TypeOK
  <2>2. faults' \in Nat
    BY <1>10 DEF Announce, Fault, TypeOK
  <2> QED
    BY <1>10, <2>1, <2>2 DEF Announce, TypeOK, vendor, store, sync, page
<1>11. ASSUME CheckAppend PROVE TypeOK'
  <2>1. \A i \in rsent : ReopenEvent(i) \in EventSet
    BY MessageTyped DEF EventInv
  <2>2. events' \subseteq EventSet /\ faults' \in Nat
    BY <1>11, <2>1 DEF CheckAppend, Fault, TypeOK
  <2> QED
    BY <1>11, <2>2 DEF CheckAppend, CheckOver, TypeOK, vendor, sync, page
<1>12. ASSUME NEW r \in Readers, Page(r) PROVE TypeOK'
  <2>1. pread' \in [Readers -> -1 .. MaxTime]
    BY <1>0, <1>12 DEF Page, TypeOK
  <2>2. pstale' \in [Readers -> BOOLEAN]
    <3>1. (PageShows(r).rows < PageShows(r).stamp) \in BOOLEAN
      BY SMT
    <3> QED
      BY <1>12, <3>1 DEF Page, TypeOK
  <2> QED
    BY <1>12, <2>1, <2>2 DEF Page, TypeOK, vendor, store, sync, check
<1>13. ASSUME Crash PROVE TypeOK'
  <2>1. faults' \in Nat /\ pread' \in [Readers -> -1 .. MaxTime]
    BY <1>0, <1>13 DEF Crash, Fault, TypeOK
  <2> QED
    BY <1>13, <2>1 DEF Crash, SyncOver, CheckOver, Absent, TypeOK, vendor, store
<1>14. ASSUME UNCHANGED vars PROVE TypeOK'
  BY <1>14 DEF vars, TypeOK, vendor, store, sync, check, page
<1> QED
  BY <1>1, <1>2, <1>3, <1>4, <1>5, <1>6, <1>7, <1>8, <1>9, <1>10, <1>11, <1>12, <1>13, <1>14 DEF Next

-----------------------------------------------------------------------------
\* A page takes the check time first and the rows after it, and check times
\* go up with the clock of the vendor's changes, which no step turns back.
LEMMA NextStamp == TypeOK /\ StampInv /\ PageNotOlderThanStamp /\ [Next]_vars
                      => StampInv' /\ PageNotOlderThanStamp'
<1> SUFFICES ASSUME TypeOK, StampInv, PageNotOlderThanStamp, [Next]_vars
             PROVE  StampInv' /\ PageNotOlderThanStamp'
  OBVIOUS
<1>0. /\ now \in Nat /\ checkedAt \in Int /\ -1 <= checkedAt
      /\ \A r \in Readers : pread[r] \in Int
      /\ pread \in [Readers -> -1 .. MaxTime] /\ pstale \in [Readers -> BOOLEAN]
      /\ MaxTime \in Nat
  BY LimitAssumption DEF TypeOK
<1>1. ASSUME now' = now \/ now' = now + 1, UNCHANGED <<checkedAt, pread, pstale>>
      PROVE  StampInv' /\ PageNotOlderThanStamp'
  BY <1>0, <1>1 DEF StampInv, PageNotOlderThanStamp
<1>2. ASSUME NEW s \in Symbols, NEW how \in Listings \cup {"absent"}, ChangeListing(s, how)
      PROVE  StampInv' /\ PageNotOlderThanStamp'
  BY <1>1, <1>2 DEF ChangeListing, Tick, store, page
<1>3. ASSUME NEW s \in Symbols, NEW k \in Kinds, Publish(s, k)
      PROVE  StampInv' /\ PageNotOlderThanStamp'
  BY <1>1, <1>3 DEF Publish, Tick, store, page
<1>4. CASE MarketHours \/ SyncClosed \/ SyncMessages \/ SyncAppend
  BY <1>1, <1>4 DEF MarketHours, SyncClosed, SyncMessages, SyncAppend, vendor, store, page
<1>5. CASE CheckHalts \/ CheckMessages \/ CheckAppend
  BY <1>1, <1>5 DEF CheckHalts, CheckMessages, CheckAppend, vendor, store, page
<1>6. ASSUME NEW i \in 1 .. MaxMessages, Announce(i)
      PROVE  StampInv' /\ PageNotOlderThanStamp'
  BY <1>1, <1>6 DEF Announce, vendor, store, page
<1>7. CASE SyncReplace
  <2>1. (checkedAt' = now \/ checkedAt' = checkedAt) /\ UNCHANGED <<now, pread, pstale>>
    BY <1>7 DEF SyncReplace, vendor, page
  <2> QED
    BY <1>0, <2>1 DEF StampInv, PageNotOlderThanStamp
<1>8. ASSUME NEW r \in Readers, Page(r) PROVE StampInv' /\ PageNotOlderThanStamp'
  <2>1. UNCHANGED <<now, checkedAt>>
    BY <1>8 DEF Page, vendor, store
  <2>2. CASE pread' = [pread EXCEPT ![r] = checkedAt] /\ UNCHANGED pstale
    BY <1>0, <2>1, <2>2 DEF StampInv, PageNotOlderThanStamp
  <2>3. CASE /\ pread' = [pread EXCEPT ![r] = -1]
             /\ pstale' = [pstale EXCEPT ![r] = PageShows(r).rows < PageShows(r).stamp]
    <3>1. ~ (PageShows(r).rows < PageShows(r).stamp)
      BY <1>0 DEF PageShows, StampInv
    <3>2. PageNotOlderThanStamp'
      BY <1>0, <2>3, <3>1 DEF PageNotOlderThanStamp
    <3> QED
      BY <1>0, <2>1, <2>3, <3>2 DEF StampInv
  <2> QED
    BY <1>8, <2>2, <2>3 DEF Page
<1>9. CASE Crash
  <2>1. pread' = [r \in Readers |-> -1] /\ UNCHANGED <<now, checkedAt, pstale>>
    BY <1>9 DEF Crash, vendor, store
  <2> QED
    BY <1>0, <2>1 DEF StampInv, PageNotOlderThanStamp
<1>10. CASE UNCHANGED vars
  BY <1>1, <1>10 DEF vars, vendor, store, page
<1> QED
  BY <1>2, <1>3, <1>4, <1>5, <1>6, <1>7, <1>8, <1>9, <1>10 DEF Next

-----------------------------------------------------------------------------
\* What keeps the history made from the feed, as long as the feed stays.
LEMMA EventsKept ==
    ASSUME EventInv, UNCHANGED msgs,
           \A e \in events' \cup sevents' : e \in events \cup sevents \/ FromMessage(e),
           \A i \in rtodo' \cup rsent' : i \in rtodo \cup rsent
                                          \/ (i \in DOMAIN msgs /\ msgs[i].kind \in ReopenKinds)
    PROVE  EventInv'
<1>1. \A e : FromMessage(e)' <=> FromMessage(e)
  BY DEF FromMessage, MessageEvent, EventType, PublishedAt, DatedByList
<1> QED
  BY <1>1 DEF EventInv

LEMMA NextEvents == TypeOK /\ EventInv /\ [Next]_vars => EventInv'
<1> SUFFICES ASSUME TypeOK, EventInv, [Next]_vars PROVE EventInv'
  OBVIOUS
<1>1. ASSUME UNCHANGED <<msgs, events, sevents, rtodo, rsent>> PROVE EventInv'
  BY <1>1, EventsKept
<1>2. ASSUME NEW s \in Symbols, NEW how \in Listings \cup {"absent"}, ChangeListing(s, how)
      PROVE  EventInv'
  BY <1>1, <1>2 DEF ChangeListing, store, sync, check
<1>3. ASSUME NEW s \in Symbols, NEW k \in Kinds, Publish(s, k) PROVE EventInv'
  <2>1. /\ msgs' = Append(msgs, [sym |-> s, kind |-> k])
        /\ UNCHANGED <<events, sevents, rtodo, rsent>>
    BY <1>3 DEF Publish, store, sync, check
  <2>2. msgs \in Seq(Message) /\ [sym |-> s, kind |-> k] \in Message
    BY DEF TypeOK, Message
  <2>3. /\ DOMAIN msgs = 1 .. Len(msgs) /\ Len(msgs) \in Nat /\ Len(msgs') = Len(msgs) + 1
        /\ DOMAIN msgs' = 1 .. Len(msgs) + 1
        /\ \A i \in DOMAIN msgs : msgs'[i] = msgs[i]
    BY <2>1, <2>2
  <2>4. ASSUME NEW e \in events \cup sevents PROVE FromMessage(e)'
    <3>1. FromMessage(e) /\ e.text \in Int
      BY DEF EventInv, TypeOK, EventSet, Notice
    <3>2. e.text <= Len(msgs)'
      BY <2>3, <3>1 DEF FromMessage
    <3>3. ASSUME e.text \in DOMAIN msgs', msgs'[e.text].kind # "both"
          PROVE  (e = MessageEvent(e.text) \/ DatedByList(e))'
      <4>1. e.text \in DOMAIN msgs /\ msgs'[e.text] = msgs[e.text]
        BY <2>3, <3>1, <3>3 DEF FromMessage
      <4> QED
        BY <3>1, <3>3, <4>1 DEF FromMessage, MessageEvent, EventType, PublishedAt, DatedByList
    <3> QED
      BY <3>2, <3>3 DEF FromMessage
  <2>5. \A i \in rtodo \cup rsent : i \in DOMAIN msgs' /\ msgs'[i].kind \in ReopenKinds
    BY <2>3 DEF EventInv
  <2> QED
    BY <2>1, <2>4, <2>5 DEF EventInv
<1>4. CASE MarketHours \/ SyncClosed \/ CheckHalts
  BY <1>1, <1>4 DEF MarketHours, SyncClosed, CheckHalts, SyncOver, vendor, store, sync, check
<1>5. CASE SyncMessages
  <2>1. PICK notices \in Notices :
           sevents' = {ListingEvent(s, LatestMessage(s, HaltKinds), notices[s])
                          : s \in Listed(sclosed)} \cup SupervisorEvents
           \/ sevents' = {ListingEvent(s, 0, notices[s]) : s \in Listed(sclosed)}
    BY <1>5 DEF SyncMessages
  <2>2. Listed(sclosed) \subseteq Symbols
    BY DEF Listed
  <2>3. \A s \in Symbols : /\ FromMessage(ListingEvent(s, LatestMessage(s, HaltKinds), notices[s]))
                            /\ FromMessage(ListingEvent(s, 0, notices[s]))
    <3> TAKE s \in Symbols
    <3> QED
      BY ListingFromMessage
  <2>4. \A i \in DOMAIN msgs : FromMessage(MessageEvent(i))
    <3> TAKE i \in DOMAIN msgs
    <3>1. MessageEvent(i).text = i
      BY DEF MessageEvent, Event
    <3> QED
      BY <3>1, MessageTyped DEF FromMessage
  <2>5. \A e \in sevents' : FromMessage(e)
    BY <2>1, <2>2, <2>3, <2>4 DEF SupervisorEvents
  <2> QED
    BY <1>5, <2>5, EventsKept DEF SyncMessages, vendor, store, check
<1>6. CASE SyncReplace \/ SyncAppend
  <2>1. events' \subseteq events \cup sevents /\ sevents' \subseteq sevents
    BY <1>6 DEF SyncReplace, SyncAppend, SyncOver
  <2> QED
    BY <1>6, <2>1, EventsKept DEF SyncReplace, SyncAppend, vendor, check
<1>7. CASE CheckMessages
  <2> DEFINE found == {LatestMessage(s, ReopenKinds) : s \in rhalted} \ {0}
  <2>1. \A i \in found : i \in DOMAIN msgs /\ msgs[i].kind \in ReopenKinds
    BY FoundIsReopening DEF TypeOK
  <2>2. CheckOver \/ (rpc' = "send" /\ rtodo' = found /\ UNCHANGED <<rhalted, rsent>>)
    BY <1>7 DEF CheckMessages
  <2> HIDE DEF found
  <2>3. UNCHANGED <<msgs, events, sevents>>
    BY <1>7 DEF CheckMessages, vendor, store, sync
  <2> QED
    BY <2>1, <2>2, <2>3, EventsKept DEF CheckOver
<1>8. ASSUME NEW i \in 1 .. MaxMessages, Announce(i) PROVE EventInv'
  <2>1. rtodo' \subseteq rtodo /\ rsent' \subseteq rsent \cup rtodo
    BY <1>8 DEF Announce
  <2> QED
    BY <1>8, <2>1, EventsKept DEF Announce, vendor, store, sync
<1>9. CASE CheckAppend
  <2>1. \A i \in rsent : FromMessage(ReopenEvent(i))
    <3> TAKE i \in rsent
    <3>1. i \in DOMAIN msgs /\ msgs[i].kind \in ReopenKinds
      BY DEF EventInv
    <3>2. ReopenEvent(i).text = i /\ i <= Len(msgs)
      BY <3>1, MessageTyped DEF ReopenEvent, Event
    <3>3. msgs[i].kind # "both" => ReopenEvent(i) = MessageEvent(i)
      BY <3>1 DEF ReopenEvent, MessageEvent, EventType, ReopenKinds, HaltKinds
    <3> QED
      BY <3>1, <3>2, <3>3 DEF FromMessage
  <2>2. events' \subseteq events \cup {ReopenEvent(i) : i \in rsent} /\ rtodo' = {} /\ rsent' = {}
    BY <1>9 DEF CheckAppend, CheckOver
  <2>3. UNCHANGED <<msgs, sevents>>
    BY <1>9 DEF CheckAppend, vendor, sync
  <2> QED
    BY <2>1, <2>2, <2>3, EventsKept
<1>10. CASE Crash
  <2>1. UNCHANGED <<msgs, events>> /\ sevents' = {} /\ rtodo' = {} /\ rsent' = {}
    BY <1>10 DEF Crash, SyncOver, CheckOver, vendor, store
  <2> QED
    BY <2>1, EventsKept
<1>11. ASSUME NEW r \in Readers, Page(r) PROVE EventInv'
  BY <1>1, <1>11 DEF Page, vendor, store, sync, check
<1>12. CASE UNCHANGED vars
  BY <1>1, <1>12 DEF vars, vendor, store, sync, check
<1> QED
  BY <1>2, <1>3, <1>4, <1>5, <1>6, <1>7, <1>8, <1>9, <1>10, <1>11, <1>12 DEF Next

-----------------------------------------------------------------------------
LEMMA InitInv == Init => IInv
<1> SUFFICES ASSUME Init PROVE IInv
  OBVIOUS
<1>1. TypeOK
  <2>1. msgs \in Seq([sym : Symbols, kind : Kinds]) /\ Len(msgs) <= MaxMessages
    BY LimitAssumption DEF Init
  <2>2. now \in 0 .. MaxTime /\ checkedAt \in -1 .. MaxTime /\ faults \in Nat
    BY LimitAssumption DEF Init
  <2>3. pread \in [Readers -> -1 .. MaxTime] /\ pstale \in [Readers -> BOOLEAN]
    BY LimitAssumption DEF Init
  <2>4. Absent \in [Symbols -> Listings \cup {"absent"}]
    BY DEF Absent
  <2> QED
    BY <2>1, <2>2, <2>3, <2>4 DEF Init, TypeOK
<1>2. StampInv /\ PageNotOlderThanStamp
  BY DEF Init, StampInv, PageNotOlderThanStamp
<1>3. EventInv
  BY DEF Init, EventInv
<1> QED
  BY <1>1, <1>2, <1>3 DEF IInv

LEMMA NextInv == IInv /\ [Next]_vars => IInv'
BY NextType, NextStamp, NextEvents DEF IInv

\* The check times of the pages and the origin of every event, in every
\* behaviour.
LEMMA Invariant == Spec => []IInv
BY InitInv, NextInv, PTL DEF Spec

\* Every reachable state is well typed.
THEOREM TypeCorrect == Spec => []TypeOK
<1>1. IInv => TypeOK
  BY DEF IInv
<1> QED
  BY <1>1, Invariant, PTL

\* However syncs, page refreshes and crashes interleave, the two queries of
\* LatestSymbolHalts never put rows under a check time that is newer than
\* they are: the check time is read first, and both only go forward.
THEOREM PageIsNotOlder == Spec => []PageNotOlderThanStamp
<1>1. IInv => PageNotOlderThanStamp
  BY DEF IInv
<1> QED
  BY <1>1, Invariant, PTL

\* The history holds at most one event of a message, whoever recorded it and
\* how often, unless its text announces a halt and a reopening at once, and
\* apart from a halt under the date of a listed symbol without a message.
THEOREM MessagesRecordedOnce == Spec => []MessageRecordedOnce
<1>1. IInv => MessageRecordedOnce
  <2> SUFFICES ASSUME IInv, NEW i \in DOMAIN msgs, msgs[i].kind # "both"
               PROVE  Cardinality({e \in MessageEvents(i) : ~ DatedByList(e)}) <= 1
    BY DEF MessageRecordedOnce
  <2> DEFINE E == {e \in MessageEvents(i) : ~ DatedByList(e)}
  <2>1. E \subseteq {MessageEvent(i)}
    BY DEF IInv, EventInv, FromMessage, MessageEvents
  <2>2. IsFiniteSet({MessageEvent(i)}) /\ Cardinality({MessageEvent(i)}) = 1
    BY FS_Singleton
  <2> HIDE DEF E
  <2>3. IsFiniteSet(E) /\ Cardinality(E) <= Cardinality({MessageEvent(i)})
    BY <2>1, <2>2, FS_Subset
  <2>4. Cardinality(E) <= 1
    BY <2>2, <2>3, FS_CardinalityType
  <2> QED
    BY <2>4 DEF E
<1> QED
  BY <1>1, Invariant, PTL
=============================================================================

------------------------ MODULE AlertDeliveryProofs ------------------------
(***************************************************************************)
(* Proofs about AlertDelivery for every set of senders, keys and chats, and *)
(* about AlertStream for every set of clients and every channel capacity.  *)
(***************************************************************************)
EXTENDS AlertDelivery, AlertStream, TLAPS

USE DEF Never

\* While the process is down nothing is being sent.
DownIsQuiet == ~ up => \A s \in Senders : pc[s] = "idle"

\* The inductive invariant: the row of a key is taken before its sender
\* posts and outlives the posting, so a second claim cannot succeed.
SendInv == TypeOK /\ DownIsQuiet /\ SenderOwnsRow /\ OneSenderPerKey

\* Appending to the log of one chat keeps the log a log.
LEMMA DeliverType ==
    ASSUME NEW k \in Keys, NEW c \in Chats, TypeOK, Deliver(k, c)
    PROVE  copies' \in [Keys -> [Chats -> Seq(Nat)]]
<1>1. copies[k] \in [Chats -> Seq(Nat)] /\ copies[k][c] \in Seq(Nat) /\ now \in Nat
  BY DEF TypeOK
<1>2. Append(copies[k][c], now) \in Seq(Nat)
  BY <1>1
<1>3. [copies[k] EXCEPT ![c] = Append(copies[k][c], now)] \in [Chats -> Seq(Nat)]
  BY <1>1, <1>2
<1>4. copies' = [copies EXCEPT ![k] = [copies[k] EXCEPT ![c] = Append(copies[k][c], now)]]
  BY DEF Deliver, TypeOK
<1> QED
  BY <1>3, <1>4 DEF TypeOK

\* The invariant holds in every initial state.
LEMMA InitSendInv == Init => SendInv
<1> SUFFICES ASSUME Init PROVE SendInv
  OBVIOUS
<1>1. TypeOK
  <2>1. copies \in [Keys -> [Chats -> Seq(Nat)]]
    BY DEF Init
  <2>2. 1 \in 1 .. (NChats + 1)
    BY ChatAssumption
  <2> QED
    BY <2>1, <2>2 DEF Init, TypeOK
<1> QED
  BY <1>1 DEF Init, SendInv, DownIsQuiet, SenderOwnsRow, OneSenderPerKey

\* Every step of the program keeps it.
LEMMA NextSendInv == SendInv /\ [Next]_vars => SendInv'
<1> SUFFICES ASSUME SendInv, [Next]_vars PROVE SendInv'
  OBVIOUS
<1> USE DEF SendInv
<1>1. ASSUME NEW s \in Senders, NEW k \in Keys, Attempt(s, k) PROVE SendInv'
  <2>1. CASE TryClaimWins(s, k) /\ pc' = [pc EXCEPT ![s] = "posting"]
             /\ key' = [key EXCEPT ![s] = k] /\ orphans' = orphans \ {k}
             /\ UNCHANGED <<next, failed, faults>>
    <3>1. TypeOK'
      BY <1>1, <2>1 DEF TypeOK, Attempt, TryClaimWins
    <3>2. DownIsQuiet'
      BY <1>1 DEF Attempt, DownIsQuiet
    <3>3. \A t \in Senders : t # s => pc'[t] = pc[t] /\ key'[t] = key[t]
      BY <2>1 DEF TypeOK
    <3>4. pc'[s] = "posting" /\ key'[s] = k /\ sentAt'[k] = now
      BY <2>1 DEF TypeOK, TryClaimWins
    <3>5. \A t \in Senders : pc[t] = "posting" => key[t] # k
      BY <2>1 DEF TryClaimWins, SenderOwnsRow
    <3>6. \A j \in Keys : j # k => sentAt'[j] = sentAt[j]
      BY <2>1 DEF TypeOK, TryClaimWins
    <3>7. SenderOwnsRow'
      BY <3>3, <3>4, <3>5, <3>6 DEF SenderOwnsRow, TypeOK
    <3>8. OneSenderPerKey'
      BY <3>3, <3>4, <3>5 DEF OneSenderPerKey
    <3> QED
      BY <3>1, <3>2, <3>7, <3>8
  <2>2. CASE UNCHANGED <<sentAt, jobs>> /\ answer' \in [Senders -> {"none", "won", "suppressed", "error"}]
             /\ orphans' = orphans /\ faults' \in Nat
    BY <1>1, <2>2 DEF Attempt, TypeOK, jobs, DownIsQuiet, SenderOwnsRow, OneSenderPerKey
  <2>3. TryClaimRefuses(s, k) => answer' \in [Senders -> {"none", "won", "suppressed", "error"}]
    BY DEF TryClaimRefuses, TypeOK
  <2>4. Fault("db") => faults' \in Nat
    BY DEF Fault, TypeOK
  <2>5. answer' = [answer EXCEPT ![s] = "error"]
          => answer' \in [Senders -> {"none", "won", "suppressed", "error"}]
    BY DEF TypeOK
  <2>6. TryClaimRefuses(s, k) => sentAt' = sentAt
    BY DEF TryClaimRefuses
  <2>7. faults \in Nat
    BY DEF TypeOK
  <2> QED
    BY <1>1, <2>1, <2>2, <2>3, <2>4, <2>5, <2>6, <2>7 DEF Attempt
<1>2. ASSUME NEW s \in Senders, Post(s) PROVE SendInv'
  <2>1. key[s] \in Keys /\ next[s] \in Chats
    BY <1>2, ChatAssumption DEF Post, MoreChats, TypeOK, Chats
  <2>2. copies' \in [Keys -> [Chats -> Seq(Nat)]]
    BY <1>2, <2>1, DeliverType DEF Post, MoreChats, TypeOK
  <2>3. next' \in [Senders -> 1 .. (NChats + 1)]
    BY <1>2, <2>1, ChatAssumption DEF Post, MoreChats, TypeOK, Chats
  <2>4. failed' \in [Senders -> BOOLEAN]
    <3>1. failed' = failed \/ failed' = [failed EXCEPT ![s] = TRUE]
      BY <1>2 DEF Post, MoreChats
    <3> QED
      BY <3>1, Zenon DEF TypeOK
  <2>6. faults' \in Nat
    BY <1>2 DEF Post, MoreChats, TypeOK, Fault
  <2>5. UNCHANGED <<now, up, sentAt, pc, key, answer, confirmed, orphans>>
    BY <1>2 DEF Post, MoreChats, table
  <2> QED
    BY <2>2, <2>3, <2>4, <2>5, <2>6 DEF TypeOK, DownIsQuiet, SenderOwnsRow, OneSenderPerKey
<1>3. ASSUME NEW s \in Senders, Settle(s) PROVE SendInv'
  <2>1. key[s] \in Keys /\ pc[s] = "posting" /\ up
    BY <1>3 DEF Settle, MoreChats, TypeOK
  <2>2. sentAt' \in [Keys -> Nat \cup {Never}]
    BY <1>3 DEF Settle, MoreChats, TypeOK, table, ReleaseRow
  <2>3. confirmed' \in [Keys -> Nat \cup {Never}] /\ orphans' \in SUBSET Keys /\ faults' \in Nat
    <3>1. confirmed' = confirmed \/ confirmed' = [confirmed EXCEPT ![key[s]] = sentAt[key[s]]]
      BY <1>3 DEF Settle, MoreChats
    <3>2. orphans' = orphans \/ orphans' = orphans \cup {key[s]}
      BY <1>3 DEF Settle, MoreChats
    <3>3. faults' = faults \/ faults' = faults + 1
      BY <1>3 DEF Settle, MoreChats, Fault
    <3>4. confirmed' \in [Keys -> Nat \cup {Never}]
      BY <2>1, <3>1 DEF TypeOK
    <3> QED
      BY <2>1, <3>2, <3>3, <3>4 DEF TypeOK
  <2>4. next' \in [Senders -> 1 .. (NChats + 1)]
        /\ pc' \in [Senders -> {"idle", "posting"}]
    BY <1>3, ChatAssumption DEF Settle, MoreChats, TypeOK
  <2>4b. failed' \in [Senders -> BOOLEAN]
    <3>1. failed' = [failed EXCEPT ![s] = FALSE]
      BY <1>3 DEF Settle, MoreChats
    <3> QED
      BY <3>1, Zenon DEF TypeOK
  <2>5. UNCHANGED <<now, up, key, answer, copies>>
    BY <1>3 DEF Settle, MoreChats
  <2>6. TypeOK'
    BY <2>2, <2>3, <2>4, <2>4b, <2>5 DEF TypeOK
  <2>7. \A t \in Senders : pc'[t] = "posting" => t # s /\ pc[t] = "posting"
    BY <1>3 DEF Settle, MoreChats, TypeOK
  <2>8. \A j \in Keys : j # key[s] => sentAt'[j] = sentAt[j]
    BY <1>3 DEF Settle, MoreChats, TypeOK, table, ReleaseRow
  <2>9. SenderOwnsRow'
    BY <2>1, <2>5, <2>7, <2>8 DEF SenderOwnsRow, OneSenderPerKey, TypeOK
  <2>10. OneSenderPerKey' /\ DownIsQuiet'
    BY <2>1, <2>5, <2>7 DEF OneSenderPerKey, DownIsQuiet
  <2> QED
    BY <2>6, <2>9, <2>10
<1>4. CASE Crash
  <2>1. TypeOK'
    <3>1. up' \in BOOLEAN /\ failed' \in [Senders -> BOOLEAN]
      BY <1>4 DEF Crash
    <3>2. pc' \in [Senders -> {"idle", "posting"}] /\ next' \in [Senders -> 1 .. (NChats + 1)]
      BY <1>4, ChatAssumption DEF Crash
    <3>3. orphans' \in SUBSET Keys /\ faults' \in Nat
      BY <1>4 DEF Crash, TypeOK, Fault
    <3> QED
      BY <1>4, <3>1, <3>2, <3>3 DEF Crash, TypeOK, table
  <2> QED
    BY <1>4, <2>1 DEF Crash, DownIsQuiet, SenderOwnsRow, OneSenderPerKey
<1>5. CASE Restart
  <2>1. TypeOK'
    BY <1>5 DEF Restart, PruneOnStart, TypeOK, jobs, seen
  <2>2. \A s \in Senders : pc'[s] = "idle"
    BY <1>5 DEF Restart, jobs, DownIsQuiet
  <2> QED
    BY <2>1, <2>2 DEF DownIsQuiet, SenderOwnsRow, OneSenderPerKey
<1>6. CASE Tick
  BY <1>6 DEF Tick, TypeOK, table, jobs, seen, DownIsQuiet, SenderOwnsRow, OneSenderPerKey
<1>7. CASE UNCHANGED vars
  BY <1>7 DEF vars, TypeOK, table, jobs, seen, DownIsQuiet, SenderOwnsRow, OneSenderPerKey
<1> QED
  BY <1>1, <1>2, <1>3, <1>4, <1>5, <1>6, <1>7 DEF Next

\* In every behaviour of send, the variables keep their types, a row backs
\* every send, and no key is being sent twice at the same time.
THEOREM SendInvariant == Spec => []SendInv
<1> QED
  BY InitSendInv, NextSendInv, PTL DEF Spec

\* Type correctness of the alert history and the senders.
THEOREM TypeCorrect == Spec => []TypeOK
<1>1. SendInv => TypeOK
  BY DEF SendInv
<1> QED
  BY <1>1, SendInvariant, PTL

\* Mutual exclusion of TryClaim: at most one sender per alert key.
THEOREM MutualExclusion == Spec => []OneSenderPerKey
<1>1. SendInv => OneSenderPerKey
  BY DEF SendInv
<1> QED
  BY <1>1, SendInvariant, PTL

\* Neither Release nor pruning takes the row of a send in progress.
THEOREM RowOutlivesSend == Spec => []SenderOwnsRow
<1>1. SendInv => SenderOwnsRow
  BY DEF SendInv
<1> QED
  BY <1>1, SendInvariant, PTL

-----------------------------------------------------------------------------
\* Why a confirmed alert stays quiet: until its window is over its row is in
\* the table and nobody is sending the key.
Quiet(k) == confirmed[k] # Never =>
    \/ now > confirmed[k] + Window
    \/ sentAt[k] = confirmed[k] /\ ~ InFlight(k)

QuietInv == \A k \in Keys : Quiet(k)

\* The quiet invariant holds initially and is kept by every step.
LEMMA NextQuietInv == QuietInv /\ SendInv /\ [Next]_vars => QuietInv'
<1> SUFFICES ASSUME QuietInv, SendInv, [Next]_vars, NEW k \in Keys PROVE Quiet(k)'
  BY DEF QuietInv
<1>0. /\ now \in Nat /\ Window \in Nat
      /\ sentAt[k] \in Nat \cup {Never} /\ confirmed[k] \in Nat \cup {Never}
      /\ Quiet(k)
  BY WindowAssumption DEF QuietInv, SendInv, TypeOK
<1>1. ASSUME NEW s \in Senders, NEW j \in Keys, Attempt(s, j) PROVE Quiet(k)'
  <2>1. now' = now /\ confirmed' = confirmed
    BY <1>1 DEF Attempt
  <2>2. CASE j # k
    <3>1. sentAt'[k] = sentAt[k]
      BY <1>1, <2>2 DEF Attempt, TryClaimWins, TryClaimRefuses, SendInv, TypeOK
    <3>2. InFlight(k)' => InFlight(k)
      BY <1>1, <2>2 DEF Attempt, InFlight, jobs, SendInv, TypeOK
    <3> QED
      BY <1>0, <2>1, <3>1, <3>2 DEF Quiet
  <2>3. CASE j = k /\ sentAt[k] # Never
    <3>1. UNCHANGED <<sentAt, jobs>>
      BY <1>1, <2>3 DEF Attempt, TryClaimWins, TryClaimRefuses
    <3> QED
      BY <1>0, <2>1, <3>1 DEF Quiet, InFlight, jobs
  <2>4. CASE j = k /\ sentAt[k] = Never
    BY <1>0, <2>1, <2>4 DEF Quiet
  <2> QED
    BY <2>2, <2>3, <2>4
<1>2. ASSUME NEW s \in Senders, Post(s) PROVE Quiet(k)'
  BY <1>0, <1>2 DEF Post, MoreChats, table, Quiet, InFlight
<1>3. ASSUME NEW s \in Senders, Settle(s) PROVE Quiet(k)'
  <2>1. now' = now /\ key' = key /\ key[s] \in Keys /\ pc[s] = "posting"
    BY <1>3 DEF Settle, MoreChats, SendInv, TypeOK
  <2>2. \A t \in Senders : pc'[t] = "posting" => pc[t] = "posting" /\ t # s
    BY <1>3 DEF Settle, MoreChats, SendInv, TypeOK
  <2>3. CASE key[s] # k
    <3>1. sentAt'[k] = sentAt[k] /\ confirmed'[k] = confirmed[k]
      BY <1>3, <2>1, <2>3 DEF Settle, MoreChats, table, ReleaseRow, SendInv, TypeOK
    <3>2. InFlight(k)' => InFlight(k)
      BY <2>1, <2>2 DEF InFlight
    <3> QED
      BY <1>0, <2>1, <3>1, <3>2 DEF Quiet
  <2>4. CASE key[s] = k /\ ~ failed[s]
    <3>1. sentAt' = sentAt /\ confirmed'[k] = sentAt[k]
      BY <1>3, <2>1, <2>4 DEF Settle, MoreChats, table, SendInv, TypeOK
    <3>2. ~ InFlight(k)'
      BY <2>1, <2>2, <2>4 DEF InFlight, SendInv, OneSenderPerKey
    <3> QED
      BY <1>0, <3>1, <3>2 DEF Quiet
  <2>5. CASE key[s] = k /\ failed[s]
    <3>1. confirmed' = confirmed
      BY <1>3, <2>5 DEF Settle, MoreChats
    <3>2. InFlight(k)
      BY <2>1, <2>5 DEF InFlight
    <3> QED
      BY <1>0, <2>1, <3>1, <3>2 DEF Quiet
  <2> QED
    BY <2>3, <2>4, <2>5
<1>4. CASE Crash
  BY <1>0, <1>4 DEF Crash, table, Quiet, InFlight
<1>5. CASE Restart
  <2>1. now' = now /\ confirmed' = confirmed /\ pc' = pc /\ key' = key
    BY <1>5 DEF Restart, jobs, seen
  <2>2. sentAt'[k] = IF sentAt[k] < now - Window THEN Never ELSE sentAt[k]
    BY <1>5 DEF Restart, PruneOnStart
  <2>3. InFlight(k)' = InFlight(k)
    BY <2>1 DEF InFlight
  <2> QED
    BY <1>0, <2>1, <2>2, <2>3 DEF Quiet
<1>6. CASE Tick
  BY <1>0, <1>6 DEF Tick, table, jobs, seen, Quiet, InFlight
<1>7. CASE UNCHANGED vars
  BY <1>0, <1>7 DEF vars, table, jobs, seen, Quiet, InFlight
<1> QED
  BY <1>1, <1>2, <1>3, <1>4, <1>5, <1>6, <1>7 DEF Next

\* A chat hears of a key only through a sender that is posting it, and nobody
\* is posting a key whose last confirmed send is younger than the window.
LEMMA QuietStep ==
    QuietInv /\ SendInv /\ [Next]_vars =>
        \A k \in Keys, c \in Chats : copies'[k][c] # copies[k][c] /\ confirmed[k] # Never
            => now >= confirmed[k] + Window
<1> SUFFICES ASSUME QuietInv, SendInv, [Next]_vars, NEW k \in Keys, NEW c \in Chats,
                    copies'[k][c] # copies[k][c], confirmed[k] # Never
             PROVE  now >= confirmed[k] + Window
  OBVIOUS
<1>1. PICK s \in Senders : Post(s)
  BY DEF Next, Attempt, Settle, Crash, Restart, Tick, vars, seen
<1>2. key[s] \in Keys /\ copies \in [Keys -> [Chats -> Seq(Nat)]]
  BY DEF SendInv, TypeOK
<1>3. key[s] = k
  BY <1>1, <1>2 DEF Post, MoreChats, Deliver
<1>4. InFlight(k)
  BY <1>1, <1>3 DEF Post, MoreChats, InFlight
<1>5. now \in Nat /\ Window \in Nat /\ confirmed[k] \in Nat
  BY WindowAssumption DEF SendInv, TypeOK
<1> QED
  BY <1>4, <1>5 DEF QuietInv, Quiet

\* Once a send returned true, every chat is left alone for the whole window,
\* for any number of senders, chats, crashes and restarts.
THEOREM ConfirmedStaysQuiet == Spec => ConfirmedIsQuiet
<1>1. Init => QuietInv
  BY DEF Init, QuietInv, Quiet
<1>2. QuietInv /\ SendInv /\ [Next]_vars =>
        [\A k \in Keys, c \in Chats : copies'[k][c] # copies[k][c] /\ confirmed[k] # Never
            => now >= confirmed[k] + Window]_vars
  BY QuietStep
<1> QED
  BY <1>1, <1>2, NextQuietInv, SendInvariant, PTL DEF Spec, ConfirmedIsQuiet

-----------------------------------------------------------------------------
\* What a row says: the chats behind the sender's place in its loop have the
\* alert, unless a post failed, and the row is not from the future.
Reached(k, c) == \E i \in DOMAIN copies[k][c] : copies[k][c][i] >= sentAt[k]

ReachedInv == \A s \in Senders :
    /\ \A k \in Keys, c \in Chats :
          pc[s] = "posting" /\ key[s] = k /\ ~ failed[s] /\ c < next[s] => Reached(k, c)
    /\ pc[s] = "idle" => next[s] = 1

PastInv == \A k \in Keys : sentAt[k] # Never => sentAt[k] <= now

RowInv == ReachedInv /\ PastInv /\ RowIsAccountedFor

\* A delivery reaches its chat and takes nothing from the others.
LEMMA DeliverReaches ==
    ASSUME SendInv, PastInv, NEW k \in Keys, NEW c \in Chats, Deliver(k, c),
           UNCHANGED sentAt, sentAt[k] # Never
    PROVE  /\ Reached(k, c)'
           /\ \A j \in Keys, d \in Chats : Reached(j, d) => Reached(j, d)'
<1>1. /\ copies \in [Keys -> [Chats -> Seq(Nat)]] /\ now \in Nat
      /\ sentAt[k] \in Nat /\ sentAt[k] <= now
  BY DEF SendInv, TypeOK, PastInv
<1>2. /\ copies'[k][c] = Append(copies[k][c], now)
      /\ \A j \in Keys, d \in Chats : j # k \/ d # c => copies'[j][d] = copies[j][d]
  BY <1>1 DEF Deliver
<1>3. copies[k][c] \in Seq(Nat)
  BY <1>1
<1>4. /\ DOMAIN copies'[k][c] = 1 .. (Len(copies[k][c]) + 1) /\ Len(copies[k][c]) \in Nat
      /\ DOMAIN copies[k][c] = 1 .. Len(copies[k][c])
      /\ copies'[k][c][Len(copies[k][c]) + 1] = now
      /\ \A i \in DOMAIN copies[k][c] : copies'[k][c][i] = copies[k][c][i]
  BY <1>1, <1>2, <1>3
<1>5. Reached(k, c)'
  <2>1. Len(copies[k][c]) + 1 \in DOMAIN copies'[k][c]
    BY <1>4
  <2>2. copies'[k][c][Len(copies[k][c]) + 1] >= sentAt'[k]
    BY <1>1, <1>4
  <2> QED
    BY <2>1, <2>2 DEF Reached
<1>6. ASSUME NEW j \in Keys, NEW d \in Chats, Reached(j, d) PROVE Reached(j, d)'
  <2>1. CASE j = k /\ d = c
    BY <1>5, <2>1
  <2>2. CASE j # k \/ d # c
    BY <1>2, <1>6, <2>2 DEF Reached
  <2> QED
    BY <2>1, <2>2
<1> QED
  BY <1>5, <1>6

\* Every step keeps what the rows say.
LEMMA NextRowInv == RowInv /\ SendInv /\ [Next]_vars => RowInv'
<1> SUFFICES ASSUME RowInv, SendInv, [Next]_vars PROVE RowInv'
  OBVIOUS
<1>0. /\ now \in Nat /\ \A j \in Keys : sentAt[j] \in Nat \cup {Never}
      /\ ReachedInv /\ PastInv /\ RowIsAccountedFor
      /\ \A t \in Senders : key[t] \in Keys /\ next[t] \in Nat /\ failed[t] \in BOOLEAN
      /\ \A t \in Senders : pc[t] = "posting" => sentAt[key[t]] # Never
      /\ \A c \in Chats : c \in Nat /\ c >= 1 /\ c <= NChats
      /\ NChats \in Nat
  BY ChatAssumption DEF RowInv, SendInv, TypeOK, SenderOwnsRow, Chats
<1>1. ASSUME NEW s \in Senders, NEW k \in Keys, Attempt(s, k) PROVE RowInv'
  <2>0. UNCHANGED <<now, copies, confirmed>> /\ pc[s] = "idle"
    BY <1>1 DEF Attempt
  <2>1. CASE UNCHANGED <<sentAt, jobs, orphans>>
    BY <1>0, <2>0, <2>1 DEF jobs, RowInv, ReachedInv, PastInv, RowIsAccountedFor, Reached, InFlight
  <2>2. CASE /\ TryClaimWins(s, k) /\ pc' = [pc EXCEPT ![s] = "posting"]
             /\ key' = [key EXCEPT ![s] = k] /\ orphans' = orphans \ {k}
             /\ UNCHANGED <<next, failed>>
    <3>1. /\ pc'[s] = "posting" /\ key'[s] = k /\ sentAt[k] = Never /\ sentAt'[k] = now
          /\ \A t \in Senders : t # s => pc'[t] = pc[t] /\ key'[t] = key[t]
          /\ \A j \in Keys : j # k => sentAt'[j] = sentAt[j]
      BY <2>2 DEF TryClaimWins, SendInv, TypeOK
    <3>2. \A t \in Senders : pc[t] = "posting" => key[t] # k
      BY <1>0, <3>1
    <3>3. ReachedInv'
      <4>1. ASSUME NEW t \in Senders, NEW j \in Keys, NEW c \in Chats,
                   pc'[t] = "posting", key'[t] = j, ~ failed'[t], c < next'[t]
            PROVE  Reached(j, c)'
        <5>1. t # s
          BY <1>0, <2>0, <2>2, <4>1 DEF ReachedInv
        <5>2. Reached(j, c)
          BY <1>0, <2>2, <3>1, <4>1, <5>1 DEF ReachedInv
        <5>3. sentAt'[j] = sentAt[j]
          BY <1>0, <3>1, <3>2, <4>1, <5>1
        <5> QED
          BY <2>0, <3>1, <5>1, <5>2, <5>3 DEF Reached
      <4>2. \A t \in Senders : pc'[t] = "idle" => next'[t] = 1
        BY <1>0, <2>2, <3>1 DEF ReachedInv
      <4> QED
        BY <4>1, <4>2 DEF ReachedInv
    <3>4. PastInv'
      BY <1>0, <2>0, <3>1 DEF PastInv
    <3>5. RowIsAccountedFor'
      <4> SUFFICES ASSUME NEW j \in Keys, sentAt'[j] # Never, ~ InFlight(j)', j \notin orphans'
                   PROVE  confirmed'[j] = sentAt'[j] /\ \A c \in Chats : Reached(j, c)'
        BY DEF RowIsAccountedFor, Reached
      <4>1. j # k
        BY <3>1 DEF InFlight
      <4>2. ~ InFlight(j)
        BY <2>0, <3>1 DEF InFlight
      <4>3. confirmed[j] = sentAt[j] /\ \A c \in Chats : Reached(j, c)
        BY <1>0, <2>2, <3>1, <4>1, <4>2 DEF RowIsAccountedFor, Reached
      <4> QED
        BY <2>0, <3>1, <4>1, <4>3 DEF Reached
    <3> QED
      BY <3>3, <3>4, <3>5 DEF RowInv
  <2> QED
    BY <1>1, <2>1, <2>2 DEF Attempt, TryClaimRefuses
<1>2. ASSUME NEW s \in Senders, Post(s) PROVE RowInv'
  <2>1. /\ pc[s] = "posting" /\ next[s] \in Chats /\ next[s] \in Nat /\ key[s] \in Keys
        /\ sentAt[key[s]] # Never
    BY <1>0, <1>2 DEF Post, MoreChats, SendInv, TypeOK, Chats
  <2>2. /\ UNCHANGED <<now, sentAt, pc, key, confirmed, orphans>>
        /\ next'[s] = next[s] + 1 /\ \A t \in Senders : t # s => next'[t] = next[t]
        /\ \A t \in Senders : t # s => failed'[t] = failed[t]
    BY <1>2 DEF Post, MoreChats, table, SendInv, TypeOK
  <2>3. \A j \in Keys, d \in Chats : Reached(j, d) => Reached(j, d)'
    <3>1. CASE UNCHANGED copies
      BY <2>2, <3>1 DEF Reached
    <3>2. CASE Deliver(key[s], next[s])
      BY <1>0, <2>1, <2>2, <3>2, DeliverReaches
    <3> QED
      BY <1>2, <3>1, <3>2 DEF Post
  <2>4. ASSUME ~ failed'[s], NEW k \in Keys, NEW c \in Chats, k = key[s], c = next[s]
        PROVE  ~ failed[s] /\ Reached(k, c)'
    <3>1. failed' # [failed EXCEPT ![s] = TRUE]
      BY <2>4, Zenon DEF SendInv, TypeOK
    <3>2. Deliver(k, c) /\ failed' = failed
      BY <1>2, <2>4, <3>1 DEF Post
    <3>3. Reached(k, c)'
      BY <1>0, <2>1, <2>2, <2>4, <3>2, DeliverReaches
    <3> QED
      BY <2>4, <3>2, <3>3
  <2>5. ReachedInv'
    <3>1. ASSUME NEW t \in Senders, NEW k \in Keys, NEW c \in Chats,
                 pc'[t] = "posting", key'[t] = k, ~ failed'[t], c < next'[t]
          PROVE  Reached(k, c)'
      <4>1. CASE t # s
        <5>1. Reached(k, c)
          BY <1>0, <2>2, <3>1, <4>1 DEF ReachedInv
        <5> QED
          BY <2>3, <5>1
      <4>2. CASE t = s /\ c < next[s]
        <5>1. ~ failed[s]
          BY <2>1, <2>4, <3>1, <4>2
        <5>2. Reached(k, c)
          BY <1>0, <2>2, <3>1, <4>2, <5>1 DEF ReachedInv
        <5> QED
          BY <2>3, <5>2
      <4>3. CASE t = s /\ c = next[s]
        BY <2>2, <2>4, <3>1, <4>3
      <4> QED
        BY <1>0, <2>1, <2>2, <3>1, <4>1, <4>2, <4>3
    <3>2. \A t \in Senders : pc'[t] = "idle" => next'[t] = 1
      BY <1>0, <2>1, <2>2 DEF ReachedInv
    <3> QED
      BY <3>1, <3>2 DEF ReachedInv
  <2>6. PastInv'
    BY <1>0, <2>2 DEF PastInv
  <2>7. RowIsAccountedFor'
    BY <1>0, <2>2, <2>3 DEF RowIsAccountedFor, Reached, InFlight
  <2> QED
    BY <2>5, <2>6, <2>7 DEF RowInv
<1>3. ASSUME NEW s \in Senders, Settle(s) PROVE RowInv'
  <2> DEFINE k == key[s]
  <2>1. /\ pc[s] = "posting" /\ k \in Keys /\ sentAt[k] # Never /\ \A c \in Chats : c < next[s]
        /\ UNCHANGED <<now, copies, key>>
    BY <1>0, <1>3 DEF Settle, MoreChats
  <2>2. /\ pc'[s] = "idle" /\ next'[s] = 1
        /\ \A t \in Senders : t # s => pc'[t] = pc[t] /\ next'[t] = next[t]
        /\ \A t \in Senders : t # s => failed'[t] = failed[t]
    BY <1>3 DEF Settle, MoreChats, SendInv, TypeOK
  <2>3. \A t \in Senders : t # s /\ pc[t] = "posting" => key[t] # k
    BY <2>1 DEF SendInv, OneSenderPerKey
  <2>4. \A j \in Keys : j # k => sentAt'[j] = sentAt[j] /\ confirmed'[j] = confirmed[j]
                                 /\ (j \in orphans <=> j \in orphans')
    BY <1>3, <2>1 DEF Settle, MoreChats, table, ReleaseRow, SendInv, TypeOK
  <2>5. sentAt'[k] = sentAt[k] \/ sentAt'[k] = Never
    BY <1>3, <2>1 DEF Settle, MoreChats, table, ReleaseRow, SendInv, TypeOK
  <2>6. ReachedInv'
    <3>1. ASSUME NEW t \in Senders, NEW j \in Keys, NEW c \in Chats,
                 pc'[t] = "posting", key'[t] = j, ~ failed'[t], c < next'[t]
          PROVE  Reached(j, c)'
      <4>1. t # s /\ pc[t] = "posting" /\ key[t] = j
        BY <2>1, <2>2, <3>1
      <4>2. Reached(j, c)
        BY <1>0, <2>2, <3>1, <4>1 DEF ReachedInv
      <4>3. sentAt'[j] = sentAt[j]
        BY <1>0, <2>3, <2>4, <4>1
      <4> QED
        BY <2>1, <4>2, <4>3 DEF Reached
    <3>2. \A t \in Senders : pc'[t] = "idle" => next'[t] = 1
      BY <1>0, <2>2 DEF ReachedInv
    <3> QED
      BY <3>1, <3>2 DEF ReachedInv
  <2>7. PastInv'
    BY <1>0, <2>1, <2>4, <2>5 DEF PastInv
  <2>8. RowIsAccountedFor'
    <3> SUFFICES ASSUME NEW j \in Keys, sentAt'[j] # Never, ~ InFlight(j)', j \notin orphans'
                 PROVE  confirmed'[j] = sentAt'[j] /\ \A c \in Chats : Reached(j, c)'
      BY DEF RowIsAccountedFor, Reached
    <3>1. CASE j # k
      <4>1. ~ InFlight(j)
        BY <2>1, <2>2, <3>1 DEF InFlight
      <4>2. confirmed[j] = sentAt[j] /\ \A c \in Chats : Reached(j, c)
        BY <1>0, <2>4, <3>1, <4>1 DEF RowIsAccountedFor, Reached
      <4> QED
        BY <2>1, <2>4, <3>1, <4>2 DEF Reached
    <3>2. CASE j = k
      <4>1. ~ failed[s] /\ sentAt' = sentAt /\ confirmed'[k] = sentAt[k]
        BY <1>3, <2>1, <3>2 DEF Settle, table, ReleaseRow, SendInv, TypeOK
      <4>2. \A c \in Chats : Reached(k, c)
        BY <1>0, <2>1, <4>1 DEF ReachedInv
      <4> QED
        BY <2>1, <3>2, <4>1, <4>2 DEF Reached
    <3> QED
      BY <3>1, <3>2
  <2> QED
    BY <2>6, <2>7, <2>8 DEF RowInv
<1>4. CASE Crash
  <2>1. /\ UNCHANGED <<now, sentAt, copies, confirmed>>
        /\ \A t \in Senders : pc'[t] = "idle" /\ next'[t] = 1
        /\ orphans' = orphans \cup {k \in Keys : InFlight(k)}
    BY <1>4 DEF Crash, table
  <2>2. RowIsAccountedFor'
    BY <1>0, <2>1 DEF RowIsAccountedFor
  <2> QED
    BY <1>0, <2>1, <2>2 DEF RowInv, ReachedInv, PastInv
<1>5. CASE Restart
  <2>1. /\ UNCHANGED <<now, jobs, copies, confirmed, orphans>>
        /\ \A j \in Keys : sentAt'[j] = sentAt[j] \/ sentAt'[j] = Never
        /\ \A t \in Senders : pc[t] = "idle"
    BY <1>5 DEF Restart, PruneOnStart, seen, SendInv, DownIsQuiet
  <2>2. RowIsAccountedFor'
    BY <1>0, <2>1 DEF RowIsAccountedFor, InFlight, jobs
  <2> QED
    BY <1>0, <2>1, <2>2 DEF RowInv, ReachedInv, PastInv, jobs
<1>6. CASE Tick
  BY <1>0, <1>6 DEF Tick, table, jobs, seen, RowInv, ReachedInv, PastInv, RowIsAccountedFor, Reached, InFlight
<1>7. CASE UNCHANGED vars
  BY <1>0, <1>7 DEF vars, table, jobs, seen, RowInv, ReachedInv, PastInv, RowIsAccountedFor, Reached, InFlight
<1> QED
  BY <1>1, <1>2, <1>3, <1>4, <1>5, <1>6, <1>7 DEF Next

\* A row that silences a key has a reason, whatever fails: every chat got the
\* alert after the claim, or a crash or a failed Release left the row behind.
THEOREM RowsAreAccountedFor == Spec => []RowIsAccountedFor
<1>1. Init => RowInv
  BY DEF Init, RowInv, ReachedInv, PastInv, RowIsAccountedFor
<1>2. RowInv => RowIsAccountedFor
  BY DEF RowInv
<1> QED
  BY <1>1, <1>2, NextRowInv, SendInvariant, PTL DEF Spec

-----------------------------------------------------------------------------
\* The refinement mapping: the holder of a key is its one sender, if any.
HolderMap ==
    /\ \A s \in Senders : pc[s] = "posting" => holderOf[key[s]] = s
    /\ \A k \in Keys : ~ InFlight(k) => holderOf[k] = Nobody
    /\ \A k \in Keys, s \in Senders : holderOf[k] = s => pc[s] = "posting" /\ key[s] = k
    /\ holderOf = [k \in Keys |-> holderOf[k]]

\* Mutual exclusion makes the mapping well defined.
LEMMA HolderIs == SendInv => HolderMap
<1> SUFFICES ASSUME SendInv PROVE HolderMap
  OBVIOUS
<1>1. ASSUME NEW s \in Senders, pc[s] = "posting" PROVE holderOf[key[s]] = s
  <2>1. key[s] \in Keys /\ InFlight(key[s])
    BY <1>1 DEF SendInv, TypeOK, InFlight
  <2>2. \A t \in Senders : pc[t] = "posting" /\ key[t] = key[s] => t = s
    BY <1>1 DEF SendInv, OneSenderPerKey
  <2> QED
    BY <1>1, <2>1, <2>2 DEF holderOf
<1>2. ASSUME NEW k \in Keys, ~ InFlight(k) PROVE holderOf[k] = Nobody
  BY <1>2 DEF holderOf
<1>3. ASSUME NEW k \in Keys, NEW s \in Senders, holderOf[k] = s
      PROVE  pc[s] = "posting" /\ key[s] = k
  <2>1. InFlight(k)
    BY <1>2, <1>3, SenderAssumption
  <2>2. PICK t \in Senders : pc[t] = "posting" /\ key[t] = k
    BY <2>1 DEF InFlight
  <2> QED
    BY <1>1, <1>3, <2>2
<1>4. holderOf = [k \in Keys |-> holderOf[k]]
  BY DEF holderOf
<1> QED
  BY <1>1, <1>2, <1>3, <1>4 DEF HolderMap

\* Every step of the senders and of the table is a step of the abstract
\* history, or leaves it alone.
LEMMA DedupStep ==
    SendInv /\ SendInv' /\ [Next]_vars => [Dedup!Next]_(Dedup!vars)
<1> SUFFICES ASSUME SendInv, SendInv', [Next]_vars PROVE [Dedup!Next]_(Dedup!vars)
  OBVIOUS
<1> USE DEF Dedup!Never
<1>0. /\ \A s \in Senders : pc[s] = "posting" => holderOf[key[s]] = s
      /\ \A k \in Keys : ~ InFlight(k) => holderOf[k] = Nobody
      /\ \A k \in Keys, s \in Senders : holderOf[k] = s => pc[s] = "posting" /\ key[s] = k
      /\ holderOf = [k \in Keys |-> holderOf[k]]
  BY HolderIs DEF HolderMap
<1>00. HolderMap'
  BY HolderIs, PTL
<1>1. ASSUME pc' = pc, key' = key PROVE holderOf' = holderOf
  BY <1>1 DEF holderOf, InFlight
<1>2. ASSUME NEW s \in Senders, NEW k \in Keys, Attempt(s, k)
      PROVE  [Dedup!Next]_(Dedup!vars)
  <2>1. CASE UNCHANGED <<sentAt, jobs>>
    BY <1>1, <1>2, <2>1 DEF Attempt, jobs, Dedup!vars
  <2>2. CASE TryClaimWins(s, k) /\ pc' = [pc EXCEPT ![s] = "posting"]
             /\ key' = [key EXCEPT ![s] = k]
    <3>1. pc[s] = "idle" /\ now' = now
      BY <1>2 DEF Attempt
    <3>2. pc'[s] = "posting" /\ key'[s] = k
          /\ \A t \in Senders : t # s => pc'[t] = pc[t] /\ key'[t] = key[t]
      BY <2>2 DEF SendInv, TypeOK
    <3>3. holderOf'[k] = s
      BY <1>00, <3>2 DEF HolderMap
    <3>4. ASSUME NEW j \in Keys, j # k PROVE holderOf'[j] = holderOf[j]
      <4>1. \A t \in Senders : (pc'[t] = "posting" /\ key'[t] = j) <=> (pc[t] = "posting" /\ key[t] = j)
        BY <3>1, <3>2, <3>4
      <4>2. InFlight(j)' <=> InFlight(j)
        BY <4>1 DEF InFlight
      <4>3. CASE ~ InFlight(j)
        BY <1>0, <1>00, <4>2, <4>3 DEF HolderMap
      <4>4. CASE InFlight(j)
        <5>1. PICK t \in Senders : pc[t] = "posting" /\ key[t] = j
          BY <4>4 DEF InFlight
        <5> QED
          BY <1>0, <1>00, <4>1, <5>1 DEF HolderMap
      <4> QED
        BY <4>3, <4>4
    <3>5. holderOf' = [holderOf EXCEPT ![k] = s]
      BY <1>0, <1>00, <3>3, <3>4 DEF HolderMap
    <3>6. \A j \in Keys : holderOf[j] # s
      BY <1>0, <3>1
    <3>7. Dedup!Claim(s, k)
      BY <2>2, <3>1, <3>5, <3>6 DEF TryClaimWins, Dedup!Claim
    <3> QED
      BY <3>7 DEF Dedup!Next
  <2> QED
    BY <1>2, <2>1, <2>2 DEF Attempt, TryClaimRefuses, jobs
<1>3. ASSUME NEW s \in Senders, Post(s) PROVE [Dedup!Next]_(Dedup!vars)
  BY <1>1, <1>3 DEF Post, MoreChats, table, Dedup!vars
<1>4. ASSUME NEW s \in Senders, Settle(s) PROVE [Dedup!Next]_(Dedup!vars)
  <2> DEFINE k == key[s]
  <2>1. k \in Keys /\ pc[s] = "posting" /\ now' = now /\ key' = key
    BY <1>4 DEF Settle, MoreChats, SendInv, TypeOK
  <2>2. pc'[s] = "idle" /\ \A t \in Senders : t # s => pc'[t] = pc[t]
    BY <1>4 DEF Settle, MoreChats, SendInv, TypeOK
  <2>3. holderOf[k] = s
    BY <1>0, <2>1
  <2>4. holderOf'[k] = Nobody
    <3>1. ~ InFlight(k)'
      BY <2>1, <2>2 DEF InFlight, SendInv, OneSenderPerKey
    <3> QED
      BY <1>00, <2>1, <3>1 DEF HolderMap
  <2>5. ASSUME NEW j \in Keys, j # k PROVE holderOf'[j] = holderOf[j]
    <3>1. \A t \in Senders : (pc'[t] = "posting" /\ key'[t] = j) <=> (pc[t] = "posting" /\ key[t] = j)
      BY <2>1, <2>2, <2>5
    <3>2. InFlight(j)' <=> InFlight(j)
      BY <3>1 DEF InFlight
    <3>3. CASE ~ InFlight(j)
      BY <1>0, <1>00, <3>2, <3>3 DEF HolderMap
    <3>4. CASE InFlight(j)
      <4>1. PICK t \in Senders : pc[t] = "posting" /\ key[t] = j
        BY <3>4 DEF InFlight
      <4> QED
        BY <1>0, <1>00, <3>1, <4>1 DEF HolderMap
    <3> QED
      BY <3>3, <3>4
  <2>6. holderOf' = [holderOf EXCEPT ![k] = Nobody]
    BY <1>0, <1>00, <2>1, <2>4, <2>5 DEF HolderMap
  <2>7. CASE UNCHANGED table
    <3>1. Dedup!Keep(s, k)
      BY <2>1, <2>3, <2>6, <2>7 DEF table, Dedup!Keep
    <3> QED
      BY <2>1, <3>1 DEF Dedup!Next
  <2>8. CASE ReleaseRow(k)
    <3>1. Dedup!GiveUp(s, k)
      BY <2>1, <2>3, <2>6, <2>8 DEF ReleaseRow, Dedup!GiveUp
    <3> QED
      BY <2>1, <3>1 DEF Dedup!Next
  <2> QED
    BY <1>4, <2>7, <2>8 DEF Settle, MoreChats
<1>5. CASE Crash
  <2>1. \A k \in Keys : ~ InFlight(k)'
    BY <1>5 DEF Crash, InFlight
  <2>2. holderOf' = [k \in Keys |-> Nobody]
    BY <1>00, <2>1 DEF HolderMap
  <2>3. Dedup!Abandon
    BY <1>5, <2>2 DEF Crash, table, Dedup!Abandon
  <2> QED
    BY <2>3 DEF Dedup!Next
<1>6. CASE Restart
  <2>1. pc' = pc /\ key' = key /\ now' = now
    BY <1>6 DEF Restart, jobs
  <2>2. \A k \in Keys : holderOf[k] = Nobody
    BY <1>0, <1>6 DEF Restart, SendInv, DownIsQuiet, InFlight
  <2>3. Dedup!Expire
    BY <1>1, <1>6, <2>1, <2>2 DEF Restart, PruneOnStart, Dedup!Expire
  <2> QED
    BY <2>3 DEF Dedup!Next
<1>7. CASE Tick
  <2>1. Dedup!Tick
    BY <1>1, <1>7 DEF Tick, table, jobs, Dedup!Tick
  <2> QED
    BY <2>1 DEF Dedup!Next
<1>8. CASE UNCHANGED vars
  BY <1>1, <1>8 DEF vars, table, jobs, Dedup!vars
<1> QED
  BY <1>2, <1>3, <1>4, <1>5, <1>6, <1>7, <1>8 DEF Next

\* The alert history, as Engine.send uses it, implements the abstract one.
THEOREM DeliveryImplementsDedup == Spec => ImplementsDedup
<1>1. Init => Dedup!Init
  <2> SUFFICES ASSUME Init PROVE Dedup!Init
    OBVIOUS
  <2>1. holderOf = [k \in Keys |-> Nobody]
    BY DEF Init, holderOf, InFlight
  <2> QED
    BY <2>1 DEF Init, Dedup!Init, Dedup!Never
<1> QED
  BY <1>1, DedupStep, SendInvariant, PTL DEF Spec, ImplementsDedup, Dedup!Spec

-----------------------------------------------------------------------------
\* The event stream: what Engine.send hands on after the chats.

\* A process that is down has no goroutine, no channel and no connection left.
DownIsEmpty == ~ Running =>
    fired = {} /\ \A c \in Clients : conn[c] = "off" /\ chan[c] = <<>>

\* The inductive invariant of the stream.
StreamInv == StreamTypeOK /\ DownIsEmpty /\ EachAlertOnce

\* It holds when the first process starts.
LEMMA InitStreamInv == StreamInit => StreamInv
<1> SUFFICES ASSUME StreamInit PROVE StreamInv
  OBVIOUS
<1>1. StreamTypeOK
  BY LimitAssumption DEF StreamInit, StreamTypeOK, Alerts
<1>2. \A c \in Clients : chan[c] = <<>> /\ shown[c] = {}
  BY DEF StreamInit
<1>3. EachAlertOnce
  BY <1>2 DEF StreamInit, EachAlertOnce
<1> QED
  BY <1>1, <1>3 DEF StreamInit, StreamInv, DownIsEmpty, Running

\* The new alert is on no page and in no channel.
LEMMA FireStep == StreamInv /\ Fire => StreamInv'
<1> SUFFICES ASSUME StreamInv, Fire PROVE StreamInv'
  OBVIOUS
<1> USE DEF StreamInv
<1>1. sent \in Nat /\ sent' = sent + 1 /\ sent + 1 \in Alerts /\ sent' \in 0 .. MaxAlerts
  BY LimitAssumption DEF Fire, StreamTypeOK, Alerts
<1>2. fired' = fired \cup {sent + 1} /\ Running
      /\ UNCHANGED <<conn, chan, shown, life, waited, pages>>
  BY DEF Fire, streams, process
<1>3. StreamTypeOK'
  BY <1>1, <1>2 DEF StreamTypeOK
<1>4. sent + 1 \notin 1 .. sent /\ 1 .. sent' = (1 .. sent) \cup {sent + 1}
  BY <1>1
<1>5. EachAlertOnce'
  BY <1>2, <1>4 DEF EachAlertOnce
<1> QED
  BY <1>2, <1>3, <1>5 DEF DownIsEmpty, Running

\* The message leaves its goroutine and enters channels that have room.
LEMMA PublishStep == \A m \in Alerts : StreamInv /\ Publish(m) => StreamInv'
<1> SUFFICES ASSUME NEW m \in Alerts, StreamInv, Publish(m) PROVE StreamInv'
  OBVIOUS
<1> USE DEF StreamInv
<1>1. m \in fired /\ fired' = fired \ {m} /\ UNCHANGED <<sent, conn, shown, life, waited, pages>>
  BY DEF Publish, process
<1>2. ASSUME NEW c \in Clients
      PROVE  \/ chan'[c] = chan[c]
             \/ conn[c] = "on" /\ Room(c) /\ chan'[c] = Append(chan[c], m)
  BY DEF Publish, PublishToAll
<1>3. ASSUME NEW c \in Clients PROVE chan'[c] \in Seq(Alerts) /\ Len(chan'[c]) <= Buffer
  <2>1. chan[c] \in Seq(Alerts) /\ Len(chan[c]) <= Buffer
    BY DEF StreamTypeOK
  <2>2. CASE chan'[c] = chan[c]
    BY <2>1, <2>2
  <2>3. CASE Room(c) /\ chan'[c] = Append(chan[c], m)
    <3>1. Append(chan[c], m) \in Seq(Alerts) /\ Len(Append(chan[c], m)) = Len(chan[c]) + 1
      BY <2>1
    <3>2. Len(chan[c]) \in Nat /\ Len(chan[c]) < Buffer /\ Buffer \in Nat
      BY <2>1, <2>3, LimitAssumption DEF Room
    <3>3. Len(chan[c]) + 1 <= Buffer
      BY <3>2
    <3> QED
      BY <2>3, <3>1, <3>3
  <2> QED
    BY <1>2, <2>2, <2>3
<1>4. chan' \in [Clients -> Seq(Alerts)]
  BY <1>3 DEF Publish, PublishToAll
<1>5. StreamTypeOK'
  BY <1>1, <1>3, <1>4 DEF StreamTypeOK
<1>6. DownIsEmpty'
  BY <1>1 DEF DownIsEmpty, Running
<1>7. ASSUME NEW c \in Clients
      PROVE  /\ chan'[c] # <<>> => conn'[c] = "on"
             /\ \A i \in DOMAIN chan'[c] :
                   /\ chan'[c][i] \in (1 .. sent) \ (fired' \cup shown[c])
                   /\ \A j \in DOMAIN chan'[c] : chan'[c][i] = chan'[c][j] => i = j
  <2>1. CASE chan'[c] = chan[c]
    BY <1>1, <2>1 DEF EachAlertOnce
  <2>2. CASE conn[c] = "on" /\ chan'[c] = Append(chan[c], m)
    <3> DEFINE n == Len(chan[c])
    <3>1. chan[c] \in Seq(Alerts) /\ n \in Nat
      BY DEF StreamTypeOK
    <3>2. /\ DOMAIN chan[c] = 1 .. n /\ DOMAIN chan'[c] = 1 .. (n + 1)
          /\ chan'[c][n + 1] = m /\ \A i \in 1 .. n : chan'[c][i] = chan[c][i]
      BY <2>2, <3>1
    <3>3. m \in 1 .. sent /\ m \notin shown[c]
      BY <1>1 DEF EachAlertOnce
    <3>4. \A i \in 1 .. n : /\ chan[c][i] \in (1 .. sent) \ (fired \cup shown[c])
                            /\ \A j \in 1 .. n : chan[c][i] = chan[c][j] => i = j
      BY <3>2 DEF EachAlertOnce
    <3>5. \A i \in 1 .. n : chan[c][i] # m
      BY <1>1, <3>4
    <3>6. \A i \in 1 .. (n + 1) : i \in 1 .. n \/ i = n + 1
      BY <3>1
    <3> HIDE DEF n
    <3>7. \A i \in 1 .. (n + 1) : chan'[c][i] \in (1 .. sent) \ (fired' \cup shown[c])
      BY <1>1, <3>2, <3>3, <3>4, <3>6
    <3>8. \A i \in 1 .. (n + 1) : \A j \in 1 .. (n + 1) : chan'[c][i] = chan'[c][j] => i = j
      BY <3>2, <3>4, <3>5, <3>6
    <3> QED
      BY <1>1, <2>2, <3>2, <3>7, <3>8
  <2> QED
    BY <1>2, <2>1, <2>2
<1>8. EachAlertOnce'
  BY <1>1, <1>7 DEF EachAlertOnce
<1> QED
  BY <1>5, <1>6, <1>8

\* The oldest message of a channel goes to the page; the others move up.
LEMMA WriteStep == \A c \in Clients : StreamInv /\ Write(c) => StreamInv'
<1> SUFFICES ASSUME NEW c \in Clients, StreamInv, Write(c) PROVE StreamInv'
  OBVIOUS
<1> USE DEF StreamInv
<1> DEFINE n == Len(chan[c])
           m == Head(chan[c])
<1>1. conn[c] = "on" /\ chan[c] # <<>> /\ UNCHANGED <<sent, fired, conn, life, waited, pages>>
      /\ shown' = [shown EXCEPT ![c] = @ \cup {m}]
      /\ chan' = [chan EXCEPT ![c] = Tail(@)]
  BY DEF Write, alerts, process
<1>2. chan[c] \in Seq(Alerts) /\ n \in Nat \ {0}
  BY <1>1 DEF StreamTypeOK
<1>3. m \in Alerts /\ m = chan[c][1] /\ 1 \in DOMAIN chan[c]
  BY <1>1, <1>2
<1>4. Tail(chan[c]) \in Seq(Alerts) /\ Len(Tail(chan[c])) = n - 1
      /\ DOMAIN Tail(chan[c]) = 1 .. (n - 1)
      /\ \A i \in 1 .. (n - 1) : Tail(chan[c])[i] = chan[c][i + 1] /\ i + 1 \in DOMAIN chan[c]
  BY <1>1, <1>2
<1>5. shown'[c] = shown[c] \cup {m} /\ chan'[c] = Tail(chan[c])
      /\ \A d \in Clients \ {c} : shown'[d] = shown[d] /\ chan'[d] = chan[d]
  BY <1>1 DEF StreamTypeOK
<1>6. StreamTypeOK'
  <2>1. shown' \in [Clients -> SUBSET Alerts]
    BY <1>1, <1>3 DEF StreamTypeOK
  <2>2. chan' \in [Clients -> Seq(Alerts)]
    BY <1>1, <1>4 DEF StreamTypeOK
  <2>3. \A d \in Clients : Len(chan'[d]) <= Buffer
    <3>1. n <= Buffer /\ Buffer \in Nat
      BY LimitAssumption DEF StreamTypeOK
    <3>2. n - 1 <= Buffer
      BY <1>2, <3>1
    <3> HIDE DEF n
    <3>3. chan'[c] = Tail(chan[c]) => Len(chan'[c]) <= Buffer
      BY <1>4, <3>2
    <3> QED
      BY <1>5, <3>3 DEF StreamTypeOK
  <2> QED
    BY <1>1, <2>1, <2>2, <2>3 DEF StreamTypeOK
<1>7. DownIsEmpty'
  BY <1>1 DEF DownIsEmpty, Running
<1>8. EachAlertOnce'
  <2>1. m \in (1 .. sent) \ (fired \cup shown[c])
    BY <1>3 DEF EachAlertOnce
  <2>2. \A i \in 1 .. (n - 1) : Tail(chan[c])[i] \in (1 .. sent) \ (fired \cup shown[c])
    BY <1>4 DEF EachAlertOnce
  <2>3. \A i \in 1 .. (n - 1) : Tail(chan[c])[i] # m
    <3> SUFFICES ASSUME NEW i \in 1 .. (n - 1) PROVE Tail(chan[c])[i] # m
      OBVIOUS
    <3>1. i + 1 # 1 /\ i + 1 \in DOMAIN chan[c]
      BY <1>2, <1>4
    <3>2. chan[c][i + 1] # chan[c][1]
      BY <1>3, <3>1 DEF EachAlertOnce
    <3> QED
      BY <1>3, <1>4, <3>2
  <2>4. \A i, j \in 1 .. (n - 1) : Tail(chan[c])[i] = Tail(chan[c])[j] => i = j
    <3> SUFFICES ASSUME NEW i \in 1 .. (n - 1), NEW j \in 1 .. (n - 1),
                        Tail(chan[c])[i] = Tail(chan[c])[j]
                 PROVE  i = j
      OBVIOUS
    <3>1. i + 1 = j + 1
      BY <1>4 DEF EachAlertOnce
    <3> QED
      BY <1>2, <3>1
  <2>5. ASSUME NEW d \in Clients
        PROVE  /\ chan'[d] # <<>> => conn'[d] = "on"
               /\ shown'[d] \cup fired' \subseteq 1 .. sent' /\ shown'[d] \cap fired' = {}
               /\ \A i \in DOMAIN chan'[d] :
                     /\ chan'[d][i] \in (1 .. sent') \ (fired' \cup shown'[d])
                     /\ \A j \in DOMAIN chan'[d] : chan'[d][i] = chan'[d][j] => i = j
    <3>1. CASE d = c
      <4> HIDE DEF m, n
      <4>1. shown[c] \cup fired \subseteq 1 .. sent /\ shown[c] \cap fired = {}
        BY DEF EachAlertOnce
      <4>2. chan'[c] = Tail(chan[c]) /\ shown'[c] = shown[c] \cup {m}
            /\ UNCHANGED <<sent, fired, conn>> /\ conn[c] = "on"
            /\ DOMAIN Tail(chan[c]) = 1 .. (n - 1)
        BY <1>1, <1>4, <1>5
      <4> DEFINE D == 1 .. (n - 1)
                 S == 1 .. sent
                 t == Tail(chan[c])
      <4>3. \A i \in D : t[i] \in S \ (fired \cup shown[c]) /\ t[i] # m
        BY <2>2, <2>3
      <4>4. \A i, j \in D : t[i] = t[j] => i = j
        BY <2>4
      <4>5. m \in S \ (fired \cup shown[c]) /\ shown[c] \cup fired \subseteq S
        BY <2>1, <4>1
      <4>6. chan'[c] = t /\ DOMAIN t = D /\ 1 .. sent' = S
        BY <4>2
      <4> HIDE DEF D, S, t
      <4> QED
        <5>1. conn'[c] = "on" /\ fired' = fired
          BY <4>2
        <5>2. shown'[c] \cup fired' \subseteq S /\ shown'[c] \cap fired' = {}
          BY <4>1, <4>2, <4>5
        <5>3. \A i \in D : t[i] \in S \ (fired' \cup shown'[c])
          BY <4>2, <4>3
        <5> QED
          BY <3>1, <4>4, <4>6, <5>1, <5>2, <5>3, Zenon
    <3>2. CASE d # c
      BY <1>1, <1>5, <3>2 DEF EachAlertOnce
    <3> QED
      BY <3>1, <3>2
  <2> QED
    BY <2>5 DEF EachAlertOnce
<1> QED
  BY <1>6, <1>7, <1>8

\* A stream that opens starts with an empty channel.
LEMMA OpenStep == \A c \in Clients : StreamInv /\ (Connect(c) \/ Subscribe(c)) => StreamInv'
<1> SUFFICES ASSUME NEW c \in Clients, StreamInv, Connect(c) \/ Subscribe(c) PROVE StreamInv'
  OBVIOUS
<1> USE DEF StreamInv
<1>1. UNCHANGED <<sent, fired, chan, shown, life, waited, pages>>
  BY DEF Connect, Subscribe, alerts, process
<1>2. Running
  BY DEF Connect, Subscribe, DownIsEmpty, Running
<1>3. conn[c] # "on" /\ conn' \in [Clients -> {"off", "open", "on"}]
      /\ \A d \in Clients \ {c} : conn'[d] = conn[d]
  BY DEF Connect, Subscribe, StreamTypeOK
<1>4. StreamTypeOK'
  BY <1>1, <1>3 DEF StreamTypeOK
<1>5. EachAlertOnce'
  BY <1>1, <1>3 DEF EachAlertOnce
<1> QED
  BY <1>1, <1>2, <1>4, <1>5 DEF DownIsEmpty, Running

\* The end of a request takes the rest of its channel with it.
LEMMA DisconnectStep == \A c \in Clients : StreamInv /\ Disconnect(c) => StreamInv'
<1> SUFFICES ASSUME NEW c \in Clients, StreamInv, Disconnect(c) PROVE StreamInv'
  OBVIOUS
<1> USE DEF StreamInv
<1>1. UNCHANGED <<sent, fired, shown, life, waited, pages>>
  BY DEF Disconnect, alerts, process
<1>2. conn' \in [Clients -> {"off", "open", "on"}] /\ chan' \in [Clients -> Seq(Alerts)]
      /\ conn'[c] = "off" /\ chan'[c] = <<>>
      /\ \A d \in Clients \ {c} : conn'[d] = conn[d] /\ chan'[d] = chan[d]
  BY DEF Disconnect, StreamTypeOK
<1>3. Len(<<>>) = 0 /\ 0 <= Buffer
  BY LimitAssumption
<1>4. \A d \in Clients : Len(chan'[d]) <= Buffer
  BY <1>2, <1>3 DEF StreamTypeOK
<1>5. StreamTypeOK'
  BY <1>1, <1>2, <1>4 DEF StreamTypeOK
<1>6. EachAlertOnce'
  BY <1>1, <1>2 DEF EachAlertOnce
<1> QED
  BY <1>1, <1>2, <1>5, <1>6 DEF DownIsEmpty, Running

\* The process takes every channel and every goroutine with it.
LEMMA ExitStep == StreamInv /\ Exit => StreamInv'
<1> SUFFICES ASSUME StreamInv, Exit PROVE StreamInv'
  OBVIOUS
<1> USE DEF StreamInv
<1>1. \A c \in Clients : conn'[c] = "off" /\ chan'[c] = <<>>
  BY DEF Exit
<1>2. StreamTypeOK'
  BY LimitAssumption DEF Exit, StreamTypeOK
<1>3. EachAlertOnce'
  BY <1>1 DEF Exit, EachAlertOnce
<1> QED
  BY <1>1, <1>2, <1>3 DEF Exit, DownIsEmpty

\* Every step of the stream keeps the invariant.
LEMMA NextStreamInv == StreamInv /\ [StreamNext]_streamVars => StreamInv'
<1> SUFFICES ASSUME StreamInv, [StreamNext]_streamVars PROVE StreamInv'
  OBVIOUS
<1> USE DEF StreamInv
<1>1. PageRequest \/ PageAnswer \/ UNCHANGED streamVars
        => UNCHANGED <<alerts, streams, life>> /\ StreamTypeOK'
  BY LimitAssumption
  DEF PageRequest, PageAnswer, streamVars, alerts, streams, process, StreamTypeOK
<1>2. Start \/ Bind \/ Stop \/ ShutdownWaits
        => UNCHANGED <<alerts, streams>> /\ Running' /\ StreamTypeOK'
  BY LimitAssumption
  DEF Start, Bind, Stop, ShutdownWaits, Running, alerts, streams, StreamTypeOK
<1>3. UNCHANGED <<alerts, streams>> /\ (Running' \/ life' = life) /\ StreamTypeOK' => StreamInv'
  BY DEF alerts, streams, DownIsEmpty, EachAlertOnce, Running
<1> QED
  BY FireStep, PublishStep, WriteStep, OpenStep, DisconnectStep, ExitStep, <1>1, <1>2, <1>3
  DEF StreamNext, ShutdownDone, ShutdownTimeout, Die

\* The stream keeps to its types: no channel ever holds more than its capacity.
THEOREM StreamTypeCorrect == StreamSpec => []StreamTypeOK
<1>1. StreamInv => StreamTypeOK
  BY DEF StreamInv
<1> QED
  BY InitStreamInv, NextStreamInv, <1>1, PTL DEF StreamSpec

\* No page is shown an alert twice, and none that the chats did not acknowledge:
\* whatever order the goroutines of Engine.send publish in, and however often
\* streams end, pages connect again and the server restarts.
THEOREM AlertsShownOnce == StreamSpec => []EachAlertOnce
<1>1. StreamInv => EachAlertOnce
  BY DEF StreamInv
<1> QED
  BY InitStreamInv, NextStreamInv, <1>1, PTL DEF StreamSpec
=============================================================================

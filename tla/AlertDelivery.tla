--------------------------- MODULE AlertDelivery ---------------------------
(***************************************************************************)
(* Alert delivery: Engine.send (internal/alerts/engine.go), the SQLite     *)
(* alert history (internal/alerts/store.go) and the fan-out to the         *)
(* configured chats (internal/bale/client.go).  Several calls run send at  *)
(* once: the background refresh, one refresh per page request that misses  *)
(* the snapshot cache, and the reopen check of the halt scheduler.  The    *)
(* process may die anywhere and come back; only the history survives.      *)
(***************************************************************************)
EXTENDS Integers, Sequences, FiniteSets

CONSTANTS Senders,     \* concurrent callers of Engine.send
          Keys,        \* alert identities: (alert_type, hashed alert_key)
          Nobody,      \* no sender (refinement mapping only)
          NChats,      \* number of configured chat ids
          Window,      \* 24 hours, in clock units
          MaxTime,     \* bound of the clock
          FaultKinds,  \* which of the fault kinds below may happen
          MaxFaults    \* how many of them, in total

AllFaults == {"db", "post", "reply", "release", "crash"}

ASSUME SenderAssumption == Nobody \notin Senders
ASSUME WindowAssumption == Window \in Nat \ {0}
ASSUME ChatAssumption == NChats \in Nat \ {0}
ASSUME BoundAssumption == MaxTime \in Nat /\ MaxFaults \in Nat
                          /\ FaultKinds \subseteq AllFaults

Chats == 1 .. NChats   \* in the order SendMessage walks c.chatIDs
Never == -1

VARIABLES now,         \* wall clock, shared by Go and SQLite
          up,          \* the process runs
          sentAt,      \* alert_history: sent_at of the row of k, or Never
          pc, key,     \* per sender: where it is in send, and for which key
          next,        \* per sender: next chat of the loop of SendMessage
          failed,      \* per sender: errs is not empty
          answer,      \* per sender: what its last TryClaim returned
          copies,      \* what the chats saw: arrival times per key and chat
          confirmed,   \* sent_at of the last send of k that returned true
          orphans,     \* keys whose row outlived a send that did not finish
          faults       \* faults so far

table == <<sentAt>>
jobs == <<pc, key, next, failed>>
seen == <<copies, confirmed, orphans>>
vars == <<now, up, table, jobs, answer, seen, faults>>

Fault(kind) == /\ kind \in FaultKinds
               /\ faults < MaxFaults
               /\ faults' = faults + 1

InFlight(k) == \E s \in Senders : pc[s] = "posting" /\ key[s] = k

\* WHERE sent_at > datetime('now', '-24 hours')
Recent(k) == sentAt[k] # Never /\ sentAt[k] > now - Window

-----------------------------------------------------------------------------
Init == /\ now = 0
        /\ up = TRUE
        /\ sentAt = [k \in Keys |-> Never]
        /\ pc = [s \in Senders |-> "idle"]
        /\ key \in [Senders -> Keys]
        /\ next = [s \in Senders |-> 1]
        /\ failed = [s \in Senders |-> FALSE]
        /\ answer = [s \in Senders |-> "none"]
        /\ copies = [k \in Keys |-> [c \in Chats |-> <<>>]]
        /\ confirmed = [k \in Keys |-> Never]
        /\ orphans = {}
        /\ faults = 0

(***************************************************************************)
(* TryClaim, one critical section: the recent rows of the key are counted  *)
(* and, if there are none, a plain INSERT is tried.  A row that is no      *)
(* longer recent but still in the table makes the INSERT fail on the       *)
(* primary key.                                                            *)
(***************************************************************************)
TryClaimReplaces(s, k) ==   \* mutant: INSERT OR REPLACE
    /\ ~ Recent(k)
    /\ sentAt' = [sentAt EXCEPT ![k] = now]
    /\ answer' = [answer EXCEPT ![s] = "won"]

TryClaimWins(s, k) ==
    /\ ~ Recent(k)
    /\ sentAt[k] = Never
    /\ sentAt' = [sentAt EXCEPT ![k] = now]
    /\ answer' = [answer EXCEPT ![s] = "won"]

TryClaimCleansUp(s, k) ==   \* mutant: a failed INSERT is followed by a Release
    \/ /\ Recent(k)
       /\ answer' = [answer EXCEPT ![s] = "suppressed"]
       /\ UNCHANGED sentAt
    \/ /\ ~ Recent(k) /\ sentAt[k] # Never
       /\ answer' = [answer EXCEPT ![s] = "error"]
       /\ sentAt' = [sentAt EXCEPT ![k] = Never]

TryClaimRefuses(s, k) ==
    /\ \/ Recent(k) /\ answer' = [answer EXCEPT ![s] = "suppressed"]
       \/ ~ Recent(k) /\ sentAt[k] # Never /\ answer' = [answer EXCEPT ![s] = "error"]
    /\ UNCHANGED sentAt

\* send up to and including TryClaim.
Attempt(s, k) ==
    /\ up /\ pc[s] = "idle"
    /\ \/ /\ TryClaimWins(s, k)
          /\ pc' = [pc EXCEPT ![s] = "posting"]
          /\ key' = [key EXCEPT ![s] = k]
          /\ orphans' = orphans \ {k}
          /\ UNCHANGED <<next, failed, faults>>
       \/ /\ TryClaimRefuses(s, k)
          /\ UNCHANGED <<jobs, orphans, faults>>
       \/ /\ Fault("db")
          /\ answer' = [answer EXCEPT ![s] = "error"]
          /\ UNCHANGED <<sentAt, jobs, orphans>>
    /\ UNCHANGED <<now, up, copies, confirmed>>

(***************************************************************************)
(* One turn of the loop of SendMessage.  The request may be lost before    *)
(* the chat sees it, or the chat may see it and the answer be lost or      *)
(* late: both are an error to sendTo, and the loop goes on.                *)
(***************************************************************************)
Deliver(k, c) == copies' = [copies EXCEPT ![k][c] = Append(@, now)]

\* mutant: the loop runs once more than there are chats.
MoreChatsOffByOne(s) == next[s] <= NChats + 1

MoreChats(s) == next[s] <= NChats

Post(s) ==
    /\ up /\ pc[s] = "posting" /\ MoreChats(s)
    /\ next' = [next EXCEPT ![s] = @ + 1]
    /\ \/ /\ Deliver(key[s], next[s])
          /\ UNCHANGED <<failed, faults>>
       \/ /\ Fault("post")
          /\ failed' = [failed EXCEPT ![s] = TRUE]
          /\ UNCHANGED copies
       \/ /\ Fault("reply")
          /\ Deliver(key[s], next[s])
          /\ failed' = [failed EXCEPT ![s] = TRUE]
    /\ UNCHANGED <<now, up, table, pc, key, answer, confirmed, orphans>>

ReleaseOtherRow(k) == UNCHANGED sentAt   \* mutant: the key is not the one claimed

\* Release deletes whatever row the key has.
ReleaseRow(k) == sentAt' = [sentAt EXCEPT ![k] = Never]

\* The rest of send: release the row after an error, else start onAlert.
Settle(s) ==
    /\ up /\ pc[s] = "posting" /\ ~ MoreChats(s)
    /\ pc' = [pc EXCEPT ![s] = "idle"]
    /\ next' = [next EXCEPT ![s] = 1]
    /\ failed' = [failed EXCEPT ![s] = FALSE]
    /\ \/ /\ ~ failed[s]
          /\ confirmed' = [confirmed EXCEPT ![key[s]] = sentAt[key[s]]]
          /\ UNCHANGED <<table, orphans, faults>>
       \/ /\ failed[s]
          /\ ReleaseRow(key[s])
          /\ UNCHANGED <<confirmed, orphans, faults>>
       \/ /\ failed[s]
          /\ Fault("release")
          /\ orphans' = orphans \cup {key[s]}
          /\ UNCHANGED <<table, confirmed>>
    /\ UNCHANGED <<now, up, key, answer, copies>>

(***************************************************************************)
(* The process ends: killed, or main returns while a refresh, which runs   *)
(* under its own context, is still sending.                                *)
(***************************************************************************)
Crash ==
    /\ up
    /\ Fault("crash")
    /\ up' = FALSE
    /\ pc' = [s \in Senders |-> "idle"]
    /\ next' = [s \in Senders |-> 1]
    /\ failed' = [s \in Senders |-> FALSE]
    /\ orphans' = orphans \cup {k \in Keys : InFlight(k)}
    /\ UNCHANGED <<now, table, key, answer, copies, confirmed>>

PruneEverything == sentAt' = [k \in Keys |-> Never]   \* mutant: no WHERE

\* mutant: the bound is inclusive.
PruneInclusive == sentAt' = [k \in Keys |-> IF sentAt[k] <= now - Window
                                            THEN Never ELSE sentAt[k]]

\* NewSQLiteStore: DELETE ... WHERE sent_at < datetime('now', '-24 hours').
PruneOnStart == sentAt' = [k \in Keys |-> IF sentAt[k] < now - Window
                                          THEN Never ELSE sentAt[k]]

Restart ==
    /\ ~ up
    /\ up' = TRUE
    /\ PruneOnStart
    /\ UNCHANGED <<now, jobs, answer, seen, faults>>

Tick ==
    /\ now < MaxTime
    /\ now' = now + 1
    /\ UNCHANGED <<up, table, jobs, answer, seen, faults>>

Next == \/ \E s \in Senders, k \in Keys : Attempt(s, k)
        \/ \E s \in Senders : Post(s) \/ Settle(s)
        \/ Crash \/ Restart \/ Tick

Spec == Init /\ [][Next]_vars

(***************************************************************************)
(* A running send goes on (the HTTP client gives up after 15 seconds), the *)
(* refresh ticker keeps offering every opportunity that persists, and a    *)
(* dead process is started again (deploy/ahrm.service, Restart=on-failure).*)
(***************************************************************************)
Fairness == /\ \A s \in Senders : WF_vars(Post(s)) /\ WF_vars(Settle(s))
            /\ \A k \in Keys : WF_vars(\E s \in Senders : Attempt(s, k))
            /\ WF_vars(Restart)

FairSpec == Spec /\ Fairness

-----------------------------------------------------------------------------
TypeOK == /\ now \in Nat
          /\ up \in BOOLEAN
          /\ sentAt \in [Keys -> Nat \cup {Never}]
          /\ pc \in [Senders -> {"idle", "posting"}]
          /\ key \in [Senders -> Keys]
          /\ next \in [Senders -> 1 .. (NChats + 1)]
          /\ failed \in [Senders -> BOOLEAN]
          /\ answer \in [Senders -> {"none", "won", "suppressed", "error"}]
          /\ copies \in [Keys -> [Chats -> Seq(Nat)]]
          /\ confirmed \in [Keys -> Nat \cup {Never}]
          /\ orphans \in SUBSET Keys
          /\ faults \in Nat

\* The row of a key is what keeps every other sender away from it, and
\* Release deletes by key, not by owner: two senders must never be posting
\* the same key, even when a send outlives the deduplication window.
OneSenderPerKey == \A s, t \in Senders :
    pc[s] = "posting" /\ pc[t] = "posting" /\ key[s] = key[t] => s = t

\* A sender that is posting still owns the row it claimed: neither another
\* sender's Release nor the pruning at start removes it under its feet.
SenderOwnsRow == \A s \in Senders : pc[s] = "posting" => sentAt[key[s]] # Never

\* A row nobody is sending any more either stands for a send all chats
\* acknowledged, or is the leftover of a crash or of a Release that failed:
\* a chat error alone never silences a key.
RowIsAccountedFor == \A k \in Keys :
    sentAt[k] # Never /\ ~ InFlight(k) /\ k \notin orphans =>
        /\ confirmed[k] = sentAt[k]
        /\ \A c \in Chats : \E i \in DOMAIN copies[k][c] : copies[k][c][i] >= sentAt[k]

\* After a send that returned true, no chat gets the alert again before the
\* window is over, whatever fails, restarts or overlaps.
ConfirmedIsQuiet == [][\A k \in Keys, c \in Chats :
    copies'[k][c] # copies[k][c] /\ confirmed[k] # Never
        => now >= confirmed[k] + Window]_vars

\* Claims, releases, crashes and pruning as the abstract history sees them.
holderOf == [k \in Keys |-> IF InFlight(k)
                            THEN CHOOSE s \in Senders : pc[s] = "posting" /\ key[s] = k
                            ELSE Nobody]

Dedup == INSTANCE AlertDedup WITH clock <- now, holder <- holderOf, since <- sentAt

\* The history, as the engine uses it, keeps the promise of AlertDedup.
ImplementsDedup == Dedup!Spec

\* An opportunity that persists is sent and acknowledged by every chat, unless
\* a crash or a failed Release leaves a row behind that silences it.
EventuallyConfirmed == \A k \in Keys : <>(confirmed[k] # Never \/ k \in orphans)

\* docs/adr/0007, "tomorrow the same opportunities trigger again (24 hours
\* have passed)": with no database fault, an attempt on a key nobody is
\* sending is refused only while its row is recent.
StaleRowRetriggers == [][\A s \in Senders, k \in Keys :
    Attempt(s, k) /\ ~ Recent(k) /\ ~ InFlight(k) => pc'[s] = "posting"]_vars

\* CONTEXT.md, "suppress duplicates within a 24-hour window": no chat gets
\* the same alert twice within the window.
NoDuplicateInWindow == \A k \in Keys, c \in Chats :
    \A i, j \in DOMAIN copies[k][c] :
        i < j => copies[k][c][j] >= copies[k][c][i] + Window
=============================================================================

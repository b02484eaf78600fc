----------------------------- MODULE AlertDedup -----------------------------
(***************************************************************************)
(* What the alert history promises its callers, and nothing of how: a key  *)
(* has at most one claimant, a claim is either given up (the key is free   *)
(* again at once) or kept, and a kept key stays taken for the whole        *)
(* deduplication window.  AlertDelivery is shown to implement this.        *)
(***************************************************************************)
EXTENDS Integers

CONSTANTS Senders,   \* calls that may be sending alerts at the same time
          Keys,      \* alert keys (type and hashed key)
          Window,    \* the 24 hours, in clock units
          Nobody     \* no claimant

VARIABLES clock,     \* wall clock
          holder,    \* holder[k]: who is sending k now, or Nobody
          since      \* since[k]: when k was claimed, or Never

vars == <<clock, holder, since>>

Never == -1

Init == /\ clock = 0
        /\ holder = [k \in Keys |-> Nobody]
        /\ since = [k \in Keys |-> Never]

Claim(s, k) == /\ since[k] = Never
               /\ \A j \in Keys : holder[j] # s
               /\ holder' = [holder EXCEPT ![k] = s]
               /\ since' = [since EXCEPT ![k] = clock]
               /\ UNCHANGED clock

Keep(s, k) == /\ holder[k] = s
              /\ holder' = [holder EXCEPT ![k] = Nobody]
              /\ UNCHANGED <<clock, since>>

GiveUp(s, k) == /\ holder[k] = s
                /\ holder' = [holder EXCEPT ![k] = Nobody]
                /\ since' = [since EXCEPT ![k] = Never]
                /\ UNCHANGED clock

\* Every claimant disappears at once; what it had claimed stays taken.
Abandon == /\ holder' = [k \in Keys |-> Nobody]
           /\ UNCHANGED <<clock, since>>

\* Kept keys whose window is over become free.
Expire == /\ \A k \in Keys : holder[k] = Nobody
          /\ since' = [k \in Keys |-> IF since[k] < clock - Window
                                      THEN Never ELSE since[k]]
          /\ UNCHANGED <<clock, holder>>

Tick == /\ clock' = clock + 1
        /\ UNCHANGED <<holder, since>>

Next == \/ \E s \in Senders, k \in Keys : Claim(s, k) \/ Keep(s, k) \/ GiveUp(s, k)
        \/ Abandon
        \/ Expire
        \/ Tick

Spec == Init /\ [][Next]_vars
=============================================================================

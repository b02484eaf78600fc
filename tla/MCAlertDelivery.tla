-------------------------- MODULE MCAlertDelivery --------------------------
(* Instances of AlertDelivery for TLC. *)
EXTENDS AlertDelivery, TLC

CONSTANTS s1, s2, k1, k2

MCSenders == {s1, s2}
MCKeys == {k1, k2}
MCOneKey == {k1}
MCNoFaults == {}
MCChatFaults == {"post", "reply"}
MCNoCrash == {"db", "post", "reply"}

\* Senders and keys are interchangeable in every safety property.
MCSymmetry == Permutations(MCSenders)
MCSymmetryAll == Permutations(MCSenders) \cup Permutations(MCKeys)
=============================================================================

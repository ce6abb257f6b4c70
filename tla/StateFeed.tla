----------------------------- MODULE StateFeed -----------------------------
(***************************************************************************)
(* What Home Assistant may count on of the topic with the device state,    *)
(* without saying how it is fed: a reading that waits goes out in its turn *)
(* and once, a new one is never what a full queue costs, and the one thing *)
(* that is shown again is the newest.  Readings may be lost while nobody   *)
(* is connected well, and which is lost is not promised.                   *)
(* MqttPublisher.tla is the MQTT task, proved to implement it.             *)
(***************************************************************************)
EXTENDS Naturals

VARIABLES
    newest,   \* the last reading of the device, 0 before the first
    pending,  \* the readings that may still go out
    shown     \* the one the topic has

vars == <<newest, pending, shown>>

Init == newest = 0 /\ pending = {} /\ shown = 0

\* A new reading waits, and may have pushed one out that was waiting.
Read ==
    /\ newest' = newest + 1
    /\ \/ pending' = pending \cup {newest'}
       \/ \E s \in pending : pending' = (pending \ {s}) \cup {newest'}
    /\ UNCHANGED shown

\* The oldest that waits goes out.
Show ==
    /\ \E s \in pending :
        /\ \A t \in pending : s <= t
        /\ shown' = s
        /\ pending' = pending \ {s}
    /\ UNCHANGED newest

\* The newest goes out, again or ahead of its turn.
ShowAgain ==
    /\ newest # 0
    /\ shown' = newest
    /\ UNCHANGED <<newest, pending>>

Lose ==
    /\ \E s \in pending : pending' = pending \ {s}
    /\ UNCHANGED <<newest, shown>>

Next == Read \/ Show \/ ShowAgain \/ Lose

Spec == Init /\ [][Next]_vars
=============================================================================

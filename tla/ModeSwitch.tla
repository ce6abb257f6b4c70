----------------------------- MODULE ModeSwitch -----------------------------
(***************************************************************************)
(* What the bridge promises an operator who flips the Home Assistant mode  *)
(* select, without saying how: when sessions may start, that a session     *)
(* live at the flip to `off` is doomed, and that the mode in force when a  *)
(* waiting bridge decides what to do next is the mode it obeys.            *)
(* BridgeLoop.tla is the loop of main.py shown to implement it.            *)
(***************************************************************************)
Modes == {"always_on", "auto", "off"}

VARIABLES
    mode,    \* the mode in force
    act,     \* what the bridge is doing
    doomed   \* a switch to off has reached the session that is live

vars == <<mode, act, doomed>>

Acts == {"down", "off", "attempt", "live", "closing", "waiting"}

TypeOK == mode \in Modes /\ act \in Acts /\ doomed \in BOOLEAN

\* What a bridge that starts or has finished waiting does in mode m.
Obey(m) == act' = IF m = "off" THEN "off" ELSE "attempt"

Init == mode \in Modes /\ act = "down" /\ doomed = FALSE

Switch(m) ==
    /\ mode' = m
    /\ doomed' = (doomed \/ (act = "live" /\ m = "off"))
    /\ act # "down"
    /\ UNCHANGED act

Decide ==
    /\ act \in {"off", "waiting"}
    /\ Obey(mode)
    /\ UNCHANGED <<mode, doomed>>

GoLive ==
    /\ act = "attempt"
    /\ act' = "live"
    /\ doomed' = (mode = "off")
    /\ UNCHANGED mode

GiveUp ==
    /\ act = "attempt"
    /\ act' = "waiting"
    /\ UNCHANGED <<mode, doomed>>

Close ==
    /\ act = "live"
    /\ act' = "closing"
    /\ doomed' = FALSE
    /\ UNCHANGED mode

Closed ==
    /\ act = "closing"
    /\ act' = "waiting"
    /\ UNCHANGED <<mode, doomed>>

Crash ==
    /\ act' = "down"
    /\ doomed' = FALSE
    /\ UNCHANGED mode

Restart ==
    /\ act = "down"
    /\ mode' \in Modes
    /\ Obey(mode')
    /\ UNCHANGED doomed

Next ==
    \/ \E m \in Modes : Switch(m)
    \/ Decide \/ GoLive \/ GiveUp \/ Close \/ Closed
    \/ Crash \/ Restart

Fairness ==
    /\ WF_vars(Decide)
    /\ WF_vars(GoLive \/ GiveUp)
    /\ WF_vars(doomed /\ Close)
    /\ WF_vars(Closed)
    /\ WF_vars(Restart)

SafeSpec == Init /\ [][Next]_vars

Spec == SafeSpec /\ Fairness
=============================================================================

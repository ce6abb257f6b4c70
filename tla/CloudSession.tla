---------------------------- MODULE CloudSession ----------------------------
(***************************************************************************)
(* What main.py does with an authentication: a pass of run_once or of      *)
(* poll_state_only from login_or_resume (AuthResume, which this module     *)
(* extends) to the device list, the ticket, the device state and, in       *)
(* run_once, the stream with the session poller beside it and stop_live    *)
(* behind it.  Of the MQTT client it has the serial its topics are made    *)
(* of, and the order in which device states are handed to it.              *)
(*                                                                         *)
(* A device list is the set of its devices and which of them comes first.  *)
(* A reading of selectsingledevice is known by who asked for it and by     *)
(* when the cloud answered; what it says is offline, or anything else: a   *)
(* failed call and a field that is missing or no number count as unknown,  *)
(* and unknown is not offline.  A mode switch that ends a stream is a      *)
(* stream that ends, for BridgeLoop has the modes.                         *)
(***************************************************************************)
EXTENDS AuthResume, SequencesExt

CONSTANTS
    Devices,     \* the devices an account may have
    DeviceId     \* DEVICE_ID, a device or NoDevice when unset

NoDevice == "none"

ASSUME SessionAssumption ==
    /\ NoDevice \notin Devices
    /\ DeviceId \in Devices \cup {NoDevice}

VARIABLES
    pass,      \* what main() awaits: nothing, run_once or poll_state_only
    step,      \* where that awaits
    target,    \* the device of the pass
    bound,     \* MqttControl._sn, NoDevice until configure()
    missed,    \* history: a list this process got had no device DEVICE_ID
    poller,    \* the session poller: none, asleep, or its request under way
    answers    \* history: who holds an answer of the cloud, by age, oldest
               \* first, leaving out answers older than the one handed to MQTT

step_vars == <<pass, step, target>>
mqtt_vars == <<bound, missed>>
session_vars == <<step_vars, mqtt_vars, poller, answers>>
all_vars == <<vars, session_vars>>

SessionTypeOK ==
    /\ pass \in {"none", "session", "poll"}
    /\ step \in {"none", "auth", "ticket", "select", "publish",
                  "stream", "unwind", "stopLive"}
    /\ target \in Devices \cup {NoDevice}
    /\ bound \in Devices \cup {NoDevice}
    /\ missed \in BOOLEAN
    /\ poller \in {"none", "asleep", "asked", "answered"}
    /\ answers \in {<<>>, <<"main">>, <<"poller">>,
                    <<"main", "poller">>, <<"poller", "main">>}

-----------------------------------------------------------------------------
(* A pass: the device, its ticket and its state. *)

PassOver ==
    /\ pass' = "none" /\ step' = "none" /\ target' = NoDevice

BeginPass(kind) ==
    /\ step = "none"
    /\ Begin
    /\ pass' = kind /\ step' = "auth"
    /\ UNCHANGED <<target, mqtt_vars, poller, answers>>

\* A request of login_or_resume comes back without ending it well.
AuthGoesOn ==
    /\ step = "auth"
    /\ \/ ListFails \/ ListRejected \/ Renewed \/ RefreshFails
       \/ LoggedIn \/ LoginFails
    /\ IF pc' = "idle" THEN PassOver ELSE UNCHANGED step_vars
    /\ UNCHANGED <<mqtt_vars, poller, answers>>

\* Mutant: DEVICE_ID is not looked at.
Pick_first(listed, first) == first

\* _pick_device: the device with this serial number or addxSn, else the first.
Pick(listed, first) == IF DeviceId \in listed THEN DeviceId ELSE first

\* MqttControl.configure: the first device to come by is the one for good.
Configure(d) == bound' = IF bound = NoDevice THEN d ELSE bound

\* login_or_resume returns the list, which may be empty; run_once binds the MQTT
\* client before it looks at onAddx, poll_state_only after it.
GotDevices ==
    /\ step = "auth"
    /\ ListOk
    /\ \/ PassOver /\ UNCHANGED mqtt_vars
       \/ \E listed \in SUBSET Devices : \E first \in listed : \E onAddx \in BOOLEAN :
            LET d == Pick(listed, first)
            IN  /\ missed' = (missed \/ DeviceId \notin listed)
                /\ IF onAddx \/ pass = "session" THEN Configure(d) ELSE UNCHANGED bound
                /\ IF onAddx THEN step' = "ticket" /\ target' = d /\ UNCHANGED pass
                             ELSE PassOver
    /\ UNCHANGED <<poller, answers>>

\* get_addx_ticket: one of the header styles yields a token and the token a ticket.
GotTicket ==
    /\ step = "ticket"
    /\ step' = "select"
    /\ UNCHANGED <<vars, pass, target, mqtt_vars, poller, answers>>

\* It raises: no style works, a field is missing, the result is not 0, no answer.
TicketRaises ==
    /\ step = "ticket"
    /\ PassOver
    /\ UNCHANGED <<vars, mqtt_vars, poller, answers>>

\* The cloud answers selectsingledevice, or the call fails: an answer as well,
\* which says nothing.
SelectAnswered ==
    /\ step = "select"
    /\ step' = "publish"
    /\ answers' = Append(answers, "main")
    /\ UNCHANGED <<vars, pass, target, mqtt_vars, poller>>

\* publish_state: r's reading is the one MQTT has now, and older ones are out.
HandOver(r) ==
    \E i \in 0 .. Len(answers) :
        /\ IF i = 0 THEN r \notin ToSet(answers) ELSE answers[i] = r
        /\ answers' = SubSeq(answers, i + 1, Len(answers))

\* The summary is handed over and the pass is done: an off-mode poll always, a
\* session when the camera is offline beyond doubt (DeviceOfflineError).
StateIsAll ==
    /\ step = "publish"
    /\ HandOver("main")
    /\ PassOver
    /\ UNCHANGED <<vars, mqtt_vars, poller>>

\* The summary is handed over; the poller and the stream task are created.
StartStreaming ==
    /\ step = "publish" /\ pass = "session"
    /\ HandOver("main")
    /\ step' = "stream"
    /\ poller' = "asleep"
    /\ UNCHANGED <<vars, pass, target, mqtt_vars>>

-----------------------------------------------------------------------------
(* The stream and the poller beside it. *)

\* _session_state_poller wakes, its request is answered, the answer arrives.
PollerAsks ==
    /\ poller = "asleep"
    /\ poller' = "asked"
    /\ UNCHANGED <<vars, step_vars, mqtt_vars, answers>>

PollerAnswered ==
    /\ poller = "asked"
    /\ poller' = "answered"
    /\ answers' = Append(answers, "poller")
    /\ UNCHANGED <<vars, step_vars, mqtt_vars>>

PollerPublishes ==
    /\ poller = "answered"
    /\ HandOver("poller")
    /\ poller' = "asleep"
    /\ UNCHANGED <<vars, step_vars, mqtt_vars>>

\* off_event is set: the stream task is cancelled and unwinds in its own time.
AbortStream ==
    /\ step = "stream"
    /\ step' = "unwind"
    /\ UNCHANGED <<vars, pass, target, mqtt_vars, poller, answers>>

\* Mutant: the poller is left to end by itself.
CancelPoller_leaves == UNCHANGED <<poller, answers>>

\* The poller is cancelled and awaited; what it holds is lost with it, and the
\* pass itself holds nothing any more.
CancelPoller ==
    /\ poller' = "none"
    /\ answers' = <<>>

\* The stream has returned, raised or unwound: the finally block up to stop_live.
LeaveStream ==
    /\ step \in {"stream", "unwind"}
    /\ CancelPoller
    /\ step' = "stopLive"
    /\ UNCHANGED <<vars, pass, target, mqtt_vars>>

\* stop_live returns, whatever came of it.
Stopped ==
    /\ step = "stopLive"
    /\ PassOver
    /\ UNCHANGED <<vars, mqtt_vars, poller, answers>>

-----------------------------------------------------------------------------
(* The process and the cloud. *)

\* The process dies with all its tasks.
Killed ==
    /\ Crash \/ CrashInSave
    /\ PassOver
    /\ bound' = NoDevice /\ missed' = FALSE
    /\ poller' = "none" /\ answers' = <<>>

Elsewhere ==
    /\ Restart \/ \E t \in Tokens : Lapse(t) \/ Revoke(t)
    /\ UNCHANGED session_vars

SessionInit ==
    /\ Init
    /\ pass = "none" /\ step = "none" /\ target = NoDevice
    /\ bound = NoDevice /\ missed = FALSE
    /\ poller = "none" /\ answers = <<>>

SessionNext ==
    \/ \E kind \in {"session", "poll"} : BeginPass(kind)
    \/ AuthGoesOn \/ GotDevices \/ GotTicket \/ TicketRaises
    \/ SelectAnswered \/ StateIsAll \/ StartStreaming
    \/ PollerAsks \/ PollerAnswered \/ PollerPublishes
    \/ AbortStream \/ LeaveStream \/ Stopped
    \/ Killed \/ Elsewhere

SessionSpec == SessionInit /\ [][SessionNext]_all_vars

-----------------------------------------------------------------------------
(* Properties, beside those of AuthResume. *)

\* Home Assistant never goes back to an older reading: whoever is about to hand
\* one over holds none that was answered before the one handed over last.  The
\* poller of a session reads beside the stream and must be gone, with the answer
\* it may be waiting for, before the next pass reads (main.py:226, 289-292, 385).
ReadingsInOrder ==
    /\ step = "publish" => "main" \in ToSet(answers)
    /\ poller = "answered" => "poller" \in ToSet(answers)

\* The topics are named after the first device this process met; the states that
\* go there, and the stream, are of that device as long as every list has had the
\* one that DEVICE_ID asks for (main.py:164-180; mqtt_control.py:224-240).
TopicsTellOneDevice == target # NoDevice => target = bound \/ missed
=============================================================================

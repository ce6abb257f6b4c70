----------------------------- MODULE BridgeLoop -----------------------------
(***************************************************************************)
(* The forever loop of main.py together with the mode control of           *)
(* mqtt_control.py: one asyncio loop, two tasks.  The main task decides    *)
(* from the mode what to do, runs a session (run_once) or an off-mode poll *)
(* (poll_state_only) and sleeps; the MQTT task applies the mode commands   *)
(* of Home Assistant (_apply_mode) at any await of the main task.  A step  *)
(* of this module is the code between two awaits.                          *)
(*                                                                         *)
(* What survives the process is the persisted mode file and the off        *)
(* sentinel the container healthcheck looks at; the process may be killed  *)
(* at any await, and in the middle of writing the mode file, and s6 starts *)
(* it again.                                                               *)
(*                                                                         *)
(* Delays are left to the site of the sleep (pc), the outcome of a cloud   *)
(* call is a choice, and a device summary is not modelled here.            *)
(***************************************************************************)
EXTENDS Integers

CONSTANTS
    DefaultMode,   \* BIRDFY_MODE, the mode of a first boot
    MqttEnabled,   \* MQTT_HOST is set
    Configs,       \* the configurations the bridge is run with, see Options
    LadderTop      \* last index of BACKOFF_SCHEDULE

Modes == {"always_on", "auto", "off"}

\* What a configuration may have: OFF_POLL_SECONDS > 0, a first poll delayed by
\* OFF_POLL_INITIAL_SECONDS > 0, and a disk that may fail to write the mode file
\* or the sentinel.
Options == {"offPolling", "settleDelay", "diskFaults"}

ASSUME BridgeAssumption ==
    /\ DefaultMode \in Modes
    /\ MqttEnabled \in BOOLEAN
    /\ Configs \subseteq SUBSET Options
    /\ LadderTop \in Nat \ {0}

VARIABLES
    options,      \* the configuration of this bridge, the same for ever
    file,         \* .birdfy_mode: a mode, or "none" when missing or unreadable
    sentinel,     \* /tmp/birdfy_mode_off exists
    mode,         \* MqttControl._mode
    modeChanged,  \* MqttControl._mode_changed, created by the first sleep
    offEvent,     \* MqttControl._off_event, created by the first stream
    configured,   \* a serial is bound: the MQTT task is running
    subscribed,   \* that task is connected and subscribed to mode/set
    pc,           \* where the main task awaits
    wasOff,       \* was_off of main()
    announced,    \* history: a poll of this off phase has published the device
    failures,     \* consecutive_failures of main(), as far as the ladder reads
    offTask,      \* run_once's task on off_event().wait()
    sleptWith     \* history: the mode in force when the current sleep began

file_vars == <<file, sentinel>>
off_vars == <<wasOff, announced>>
vars == <<options, file, sentinel, mode, modeChanged, offEvent, configured, subscribed,
          pc, off_vars, failures, offTask, sleptWith>>

\* The awaits of the main task, by what it is doing there.
PollSites    == {"settle", "pollAuth", "pollCloud"}
OffSleeps    == {"offRetry", "offPause"}
OnSleeps     == {"offlinePause", "backoff"}
SessionSites == {"auth", "cloud", "stream", "teardown", "stopLive"}
OffSites     == PollSites \cup OffSleeps
Sleeps       == OffSleeps \cup OnSleeps
Events       == {"absent", "clear", "set"}

OffPolling  == "offPolling" \in options
SettleDelay == "settleDelay" \in options
DiskFaults  == "diskFaults" \in options

TypeOK ==
    /\ options \in Configs
    /\ file \in Modes \cup {"none"}
    /\ sentinel \in BOOLEAN
    /\ mode \in Modes
    /\ modeChanged \in Events
    /\ offEvent \in Events
    /\ configured \in BOOLEAN
    /\ subscribed \in BOOLEAN
    /\ pc \in OffSites \cup OnSleeps \cup SessionSites \cup {"dead"}
    /\ wasOff \in BOOLEAN /\ announced \in BOOLEAN
    /\ failures \in 0 .. LadderTop
    /\ offTask \in {"none", "waiting", "done"}
    /\ sleptWith \in Modes

-----------------------------------------------------------------------------
(* Files. *)

\* The mode a starting process takes: the persisted one, else the default.
RestoredMode == IF file = "none" THEN DefaultMode ELSE file

\* Mutant: only a pause is remembered.
PersistMode_offOnly(m) == file' = IF m = "off" THEN m ELSE file

\* A change of the mode is written to the file; a failing write leaves the old
\* text or, the file having been truncated first, none.
PersistMode(m) ==
    file' \in IF m = mode THEN {file}
              ELSE IF DiskFaults THEN {m, file, "none"} ELSE {m}

\* _set_off_sentinel: a failure is logged and leaves what was there.
SetOffSentinel(on) ==
    sentinel' = on \/ (DiskFaults /\ UNCHANGED sentinel)

-----------------------------------------------------------------------------
(* The main task. *)

\* sleep_until_mode_change up to its await: drain the event, then wait.
Sleep(site) ==
    /\ pc' = site
    /\ modeChanged' = "clear"
    /\ sleptWith' = mode

\* Mutant: the sentinel of an earlier off phase is left behind.
LeaveOff_keepsSentinel == UNCHANGED sentinel /\ wasOff' = FALSE

\* Not off, or just left off.
LeaveOff == SetOffSentinel(FALSE) /\ wasOff' = FALSE

\* One pass from the top of `while True` to its first await, in mode m.  The
\* pass of a steady off mode without polling awaits in the next sleep.
LoopTop(m, latched) ==
    \/ /\ m = "off"
       /\ SetOffSentinel(TRUE)
       /\ wasOff' = latched /\ UNCHANGED announced
       /\ \/ ~latched /\ SettleDelay  /\ pc' = "settle"
          \/ ~latched /\ ~SettleDelay /\ pc' = "pollAuth"
          \/ latched  /\ OffPolling   /\ pc' = "pollAuth"
          \/ latched  /\ ~OffPolling  /\ pc' = "offPause"
    \/ /\ m # "off"
       /\ LeaveOff /\ announced' = FALSE
       /\ pc' = "auth"

\* Mutant: the mode is read before the sleep and obeyed after it.
Wake_staleMode ==
    /\ pc \in Sleeps
    /\ modeChanged' = "clear"
    /\ sleptWith' = mode
    /\ LoopTop(sleptWith, wasOff)
    /\ UNCHANGED <<file, mode, offEvent, configured, subscribed, failures, offTask>>

\* Mutant: the off pause is an inner loop that does not look at the mode.
Wake_staysOff ==
    /\ pc \in Sleeps
    /\ modeChanged' = "clear"
    /\ sleptWith' = mode
    /\ LoopTop(IF pc \in OffSleeps THEN "off" ELSE mode, wasOff)
    /\ UNCHANGED <<file, mode, offEvent, configured, subscribed, failures, offTask>>

\* Mutant: a retried entry poll is taken for a steady-state pass.
Wake_forgetsEntry ==
    /\ pc \in Sleeps
    /\ modeChanged' = "clear"
    /\ sleptWith' = mode
    /\ LoopTop(mode, wasOff \/ pc = "offRetry")
    /\ UNCHANGED <<file, mode, offEvent, configured, subscribed, failures, offTask>>

\* A sleep ends, by its timeout or by the event; the event is cleared and the
\* loop starts over without an await in between.
Wake ==
    /\ pc \in Sleeps
    /\ modeChanged' = "clear"
    /\ sleptWith' = mode
    /\ LoopTop(mode, wasOff)
    /\ UNCHANGED <<file, mode, offEvent, configured, subscribed, failures, offTask>>

\* The bare asyncio.sleep before the entry poll; a mode change does not end it.
Settled ==
    /\ pc = "settle"
    /\ pc' = "pollAuth"
    /\ UNCHANGED <<file_vars, mode, modeChanged, offEvent, configured, subscribed,
                   off_vars, failures, offTask, sleptWith>>

\* Mutant: entering off counts as handled before anything was published.
PollReturns_latchesAlways(ok) == wasOff' = TRUE /\ Sleep("offPause")

\* poll_state_only has returned ok: an entry poll latches was_off only when it
\* published, a steady-state poll is not looked at.
PollReturns(ok) ==
    \/ /\ wasOff \/ ok
       /\ wasOff' = TRUE
       /\ Sleep("offPause")
    \/ /\ ~wasOff /\ ~ok
       /\ UNCHANGED wasOff
       /\ Sleep("offRetry")

\* poll_state_only from login_or_resume: it fails, finds no Addx device, or
\* binds the serial and goes on to the ticket and the device state.
PollAuth ==
    /\ pc = "pollAuth"
    /\ \/ /\ PollReturns(FALSE)
          /\ UNCHANGED configured
       \/ /\ pc' = "pollCloud"
          /\ configured' = TRUE
          /\ UNCHANGED <<modeChanged, wasOff, sleptWith>>
    /\ UNCHANGED <<file_vars, mode, offEvent, subscribed, announced, failures, offTask>>

\* get_addx_ticket may raise; select_single_device never does, and what it says
\* is published.
PollCloud ==
    /\ pc = "pollCloud"
    /\ \/ PollReturns(FALSE) /\ UNCHANGED announced
       \/ PollReturns(TRUE) /\ announced' = TRUE
    /\ UNCHANGED <<file_vars, mode, offEvent, configured, subscribed,
                   failures, offTask>>

\* The next index of the ladder after a short session.
Escalate == IF failures < LadderTop THEN failures + 1 ELSE failures

\* The end of a session in main(): run_once has returned or raised.  A run of
\* SESSION_OK_SECONDS resets the ladder whatever the time was spent on.
SessionOver ==
    /\ failures' \in {0, Escalate}
    /\ Sleep("backoff")

\* run_once from login_or_resume: it raises, finds a device that is not Addx
\* (serial bound, then RuntimeError), or binds the serial and goes on.
Authenticate ==
    /\ pc = "auth"
    /\ \/ SessionOver /\ (UNCHANGED configured \/ configured' = TRUE)
       \/ /\ pc' = "cloud"
          /\ configured' = TRUE
          /\ UNCHANGED <<modeChanged, failures, sleptWith>>
    /\ UNCHANGED <<file_vars, mode, offEvent, subscribed, off_vars, offTask>>

\* The camera answers online = 0: DeviceOfflineError, ladder untouched.
CameraOffline ==
    /\ pc = "cloud"
    /\ Sleep("offlinePause")
    /\ UNCHANGED <<file_vars, mode, offEvent, configured, subscribed, off_vars,
                   failures, offTask>>

TicketFails ==
    /\ pc = "cloud"
    /\ SessionOver
    /\ UNCHANGED <<file_vars, mode, offEvent, configured, subscribed, off_vars,
                   offTask>>

\* Mutant: a fresh off event starts clear whatever the mode.
SeededOffEvent_clear == IF offEvent # "absent" THEN offEvent ELSE "clear"

\* off_event(), created on first access and seeded from the mode.
SeededOffEvent ==
    IF offEvent # "absent" THEN offEvent
    ELSE IF mode = "off" THEN "set" ELSE "clear"

\* The stream task and the task on off_event() are created and raced.
StartStream ==
    /\ pc = "cloud"
    /\ pc' = "stream"
    /\ offEvent' = SeededOffEvent
    /\ offTask' = IF SeededOffEvent = "set" THEN "done" ELSE "waiting"
    /\ UNCHANGED <<file_vars, mode, modeChanged, configured, subscribed, off_vars,
                   failures, sleptWith>>

\* connect_and_stream returns or raises by itself; off_task is cancelled.
StreamEnds ==
    /\ pc = "stream"
    /\ pc' = "stopLive"
    /\ offTask' = "none"
    /\ UNCHANGED <<file_vars, mode, modeChanged, offEvent, configured, subscribed,
                   off_vars, failures, sleptWith>>

\* asyncio.wait returns for off_task: the stream task is cancelled, even when
\* the mode has been put back since.
AbortStream ==
    /\ pc = "stream"
    /\ offTask = "done"
    /\ pc' = "teardown"
    /\ UNCHANGED <<file_vars, mode, modeChanged, offEvent, configured, subscribed,
                   off_vars, failures, offTask, sleptWith>>

\* The cancelled stream task has unwound.
TornDown ==
    /\ pc = "teardown"
    /\ pc' = "stopLive"
    /\ offTask' = "none"
    /\ UNCHANGED <<file_vars, mode, modeChanged, offEvent, configured, subscribed,
                   off_vars, failures, sleptWith>>

\* stop_live has returned (it never raises) and so does run_once.
StopLive ==
    /\ pc = "stopLive"
    /\ SessionOver
    /\ UNCHANGED <<file_vars, mode, offEvent, configured, subscribed, off_vars,
                   offTask>>

-----------------------------------------------------------------------------
(* The MQTT task. *)

MqttConnect ==
    /\ MqttEnabled /\ configured /\ ~subscribed
    /\ subscribed' = TRUE
    /\ UNCHANGED <<file_vars, mode, modeChanged, offEvent, configured,
                   pc, off_vars, failures, offTask, sleptWith>>

MqttLost ==
    /\ subscribed
    /\ subscribed' = FALSE
    /\ UNCHANGED <<file_vars, mode, modeChanged, offEvent, configured,
                   pc, off_vars, failures, offTask, sleptWith>>

\* Mutant: only a switch to off wakes the main task.
SignalChange_offOnly(m) ==
    modeChanged' = IF m = "off" /\ modeChanged # "absent" THEN "set" ELSE modeChanged

\* A real change sets the event a sleeping main task waits on, once it exists.
SignalChange(m) ==
    modeChanged' = IF m # mode /\ modeChanged # "absent" THEN "set" ELSE modeChanged

\* Mutant: the event is set only while no session waits on it.
SignalOff_notWhenLive(m) ==
    /\ offEvent' = IF offEvent = "absent" \/ offTask = "waiting" THEN offEvent
                   ELSE IF m = "off" THEN "set" ELSE "clear"
    /\ UNCHANGED offTask

\* off_event follows the mode; setting it completes a waiting off_task for good.
SignalOff(m) ==
    /\ offEvent' = IF offEvent = "absent" THEN "absent"
                   ELSE IF m = "off" THEN "set" ELSE "clear"
    /\ offTask' = IF offTask = "waiting" /\ m = "off" THEN "done" ELSE offTask

\* _apply_mode up to the echo.
ApplyMode(m) ==
    /\ subscribed
    /\ PersistMode(m)
    /\ SignalChange(m)
    /\ mode' = m
    /\ SignalOff(m)
    /\ UNCHANGED <<sentinel, configured, subscribed, pc, off_vars, failures, sleptWith>>

-----------------------------------------------------------------------------
(* The process. *)

\* Everything in memory is lost.  mode keeps the operator's last applied mode,
\* which no process reads until Restart overwrites it.
Dies ==
    /\ pc # "dead"
    /\ pc' = "dead"
    /\ modeChanged' = "absent"
    /\ offEvent' = "absent"
    /\ configured' = FALSE
    /\ subscribed' = FALSE
    /\ wasOff' = FALSE /\ announced' = FALSE
    /\ failures' = 0
    /\ offTask' = "none"
    /\ UNCHANGED <<sentinel, mode, sleptWith>>

Crash == Dies /\ UNCHANGED file

\* Killed inside _write_persisted_mode, between the truncation of the file and
\* the write of the new mode.
CrashInWrite ==
    /\ subscribed
    /\ Dies
    /\ file' = "none"

Restart ==
    /\ pc = "dead"
    /\ mode' = RestoredMode
    /\ LoopTop(mode', FALSE)
    /\ UNCHANGED <<file, modeChanged, offEvent, configured, subscribed, failures,
                   offTask, sleptWith>>

\* A first boot (no mode file) or a boot on what an earlier container left.
Init ==
    /\ options \in Configs
    /\ file \in Modes \cup {"none"}
    /\ sentinel \in BOOLEAN
    /\ mode = RestoredMode
    /\ modeChanged = "absent" /\ offEvent = "absent"
    /\ configured = FALSE /\ subscribed = FALSE
    /\ pc = "dead"
    /\ wasOff = FALSE /\ announced = FALSE
    /\ failures = 0 /\ offTask = "none"
    /\ sleptWith = mode

MainTask ==
    \/ Wake \/ Settled \/ PollAuth \/ PollCloud
    \/ Authenticate \/ CameraOffline \/ TicketFails \/ StartStream
    \/ AbortStream \/ TornDown \/ StopLive

Next ==
    /\ UNCHANGED options
    /\ \/ MainTask \/ StreamEnds
       \/ MqttConnect \/ MqttLost
       \/ \E m \in Modes : ApplyMode(m)
       \/ Crash \/ CrashInWrite \/ Restart

Spec == Init /\ [][Next]_vars

\* Every await of the main task but the stream itself ends: the HTTP calls have
\* a total timeout of 15 s, the sleeps a delay, a cancelled stream unwinds; s6
\* restarts a dead process.  Nothing makes a stream end, a broker answer or an
\* operator act.
Fairness ==
    /\ WF_vars(MainTask /\ UNCHANGED options)
    /\ WF_vars(Restart /\ UNCHANGED options)

FairSpec == Spec /\ Fairness

-----------------------------------------------------------------------------
(* Safety. *)

\* The sentinel that makes the healthcheck pass unconditionally is there exactly
\* while the main task is in an off-mode poll or pause: a stuck stream is never
\* masked by the leftover of an earlier off phase or of a killed process, and a
\* pause is never taken for one (main.py:356-378, 484-485, 522-526).
SentinelMatchesLoop ==
    pc # "dead" /\ ~DiskFaults => (sentinel <=> pc \in OffSites)

\* No stream goes on in mode off without its abort being on the way, whenever
\* the switch came: before the off event existed, during the authentication
\* that led to the stream, or mid-stream (main.py:250-283).
OffAbortPending == pc = "stream" /\ mode = "off" => offTask = "done"

\* A change that arrives while the main task sleeps is not lost: the event it
\* waits on is set (mqtt_control.py:200-221, 347-350).
NoChangeLostAsleep == pc \in Sleeps /\ mode # sleptWith => modeChanged = "set"

\* Were the process to die now, it would come back in the mode now in force
\* (mqtt_control.py:135-141, 343-346).
ModeSurvives == pc # "dead" /\ ~DiskFaults => RestoredMode = mode

\* The main task takes off mode for entered, and settles in the long pause, only
\* once a poll of this very off phase has published, whatever an earlier session
\* bound or an earlier off phase announced; and it forgets with the off phase
\* (main.py:493-512, 526).
OffEntryAnnounced ==
    /\ wasOff \/ pc = "offPause" => announced /\ configured
    /\ wasOff => pc \in OffSites

Safety ==
    /\ SentinelMatchesLoop
    /\ OffAbortPending
    /\ NoChangeLostAsleep
    /\ ModeSurvives
    /\ OffEntryAnnounced

\* What the parts of Safety lean on, inductive together with them.
Bookkeeping ==
    /\ offEvent # "absent" => (offEvent = "set" <=> mode = "off")
    /\ offTask = "waiting" => offEvent # "absent" /\ mode # "off"
    /\ offTask # "none" <=> pc \in {"stream", "teardown"}
    /\ pc \in Sleeps => modeChanged # "absent"
    /\ subscribed => configured
    /\ configured => pc # "dead"
    /\ pc = "pollCloud" => configured
    /\ pc = "dead" => offEvent = "absent"

IInv == TypeOK /\ Safety /\ Bookkeeping

(* What the code says of a mode flip, and does not do: see README. *)

\* A sleeping main task either sleeps for the mode in force or has been woken:
\* "Wake the bridge loop out of any back-off / off-mode pause so it re-evaluates
\* against the new mode now, not at the next sleep edge" (mqtt_control.py:347).
NoStaleSleep ==
    pc \in Sleeps =>
        \/ (mode = "off") <=> (pc \in OffSleeps)
        \/ modeChanged = "set"

-----------------------------------------------------------------------------
(* Liveness, and the promise of ModeSwitch. *)

Act ==
    CASE pc = "dead"                      -> "down"
      [] pc \in OffSites                  -> "off"
      [] pc \in {"auth", "cloud"}         -> "attempt"
      [] pc = "stream"                    -> "live"
      [] pc \in {"teardown", "stopLive"}  -> "closing"
      [] OTHER                            -> "waiting"

M == INSTANCE ModeSwitch
       WITH act <- Act, doomed <- (pc = "stream" /\ offTask = "done")

\* main() keeps the promise of ModeSwitch: sessions start only by a decision
\* taken in a mode that allows them, a session live at a switch to off is
\* aborted, and a bridge that is done waiting obeys the mode in force.
KeepsModePromise == M!SafeSpec

\* An operator's off, whenever it comes, ends in an off-mode poll or pause
\* unless it is taken back; stale sleeps delay it and cannot lose it.
OffTakesEffect == mode = "off" ~> (mode # "off" \/ pc \in OffSites)

\* Lifting off, whenever it happens, ends in a session attempt unless taken back.
OnTakesEffect == mode # "off" ~> (mode = "off" \/ pc \in SessionSites)

\* An off-entry poll that failed is always tried again, also when the repeat
\* polls are disabled, so that a boot into off is announced (main.py:500-512).
EntryPollRetried ==
    pc = "offRetry" ~> (pc = "pollAuth" \/ pc \in SessionSites \/ pc = "dead")
=============================================================================

-------------------------- MODULE BridgeLoop_proofs --------------------------
(***************************************************************************)
(* Theorems about BridgeLoop for every configuration: whatever the options *)
(* of the off mode, the default mode, the length of the ladder and the     *)
(* health of the disk.  IInv is inductive; Safety and the refinement of    *)
(* ModeSwitch follow from it.                                              *)
(***************************************************************************)
EXTENDS BridgeLoop, TLAPS

\* The flags and the rest of TypeOK, which different provers handle.
Flags ==
    /\ sentinel \in BOOLEAN /\ configured \in BOOLEAN
    /\ subscribed \in BOOLEAN /\ wasOff \in BOOLEAN /\ announced \in BOOLEAN

Others ==
    /\ options \in Configs
    /\ file \in Modes \cup {"none"} /\ mode \in Modes /\ sleptWith \in Modes
    /\ modeChanged \in Events /\ offEvent \in Events
    /\ pc \in OffSites \cup OnSleeps \cup SessionSites \cup {"dead"}
    /\ failures \in 0 .. LadderTop
    /\ offTask \in {"none", "waiting", "done"}

\* IInv holds in every initial state.
LEMMA InitEstablishes == Init => IInv
<1> SUFFICES ASSUME Init PROVE IInv
  OBVIOUS
<1> USE BridgeAssumption DEF BridgeAssumption, Init
<1>1. Flags
  BY Zenon DEF Flags
<1>2. Others
  BY DEF Others, RestoredMode, Modes, Events
<1>3. Safety
  BY DEF Safety, SentinelMatchesLoop, OffAbortPending, NoChangeLostAsleep,
         ModeSurvives, OffEntryAnnounced, Sleeps, OffSleeps, OnSleeps
<1>4. Bookkeeping
  BY Zenon DEF Bookkeeping, Sleeps, OffSleeps, OnSleeps
<1>5. TypeOK
  BY <1>1, <1>2 DEF TypeOK, Flags, Others
<1> QED
  BY <1>3, <1>4, <1>5 DEF IInv

\* Every step keeps the flags Boolean.
LEMMA FlagsKept == IInv /\ [Next]_vars => Flags'
<1> SUFFICES ASSUME IInv, [Next]_vars PROVE Flags'
  OBVIOUS
<1> USE DEF IInv, TypeOK, Flags, file_vars, off_vars
<1>1. CASE Wake
  BY <1>1, Zenon DEF Wake, LoopTop, LeaveOff, SetOffSentinel
<1>2. CASE Settled
  BY <1>2, Zenon DEF Settled
<1>3. CASE PollAuth
  BY <1>3, Zenon DEF PollAuth, PollReturns, Sleep
<1>4. CASE PollCloud
  BY <1>4, Zenon DEF PollCloud, PollReturns, Sleep
<1>5. CASE Authenticate
  BY <1>5, Zenon DEF Authenticate, SessionOver, Sleep
<1>6. CASE CameraOffline
  BY <1>6, Zenon DEF CameraOffline, Sleep
<1>7. CASE TicketFails
  BY <1>7, Zenon DEF TicketFails, SessionOver, Sleep
<1>8. CASE StartStream
  BY <1>8, Zenon DEF StartStream
<1>9. CASE AbortStream
  BY <1>9, Zenon DEF AbortStream
<1>10. CASE TornDown
  BY <1>10, Zenon DEF TornDown
<1>11. CASE StopLive
  BY <1>11, Zenon DEF StopLive, SessionOver, Sleep
<1>12. CASE StreamEnds
  BY <1>12, Zenon DEF StreamEnds
<1>13. CASE MqttConnect
  BY <1>13, Zenon DEF MqttConnect
<1>14. CASE MqttLost
  BY <1>14, Zenon DEF MqttLost
<1>15. ASSUME NEW m \in Modes, ApplyMode(m) PROVE Flags'
  BY <1>15, Zenon DEF ApplyMode, SignalOff
<1>16. CASE Crash
  BY <1>16, Zenon DEF Crash, Dies
<1>17. CASE CrashInWrite
  BY <1>17, Zenon DEF CrashInWrite, Dies
<1>18. CASE Restart
  BY <1>18, Zenon DEF Restart, LoopTop, LeaveOff, SetOffSentinel
<1>19. CASE UNCHANGED vars
  BY <1>19, Zenon DEF vars
<1> QED
  BY <1>1, <1>2, <1>3, <1>4, <1>5, <1>6, <1>7, <1>8, <1>9, <1>10, <1>11, <1>12,
     <1>13, <1>14, <1>15, <1>16, <1>17, <1>18, <1>19
     DEF Next, MainTask

\* Every step keeps the other variables in their ranges.
LEMMA OthersKept == IInv /\ [Next]_vars => Others'
<1> SUFFICES ASSUME IInv, [Next]_vars PROVE Others'
  OBVIOUS
<1>0. UNCHANGED options
  BY DEF Next, vars
<1> USE BridgeAssumption
       DEF BridgeAssumption, IInv, TypeOK, Others, file_vars, off_vars, Events, Modes,
           PollSites, OffSleeps, OnSleeps, SessionSites, OffSites, Sleeps
<1>1. CASE Wake
  BY <1>0, <1>1, SMT DEF Wake, LoopTop, LeaveOff, SetOffSentinel
<1>2. CASE Settled
  BY <1>0, <1>2, SMT DEF Settled
<1>3. CASE PollAuth
  BY <1>0, <1>3, SMT DEF PollAuth, PollReturns, Sleep
<1>4. CASE PollCloud
  BY <1>0, <1>4, SMT DEF PollCloud, PollReturns, Sleep
<1>5. CASE Authenticate
  BY <1>0, <1>5, SMT DEF Authenticate, SessionOver, Escalate, Sleep
<1>6. CASE CameraOffline
  BY <1>0, <1>6, SMT DEF CameraOffline, Sleep
<1>7. CASE TicketFails
  BY <1>0, <1>7, SMT DEF TicketFails, SessionOver, Escalate, Sleep
<1>8. CASE StartStream
  BY <1>0, <1>8, SMT DEF StartStream, SeededOffEvent
<1>9. CASE AbortStream
  BY <1>0, <1>9, SMT DEF AbortStream
<1>10. CASE TornDown
  BY <1>0, <1>10, SMT DEF TornDown
<1>11. CASE StopLive
  BY <1>0, <1>11, SMT DEF StopLive, SessionOver, Escalate, Sleep
<1>12. CASE StreamEnds
  BY <1>0, <1>12, SMT DEF StreamEnds
<1>13. CASE MqttConnect
  BY <1>0, <1>13, SMT DEF MqttConnect
<1>14. CASE MqttLost
  BY <1>0, <1>14, SMT DEF MqttLost
<1>15. ASSUME NEW m \in Modes, ApplyMode(m) PROVE Others'
  BY <1>0, <1>15, SMT DEF ApplyMode, PersistMode, SignalChange, SignalOff
<1>16. CASE Crash
  BY <1>0, <1>16, SMT DEF Crash, Dies
<1>17. CASE CrashInWrite
  BY <1>0, <1>17, SMT DEF CrashInWrite, Dies
<1>18. CASE Restart
  BY <1>0, <1>18, SMT DEF Restart, LoopTop, LeaveOff, SetOffSentinel, RestoredMode
<1>19. CASE UNCHANGED vars
  BY <1>0, <1>19, SMT DEF vars
<1> QED
  BY <1>1, <1>2, <1>3, <1>4, <1>5, <1>6, <1>7, <1>8, <1>9, <1>10, <1>11, <1>12,
     <1>13, <1>14, <1>15, <1>16, <1>17, <1>18, <1>19
     DEF Next, MainTask

\* Every step keeps the safety invariants: the heart of the argument.
LEMMA SafetyKept == IInv /\ [Next]_vars => Safety'
<1> SUFFICES ASSUME IInv, [Next]_vars PROVE Safety'
  OBVIOUS
<1>0. UNCHANGED options
  BY DEF Next, vars
<1> USE BridgeAssumption
       DEF BridgeAssumption, DiskFaults, IInv, TypeOK, Bookkeeping, Safety, SentinelMatchesLoop,
           OffAbortPending, NoChangeLostAsleep, ModeSurvives, OffEntryAnnounced,
           RestoredMode, file_vars, off_vars, PollSites, OffSleeps, OnSleeps, SessionSites,
           OffSites, Sleeps, Events, Modes
<1>1. CASE Wake
  BY <1>0, <1>1, SMT DEF Wake, LoopTop, LeaveOff, SetOffSentinel
<1>2. CASE Settled
  BY <1>0, <1>2, SMT DEF Settled
<1>3. CASE PollAuth
  BY <1>0, <1>3, SMT DEF PollAuth, PollReturns, Sleep
<1>4. CASE PollCloud
  BY <1>0, <1>4, SMT DEF PollCloud, PollReturns, Sleep
<1>5. CASE Authenticate
  BY <1>0, <1>5, SMT DEF Authenticate, SessionOver, Escalate, Sleep
<1>6. CASE CameraOffline
  BY <1>0, <1>6, SMT DEF CameraOffline, Sleep
<1>7. CASE TicketFails
  BY <1>0, <1>7, SMT DEF TicketFails, SessionOver, Escalate, Sleep
<1>8. CASE StartStream
  BY <1>0, <1>8, SMT DEF StartStream, SeededOffEvent
<1>9. CASE AbortStream
  BY <1>0, <1>9, SMT DEF AbortStream
<1>10. CASE TornDown
  BY <1>0, <1>10, SMT DEF TornDown
<1>11. CASE StopLive
  BY <1>0, <1>11, SMT DEF StopLive, SessionOver, Escalate, Sleep
<1>12. CASE StreamEnds
  BY <1>0, <1>12, SMT DEF StreamEnds
<1>13. CASE MqttConnect
  BY <1>0, <1>13, SMT DEF MqttConnect
<1>14. CASE MqttLost
  BY <1>0, <1>14, SMT DEF MqttLost
<1>15. ASSUME NEW m \in Modes, ApplyMode(m) PROVE Safety'
  BY <1>0, <1>15, SMT DEF ApplyMode, PersistMode, SignalChange, SignalOff
<1>16. CASE Crash
  BY <1>0, <1>16, SMT DEF Crash, Dies
<1>17. CASE CrashInWrite
  BY <1>0, <1>17, SMT DEF CrashInWrite, Dies
<1>18. CASE Restart
  BY <1>0, <1>18, SMT DEF Restart, LoopTop, LeaveOff, SetOffSentinel
<1>19. CASE UNCHANGED vars
  BY <1>0, <1>19, SMT DEF vars
<1> QED
  BY <1>1, <1>2, <1>3, <1>4, <1>5, <1>6, <1>7, <1>8, <1>9, <1>10, <1>11, <1>12,
     <1>13, <1>14, <1>15, <1>16, <1>17, <1>18, <1>19
     DEF Next, MainTask

\* Every step keeps what the safety invariants lean on.
LEMMA BookkeepingKept == IInv /\ [Next]_vars => Bookkeeping'
<1> SUFFICES ASSUME IInv, [Next]_vars PROVE Bookkeeping'
  OBVIOUS
<1> USE DEF IInv, TypeOK, Bookkeeping, Safety, OffEntryAnnounced, file_vars, off_vars, Events,
           Modes, PollSites, OffSleeps, OnSleeps, SessionSites, OffSites, Sleeps
<1>1. CASE Wake
  BY <1>1, SMT DEF Wake, LoopTop, LeaveOff, SetOffSentinel
<1>2. CASE Settled
  BY <1>2, SMT DEF Settled
<1>3. CASE PollAuth
  BY <1>3, SMT DEF PollAuth, PollReturns, Sleep
<1>4. CASE PollCloud
  BY <1>4, SMT DEF PollCloud, PollReturns, Sleep
<1>5. CASE Authenticate
  BY <1>5, SMT DEF Authenticate, SessionOver, Escalate, Sleep
<1>6. CASE CameraOffline
  BY <1>6, SMT DEF CameraOffline, Sleep
<1>7. CASE TicketFails
  BY <1>7, SMT DEF TicketFails, SessionOver, Escalate, Sleep
<1>8. CASE StartStream
  BY <1>8, SMT DEF StartStream, SeededOffEvent
<1>9. CASE AbortStream
  BY <1>9, SMT DEF AbortStream
<1>10. CASE TornDown
  BY <1>10, SMT DEF TornDown
<1>11. CASE StopLive
  BY <1>11, SMT DEF StopLive, SessionOver, Escalate, Sleep
<1>12. CASE StreamEnds
  BY <1>12, SMT DEF StreamEnds
<1>13. CASE MqttConnect
  BY <1>13, SMT DEF MqttConnect
<1>14. CASE MqttLost
  BY <1>14, SMT DEF MqttLost
<1>15. ASSUME NEW m \in Modes, ApplyMode(m) PROVE Bookkeeping'
  BY <1>15, SMT DEF ApplyMode, PersistMode, SignalChange, SignalOff
<1>16. CASE Crash
  BY <1>16, SMT DEF Crash, Dies
<1>17. CASE CrashInWrite
  BY <1>17, SMT DEF CrashInWrite, Dies
<1>18. CASE Restart
  BY <1>18, SMT DEF Restart, LoopTop, LeaveOff, SetOffSentinel, RestoredMode
<1>19. CASE UNCHANGED vars
  BY <1>19, SMT DEF vars
<1> QED
  BY <1>1, <1>2, <1>3, <1>4, <1>5, <1>6, <1>7, <1>8, <1>9, <1>10, <1>11, <1>12,
     <1>13, <1>14, <1>15, <1>16, <1>17, <1>18, <1>19
     DEF Next, MainTask

\* The inductive step.
LEMMA StepKeeps == IInv /\ [Next]_vars => IInv'
<1> SUFFICES ASSUME IInv, [Next]_vars PROVE IInv'
  OBVIOUS
<1>1. TypeOK'
  BY FlagsKept, OthersKept DEF TypeOK, Flags, Others
<1> QED
  BY <1>1, SafetyKept, BookkeepingKept DEF IInv

\* IInv is an invariant.
THEOREM Invariance == Spec => []IInv
  BY InitEstablishes, StepKeeps, PTL DEF Spec

\* Type correctness: the variables never leave the ranges the code gives them.
THEOREM TypeCorrect == Spec => []TypeOK
<1>1. IInv => TypeOK
  BY DEF IInv
<1> QED
  BY <1>1, Invariance, PTL

\* The sentinel is up exactly while the loop pauses in off mode, also after a kill
\* at any await and a restart in any mode.
THEOREM SentinelIsRight == Spec => []SentinelMatchesLoop
<1>1. IInv => SentinelMatchesLoop
  BY DEF IInv, Safety
<1> QED
  BY <1>1, Invariance, PTL

\* An off request that meets a stream has its abort on the way, whenever it came.
THEOREM OffNeverMissed == Spec => []OffAbortPending
<1>1. IInv => OffAbortPending
  BY DEF IInv, Safety
<1> QED
  BY <1>1, Invariance, PTL

\* No change of the mode is lost while the main task sleeps.
THEOREM ChangeWakes == Spec => []NoChangeLostAsleep
<1>1. IInv => NoChangeLostAsleep
  BY DEF IInv, Safety
<1> QED
  BY <1>1, Invariance, PTL

\* The mode in force is the one a restart brings back.
THEOREM ModeComesBack == Spec => []ModeSurvives
<1>1. IInv => ModeSurvives
  BY DEF IInv, Safety
<1> QED
  BY <1>1, Invariance, PTL

\* Off mode counts as entered only when a poll of that off phase has published: no
\* earlier session, off phase or failed poll will do.
THEOREM EntryIsAnnounced == Spec => []OffEntryAnnounced
<1>1. IInv => OffEntryAnnounced
  BY DEF IInv, Safety
<1> QED
  BY <1>1, Invariance, PTL

-----------------------------------------------------------------------------
(* Refinement of ModeSwitch. *)

\* Where the abstract bridge is, read off the site of the main task.
LEMMA ActOf ==
    /\ pc = "dead" => Act = "down"
    /\ pc \in OffSites => Act = "off"
    /\ pc \in {"auth", "cloud"} => Act = "attempt"
    /\ pc = "stream" => Act = "live"
    /\ pc \in {"teardown", "stopLive"} => Act = "closing"
    /\ pc \in OnSleeps => Act = "waiting"
  BY DEF Act, OffSites, PollSites, OffSleeps, OnSleeps

\* The same of the next state.
LEMMA ActOfNext ==
    /\ pc' = "dead" => Act' = "down"
    /\ pc' \in OffSites => Act' = "off"
    /\ pc' \in {"auth", "cloud"} => Act' = "attempt"
    /\ pc' = "stream" => Act' = "live"
    /\ pc' \in {"teardown", "stopLive"} => Act' = "closing"
    /\ pc' \in OnSleeps => Act' = "waiting"
  BY DEF Act, OffSites, PollSites, OffSleeps, OnSleeps

\* A process that has not started is an abstract bridge that is down.
LEMMA InitRefines == Init => M!Init
<1> SUFFICES ASSUME Init PROVE M!Init
  OBVIOUS
<1>1. Act = "down"
  BY ActOf DEF Init
<1>2. mode \in M!Modes
  BY BridgeAssumption DEF BridgeAssumption, Init, RestoredMode, Modes, M!Modes
<1>3. (pc = "stream" /\ offTask = "done") = FALSE
  BY DEF Init
<1> QED
  BY <1>1, <1>2, <1>3 DEF M!Init

\* The end of a sleep is a decision taken in the mode in force.
LEMMA WakeDecides == ASSUME IInv, Wake PROVE M!Decide
<1> USE ActOf, ActOfNext
<1>1. /\ pc \in Sleeps /\ pc # "stream" /\ pc' # "stream" /\ mode' = mode
      /\ mode = "off" => pc' \in OffSites
      /\ mode # "off" => pc' = "auth"
  BY SMT DEF Wake, LoopTop, LeaveOff, SetOffSentinel, PollSites, OffSleeps,
             OnSleeps, SessionSites, OffSites, Sleeps
<1>2. Act \in {"off", "waiting"}
  BY <1>1 DEF Sleeps, OffSites
<1>3. Act' = IF mode = "off" THEN "off" ELSE "attempt"
  BY <1>1
<1>4. UNCHANGED (pc = "stream" /\ offTask = "done")
  BY <1>1
<1> QED
  BY <1>1, <1>2, <1>3, <1>4, Zenon DEF M!Decide, M!Obey

\* A mode command dooms a live session exactly when it asks for off.
LEMMA CommandSwitches ==
    ASSUME IInv, NEW m \in Modes, ApplyMode(m) PROVE M!Switch(m)
<1>1. mode' = m /\ pc # "dead" /\ UNCHANGED pc
  BY DEF ApplyMode, IInv, Bookkeeping
<1>2. UNCHANGED Act /\ Act # "down" /\ (Act = "live" <=> pc = "stream")
  BY <1>1 DEF Act
<1>3. (pc = "stream" /\ offTask = "done")'
      <=> \/ pc = "stream" /\ offTask = "done"
          \/ Act = "live" /\ m = "off"
  BY <1>1, <1>2 DEF ApplyMode, SignalOff, IInv, Bookkeeping, TypeOK
<1> QED
  BY <1>1, <1>2, <1>3, Zenon DEF M!Switch

\* A restart obeys the mode it restores.
LEMMA RestartObeys == ASSUME IInv, Restart PROVE M!Restart
<1> USE ActOf, ActOfNext
<1>1. /\ mode' = RestoredMode /\ pc = "dead" /\ pc' # "stream"
      /\ mode' = "off" => pc' \in OffSites
      /\ mode' # "off" => pc' = "auth"
  BY SMT DEF Restart, LoopTop, LeaveOff, SetOffSentinel, PollSites, OffSleeps,
             OnSleeps, SessionSites, OffSites, Sleeps
<1>2. Act = "down" /\ mode' \in M!Modes
  BY <1>1, BridgeAssumption DEF BridgeAssumption, RestoredMode, Modes, M!Modes,
                                IInv, TypeOK
<1>3. Act' = IF mode' = "off" THEN "off" ELSE "attempt"
  BY <1>1
<1>4. UNCHANGED (pc = "stream" /\ offTask = "done")
  BY <1>1
<1> QED
  BY <1>1, <1>2, <1>3, <1>4, Zenon DEF M!Restart, M!Obey

\* Every step of the loop is a step of the promise or changes nothing it sees.
LEMMA StepRefines == IInv /\ [Next]_vars => [M!Next]_(M!vars)
<1> SUFFICES ASSUME IInv, [Next]_vars PROVE [M!Next]_(M!vars)
  OBVIOUS
<1> USE ActOf, ActOfNext
<1>1. CASE Wake
  BY <1>1, WakeDecides DEF M!Next
<1>2. CASE Settled
  BY <1>2, SMT DEF Settled, M!vars, OffSites, PollSites
<1>3. CASE PollAuth
  BY <1>3, SMT DEF PollAuth, PollReturns, Sleep, M!vars, OffSites, PollSites, OffSleeps
<1>4. CASE PollCloud
  BY <1>4, SMT DEF PollCloud, PollReturns, Sleep, M!vars, OffSites, PollSites, OffSleeps
<1>5. CASE Authenticate
  <2>1. M!GiveUp \/ UNCHANGED M!vars
    BY <1>5, SMT DEF Authenticate, SessionOver, Sleep, M!GiveUp, M!vars, OnSleeps
  <2> QED
    BY <2>1 DEF M!Next
<1>6. CASE CameraOffline \/ TicketFails
  <2>1. M!GiveUp
    BY <1>6, SMT DEF CameraOffline, TicketFails, SessionOver, Sleep, M!GiveUp, OnSleeps
  <2> QED
    BY <2>1 DEF M!Next
<1>7. CASE StartStream
  <2>1. M!GoLive
    BY <1>7, SMT DEF StartStream, SeededOffEvent, M!GoLive, IInv, Bookkeeping
  <2> QED
    BY <2>1 DEF M!Next
<1>8. CASE StreamEnds \/ AbortStream
  <2>1. M!Close
    BY <1>8, SMT DEF StreamEnds, AbortStream, M!Close
  <2> QED
    BY <2>1 DEF M!Next
<1>9. CASE TornDown
  BY <1>9, SMT DEF TornDown, M!vars
<1>10. CASE StopLive
  <2>1. M!Closed
    BY <1>10, SMT DEF StopLive, SessionOver, Sleep, M!Closed, OnSleeps
  <2> QED
    BY <2>1 DEF M!Next
<1>11. CASE MqttConnect \/ MqttLost
  BY <1>11 DEF MqttConnect, MqttLost, M!vars, Act
<1>12. ASSUME NEW m \in Modes, ApplyMode(m) PROVE [M!Next]_(M!vars)
  BY <1>12, CommandSwitches DEF M!Next, M!Modes, Modes
<1>13. CASE Crash \/ CrashInWrite
  <2>1. M!Crash
    BY <1>13, SMT DEF Crash, CrashInWrite, Dies, M!Crash
  <2> QED
    BY <2>1 DEF M!Next
<1>14. CASE Restart
  BY <1>14, RestartObeys DEF M!Next
<1>15. CASE UNCHANGED vars
  BY <1>15 DEF vars, M!vars, Act
<1> QED
  BY <1>1, <1>2, <1>3, <1>4, <1>5, <1>6, <1>7, <1>8, <1>9, <1>10, <1>11, <1>12,
     <1>13, <1>14, <1>15
     DEF Next, MainTask

\* main() keeps the promise of ModeSwitch whatever its configuration, crashes,
\* restarts, disk faults and broker outages included.
THEOREM Refinement == Spec => KeepsModePromise
<1>1. Init => M!Init
  BY InitRefines
<1>2. IInv /\ [Next]_vars => [M!Next]_(M!vars)
  BY StepRefines
<1> QED
  BY <1>1, <1>2, Invariance, PTL DEF Spec, KeepsModePromise, M!SafeSpec
=============================================================================

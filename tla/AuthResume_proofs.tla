------------------------ MODULE AuthResume_proofs ------------------------
(***************************************************************************)
(* Theorems about AuthResume for any accounts and any number of tokens,     *)
(* about CloudSession for any devices and any DEVICE_ID, and that the one   *)
(* implements the other.                                                   *)
(***************************************************************************)
EXTENDS CloudSession, SequenceTheorems, TLAPS

Ranges ==
    /\ account \in Accounts
    /\ owner \in [Tokens -> Accounts]
    /\ issued \in 0 .. MaxTokens
    /\ untagged \subseteq 1 .. issued
    /\ alive \subseteq 1 .. issued
    /\ renewable \subseteq 1 .. issued
    /\ file \in None .. issued
    /\ pc \in {"idle", "validate", "refresh", "revalidate", "login", "devices", "dead"}
    /\ held \in None .. issued
    /\ authed \in None .. issued

Flag == unsaved \in BOOLEAN

IInv == Flag /\ Ranges /\ SessionIsMine /\ ReturnedIsCached /\ Bookkeeping

\* Nothing has been issued but what an earlier installation may have cached.
LEMMA InitEstablishes == Init => IInv
<1> SUFFICES ASSUME Init PROVE IInv
  OBVIOUS
<1>1. Flag
  BY Zenon DEF Init, Flag
<1>2. Ranges /\ SessionIsMine /\ ReturnedIsCached /\ Bookkeeping
  BY AuthAssumption DEF AuthAssumption, Init, Ranges, SessionIsMine,
     ReturnedIsCached, Bookkeeping, TakenAsMine, Tokens, None
<1> QED
  BY <1>1, <1>2 DEF IInv

\* Every variable keeps its range, the file and the tokens those of what has been
\* issued.
LEMMA RangesKept == IInv /\ [Next]_vars => Ranges'
<1> SUFFICES ASSUME IInv, [Next]_vars PROVE Ranges'
  OBVIOUS
<1> USE AuthAssumption
    DEF AuthAssumption, IInv, Ranges, Bookkeeping, TakenAsMine, Tokens, None,
        token_vars
<1>1. CASE Begin
  BY <1>1 DEF Begin, Resumable, Clear
<1>2. CASE ListOk
  BY <1>2 DEF ListOk, Succeed
<1>3. CASE ListFails
  BY <1>3 DEF ListFails, Raise
<1>4. CASE ListRejected
  BY <1>4 DEF ListRejected, Clear, Raise
<1>5. CASE Renewed
  BY <1>5 DEF Renewed, Issue, InheritTag, Save
<1>6. CASE RefreshFails
  BY <1>6 DEF RefreshFails, Clear
<1>7. CASE LoggedIn
  BY <1>7 DEF LoggedIn, Issue, Save
<1>8. CASE LoginFails
  BY <1>8 DEF LoginFails, Raise
<1>9. CASE Crash
  BY <1>9 DEF Crash, Dies
<1>10. CASE CrashInSave
  BY <1>10 DEF CrashInSave, Dies, Issue
<1>11. CASE Restart
  BY <1>11 DEF Restart
<1>12. ASSUME NEW t \in Tokens, Lapse(t) PROVE Ranges'
  BY <1>12 DEF Lapse
<1>13. ASSUME NEW t \in Tokens, Revoke(t) PROVE Ranges'
  BY <1>13 DEF Revoke
<1>14. CASE UNCHANGED vars
  BY <1>14 DEF vars, token_vars
<1> QED
  BY <1>1, <1>2, <1>3, <1>4, <1>5, <1>6, <1>7,
     <1>8, <1>9, <1>10, <1>11, <1>12, <1>13, <1>14
     DEF Next, Attempt

\* So does the history of failed saves.
LEMMA FlagKept == IInv /\ [Next]_vars => Flag'
<1> SUFFICES ASSUME IInv, [Next]_vars PROVE Flag'
  OBVIOUS
<1> USE DEF IInv, Flag
<1>1. CASE Begin \/ ListOk \/ ListFails \/ ListRejected \/ RefreshFails \/ LoginFails
  BY <1>1, Zenon DEF Begin, ListOk, ListFails, ListRejected, RefreshFails, LoginFails,
     Raise
<1>2. CASE Renewed \/ LoggedIn
  BY <1>2, Zenon DEF Renewed, LoggedIn, Save
<1>3. CASE Crash \/ CrashInSave \/ Restart
  BY <1>3, Zenon DEF Crash, CrashInSave, Restart, Dies
<1>4. ASSUME NEW t \in Tokens, Lapse(t) \/ Revoke(t) PROVE Flag'
  BY <1>4, Zenon DEF Lapse, Revoke
<1>5. CASE UNCHANGED vars
  BY <1>5, Zenon DEF vars
<1> QED
  BY <1>1, <1>2, <1>3, <1>4, <1>5, Zenon DEF Next, Attempt

\* Which token an attempt holds, whose it is, and what the file has to do with it.
LEMMA BookkeepingKept ==
    IInv /\ [Next]_vars => SessionIsMine' /\ ReturnedIsCached' /\ Bookkeeping'
<1> DEFINE Book == SessionIsMine /\ ReturnedIsCached /\ Bookkeeping
<1> SUFFICES ASSUME IInv, [Next]_vars PROVE Book'
  OBVIOUS
<1> USE AuthAssumption
    DEF AuthAssumption, IInv, Ranges, SessionIsMine, ReturnedIsCached, Bookkeeping,
        TakenAsMine, Tokens, None, token_vars
<1>1. CASE Begin
  BY <1>1 DEF Begin, Resumable, Clear
<1>2. CASE ListOk
  BY <1>2 DEF ListOk, Succeed
<1>3. CASE ListFails
  BY <1>3 DEF ListFails, Raise
<1>4. CASE ListRejected
  BY <1>4 DEF ListRejected, Clear, Raise
<1>5. CASE Renewed
  BY <1>5 DEF Renewed, Issue, InheritTag, Save
<1>6. CASE RefreshFails
  BY <1>6 DEF RefreshFails, Clear
<1>7. CASE LoggedIn
  BY <1>7 DEF LoggedIn, Issue, Save
<1>8. CASE LoginFails
  BY <1>8 DEF LoginFails, Raise
<1>9. CASE Crash
  BY <1>9 DEF Crash, Dies
<1>10. CASE CrashInSave
  BY <1>10 DEF CrashInSave, Dies, Issue
<1>11. CASE Restart
  BY <1>11 DEF Restart
<1>12. ASSUME NEW t \in Tokens, Lapse(t) PROVE Book'
  BY <1>12 DEF Lapse
<1>13. ASSUME NEW t \in Tokens, Revoke(t) PROVE Book'
  BY <1>13 DEF Revoke
<1>14. CASE UNCHANGED vars
  BY <1>14 DEF vars, token_vars
<1> QED
  BY <1>1, <1>2, <1>3, <1>4, <1>5, <1>6, <1>7,
     <1>8, <1>9, <1>10, <1>11, <1>12, <1>13, <1>14
     DEF Next, Attempt

\* IInv is inductive, so every reachable state satisfies it.
THEOREM Invariance == Spec => []IInv
<1>1. IInv /\ [Next]_vars => IInv'
  BY FlagKept, RangesKept, BookkeepingKept DEF IInv
<1> QED
  BY <1>1, InitEstablishes, PTL DEF Spec

\* Type correctness of the token cache and of an attempt.
THEOREM TypeCorrect == Spec => []TypeOK
<1>1. IInv => TypeOK
  BY Zenon DEF IInv, Flag, Ranges, TypeOK
<1> QED
  BY <1>1, Invariance, PTL

\* The token the bridge works with is of the account it is configured with, or goes
\* back to a cache that named no account.
THEOREM SessionsAreMine == Spec => []SessionIsMine
<1>1. IInv => SessionIsMine
  BY DEF IInv
<1> QED
  BY <1>1, Invariance, PTL

\* Where no such cache was there to begin with none appears, and the bridge works with
\* tokens of the configured account only, whatever fails and however often it is
\* restarted with other credentials.
THEOREM TaggedAreMine ==
    Spec /\ untagged = {} => [](authed # None => owner[authed] = account)
<1> DEFINE AllTagged == untagged = {}
<1>1. AllTagged /\ [Next]_vars => AllTagged'
  <2> SUFFICES ASSUME untagged = {}, [Next]_vars PROVE untagged' = {}
    OBVIOUS
  <2> USE DEF token_vars
  <2>1. CASE Renewed
    BY <2>1 DEF Renewed, InheritTag
  <2>2. CASE LoggedIn \/ CrashInSave
    BY <2>2 DEF LoggedIn, CrashInSave
  <2>3. CASE Begin \/ ListOk \/ ListFails \/ ListRejected \/ RefreshFails \/ LoginFails
    BY <2>3 DEF Begin, ListOk, ListFails, ListRejected, RefreshFails, LoginFails
  <2>4. CASE Crash \/ Restart
    BY <2>4 DEF Crash, Restart
  <2>5. ASSUME NEW t \in Tokens, Lapse(t) \/ Revoke(t) PROVE untagged' = {}
    BY <2>5 DEF Lapse, Revoke
  <2>6. CASE UNCHANGED vars
    BY <2>6 DEF vars
  <2> QED
    BY <2>1, <2>2, <2>3, <2>4, <2>5, <2>6 DEF Next, Attempt
<1>2. SessionIsMine /\ AllTagged => (authed # None => owner[authed] = account)
  BY DEF SessionIsMine
<1> QED
  BY <1>1, <1>2, SessionsAreMine, PTL DEF Spec

\* What the bridge works with is what a restart would find in the cache.
THEOREM ReturnedAreCached == Spec => []ReturnedIsCached
<1>1. IInv => ReturnedIsCached
  BY DEF IInv
<1> QED
  BY <1>1, Invariance, PTL

\* Whatever fails, no login is begun while the cache holds a token that the bridge
\* takes for its account's and that the cloud accepts.
THEOREM LoginsAreNeeded == Spec => LoginOnlyWhenUseless
<1> DEFINE Needed == pc # "login" /\ pc' = "login" /\ Caching =>
                       file = None \/ ~TakenAsMine(file) \/ file \notin alive
<1>1. IInv /\ [Next]_vars => [Needed]_vars
  <2> SUFFICES ASSUME IInv, Next PROVE Needed
    BY DEF vars, token_vars
  <2> USE DEF IInv, Bookkeeping, None
  <2>1. CASE Begin
    BY <2>1 DEF Begin, Resumable, Clear
  <2>2. CASE ListOk
    BY <2>2 DEF ListOk, Succeed
  <2>3. CASE ListFails
    BY <2>3 DEF ListFails, Raise
  <2>4. CASE ListRejected
    BY <2>4 DEF ListRejected, Clear, Raise
  <2>5. CASE Renewed
    BY <2>5 DEF Renewed, Issue, InheritTag, Save
  <2>6. CASE RefreshFails
    BY <2>6 DEF RefreshFails, Clear
  <2>7. CASE LoggedIn
    BY <2>7 DEF LoggedIn, Issue, Save
  <2>8. CASE LoginFails
    BY <2>8 DEF LoginFails, Raise
  <2>9. CASE Crash
    BY <2>9 DEF Crash, Dies
  <2>10. CASE CrashInSave
    BY <2>10 DEF CrashInSave, Dies, Issue
  <2>11. CASE Restart
    BY <2>11 DEF Restart
  <2>12. ASSUME NEW t \in Tokens, Lapse(t) PROVE Needed
    BY <2>12 DEF Lapse
  <2>13. ASSUME NEW t \in Tokens, Revoke(t) PROVE Needed
    BY <2>13 DEF Revoke
  <2> QED
    BY <2>1, <2>2, <2>3, <2>4, <2>5, <2>6, <2>7,
       <2>8, <2>9, <2>10, <2>11, <2>12, <2>13
       DEF Next, Attempt
<1> QED
  BY <1>1, Invariance, PTL DEF Spec, LoginOnlyWhenUseless

\* While a login is under way the cache has nothing the next attempt could use: not
\* even a file that could not be removed.
NothingToLose ==
    pc = "login" /\ Caching => file = None \/ ~TakenAsMine(file) \/ file \notin alive

LEMMA StillNothingToLose == IInv /\ NothingToLose /\ [Next]_vars => NothingToLose'
<1> SUFFICES ASSUME IInv, NothingToLose, [Next]_vars PROVE NothingToLose'
  OBVIOUS
<1> USE DEF IInv, Ranges, Bookkeeping, NothingToLose, TakenAsMine, None, Tokens, token_vars
<1>1. CASE Begin
  BY <1>1 DEF Begin, Resumable, Clear
<1>2. CASE ListOk \/ ListFails \/ ListRejected \/ LoginFails
  BY <1>2 DEF ListOk, Succeed, ListFails, ListRejected, LoginFails, Clear, Raise
<1>3. CASE Renewed \/ LoggedIn
  BY <1>3 DEF Renewed, LoggedIn
<1>4. CASE RefreshFails
  BY <1>4 DEF RefreshFails, Clear
<1>5. CASE Crash \/ CrashInSave \/ Restart
  BY <1>5 DEF Crash, CrashInSave, Dies, Restart
<1>6. ASSUME NEW t \in Tokens, Lapse(t) PROVE NothingToLose'
  BY <1>6 DEF Lapse
<1>7. ASSUME NEW t \in Tokens, Revoke(t) PROVE NothingToLose'
  BY <1>7 DEF Revoke
<1>8. CASE UNCHANGED vars
  BY <1>8 DEF vars
<1> QED
  BY <1>1, <1>2, <1>3, <1>4, <1>5, <1>6, <1>7, <1>8 DEF Next, Attempt

\* No failure, login or kill costs a cached token that is still good.
THEOREM GoodTokensAreKept == Spec => GoodTokenIsKept
<1> DEFINE Kept == file # None /\ TakenAsMine(file) /\ file \in alive => file' = file
<1>1. IInv /\ NothingToLose /\ [Next]_vars => [Kept]_vars
  <2> SUFFICES ASSUME IInv, NothingToLose, Next,
                      file # None, TakenAsMine(file), file \in alive
               PROVE  file' = file
    BY DEF vars
  <2> USE DEF IInv, Bookkeeping, NothingToLose
  <2>1. CASE Begin
    BY <2>1 DEF Begin, Resumable
  <2>2. CASE ListOk \/ ListFails \/ LoginFails \/ Crash \/ Restart
    BY <2>2 DEF ListOk, Succeed, ListFails, LoginFails, Raise, Crash, Dies, Restart
  <2>3. CASE ListRejected
    BY <2>3 DEF ListRejected, Raise
  <2>4. CASE Renewed \/ RefreshFails
    BY <2>4 DEF Renewed, RefreshFails
  <2>5. CASE LoggedIn
    BY <2>5 DEF LoggedIn, Save
  <2>6. CASE CrashInSave
    BY <2>6 DEF CrashInSave
  <2>7. ASSUME NEW t \in Tokens, Lapse(t) \/ Revoke(t) PROVE file' = file
    BY <2>7 DEF Lapse, Revoke
  <2> QED
    BY <2>1, <2>2, <2>3, <2>4, <2>5, <2>6, <2>7 DEF Next, Attempt
<1>2. Init => NothingToLose
  BY DEF Init, NothingToLose
<1> QED
  BY <1>1, <1>2, StillNothingToLose, Invariance, PTL DEF Spec, GoodTokenIsKept
-----------------------------------------------------------------------------
(* CloudSession. *)

\* A pass does with the authentication what AuthResume allows, and between two
\* attempts leaves it alone: what is shown of AuthResume holds of CloudSession.
THEOREM PassesAuthenticate == SessionSpec => Spec
<1>1. SessionInit => Init
  BY DEF SessionInit
<1>2. [SessionNext]_all_vars => [Next]_vars
  <2> SUFFICES ASSUME SessionNext PROVE Next \/ UNCHANGED vars
    BY DEF all_vars
  <2>1. ASSUME NEW kind \in {"session", "poll"}, BeginPass(kind) PROVE Next
    BY <2>1 DEF BeginPass, Next, Attempt
  <2>2. CASE AuthGoesOn
    BY <2>2 DEF AuthGoesOn, Next, Attempt
  <2>3. CASE GotDevices
    BY <2>3 DEF GotDevices, Next, Attempt
  <2>4. CASE Killed
    BY <2>4 DEF Killed, Next
  <2>5. CASE Elsewhere
    BY <2>5 DEF Elsewhere, Next
  <2>6. CASE GotTicket \/ TicketRaises \/ SelectAnswered \/ StateIsAll \/ StartStreaming
    BY <2>6 DEF GotTicket, TicketRaises, SelectAnswered, StateIsAll, StartStreaming
  <2>7. CASE PollerAsks \/ PollerAnswered \/ PollerPublishes
    BY <2>7 DEF PollerAsks, PollerAnswered, PollerPublishes
  <2>8. CASE AbortStream \/ LeaveStream \/ Stopped
    BY <2>8 DEF AbortStream, LeaveStream, Stopped
  <2> QED
    BY <2>1, <2>2, <2>3, <2>4, <2>5, <2>6, <2>7, <2>8 DEF SessionNext
<1> QED
  BY <1>1, <1>2, PTL DEF SessionSpec, Spec

\* A pass works with a token of the configured account, or with one that goes back to
\* a cache that named no account.
THEOREM PassesAreMine == SessionSpec => []SessionIsMine
  BY PassesAuthenticate, SessionsAreMine

\* What a pass works with is what a restart would find in the cache.
THEOREM PassesAreCached == SessionSpec => []ReturnedIsCached
  BY PassesAuthenticate, ReturnedAreCached

\* No pass, whichever way the one before it ended, begins a login that the cache
\* makes unnecessary.
THEOREM PassesLogInWhenNeeded == SessionSpec => LoginOnlyWhenUseless
  BY PassesAuthenticate, LoginsAreNeeded

\* Nor does any pass cost a cached token that is still good.
THEOREM PassesKeepGoodTokens == SessionSpec => GoodTokenIsKept
  BY PassesAuthenticate, GoodTokensAreKept

\* The poller lives beside the stream only, and whoever holds an answer is alone:
\* the pass before the stream, the poller during it, and nobody otherwise.
ReadersInv ==
    /\ step = "publish" => poller = "none" /\ answers = <<"main">>
    /\ step \in {"stream", "unwind"} =>
         \/ poller \in {"asleep", "asked"} /\ answers = <<>>
         \/ poller = "answered" /\ answers = <<"poller">>
    /\ step \notin {"publish", "stream", "unwind"} => poller = "none" /\ answers = <<>>

\* The only answer that is out is gone when it is handed over.
LEMMA HandOverClears ==
    ASSUME NEW r, answers = <<r>>, HandOver(r)
    PROVE  answers' = <<>>
<1>1. Len(answers) = 1 /\ ToSet(answers) = {r}
  BY DEF ToSet
<1>2. PICK i \in 0 .. 1 : /\ IF i = 0 THEN r \notin ToSet(answers) ELSE answers[i] = r
                          /\ answers' = SubSeq(answers, i + 1, 1)
  BY <1>1 DEF HandOver
<1>3. i = 1
  BY <1>1, <1>2
<1> QED
  BY <1>2, <1>3

\* ReadersInv is inductive.
THEOREM ReadersInvariance == SessionSpec => []ReadersInv
<1>1. SessionInit => ReadersInv
  BY DEF SessionInit, ReadersInv
<1>2. ReadersInv /\ [SessionNext]_all_vars => ReadersInv'
  <2> SUFFICES ASSUME ReadersInv, [SessionNext]_all_vars PROVE ReadersInv'
    OBVIOUS
  <2> USE DEF ReadersInv
  <2>1. ASSUME NEW kind \in {"session", "poll"}, BeginPass(kind) PROVE ReadersInv'
    BY <2>1 DEF BeginPass
  <2>2. CASE AuthGoesOn
    BY <2>2 DEF AuthGoesOn, PassOver, step_vars
  <2>3. CASE GotDevices
    BY <2>3 DEF GotDevices, PassOver
  <2>4. CASE GotTicket
    BY <2>4 DEF GotTicket
  <2>5. CASE TicketRaises
    BY <2>5 DEF TicketRaises, PassOver
  <2>6. CASE SelectAnswered
    BY <2>6 DEF SelectAnswered
  <2>7. CASE StateIsAll
    BY <2>7, HandOverClears DEF StateIsAll, PassOver
  <2>8. CASE StartStreaming
    BY <2>8, HandOverClears DEF StartStreaming
  <2>9. CASE PollerAsks
    BY <2>9 DEF PollerAsks, step_vars
  <2>10. CASE PollerAnswered
    <3>1. step \in {"stream", "unwind"} /\ answers = <<>>
      BY <2>10 DEF PollerAnswered
    <3>2. step' = step /\ poller' = "answered" /\ answers' = <<"poller">>
      BY <2>10, <3>1 DEF PollerAnswered, step_vars
    <3> QED
      BY <3>1, <3>2
  <2>11. CASE PollerPublishes
    BY <2>11, HandOverClears DEF PollerPublishes, step_vars
  <2>12. CASE AbortStream
    BY <2>12 DEF AbortStream
  <2>13. CASE LeaveStream
    BY <2>13 DEF LeaveStream, CancelPoller
  <2>14. CASE Stopped
    BY <2>14 DEF Stopped, PassOver
  <2>15. CASE Killed
    BY <2>15 DEF Killed, PassOver
  <2>16. CASE Elsewhere
    BY <2>16 DEF Elsewhere, session_vars, step_vars
  <2>17. CASE UNCHANGED all_vars
    BY <2>17 DEF all_vars, session_vars, step_vars
  <2> QED
    BY <2>1, <2>2, <2>3, <2>4, <2>5, <2>6, <2>7, <2>8, <2>9, <2>10, <2>11,
       <2>12, <2>13, <2>14, <2>15, <2>16, <2>17 DEF SessionNext
<1> QED
  BY <1>1, <1>2, PTL DEF SessionSpec

\* There is at most one answer of the cloud that has not been handed to MQTT: the
\* pass and the poller never hold one each.
THEOREM OneReadingAtATime == SessionSpec => [](Len(answers) <= 1)
<1>1. ReadersInv => Len(answers) <= 1
  <2>1. ReadersInv => answers \in {<<>>, <<"main">>, <<"poller">>}
    BY DEF ReadersInv
  <2>2. Len(<<>>) = 0 /\ Len(<<"main">>) = 1 /\ Len(<<"poller">>) = 1
    OBVIOUS
  <2> QED
    BY <2>1, <2>2
<1> QED
  BY <1>1, ReadersInvariance, PTL

\* Home Assistant never goes back to an older reading.
THEOREM NeverGoesBack == SessionSpec => []ReadingsInOrder
<1>1. ReadersInv => ReadingsInOrder
  BY DEF ReadersInv, ReadingsInOrder, ToSet
<1> QED
  BY <1>1, ReadersInvariance, PTL

\* While every list has had the device DEVICE_ID asks for, it is the one of the
\* pass and the one the topics are named after.
PickInv ==
    /\ target # NoDevice => bound # NoDevice
    /\ ~missed => target \in {NoDevice, DeviceId} /\ bound \in {NoDevice, DeviceId}

\* States go to the topics of the device they are about, unless the device fell back.
THEOREM TopicsAreOfTheDevice == SessionSpec => []TopicsTellOneDevice
<1>1. SessionInit => PickInv
  BY DEF SessionInit, PickInv
<1>2. PickInv /\ [SessionNext]_all_vars => PickInv'
  <2> SUFFICES ASSUME PickInv, [SessionNext]_all_vars PROVE PickInv'
    OBVIOUS
  <2> USE DEF PickInv
  <2>1. CASE GotDevices
    <3>1. CASE PassOver /\ UNCHANGED mqtt_vars
      BY <3>1 DEF PassOver, mqtt_vars
    <3>2. ASSUME NEW listed \in SUBSET Devices, NEW first \in listed, NEW onAddx \in BOOLEAN,
                 LET d == Pick(listed, first)
                 IN  /\ missed' = (missed \/ DeviceId \notin listed)
                     /\ IF onAddx \/ pass = "session" THEN Configure(d) ELSE UNCHANGED bound
                     /\ IF onAddx THEN step' = "ticket" /\ target' = d /\ UNCHANGED pass
                                  ELSE PassOver
          PROVE  PickInv'
      <4>1. Pick(listed, first) \in Devices /\ (DeviceId \in listed => Pick(listed, first) = DeviceId)
        BY DEF Pick
      <4>2. NoDevice \notin Devices
        BY SessionAssumption DEF SessionAssumption
      <4> QED
        BY <3>2, <4>1, <4>2 DEF Configure, PassOver
    <3> QED
      BY <2>1, <3>1, <3>2 DEF GotDevices
  <2>2. ASSUME NEW kind \in {"session", "poll"}, BeginPass(kind) PROVE PickInv'
    BY <2>2 DEF BeginPass, mqtt_vars
  <2>3. CASE AuthGoesOn
    BY <2>3 DEF AuthGoesOn, PassOver, step_vars, mqtt_vars
  <2>4. CASE GotTicket \/ TicketRaises \/ SelectAnswered \/ StateIsAll \/ StartStreaming
    BY <2>4 DEF GotTicket, TicketRaises, SelectAnswered, StateIsAll, StartStreaming,
       PassOver, mqtt_vars
  <2>5. CASE PollerAsks \/ PollerAnswered \/ PollerPublishes
    BY <2>5 DEF PollerAsks, PollerAnswered, PollerPublishes, step_vars, mqtt_vars
  <2>6. CASE AbortStream \/ LeaveStream \/ Stopped
    BY <2>6 DEF AbortStream, LeaveStream, Stopped, PassOver, mqtt_vars
  <2>7. CASE Killed
    BY <2>7 DEF Killed, PassOver
  <2>8. CASE Elsewhere
    BY <2>8 DEF Elsewhere, session_vars, step_vars, mqtt_vars
  <2>9. CASE UNCHANGED all_vars
    BY <2>9 DEF all_vars, session_vars, step_vars, mqtt_vars
  <2> QED
    BY <2>1, <2>2, <2>3, <2>4, <2>5, <2>6, <2>7, <2>8, <2>9 DEF SessionNext
<1>3. PickInv => TopicsTellOneDevice
  BY DEF PickInv, TopicsTellOneDevice
<1> QED
  BY <1>1, <1>2, <1>3, PTL DEF SessionSpec

SessionRanges ==
    /\ pass \in {"none", "session", "poll"}
    /\ step \in {"none", "auth", "ticket", "select", "publish",
                  "stream", "unwind", "stopLive"}
    /\ target \in Devices \cup {NoDevice}
    /\ bound \in Devices \cup {NoDevice}

SessionFlag == missed \in BOOLEAN

\* A step of a pass leads to a place a pass can be at.
LEMMA SessionRangesKept == SessionRanges /\ [SessionNext]_all_vars => SessionRanges'
<1> SUFFICES ASSUME SessionRanges, [SessionNext]_all_vars PROVE SessionRanges'
  OBVIOUS
<1> USE DEF SessionRanges
<1>1. CASE GotDevices
  <2>1. CASE PassOver /\ UNCHANGED mqtt_vars
    BY <2>1 DEF PassOver, mqtt_vars
  <2>2. ASSUME NEW listed \in SUBSET Devices, NEW first \in listed, NEW onAddx \in BOOLEAN,
               LET d == Pick(listed, first)
               IN  /\ missed' = (missed \/ DeviceId \notin listed)
                   /\ IF onAddx \/ pass = "session" THEN Configure(d) ELSE UNCHANGED bound
                   /\ IF onAddx THEN step' = "ticket" /\ target' = d /\ UNCHANGED pass
                                ELSE PassOver
        PROVE  SessionRanges'
    <3>1. Pick(listed, first) \in Devices
      BY DEF Pick
    <3> QED
      BY <2>2, <3>1 DEF Configure, PassOver
  <2> QED
    BY <1>1, <2>1, <2>2 DEF GotDevices
<1>2. ASSUME NEW kind \in {"session", "poll"}, BeginPass(kind) PROVE SessionRanges'
  BY <1>2 DEF BeginPass, mqtt_vars
<1>3. CASE AuthGoesOn
  BY <1>3 DEF AuthGoesOn, PassOver, step_vars, mqtt_vars
<1>4. CASE GotTicket \/ TicketRaises \/ SelectAnswered \/ StateIsAll \/ StartStreaming
  BY <1>4 DEF GotTicket, TicketRaises, SelectAnswered, StateIsAll, StartStreaming,
     PassOver, mqtt_vars
<1>5. CASE PollerAsks \/ PollerAnswered \/ PollerPublishes
  BY <1>5 DEF PollerAsks, PollerAnswered, PollerPublishes, step_vars, mqtt_vars
<1>6. CASE AbortStream \/ LeaveStream \/ Stopped
  BY <1>6 DEF AbortStream, LeaveStream, Stopped, PassOver, mqtt_vars
<1>7. CASE Killed
  BY <1>7 DEF Killed, PassOver
<1>8. CASE Elsewhere
  BY <1>8 DEF Elsewhere, session_vars, step_vars, mqtt_vars
<1>9. CASE UNCHANGED all_vars
  BY <1>9 DEF all_vars, session_vars, step_vars, mqtt_vars
<1> QED
  BY <1>1, <1>2, <1>3, <1>4, <1>5, <1>6, <1>7, <1>8, <1>9 DEF SessionNext

\* The history of lists without the device is one of a process.
LEMMA SessionFlagKept == SessionFlag /\ [SessionNext]_all_vars => SessionFlag'
<1> SUFFICES ASSUME SessionFlag, [SessionNext]_all_vars PROVE SessionFlag'
  OBVIOUS
<1> USE DEF SessionFlag
<1>1. CASE GotDevices
  <2>1. UNCHANGED missed \/ \E listed \in SUBSET Devices :
                              missed' = (missed \/ DeviceId \notin listed)
    BY <1>1 DEF GotDevices, mqtt_vars
  <2> QED
    BY <2>1, Zenon
<1>2. CASE Killed
  BY <1>2, Zenon DEF Killed
<1>3. ASSUME SessionNext \/ UNCHANGED all_vars, ~GotDevices, ~Killed PROVE UNCHANGED missed
  BY <1>3 DEF SessionNext, BeginPass, AuthGoesOn, GotTicket, TicketRaises, SelectAnswered,
     StateIsAll, StartStreaming, PollerAsks, PollerAnswered, PollerPublishes, AbortStream,
     LeaveStream, Stopped, Elsewhere, all_vars, session_vars, step_vars, mqtt_vars
<1> QED
  BY <1>1, <1>2, <1>3, Zenon

\* Type correctness of the passes and the poller.
THEOREM SessionTypeCorrect == SessionSpec => []SessionTypeOK
<1>1. SessionInit => SessionRanges
  BY DEF SessionInit, SessionRanges
<1>2. SessionInit => SessionFlag
  BY Zenon DEF SessionInit, SessionFlag
<1>3. ReadersInv /\ SessionRanges =>
        /\ poller \in {"none", "asleep", "asked", "answered"}
        /\ answers \in {<<>>, <<"main">>, <<"poller">>,
                        <<"main", "poller">>, <<"poller", "main">>}
  <2> SUFFICES ASSUME ReadersInv
               PROVE  /\ poller \in {"none", "asleep", "asked", "answered"}
                      /\ answers \in {<<>>, <<"main">>, <<"poller">>}
    OBVIOUS
  <2> QED
    BY DEF ReadersInv
<1>4. ReadersInv /\ SessionRanges /\ SessionFlag => SessionTypeOK
  BY <1>3, Zenon DEF SessionRanges, SessionFlag, SessionTypeOK
<1> QED
  BY <1>1, <1>2, <1>4, ReadersInvariance, SessionRangesKept, SessionFlagKept, PTL
     DEF SessionSpec
=============================================================================

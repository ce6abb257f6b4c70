---------------------------- MODULE Healthcheck ----------------------------
(***************************************************************************)
(* The container healthcheck (docker/healthcheck.py): a script that Docker *)
(* runs afresh at every interval, with nothing to remember by but a file   *)
(* holding the time the stream was first seen down.  The unit of time is   *)
(* the interval, the file is modelled by its age, and what the script      *)
(* samples (the sentinel of the bridge, the MediaMTX control API and its   *)
(* path) changes freely between two checks.                                *)
(***************************************************************************)
EXTENDS Integers

CONSTANTS
    Grace,        \* HEALTHCHECK_GRACE_SEC, in intervals
    Retries,      \* failing checks in a row that make the container unhealthy
    TmpWritable   \* /tmp can be written

ASSUME HealthAssumption ==
    /\ Grace \in Nat \ {0}
    /\ Retries \in Nat \ {0}
    /\ TmpWritable \in BOOLEAN

VARIABLES
    sentinel,   \* /tmp/birdfy_mode_off exists
    api,        \* the MediaMTX control API answers
    ready,      \* MediaMTX has a publisher on the path
    downAge,    \* age of the down_since file, -1 when there is none
    verdict,    \* what the last check found
    strikes,    \* failing checks in a row, as Docker counts them
    sinceSeen   \* history: intervals since a check saw the stream or the
                \* sentinel, or the container was created

vars == <<sentinel, api, ready, downAge, verdict, strikes, sinceSeen>>

None == -1
Verdicts == {"healthy", "apiDead", "streamDown"}
Older(age) == IF age < Grace THEN age + 1 ELSE age

TypeOK ==
    /\ sentinel \in BOOLEAN /\ api \in BOOLEAN /\ ready \in BOOLEAN
    /\ downAge \in None .. Grace
    /\ verdict \in Verdicts
    /\ strikes \in 0 .. Retries
    /\ sinceSeen \in 0 .. Grace

-----------------------------------------------------------------------------
(* What goes on between two checks. *)

\* The bridge enters or leaves the off mode.
SentinelFlips ==
    /\ sentinel' = ~sentinel
    /\ UNCHANGED <<api, ready, downAge, verdict, strikes, sinceSeen>>

\* MediaMTX dies or comes back; a publisher comes or goes while it lives.
MediaMtxDies ==
    /\ api
    /\ api' = FALSE /\ ready' = FALSE
    /\ UNCHANGED <<sentinel, downAge, verdict, strikes, sinceSeen>>

MediaMtxStarts ==
    /\ ~api
    /\ api' = TRUE
    /\ UNCHANGED <<sentinel, ready, downAge, verdict, strikes, sinceSeen>>

PublisherComes ==
    /\ api /\ ~ready
    /\ ready' = TRUE
    /\ UNCHANGED <<sentinel, api, downAge, verdict, strikes, sinceSeen>>

PublisherGoes ==
    /\ ready
    /\ ready' = FALSE
    /\ UNCHANGED <<sentinel, api, downAge, verdict, strikes, sinceSeen>>

\* docker restart, the restart policy, or a stop for as long as the window: the
\* writable layer, and with it /tmp, stays as it was.
ContainerRestarts ==
    /\ api' = FALSE /\ ready' = FALSE
    /\ verdict' = "healthy" /\ strikes' = 0
    /\ \/ UNCHANGED <<downAge, sinceSeen>>
       \/ /\ downAge' = IF downAge = None THEN None ELSE Grace
          /\ sinceSeen' = Grace
    /\ UNCHANGED sentinel

-----------------------------------------------------------------------------
(* One run of the script, an interval after the one before. *)

\* _read_down_since: the age of the file when the script reads it.
FileAge == IF downAge = None THEN None ELSE Older(downAge)

\* Mutant: a stream that is seen up leaves the timer running.
ClearDownSince_never == downAge' = FileAge

\* _clear_down_since: without a writable /tmp the file stays.
ClearDownSince == downAge' = IF TmpWritable THEN None ELSE FileAge

\* Mutant: every check that sees the stream down starts the timer afresh.
StartDownSince_restarts == downAge' = IF TmpWritable THEN 0 ELSE FileAge

\* The timer starts at the first check that sees the stream down.
StartDownSince ==
    downAge' = IF FileAge = None /\ TmpWritable THEN 0 ELSE FileAge

\* Docker's count and the history of what checks saw.
Report(v, seen) ==
    /\ verdict' = v
    /\ strikes' = CASE v = "healthy"      -> 0
                    [] strikes < Retries  -> strikes + 1
                    [] OTHER              -> strikes
    /\ sinceSeen' = IF seen THEN 0 ELSE Older(sinceSeen)
    /\ UNCHANGED <<sentinel, api, ready>>

CheckOff ==
    /\ sentinel
    /\ ClearDownSince
    /\ Report("healthy", TRUE)

CheckApiDead ==
    /\ ~sentinel /\ ~api
    /\ downAge' = FileAge
    /\ Report("apiDead", FALSE)

CheckReady ==
    /\ ~sentinel /\ api /\ ready
    /\ ClearDownSince
    /\ Report("healthy", TRUE)

\* No publisher, or the path request fails: an error counts as not ready.
CheckDown ==
    /\ ~sentinel /\ api
    /\ StartDownSince
    /\ Report(IF FileAge < Grace THEN "healthy" ELSE "streamDown", FALSE)

Check == CheckOff \/ CheckApiDead \/ CheckReady \/ CheckDown

-----------------------------------------------------------------------------
Init ==
    /\ sentinel = FALSE /\ api = FALSE /\ ready = FALSE
    /\ downAge = None
    /\ verdict = "healthy" /\ strikes = 0
    /\ sinceSeen = 0

Next ==
    \/ SentinelFlips \/ MediaMtxDies \/ MediaMtxStarts
    \/ PublisherComes \/ PublisherGoes \/ ContainerRestarts
    \/ Check

Spec == Init /\ [][Next]_vars

\* Docker keeps running the check.
FairSpec == Spec /\ WF_vars(Check)

-----------------------------------------------------------------------------
(* Properties. *)

\* A check finds the stream down for good only when no check of the whole grace
\* window saw it, or the off sentinel: a reconnect, a sleep of the camera, a time
\* in off mode and a spell without MediaMTX each start the window anew or leave
\* it alone, and none of them shortens it.  A restart does neither: the file in
\* /tmp outlives it (docker/healthcheck.py:50-53, 131-150).
GraceHonoured == verdict = "streamDown" => sinceSeen >= Grace

\* A stream that stays down, with MediaMTX up and the bridge not off, is reported
\* and stays reported: "a container that never publishes, or whose stream dies and
\* stays dead, will eventually go UNHEALTHY" (docs/operations.md:24).
DeadStreamReported ==
    TmpWritable =>
        (<>[](~sentinel /\ api /\ ~ready) => <>[](strikes = Retries))
=============================================================================

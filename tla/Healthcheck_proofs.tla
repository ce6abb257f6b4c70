------------------------- MODULE Healthcheck_proofs -------------------------
(***************************************************************************)
(* Theorems about Healthcheck for every grace window and retry count.      *)
(***************************************************************************)
EXTENDS Healthcheck, TLAPS

Flags == sentinel \in BOOLEAN /\ api \in BOOLEAN /\ ready \in BOOLEAN

Counters ==
    /\ downAge \in None .. Grace
    /\ verdict \in Verdicts
    /\ strikes \in 0 .. Retries
    /\ sinceSeen \in 0 .. Grace

\* The file is never older than the last check that would have removed it.
FileNotStale == downAge <= sinceSeen

\* Without a writable /tmp there is no file.
NoFile == ~TmpWritable => downAge = None

IInv == Flags /\ Counters /\ FileNotStale /\ NoFile /\ GraceHonoured

\* An age grows by at most one, stays within the window and keeps its order.
LEMMA OlderBounds ==
    ASSUME NEW a \in 0 .. Grace, NEW b \in 0 .. Grace
    PROVE  /\ Older(a) \in 0 .. Grace
           /\ a <= b => Older(a) <= Older(b)
           /\ a <= Older(a)
  BY HealthAssumption DEF HealthAssumption, Older

\* A container that starts without a file satisfies the invariant.
LEMMA InitEstablishes == Init => IInv
<1> SUFFICES ASSUME Init PROVE IInv
  OBVIOUS
<1>1. Flags
  BY Zenon DEF Init, Flags
<1>2. Counters /\ FileNotStale /\ NoFile /\ GraceHonoured
  BY HealthAssumption DEF HealthAssumption, Init, Counters, FileNotStale, NoFile,
     GraceHonoured, None, Verdicts
<1> QED
  BY <1>1, <1>2 DEF IInv

\* Every step leaves what the script samples Boolean.
LEMMA FlagsKept == IInv /\ [Next]_vars => Flags'
<1> SUFFICES ASSUME IInv, [Next]_vars PROVE Flags'
  OBVIOUS
<1>1. CASE SentinelFlips \/ MediaMtxDies \/ MediaMtxStarts \/ PublisherComes
           \/ PublisherGoes \/ ContainerRestarts
  BY <1>1, Zenon DEF SentinelFlips, MediaMtxDies, MediaMtxStarts, PublisherComes,
     PublisherGoes, ContainerRestarts, IInv, Flags
<1>2. CASE Check
  BY <1>2, Zenon DEF Check, CheckOff, CheckApiDead, CheckReady, CheckDown, Report,
     IInv, Flags
<1>3. CASE UNCHANGED vars
  BY <1>3, Zenon DEF vars, IInv, Flags
<1> QED
  BY <1>1, <1>2, <1>3, Zenon DEF Next

\* What a check reports stays in range.
LEMMA ReportRange ==
    ASSUME IInv, NEW v \in Verdicts, NEW seen \in BOOLEAN, Report(v, seen)
    PROVE  /\ verdict' = v /\ verdict' \in Verdicts
           /\ strikes' \in 0 .. Retries
           /\ sinceSeen' = (IF seen THEN 0 ELSE Older(sinceSeen))
           /\ sinceSeen' \in 0 .. Grace
<1> USE HealthAssumption DEF HealthAssumption, IInv, Counters, Report
<1>1. strikes' \in 0 .. Retries
  BY SMT
<1>2. sinceSeen' \in 0 .. Grace
  BY OlderBounds
<1> QED
  BY <1>1, <1>2

\* The file as the script reads it, one interval on.
LEMMA FileAgeRange ==
    ASSUME IInv
    PROVE  /\ FileAge \in None .. Grace
           /\ FileAge = None <=> downAge = None
           /\ FileAge <= Older(sinceSeen)
<1> USE HealthAssumption DEF HealthAssumption, IInv, Counters, FileNotStale, None
<1>1. CASE downAge = None
  BY <1>1, OlderBounds DEF FileAge
<1>2. CASE downAge # None
  <2>1. downAge \in 0 .. Grace /\ FileAge = Older(downAge)
    BY <1>2 DEF FileAge
  <2> QED
    BY <2>1, OlderBounds
<1> QED
  BY <1>1, <1>2

\* One run of the script keeps the file fresh and the grace window honoured.
LEMMA CheckKeeps ==
    ASSUME IInv, Check
    PROVE  Counters' /\ FileNotStale' /\ NoFile' /\ GraceHonoured'
<1> USE HealthAssumption DEF HealthAssumption, Counters, FileNotStale, NoFile,
        GraceHonoured, Verdicts, None
<1>0. TmpWritable \/ FileAge = None
  BY FileAgeRange DEF IInv
<1>1. CASE CheckOff \/ CheckReady
  <2>1. Report("healthy", TRUE) /\ ClearDownSince
    BY <1>1, Zenon DEF CheckOff, CheckReady
  <2>2. downAge' = None
    BY <2>1, <1>0 DEF ClearDownSince
  <2>3. verdict' = "healthy" /\ strikes' \in 0 .. Retries /\ sinceSeen' = 0
    BY <2>1, ReportRange
  <2> QED
    BY <2>2, <2>3
<1>2. CASE CheckApiDead
  <2>1. Report("apiDead", FALSE) /\ downAge' = FileAge
    BY <1>2, Zenon DEF CheckApiDead
  <2>2. /\ verdict' = "apiDead" /\ strikes' \in 0 .. Retries
        /\ sinceSeen' = Older(sinceSeen) /\ sinceSeen' \in 0 .. Grace
    BY <2>1, ReportRange
  <2> QED
    BY <2>1, <2>2, FileAgeRange, <1>0
<1>3. CASE CheckDown
  <2> DEFINE v == IF FileAge < Grace THEN "healthy" ELSE "streamDown"
  <2>1. Report(v, FALSE) /\ StartDownSince
    BY <1>3, Zenon DEF CheckDown
  <2>2. /\ verdict' = v /\ v \in Verdicts /\ strikes' \in 0 .. Retries
        /\ sinceSeen' = Older(sinceSeen) /\ sinceSeen' \in 0 .. Grace
    <3>1. v \in Verdicts
      OBVIOUS
    <3> QED
      BY <2>1, <3>1, ReportRange
  <2>3. downAge' \in None .. Grace /\ downAge' <= sinceSeen'
    BY <2>1, <2>2, FileAgeRange DEF StartDownSince
  <2>4. NoFile'
    BY <2>1, <1>0 DEF StartDownSince
  <2>5. GraceHonoured'
    BY <2>2, FileAgeRange
  <2> QED
    BY <2>2, <2>3, <2>4, <2>5
<1> QED
  BY <1>1, <1>2, <1>3 DEF Check

\* So does every step, of the script, MediaMTX, the bridge and Docker.
LEMMA StepKeeps == IInv /\ [Next]_vars => IInv'
<1> SUFFICES ASSUME IInv, [Next]_vars PROVE IInv'
  OBVIOUS
<1> USE HealthAssumption DEF HealthAssumption
<1>1. Flags'
  BY FlagsKept
<1>2. Counters' /\ FileNotStale' /\ NoFile' /\ GraceHonoured'
  <2> USE DEF IInv, Counters, FileNotStale, NoFile, GraceHonoured, Verdicts, None
  <2>1. CASE SentinelFlips
    BY <2>1 DEF SentinelFlips
  <2>2. CASE MediaMtxDies \/ MediaMtxStarts
    BY <2>2 DEF MediaMtxDies, MediaMtxStarts
  <2>3. CASE PublisherComes \/ PublisherGoes
    BY <2>3 DEF PublisherComes, PublisherGoes
  <2>4. CASE ContainerRestarts
    BY <2>4 DEF ContainerRestarts
  <2>5. CASE Check
    BY <2>5, CheckKeeps
  <2>6. CASE UNCHANGED vars
    BY <2>6 DEF vars
  <2> QED
    BY <2>1, <2>2, <2>3, <2>4, <2>5, <2>6 DEF Next
<1> QED
  BY <1>1, <1>2 DEF IInv

\* The invariant holds in every reachable state.
THEOREM Invariance == Spec => []IInv
  BY InitEstablishes, StepKeeps, PTL DEF Spec

\* Type correctness of the healthcheck, for every grace window and retry count.
THEOREM TypeCorrect == Spec => []TypeOK
<1>1. IInv => TypeOK
  BY DEF IInv, Flags, Counters, TypeOK
<1> QED
  BY <1>1, Invariance, PTL

\* No check reports a dead stream before the grace window has passed without a
\* check that saw it, for every length of the window.
THEOREM GraceIsHonoured == Spec => []GraceHonoured
<1>1. IInv => GraceHonoured
  BY DEF IInv
<1> QED
  BY <1>1, Invariance, PTL
=============================================================================

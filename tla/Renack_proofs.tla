---------------------------- MODULE Renack_proofs ----------------------------
(***************************************************************************)
(* Theorems about the patches of the two libraries: about Renack for every *)
(* set of sequence numbers and every number of retries, and about          *)
(* Handshake for any number of sessions and addresses.                     *)
(***************************************************************************)
EXTENDS Renack, TLAPS

\* A number is missing or gone, not both; there is a loop when one is attached.
Disjoint == missing \cap gone = {} /\ (attached <=> loop # "ended")

IInv == TypeOK /\ BudgetPerGap /\ Disjoint

\* Pruning keeps counters in their range and leaves none for what is not
\* missing.
LEMMA PrunedIsBounded ==
    ASSUME TypeOK
    PROVE  /\ Pruned \in [Seqs -> 0 .. MaxRetries]
           /\ \A s \in missing : Pruned[s] = retries[s]
           /\ \A s \in Seqs \ missing : Pruned[s] = 0
<1>1. 0 \in 0 .. MaxRetries
  BY RenackAssumption DEF RenackAssumption
<1>2. \A s \in Seqs : Pruned[s] = IF s \in missing THEN retries[s] ELSE 0
  BY DEF Pruned
<1>3. missing \subseteq Seqs /\ \A s \in Seqs : retries[s] \in 0 .. MaxRetries
  BY DEF TypeOK
<1> QED
  BY <1>1, <1>2, <1>3 DEF Pruned

\* Nothing is missing and no loop runs.
LEMMA InitEstablishes == Init => IInv
<1> SUFFICES ASSUME Init PROVE IInv
  OBVIOUS
<1>1. None \in [Seqs -> 0 .. MaxRetries] /\ None \in [Seqs -> Nat]
  BY RenackAssumption DEF RenackAssumption, None
<1>2. TypeOK
  BY <1>1 DEF Init, TypeOK
<1>3. BudgetPerGap /\ Disjoint
  BY DEF Init, BudgetPerGap, Disjoint
<1> QED
  BY <1>2, <1>3 DEF IInv

\* A gap that opens starts with no request and, not being among those gone, no
\* counter.
LEMMA GapKeeps ==
    ASSUME IInv, NEW S \in SUBSET Seqs, GapOpens(S) \/ GapCloses(S)
    PROVE  IInv'
<1> USE RenackAssumption DEF RenackAssumption, IInv, TypeOK
<1>1. CASE GapOpens(S)
  <2>1. TypeOK'
    BY <1>1 DEF GapOpens
  <2>2. BudgetPerGap'
    BY <1>1 DEF GapOpens, BudgetPerGap
  <2>3. Disjoint'
    BY <1>1 DEF GapOpens, Disjoint
  <2> QED
    BY <2>1, <2>2, <2>3
<1>2. CASE GapCloses(S)
  <2>1. TypeOK'
    BY <1>2 DEF GapCloses
  <2>2. BudgetPerGap'
    BY <1>2 DEF GapCloses, BudgetPerGap
  <2>3. Disjoint'
    BY <1>2 DEF GapCloses, Disjoint
  <2> QED
    BY <2>1, <2>2, <2>3
<1> QED
  BY <1>1, <1>2

\* A round adds one to the counter and to the requests of the same packets, and
\* its pruning leaves nothing behind that gone would have to account for.
LEMMA RoundKeeps == IInv /\ Round => IInv'
<1> SUFFICES ASSUME IInv, Round PROVE IInv'
  OBVIOUS
<1> USE RenackAssumption DEF RenackAssumption, IInv
<1>1. /\ Pruned \in [Seqs -> 0 .. MaxRetries]
      /\ \A s \in missing : Pruned[s] = retries[s]
      /\ \A s \in Seqs \ missing : Pruned[s] = 0
  BY PrunedIsBounded
<1>2. attached /\ attached' /\ missing' = missing /\ gone' = {}
  BY DEF Round, Disjoint
<1>3. ASSUME NEW s \in Seqs
      PROVE  /\ retries'[s] \in 0 .. MaxRetries
             /\ asked'[s] \in Nat
             /\ s \in missing => retries'[s] = asked'[s]
             /\ s \notin missing => retries'[s] = 0
  BY <1>1, <1>2 DEF Round, PlusOne, Wanted, TypeOK, BudgetPerGap
<1>4. retries' \in [Seqs -> 0 .. MaxRetries] /\ asked' \in [Seqs -> Nat]
  BY <1>3 DEF Round, PlusOne
<1>5. TypeOK'
  BY <1>2, <1>4 DEF Round, TypeOK
<1>6. BudgetPerGap'
  <2>1. \A s \in missing : s \in Seqs
    BY DEF TypeOK
  <2> QED
    BY <1>2, <1>3, <2>1 DEF BudgetPerGap
<1>7. Disjoint'
  BY <1>2 DEF Round, Disjoint
<1> QED
  BY <1>5, <1>6, <1>7

\* Every step keeps the invariant.
LEMMA StepPreserves == IInv /\ [Next]_vars => IInv'
<1> SUFFICES ASSUME IInv, [Next]_vars PROVE IInv'
  OBVIOUS
<1> USE RenackAssumption DEF RenackAssumption, IInv
<1>1. ASSUME NEW S \in SUBSET Seqs, GapOpens(S) \/ GapCloses(S) PROVE IInv'
  BY <1>1, GapKeeps
<1>2. CASE Round
  BY <1>2, RoundKeeps
<1>3. CASE Sent
  BY <1>3 DEF Sent, TypeOK, BudgetPerGap, Disjoint
<1>4. CASE Attach
  BY <1>4 DEF Attach, TypeOK, BudgetPerGap, Disjoint, None
<1>5. CASE Detach
  BY <1>5 DEF Detach, TypeOK, BudgetPerGap, Disjoint
<1>6. CASE UNCHANGED vars
  BY <1>6 DEF vars, TypeOK, BudgetPerGap, Disjoint
<1> QED
  BY <1>1, <1>2, <1>3, <1>4, <1>5, <1>6 DEF Next

\* The invariant always holds.
LEMMA IInvHolds == Spec => []IInv
<1> QED
  BY InitEstablishes, StepPreserves, PTL DEF Spec

\* The counters stay within the cap, and the sets within the numbers there are.
THEOREM TypeCorrect == Spec => []TypeOK
<1>1. IInv => TypeOK
  BY DEF IInv
<1> QED
  BY <1>1, IInvHolds, PTL

\* Whatever the order of gaps, arrivals and rounds, every gap has the whole
\* budget and no more (_aiortc_media_patches.py:200-218).
THEOREM EveryGapHasItsBudget == Spec => []BudgetPerGap
<1>1. IInv => BudgetPerGap
  BY DEF IInv
<1> QED
  BY <1>1, IInvHolds, PTL
-----------------------------------------------------------------------------
(* Handshake. *)

CONSTANTS Sessions, Addresses
VARIABLES session, phase, conn, done, offer, remote, nominated, camera, uses, known,
          hash, net, reused

H == INSTANCE Handshake

Places ==
    /\ session \in Nat
    /\ phase \in {"idle", "waiting", "offered", "answered"}
    /\ conn \in Addresses /\ done \subseteq Addresses
    /\ remote \in {"none", "sdp", "stale"}
    /\ camera \in {"idle", "offered", "checking", "nominated", "streaming"}
    /\ uses \in {"sdp", "stale"}
    /\ known \subseteq {"host", "srflx"}
    /\ hash \in {"none", "sha-256", "sha-384", "sha-512"}
    /\ net \subseteq {"sdp", "stale", "ping"}

HandshakeFlags == nominated \in BOOLEAN /\ reused \in BOOLEAN

\* Between the answer and the end of a session the connection has a fragment, a
\* check that is under way carries this one or that of the answer, and the one of
\* a former session is there only if it was corrected in this one.
Fragments ==
    /\ phase \in {"idle", "waiting"} => camera = "idle" /\ net = {}
    /\ phase \in {"waiting", "offered"} => remote = "none" /\ net \subseteq {"ping"}
    /\ phase = "answered" => remote # "none" /\ net \subseteq {"ping", "sdp", remote}
    /\ phase # "idle" /\ remote = "stale" => uses = "stale" /\ conn \in done /\ ~reused
    /\ phase # "idle" /\ conn \in done /\ ~reused => remote = uses
    /\ reused => conn \in done
    /\ camera \in {"nominated", "streaming"} => phase = "answered"

HandshakeInv == HandshakeFlags /\ Places /\ Fragments /\ H!NominatedAsCorrected

\* What a session may find at its start, and where a step may lead.
LEMMA PlacesKept == HandshakeInv /\ [H!Next]_(H!vars) => Places'
<1> SUFFICES ASSUME HandshakeInv, [H!Next]_(H!vars) PROVE Places'
  OBVIOUS
<1> USE DEF HandshakeInv, Places, H!ours, H!theirs, H!Candidates, H!Ufrags
<1>1. ASSUME NEW a \in Addresses, H!Start(a) PROVE Places'
  BY <1>1 DEF H!Start
<1>2. CASE H!SendOffer
  BY <1>2 DEF H!SendOffer, H!Trickled
<1>3. CASE H!HeartbeatSent
  <2>1. H!Heartbeat(offer) \subseteq {"host", "srflx"}
    BY DEF H!Heartbeat, H!Trickled
  <2> QED
    BY <1>3, <2>1 DEF H!HeartbeatSent
<1>4. CASE H!CameraAnswers
  <2>1. hash' \in {H!Fingerprints[j] : j \in 1 .. 3}
    BY <1>4 DEF H!CameraAnswers
  <2>2. hash' \in {"sha-256", "sha-384", "sha-512"}
    BY <2>1 DEF H!Fingerprints
  <2> QED
    BY <1>4, <2>2 DEF H!CameraAnswers
<1>5. CASE H!AnswerApplied
  BY <1>5 DEF H!AnswerApplied
<1>6. CASE H!NominatesOnce
  BY <1>6 DEF H!NominatesOnce, Fragments
<1>7. CASE H!End
  BY <1>7 DEF H!End
<1>8. CASE H!CameraPings
  BY <1>8 DEF H!CameraPings
<1>9. CASE H!PingArrives
  BY <1>9 DEF H!PingArrives
<1>10. CASE H!CheckArrives
  BY <1>10 DEF H!CheckArrives
<1>11. CASE H!DtlsCompletes
  BY <1>11 DEF H!DtlsCompletes
<1>12. CASE H!Lose
  BY <1>12 DEF H!Lose
<1>13. CASE UNCHANGED H!vars
  BY <1>13 DEF H!vars
<1> QED
  BY <1>1, <1>2, <1>3, <1>4, <1>5, <1>6, <1>7, <1>8, <1>9, <1>10, <1>11, <1>12, <1>13
     DEF H!Next

\* The history of the address and the one check of aioice are flags.
LEMMA HandshakeFlagsKept == HandshakeFlags /\ [H!Next]_(H!vars) => HandshakeFlags'
<1> SUFFICES ASSUME HandshakeFlags, [H!Next]_(H!vars) PROVE HandshakeFlags'
  OBVIOUS
<1> USE DEF HandshakeFlags
<1>1. ASSUME NEW a \in Addresses, H!Start(a) PROVE HandshakeFlags'
  <2>1. reused' = (a \in done) /\ nominated' = FALSE
    BY <1>1, Zenon DEF H!Start
  <2>2. (a \in done) \in BOOLEAN
    OBVIOUS
  <2> QED
    BY <2>1, <2>2, Zenon
<1>2. CASE H!NominatesOnce
  BY <1>2, Zenon DEF H!NominatesOnce
<1>3. ASSUME H!Next \/ UNCHANGED H!vars, ~H!NominatesOnce, \A a \in Addresses : ~H!Start(a)
      PROVE  UNCHANGED <<nominated, reused>>
  BY <1>3 DEF H!Next, H!SendOffer, H!HeartbeatSent, H!CameraAnswers, H!AnswerApplied, H!End,
     H!CameraPings, H!PingArrives, H!CheckArrives, H!DtlsCompletes, H!Lose, H!vars, H!ours
<1> QED
  BY <1>1, <1>2, <1>3, Zenon

\* Fragments are what they were, or corrected once.
LEMMA FragmentsKept ==
    HandshakeInv /\ [H!Next]_(H!vars) => Fragments' /\ H!NominatedAsCorrected'
<1> DEFINE Safe == Fragments /\ H!NominatedAsCorrected
<1> SUFFICES ASSUME HandshakeInv, [H!Next]_(H!vars) PROVE Safe'
  OBVIOUS
<1> USE DEF HandshakeInv, Places, Fragments, H!NominatedAsCorrected, H!ours, H!theirs,
    H!Ufrags
<1>1. ASSUME NEW a \in Addresses, H!Start(a) PROVE Safe'
  BY <1>1 DEF H!Start
<1>2. CASE H!SendOffer
  BY <1>2 DEF H!SendOffer
<1>3. CASE H!HeartbeatSent
  BY <1>3 DEF H!HeartbeatSent
<1>4. CASE H!CameraAnswers
  BY <1>4 DEF H!CameraAnswers
<1>5. CASE H!AnswerApplied
  BY <1>5 DEF H!AnswerApplied
<1>6. CASE H!NominatesOnce
  BY <1>6 DEF H!NominatesOnce
<1>7. CASE H!End
  BY <1>7 DEF H!End
<1>8. CASE H!CameraPings
  BY <1>8 DEF H!CameraPings
<1>9. CASE H!PingArrives
  BY <1>9 DEF H!PingArrives, H!Corrects
<1>10. CASE H!CheckArrives
  BY <1>10 DEF H!CheckArrives
<1>11. CASE H!DtlsCompletes
  BY <1>11 DEF H!DtlsCompletes
<1>12. CASE H!Lose
  BY <1>12 DEF H!Lose
<1>13. CASE UNCHANGED H!vars
  BY <1>13 DEF H!vars
<1> QED
  BY <1>1, <1>2, <1>3, <1>4, <1>5, <1>6, <1>7, <1>8, <1>9, <1>10, <1>11, <1>12, <1>13
     DEF H!Next

\* HandshakeInv is inductive.
THEOREM HandshakeInvariance == H!Spec => []HandshakeInv
<1>1. H!Init => HandshakeFlags
  BY Zenon DEF H!Init, HandshakeFlags
<1>2. H!Init => Places /\ Fragments /\ H!NominatedAsCorrected
  BY DEF H!Init, Places, Fragments, H!NominatedAsCorrected
<1>3. HandshakeInv /\ [H!Next]_(H!vars) => HandshakeInv'
  BY PlacesKept, HandshakeFlagsKept, FragmentsKept DEF HandshakeInv
<1> QED
  BY <1>1, <1>2, <1>3, PTL DEF H!Spec, HandshakeInv

\* Type correctness of the handshake.
THEOREM HandshakeTypeCorrect == H!Spec => []H!TypeOK
<1>1. HandshakeInv => H!TypeOK
  <2> SUFFICES ASSUME HandshakeInv PROVE H!TypeOK
    OBVIOUS
  <2>1. nominated \in BOOLEAN /\ reused \in BOOLEAN
    BY Zenon DEF HandshakeInv, HandshakeFlags
  <2>2. /\ remote \in H!Ufrags \cup {"none"} /\ uses \in H!Ufrags
        /\ known \subseteq H!Candidates /\ net \subseteq H!Ufrags \cup {"ping"}
    BY DEF HandshakeInv, Places, H!Ufrags, H!Candidates
  <2> QED
    BY <2>1, <2>2, Zenon DEF HandshakeInv, Places, H!TypeOK
<1> QED
  BY <1>1, HandshakeInvariance, PTL

\* No camera is nominated, or streams, under a fragment that is not the connection's,
\* and none that uses the one of a former session streams at a corrected address.
THEOREM CamerasStreamAsCorrected == H!Spec => []H!NominatedAsCorrected
<1>1. HandshakeInv => H!NominatedAsCorrected
  BY DEF HandshakeInv
<1> QED
  BY <1>1, HandshakeInvariance, PTL
=============================================================================

-------------------------- MODULE Signaling_proofs --------------------------
(***************************************************************************)
(* Theorems about Signaling for any number of sessions and offers, and     *)
(* about DecodeFallback, a media task of such a session, for any sizes of  *)
(* frames.                                                                 *)
(***************************************************************************)
EXTENDS Signaling, DecodeFallback, TLAPS

Flags ==
    /\ pcOpen \in BOOLEAN /\ stable \in BOOLEAN /\ peerSeen \in BOOLEAN
    /\ offerSent \in BOOLEAN /\ answered \in BOOLEAN
    /\ heartbeat \in BOOLEAN /\ renack \in BOOLEAN /\ cutShort \in BOOLEAN

Ranges ==
    /\ cur \in 0 .. MaxSessions
    /\ phase \in Phases
    /\ ws \in {"none", "open", "closing", "closed"}
    /\ conn \in {"new", "connected", "failed"}
    /\ sending \in 0 .. MaxOffers
    /\ offers \in 0 .. MaxOffers
    /\ answers \in 0 .. MaxOffers
    /\ answerDogs \subseteq Sessions /\ peerDogs \subseteq Sessions
    /\ media \subseteq Sessions /\ nudgers \subseteq Sessions

IInv ==
    Flags /\ Ranges /\ Bookkeeping /\ NothingLeftRunning /\ UnansweredIsWatched

\* The first session has not begun.
LEMMA InitEstablishes == Init => IInv
<1> SUFFICES ASSUME Init PROVE IInv
  OBVIOUS
<1> USE SignalingAssumption DEF SignalingAssumption
<1>1. Flags
  BY Zenon DEF Init, Flags
<1>2. Ranges /\ Bookkeeping /\ NothingLeftRunning /\ UnansweredIsWatched
  BY DEF Init, Ranges, Phases, Sessions, Bookkeeping, NothingLeftRunning,
     UnansweredIsWatched
<1> QED
  BY <1>1, <1>2 DEF IInv

\* Every flag stays a Boolean.
LEMMA FlagsKept == IInv /\ [Next]_vars => Flags'
<1> SUFFICES ASSUME IInv, [Next]_vars PROVE Flags'
  OBVIOUS
<1> USE DEF IInv, Flags, socket_vars, offer_vars, answer_vars, pc_vars,
   track_vars, dog_vars
<1>1. CASE Start
  BY <1>1, Zenon DEF Start
<1>2. CASE OfferMade
  BY <1>2, Zenon DEF OfferMade
<1>3. CASE OfferFails
  BY <1>3, Zenon DEF OfferFails
<1>4. CASE WsOpens
  BY <1>4, Zenon DEF WsOpens
<1>5. CASE WsFails
  BY <1>5, Zenon DEF WsFails, EnterFinally
<1>6. CASE PeerIn
  BY <1>6, Zenon DEF PeerIn
<1>7. CASE OfferGoes
  BY <1>7, Zenon DEF OfferGoes
<1>8. CASE AnswerIn
  BY <1>8, Zenon DEF AnswerIn, Serving
<1>9. CASE Track
  BY <1>9, Zenon DEF Track
<1>10. CASE AnswerApplied
  BY <1>10, Zenon DEF AnswerApplied, AfterMessage
<1>11. CASE AnswerRejected
  BY <1>11, Zenon DEF AnswerRejected
<1>12. CASE OtherMessage
  BY <1>12, Zenon DEF OtherMessage, AfterMessage, Serving
<1>13. CASE PeerOut
  BY <1>13, Zenon DEF PeerOut, Serving
<1>14. CASE LoopEnds
  BY <1>14, Zenon DEF LoopEnds, Serving
<1>15. CASE WsLeft
  BY <1>15, Zenon DEF WsLeft, EnterFinally
<1>16. CASE Closed
  BY <1>16, Zenon DEF Closed
<1>17. CASE Cancel
  BY <1>17, Zenon DEF Cancel, EnterFinally
<1>18. CASE PcConnects
  BY <1>18, Zenon DEF PcConnects
<1>19. CASE PcFails
  BY <1>19, Zenon DEF PcFails
<1>20. CASE WsDrops
  BY <1>20, Zenon DEF WsDrops
<1>21. CASE WsCloses
  BY <1>21, Zenon DEF WsCloses
<1>22. CASE HeartbeatStops
  BY <1>22, Zenon DEF HeartbeatStops
<1>23. ASSUME NEW s \in Sessions, AnswerDog(s) PROVE Flags'
  BY <1>23, Zenon DEF AnswerDog
<1>24. ASSUME NEW s \in Sessions, PeerDog(s) PROVE Flags'
  BY <1>24, Zenon DEF PeerDog
<1>25. ASSUME NEW s \in Sessions, MediaEnds(s) PROVE Flags'
  BY <1>25, Zenon DEF MediaEnds
<1>26. CASE UNCHANGED vars
  BY <1>26, Zenon DEF vars
<1> QED
  BY <1>1, <1>2, <1>3, <1>4, <1>5, <1>6, <1>7, <1>8, <1>9, <1>10, <1>11,
     <1>12, <1>13, <1>14, <1>15, <1>16, <1>17, <1>18, <1>19, <1>20, <1>21,
     <1>22, <1>23, <1>24, <1>25, <1>26 DEF Next, SessionAwaits, Messages,
     SideTasks

\* Every counter, place and set of tasks stays in its range.
LEMMA RangesKept == IInv /\ [Next]_vars => Ranges'
<1> SUFFICES ASSUME IInv, [Next]_vars PROVE Ranges'
  OBVIOUS
<1> USE SignalingAssumption
    DEF SignalingAssumption, IInv, Ranges, Phases, Sessions, Bookkeeping,
        socket_vars, offer_vars, answer_vars, pc_vars, track_vars, dog_vars
<1>1. CASE Start
  BY <1>1 DEF Start
<1>2. CASE OfferMade
  BY <1>2 DEF OfferMade
<1>3. CASE OfferFails
  BY <1>3 DEF OfferFails
<1>4. CASE WsOpens
  BY <1>4 DEF WsOpens
<1>5. CASE WsFails
  BY <1>5 DEF WsFails, EnterFinally
<1>6. CASE PeerIn
  <2>1. CASE offerSent /\ UNCHANGED <<sending, peerSeen, peerDogs>>
    BY <1>6, <2>1 DEF PeerIn, AfterMessage, Serving
  <2>2. CASE sending + offers < MaxOffers /\ sending' = sending + 1
             /\ peerDogs' = peerDogs \ {cur}
    BY <1>6, <2>2 DEF PeerIn, AfterMessage, Serving
  <2> QED
    BY <1>6, <2>1, <2>2 DEF PeerIn
<1>7. CASE OfferGoes
  BY <1>7 DEF OfferGoes
<1>8. CASE AnswerIn
  BY <1>8 DEF AnswerIn, Serving
<1>9. CASE Track
  BY <1>9 DEF Track
<1>10. CASE AnswerApplied
  BY <1>10 DEF AnswerApplied, AfterMessage
<1>11. CASE AnswerRejected
  BY <1>11 DEF AnswerRejected
<1>12. CASE OtherMessage
  BY <1>12 DEF OtherMessage, AfterMessage, Serving
<1>13. CASE PeerOut
  BY <1>13 DEF PeerOut, Serving
<1>14. CASE LoopEnds
  BY <1>14 DEF LoopEnds, Serving
<1>15. CASE WsLeft
  BY <1>15 DEF WsLeft, EnterFinally
<1>16. CASE Closed
  BY <1>16 DEF Closed
<1>17. CASE Cancel
  BY <1>17 DEF Cancel, EnterFinally
<1>18. CASE PcConnects
  BY <1>18 DEF PcConnects
<1>19. CASE PcFails
  BY <1>19 DEF PcFails
<1>20. CASE WsDrops
  BY <1>20 DEF WsDrops
<1>21. CASE WsCloses
  BY <1>21 DEF WsCloses
<1>22. CASE HeartbeatStops
  BY <1>22 DEF HeartbeatStops
<1>23. ASSUME NEW s \in Sessions, AnswerDog(s) PROVE Ranges'
  BY <1>23 DEF AnswerDog
<1>24. ASSUME NEW s \in Sessions, PeerDog(s) PROVE Ranges'
  BY <1>24 DEF PeerDog
<1>25. ASSUME NEW s \in Sessions, MediaEnds(s) PROVE Ranges'
  BY <1>25 DEF MediaEnds
<1>26. CASE UNCHANGED vars
  BY <1>26 DEF vars
<1> QED
  BY <1>1, <1>2, <1>3, <1>4, <1>5, <1>6, <1>7, <1>8, <1>9, <1>10, <1>11,
     <1>12, <1>13, <1>14, <1>15, <1>16, <1>17, <1>18, <1>19, <1>20, <1>21,
     <1>22, <1>23, <1>24, <1>25, <1>26 DEF Next, SessionAwaits, Messages,
     SideTasks

\* Which tasks and sockets there are follows from where the session is.
LEMMA BookkeepingKept == IInv /\ [Next]_vars => Bookkeeping'
<1> SUFFICES ASSUME IInv, [Next]_vars PROVE Bookkeeping'
  OBVIOUS
<1> USE SignalingAssumption
    DEF SignalingAssumption, IInv, Ranges, Phases, Sessions, Bookkeeping,
        socket_vars, offer_vars, answer_vars, pc_vars, track_vars, dog_vars
<1>1. CASE Start
  BY <1>1 DEF Start
<1>2. CASE OfferMade
  BY <1>2 DEF OfferMade
<1>3. CASE OfferFails
  BY <1>3 DEF OfferFails
<1>4. CASE WsOpens
  BY <1>4 DEF WsOpens
<1>5. CASE WsFails
  BY <1>5 DEF WsFails, EnterFinally
<1>6. CASE PeerIn
  <2>1. phase = "serving" /\ phase' \in {"serving", "leaving"}
    BY <1>6 DEF PeerIn, AfterMessage, Serving
  <2>2. CASE offerSent /\ UNCHANGED <<sending, peerSeen, peerDogs>>
    BY <1>6, <2>1, <2>2 DEF PeerIn
  <2>3. CASE sending + offers < MaxOffers /\ sending' = sending + 1
             /\ peerDogs' = peerDogs \ {cur} /\ peerSeen'
    <3>1. peerDogs' \subseteq 1 .. cur /\ sending' + offers <= MaxOffers
          /\ peerSeen'
      BY <2>3
    <3>2. UNCHANGED <<cur, ws, heartbeat, renack, answerDogs, media, nudgers,
                      answered, stable, answers, offers>>
      BY <1>6 DEF PeerIn
    <3> QED
      BY <2>1, <3>1, <3>2
  <2> QED
    BY <1>6, <2>2, <2>3 DEF PeerIn
<1>7. CASE OfferGoes
  BY <1>7 DEF OfferGoes
<1>8. CASE AnswerIn
  BY <1>8 DEF AnswerIn, Serving
<1>9. CASE Track
  BY <1>9 DEF Track
<1>10. CASE AnswerApplied
  BY <1>10 DEF AnswerApplied, AfterMessage
<1>11. CASE AnswerRejected
  BY <1>11 DEF AnswerRejected
<1>12. CASE OtherMessage
  BY <1>12 DEF OtherMessage, AfterMessage, Serving
<1>13. CASE PeerOut
  BY <1>13 DEF PeerOut, Serving
<1>14. CASE LoopEnds
  BY <1>14 DEF LoopEnds, Serving
<1>15. CASE WsLeft
  BY <1>15 DEF WsLeft, EnterFinally
<1>16. CASE Closed
  BY <1>16 DEF Closed
<1>17. CASE Cancel
  <2>1. CASE phase \in {"serving", "answering"}
    BY <1>17, <2>1 DEF Cancel
  <2>2. CASE phase \in {"opening", "leaving"}
    BY <1>17, <2>2 DEF Cancel, EnterFinally
  <2>3. CASE phase \in {"offering", "closing"}
    <3>1. phase' = "idle" /\ ~heartbeat' /\ ~renack'
      BY <1>17, <2>3 DEF Cancel
    <3>2. UNCHANGED <<cur, ws, answerDogs, peerDogs, media, nudgers, answered,
                      stable, answers, offers, sending, peerSeen>>
      BY <1>17, <2>3 DEF Cancel
    <3> QED
      BY <3>1, <3>2
  <2> QED
    BY <1>17, <2>1, <2>2, <2>3 DEF Cancel
<1>18. CASE PcConnects
  BY <1>18 DEF PcConnects
<1>19. CASE PcFails
  BY <1>19 DEF PcFails
<1>20. CASE WsDrops
  BY <1>20 DEF WsDrops
<1>21. CASE WsCloses
  BY <1>21 DEF WsCloses
<1>22. CASE HeartbeatStops
  BY <1>22 DEF HeartbeatStops
<1>23. ASSUME NEW s \in Sessions, AnswerDog(s) PROVE Bookkeeping'
  BY <1>23 DEF AnswerDog
<1>24. ASSUME NEW s \in Sessions, PeerDog(s) PROVE Bookkeeping'
  BY <1>24 DEF PeerDog
<1>25. ASSUME NEW s \in Sessions, MediaEnds(s) PROVE Bookkeeping'
  BY <1>25 DEF MediaEnds
<1>26. CASE UNCHANGED vars
  BY <1>26 DEF vars
<1> QED
  BY <1>1, <1>2, <1>3, <1>4, <1>5, <1>6, <1>7, <1>8, <1>9, <1>10, <1>11,
     <1>12, <1>13, <1>14, <1>15, <1>16, <1>17, <1>18, <1>19, <1>20, <1>21,
     <1>22, <1>23, <1>24, <1>25, <1>26 DEF Next, SessionAwaits, Messages,
     SideTasks

\* The two safety properties survive every step.
LEMMA SafetyKept ==
    IInv /\ [Next]_vars => NothingLeftRunning' /\ UnansweredIsWatched'
<1> DEFINE Safe == NothingLeftRunning /\ UnansweredIsWatched
<1> SUFFICES ASSUME IInv, [Next]_vars PROVE Safe'
  OBVIOUS
<1> USE DEF IInv, Bookkeeping, NothingLeftRunning, UnansweredIsWatched,
   socket_vars, offer_vars, answer_vars, pc_vars, track_vars, dog_vars
<1>1. CASE Start
  BY <1>1 DEF Start
<1>2. CASE OfferMade
  BY <1>2 DEF OfferMade
<1>3. CASE OfferFails
  BY <1>3 DEF OfferFails
<1>4. CASE WsOpens
  BY <1>4 DEF WsOpens
<1>5. CASE WsFails
  BY <1>5 DEF WsFails, EnterFinally
<1>6. CASE PeerIn
  BY <1>6 DEF PeerIn, AfterMessage, Serving
<1>7. CASE OfferGoes
  BY <1>7 DEF OfferGoes
<1>8. CASE AnswerIn
  BY <1>8 DEF AnswerIn, Serving
<1>9. CASE Track
  BY <1>9 DEF Track
<1>10. CASE AnswerApplied
  BY <1>10 DEF AnswerApplied, AfterMessage
<1>11. CASE AnswerRejected
  BY <1>11 DEF AnswerRejected
<1>12. CASE OtherMessage
  BY <1>12 DEF OtherMessage, AfterMessage, Serving
<1>13. CASE PeerOut
  BY <1>13 DEF PeerOut, Serving
<1>14. CASE LoopEnds
  BY <1>14 DEF LoopEnds, Serving
<1>15. CASE WsLeft
  BY <1>15 DEF WsLeft, EnterFinally
<1>16. CASE Closed
  BY <1>16 DEF Closed
<1>17. CASE Cancel
  BY <1>17 DEF Cancel, EnterFinally
<1>18. CASE PcConnects
  BY <1>18 DEF PcConnects
<1>19. CASE PcFails
  BY <1>19 DEF PcFails
<1>20. CASE WsDrops
  BY <1>20 DEF WsDrops
<1>21. CASE WsCloses
  BY <1>21 DEF WsCloses
<1>22. CASE HeartbeatStops
  BY <1>22 DEF HeartbeatStops
<1>23. ASSUME NEW s \in Sessions, AnswerDog(s) PROVE Safe'
  BY <1>23 DEF AnswerDog
<1>24. ASSUME NEW s \in Sessions, PeerDog(s) PROVE Safe'
  BY <1>24 DEF PeerDog
<1>25. ASSUME NEW s \in Sessions, MediaEnds(s) PROVE Safe'
  BY <1>25 DEF MediaEnds
<1>26. CASE UNCHANGED vars
  BY <1>26 DEF vars
<1> QED
  BY <1>1, <1>2, <1>3, <1>4, <1>5, <1>6, <1>7, <1>8, <1>9, <1>10, <1>11,
     <1>12, <1>13, <1>14, <1>15, <1>16, <1>17, <1>18, <1>19, <1>20, <1>21,
     <1>22, <1>23, <1>24, <1>25, <1>26 DEF Next, SessionAwaits, Messages,
     SideTasks

\* IInv is inductive, so every reachable state satisfies it.
THEOREM Invariance == Spec => []IInv
<1>1. IInv /\ [Next]_vars => IInv'
  BY FlagsKept, RangesKept, BookkeepingKept, SafetyKept DEF IInv
<1> QED
  BY <1>1, InitEstablishes, PTL DEF Spec

\* Type correctness of the signaling sessions, for any number of them.
THEOREM TypeCorrect == Spec => []TypeOK
<1>1. IInv => TypeOK
  BY Zenon DEF IInv, Flags, Ranges, TypeOK
<1> QED
  BY <1>1, Invariance, PTL

\* However a session ends, its heartbeat and re-NACK loop end with it, and its
\* peer connection is closed unless it was cut off outside the try block.
THEOREM NothingIsLeftRunning == Spec => []NothingLeftRunning
<1>1. IInv => NothingLeftRunning
  BY DEF IInv
<1> QED
  BY <1>1, Invariance, PTL

\* No session waits for an answer without its watchdog.
THEOREM UnansweredAreWatched == Spec => []UnansweredIsWatched
<1>1. IInv => UnansweredIsWatched
  BY DEF IInv
<1> QED
  BY <1>1, Invariance, PTL

\* No watchdog, of this session or of an earlier one, closes the websocket of a
\* session that has its answer.
THEOREM DogsSpareAnswered == Spec => DogSparesAnswered
<1> DEFINE Spares == answered /\ ws' = "closing" => ws = "closing"
<1>1. IInv /\ [Next]_vars => [Spares]_vars
  <2> SUFFICES ASSUME IInv, Next PROVE Spares
    BY DEF vars, socket_vars, offer_vars, answer_vars, pc_vars, track_vars, dog_vars
  <2> USE DEF IInv, Bookkeeping, socket_vars, offer_vars, answer_vars,
     pc_vars, track_vars, dog_vars
  <2>1. CASE Start
    BY <2>1 DEF Start
  <2>2. CASE OfferMade
    BY <2>2 DEF OfferMade
  <2>3. CASE OfferFails
    BY <2>3 DEF OfferFails
  <2>4. CASE WsOpens
    BY <2>4 DEF WsOpens
  <2>5. CASE WsFails
    BY <2>5 DEF WsFails, EnterFinally
  <2>6. CASE PeerIn
    BY <2>6 DEF PeerIn, AfterMessage, Serving
  <2>7. CASE OfferGoes
    BY <2>7 DEF OfferGoes
  <2>8. CASE AnswerIn
    BY <2>8 DEF AnswerIn, Serving
  <2>9. CASE Track
    BY <2>9 DEF Track
  <2>10. CASE AnswerApplied
    BY <2>10 DEF AnswerApplied, AfterMessage
  <2>11. CASE AnswerRejected
    BY <2>11 DEF AnswerRejected
  <2>12. CASE OtherMessage
    BY <2>12 DEF OtherMessage, AfterMessage, Serving
  <2>13. CASE PeerOut
    BY <2>13 DEF PeerOut, Serving
  <2>14. CASE LoopEnds
    BY <2>14 DEF LoopEnds, Serving
  <2>15. CASE WsLeft
    BY <2>15 DEF WsLeft, EnterFinally
  <2>16. CASE Closed
    BY <2>16 DEF Closed
  <2>17. CASE Cancel
    BY <2>17 DEF Cancel, EnterFinally
  <2>18. CASE PcConnects
    BY <2>18 DEF PcConnects
  <2>19. CASE PcFails
    BY <2>19 DEF PcFails
  <2>20. CASE WsDrops
    BY <2>20 DEF WsDrops
  <2>21. CASE WsCloses
    BY <2>21 DEF WsCloses
  <2>22. CASE HeartbeatStops
    BY <2>22 DEF HeartbeatStops
  <2>23. ASSUME NEW s \in Sessions, AnswerDog(s) PROVE Spares
    BY <2>23 DEF AnswerDog
  <2>24. ASSUME NEW s \in Sessions, PeerDog(s) PROVE Spares
    BY <2>24 DEF PeerDog
  <2>25. ASSUME NEW s \in Sessions, MediaEnds(s) PROVE Spares
    BY <2>25 DEF MediaEnds
  <2> QED
    BY <2>1, <2>2, <2>3, <2>4, <2>5, <2>6, <2>7, <2>8, <2>9, <2>10, <2>11,
       <2>12, <2>13, <2>14, <2>15, <2>16, <2>17, <2>18, <2>19, <2>20, <2>21,
       <2>22, <2>23, <2>24, <2>25 DEF Next, SessionAwaits, Messages, SideTasks
<1> QED
  BY <1>1, Invariance, PTL DEF Spec, DogSparesAnswered

\* The 30 s watchdog never finds its session still waiting for a PEER_IN.
THEOREM PeerDogsAreLate == Spec => PeerDogIsLate
<1> DEFINE Late ==
      \A s \in peerDogs : s \notin peerDogs' /\ s = cur /\ ~peerSeen'
         => ~(phase \in {"serving", "answering"} /\ ws = "open")
<1>1. IInv /\ [Next]_vars => [Late]_vars
  <2> SUFFICES ASSUME IInv, Next, NEW d \in peerDogs, d \notin peerDogs', d = cur,
                      ~peerSeen'
               PROVE  ~(phase \in {"serving", "answering"} /\ ws = "open")
    BY DEF vars, dog_vars
  <2>1. PICK s \in Sessions : PeerDog(s)
    <3>1. PeerIn \/ WsOpens \/ \E s \in Sessions : PeerDog(s)
      BY DEF Next, SessionAwaits, Messages, SideTasks, Start, OfferMade, OfferFails,
         WsFails, OfferGoes, AnswerIn, Track, AnswerApplied, AnswerRejected,
         OtherMessage, PeerOut, LoopEnds, WsLeft, Closed, Cancel, PcConnects, PcFails,
         WsDrops, WsCloses, HeartbeatStops, AnswerDog, MediaEnds, dog_vars
    <3>2. ~WsOpens
      BY DEF WsOpens
    <3>3. ~PeerIn
      BY DEF PeerIn
    <3> QED
      BY <3>1, <3>2, <3>3
  <2>2. s = d /\ d \notin answerDogs /\ ~peerSeen
    BY <2>1 DEF PeerDog, offer_vars
  <2>3. ~answered
    BY <2>2, SignalingAssumption
       DEF SignalingAssumption, IInv, Ranges, Flags, Bookkeeping
  <2> QED
    BY <2>2, <2>3 DEF IInv, UnansweredIsWatched
<1> QED
  BY <1>1, Invariance, PTL DEF Spec, PeerDogIsLate
-----------------------------------------------------------------------------
(* DecodeFallback, whose session is one of those above. *)

\* The nudging ends with the first frame or with the task.
FallbackFlags ==
    /\ track \in BOOLEAN /\ nudging \in BOOLEAN
    /\ pc = "done" => ~nudging

FallbackPlaces ==
    /\ session \in {"up", "killing", "over"}
    /\ pc \in {"recv", "write", "done"}
    /\ thread \in {"idle", "queued", "writing", "ok", "broken"}
    /\ proc \in {"none", "running", "exited"}
    /\ frame \in Sizes \cup {0} /\ size \in Sizes \cup {0} /\ fed \in Sizes \cup {0}

\* The thread writes exactly while the task awaits it, an ffmpeg that runs is of
\* the size the session knows, the frame under way is of this size, and what runs
\* is the ffmpeg in state and no other.
FallbackShape ==
    /\ FedAsStarted
    /\ running = IF proc = "running" THEN 1 ELSE 0
    /\ pc = "write" <=> thread # "idle"
    /\ pc = "done" => proc = "none"
    /\ proc = "running" => size = fed

FallbackInv == FallbackFlags /\ FallbackPlaces /\ FallbackShape

\* No track comes back, and no nudging begins again.
LEMMA FallbackFlagsKept == FallbackInv /\ [FallbackNext]_fallback_vars => FallbackFlags'
<1> SUFFICES ASSUME FallbackInv, [FallbackNext]_fallback_vars PROVE FallbackFlags'
  OBVIOUS
<1> USE DEF FallbackInv, FallbackFlags
<1>1. ASSUME NEW f \in Sizes, Handle(f) PROVE FallbackFlags'
  BY <1>1, Zenon DEF Handle, StartFfmpeg, StartFails, Forward, FindsDead,
     Gets, Write, Finish
<1>2. CASE FrameTimeout \/ TrackRaises \/ WriteFailed
  BY <1>2, Zenon DEF FrameTimeout, TrackRaises, WriteFailed, Finish
<1>3. CASE Written
  <2>1. pc' = "recv" /\ UNCHANGED <<track, nudging>>
    BY <1>3 DEF Written
  <2>2. pc' # "done"
    BY <2>1
  <2> QED
    BY <2>1, <2>2, Zenon
<1>4. CASE WriteBegins \/ WriteEnds \/ SessionEnds \/ KillReturns \/ FfmpegExits
  <2>1. UNCHANGED <<track, pc, nudging>>
    BY <1>4 DEF WriteBegins, WriteEnds, SessionEnds, KillReturns, FfmpegExits
  <2> QED
    BY <2>1, Zenon
<1>5. CASE TrackEnds
  BY <1>5, Zenon DEF TrackEnds
<1>6. CASE UNCHANGED fallback_vars
  BY <1>6, Zenon DEF fallback_vars
<1> QED
  BY <1>1, <1>2, <1>3, <1>4, <1>5, <1>6 DEF FallbackNext

\* The two parties that kill and the one that starts agree on what ffmpeg there is.
LEMMA FallbackShapeKept ==
    FallbackInv /\ [FallbackNext]_fallback_vars => FallbackPlaces' /\ FallbackShape'
<1> DEFINE Shape == FallbackPlaces /\ FallbackShape
<1> SUFFICES ASSUME Shape, [FallbackNext]_fallback_vars PROVE Shape'
  BY DEF FallbackInv
<1> USE DEF FallbackPlaces, FallbackShape, FedAsStarted, KillFfmpeg, OthersRunning,
        NoSize
<1>1. ASSUME NEW f \in Sizes, StartFfmpeg(f) PROVE Shape'
  BY <1>1 DEF StartFfmpeg, Gets, Write
<1>2. ASSUME NEW f \in Sizes, StartFails(f) PROVE Shape'
  BY <1>2 DEF StartFails, Finish
<1>3. ASSUME NEW f \in Sizes, Forward(f) PROVE Shape'
  BY <1>3 DEF Forward, Gets, Write, SizeChanged
<1>4. ASSUME NEW f \in Sizes, FindsDead(f) PROVE Shape'
  BY <1>4 DEF FindsDead, Finish
<1>5. CASE FrameTimeout \/ TrackRaises \/ WriteFailed
  BY <1>5 DEF FrameTimeout, TrackRaises, WriteFailed, Finish
<1>6. CASE Written
  BY <1>6 DEF Written
<1>7. CASE WriteBegins \/ WriteEnds
  BY <1>7 DEF WriteBegins, WriteEnds
<1>8. CASE SessionEnds \/ KillReturns
  BY <1>8 DEF SessionEnds, KillReturns
<1>9. CASE TrackEnds \/ FfmpegExits
  BY <1>9 DEF TrackEnds, FfmpegExits
<1>10. CASE UNCHANGED fallback_vars
  BY <1>10 DEF fallback_vars
<1> QED
  BY <1>1, <1>2, <1>3, <1>4, <1>5, <1>6, <1>7, <1>8, <1>9, <1>10 DEF FallbackNext, Handle

\* FallbackInv is inductive.
THEOREM FallbackInvariance == FallbackSpec => []FallbackInv
<1>1. FallbackInit => FallbackFlags
  <2> SUFFICES ASSUME FallbackInit PROVE FallbackFlags
    OBVIOUS
  <2>1. track \in BOOLEAN /\ nudging \in BOOLEAN
    BY Zenon DEF FallbackInit
  <2>2. pc # "done"
    BY DEF FallbackInit
  <2> QED
    BY <2>1, <2>2, Zenon DEF FallbackFlags
<1>2. FallbackInit => FallbackPlaces /\ FallbackShape
  BY DEF FallbackInit, FallbackPlaces, FallbackShape, FedAsStarted, NoSize
<1>3. FallbackInv /\ [FallbackNext]_fallback_vars => FallbackInv'
  BY FallbackFlagsKept, FallbackShapeKept DEF FallbackInv
<1> QED
  BY <1>1, <1>2, <1>3, PTL DEF FallbackSpec, FallbackInv

\* Type correctness of the decode fallback.
THEOREM FallbackTypeCorrect == FallbackSpec => []FallbackTypeOK
<1>1. FallbackInv => FallbackTypeOK
  <2> SUFFICES ASSUME FallbackInv PROVE FallbackTypeOK
    OBVIOUS
  <2>1. track \in BOOLEAN /\ nudging \in BOOLEAN
    BY Zenon DEF FallbackInv, FallbackFlags
  <2>2. {frame, size, fed} \subseteq Sizes \cup {0} /\ running \in Nat
    BY DEF FallbackInv, FallbackPlaces, FallbackShape
  <2> QED
    BY <2>1, <2>2, Zenon DEF FallbackInv, FallbackPlaces, FallbackTypeOK, NoSize
<1> QED
  BY <1>1, FallbackInvariance, PTL

\* A frame is never written to an ffmpeg that was started for another size.
THEOREM FramesFitTheirFfmpeg == FallbackSpec => []FedAsStarted
<1>1. FallbackInv => FedAsStarted
  BY DEF FallbackInv, FallbackShape
<1> QED
  BY <1>1, FallbackInvariance, PTL

\* However the kills of the session and of the task, the starts and the exits of
\* ffmpeg interleave, at most one ffmpeg runs, it is the one both of them know, and
\* none runs when the task is over.
THEOREM NoFfmpegIsLost == FallbackSpec => []NoFfmpegLost
<1>1. FallbackInv => NoFfmpegLost
  BY DEF FallbackInv, FallbackShape, NoFfmpegLost
<1> QED
  BY <1>1, FallbackInvariance, PTL
=============================================================================

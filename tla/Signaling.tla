----------------------------- MODULE Signaling -----------------------------
(***************************************************************************)
(* connect_and_stream of webrtc_client.py: one WebRTC session after the    *)
(* other, each with its own peer connection and signaling websocket.  The  *)
(* session task awaits in one of a few places (phase); beside it run the   *)
(* task that sends the offer, two watchdogs, the candidate heartbeat, and  *)
(* from the first video track on a re-NACK loop, a media task (the RTP     *)
(* forwarder or the decode fallback) and a keyframe nudger.  Only some of  *)
(* them are stopped when the session ends, so those are kept per session.  *)
(*                                                                         *)
(* The camera, the signaling server and aiortc are external: a message of  *)
(* the camera is handled when it is chosen, an answer at most once per     *)
(* offer, and messages still buffered when the websocket closes may be     *)
(* handled after that.  A step is the code between two awaits.             *)
(***************************************************************************)
EXTENDS Integers

CONSTANTS
    MaxSessions,   \* bound: sessions started
    MaxOffers      \* bound: offers started in one session

ASSUME SignalingAssumption ==
    /\ MaxSessions \in Nat \ {0}
    /\ MaxOffers \in Nat \ {0}

Sessions == 1 .. MaxSessions

VARIABLES
    cur,         \* the session at hand or the last one, 0 before the first
    phase,       \* where its task awaits
    ws,          \* its websocket
    pcOpen,      \* its peer connection has not been closed
    conn,        \* pc.connectionState
    stable,      \* pc.signalingState is "stable": an answer has been applied
    peerSeen,    \* peer_in_received
    offerSent,   \* offer_sent
    answered,    \* answer_received
    sending,     \* tasks that have yet to send an offer
    offers,      \* offers the camera has got
    answers,     \* answers of the camera that have been handled
    heartbeat,   \* the ICE candidate heartbeat runs
    renack,      \* the re-NACK loop runs
    answerDogs,  \* sessions whose answer watchdog waits
    peerDogs,    \* sessions whose PEER_IN watchdog waits
    media,       \* sessions whose media task runs
    nudgers,     \* sessions whose PLI/FIR nudger runs
    cutShort     \* history: the last session was cut off outside its try block

socket_vars == <<ws, heartbeat>>
offer_vars  == <<peerSeen, offerSent, sending, offers>>
answer_vars == <<answered, stable, answers>>
pc_vars     == <<pcOpen, conn>>
track_vars  == <<renack, media, nudgers>>
dog_vars    == <<answerDogs, peerDogs>>
vars == <<cur, phase, socket_vars, offer_vars, answer_vars, pc_vars, track_vars,
          dog_vars, cutShort>>

Phases == {"idle", "offering", "opening", "serving", "answering", "leaving", "closing"}

TypeOK ==
    /\ cur \in 0 .. MaxSessions
    /\ phase \in Phases
    /\ ws \in {"none", "open", "closing", "closed"}
    /\ conn \in {"new", "connected", "failed"}
    /\ pcOpen \in BOOLEAN /\ stable \in BOOLEAN /\ peerSeen \in BOOLEAN
    /\ offerSent \in BOOLEAN /\ answered \in BOOLEAN
    /\ heartbeat \in BOOLEAN /\ renack \in BOOLEAN /\ cutShort \in BOOLEAN
    /\ sending \in 0 .. MaxOffers
    /\ offers \in 0 .. MaxOffers
    /\ answers \in 0 .. MaxOffers
    /\ answerDogs \subseteq Sessions /\ peerDogs \subseteq Sessions
    /\ media \subseteq Sessions /\ nudgers \subseteq Sessions

-----------------------------------------------------------------------------
(* Setting up. *)

Start ==
    /\ phase = "idle" /\ cur < MaxSessions
    /\ phase' = "offering" /\ cur' = cur + 1
    /\ ws' = "none" /\ conn' = "new"
    /\ pcOpen' = TRUE /\ stable' = FALSE
    /\ peerSeen' = FALSE /\ offerSent' = FALSE /\ answered' = FALSE
    /\ sending' = 0 /\ offers' = 0 /\ answers' = 0
    /\ cutShort' = FALSE
    /\ UNCHANGED <<heartbeat, track_vars, dog_vars>>

\* createOffer and setLocalDescription have returned.
OfferMade ==
    /\ phase = "offering"
    /\ phase' = "opening"
    /\ UNCHANGED <<cur, socket_vars, offer_vars, answer_vars, pc_vars, track_vars,
                   dog_vars, cutShort>>

\* They raise, outside the try block: nobody closes the peer connection.
OfferFails ==
    /\ phase = "offering"
    /\ phase' = "idle"
    /\ cutShort' = TRUE
    /\ UNCHANGED <<cur, socket_vars, offer_vars, answer_vars, pc_vars, track_vars,
                   dog_vars>>

\* The websocket is up: both watchdogs start, and the heartbeat.
WsOpens ==
    /\ phase = "opening"
    /\ phase' = "serving"
    /\ ws' = "open" /\ heartbeat' = TRUE
    /\ answerDogs' = answerDogs \cup {cur}
    /\ peerDogs' = peerDogs \cup {cur}
    /\ UNCHANGED <<cur, offer_vars, answer_vars, pc_vars, track_vars, cutShort>>

\* Mutant: the re-NACK loop is not detached.
EnterFinally_keepsRenack ==
    /\ phase' = "closing"
    /\ heartbeat' = FALSE
    /\ UNCHANGED <<renack, media, nudgers>>

\* The finally block up to its await of pc.close().
EnterFinally ==
    /\ phase' = "closing"
    /\ heartbeat' = FALSE /\ renack' = FALSE
    /\ UNCHANGED <<media, nudgers>>

WsFails ==
    /\ phase = "opening"
    /\ EnterFinally
    /\ UNCHANGED <<cur, ws, offer_vars, answer_vars, pc_vars, dog_vars, cutShort>>

-----------------------------------------------------------------------------
(* The message loop.  Every message is followed by a look at the connection  *)
(* state, and at no other time does anybody look.                            *)

Serving == phase = "serving" /\ ws # "none"

AfterMessage == phase' = IF conn = "failed" THEN "leaving" ELSE "serving"

\* PEER_IN: an offer unless one has been sent; the task sends it later.
PeerIn ==
    /\ Serving
    /\ \/ /\ ~offerSent
          /\ sending + offers < MaxOffers
          /\ sending' = sending + 1
          /\ peerSeen' = TRUE
          /\ peerDogs' = peerDogs \ {cur}
       \/ /\ offerSent
          /\ UNCHANGED <<sending, peerSeen, peerDogs>>
    /\ AfterMessage
    /\ UNCHANGED <<cur, socket_vars, offerSent, offers, answer_vars, pc_vars,
                   track_vars, answerDogs, cutShort>>

\* _send_offer: the event is set once the send has returned.  On a closed
\* websocket the task dies of an exception nobody looks at.
OfferGoes ==
    /\ sending > 0
    /\ sending' = sending - 1
    /\ \/ ws = "open" /\ offers' = offers + 1 /\ offerSent' = TRUE
       \/ ws # "open" /\ UNCHANGED <<offers, offerSent>>
    /\ UNCHANGED <<cur, phase, socket_vars, peerSeen, answer_vars, pc_vars,
                   track_vars, dog_vars, cutShort>>

\* Mutant: answer_received is set before the answer is applied.
AnswerIn_countsEarly ==
    /\ Serving /\ answers < offers
    /\ phase' = "answering"
    /\ answers' = answers + 1
    /\ answerDogs' = answerDogs \ {cur}
    /\ UNCHANGED <<cur, socket_vars, offer_vars, answered, stable, pc_vars,
                   track_vars, peerDogs, cutShort>>

\* An SDP answer: await setRemoteDescription.
AnswerIn ==
    /\ Serving /\ answers < offers
    /\ phase' = "answering"
    /\ answers' = answers + 1
    /\ UNCHANGED <<cur, socket_vars, offer_vars, answered, stable, pc_vars,
                   track_vars, dog_vars, cutShort>>

\* on_track for video, from inside setRemoteDescription.
Track ==
    /\ phase = "answering" /\ ~stable /\ ~renack
    /\ renack' = TRUE
    /\ media' = media \cup {cur}
    /\ nudgers' = nudgers \cup {cur}
    /\ UNCHANGED <<cur, phase, socket_vars, offer_vars, answer_vars, pc_vars,
                   dog_vars, cutShort>>

\* The answer is applied; its watchdog is content.
AnswerApplied ==
    /\ phase = "answering" /\ ~stable
    /\ stable' = TRUE /\ answered' = TRUE
    /\ answerDogs' = answerDogs \ {cur}
    /\ AfterMessage
    /\ UNCHANGED <<cur, socket_vars, offer_vars, answers, pc_vars, track_vars,
                   peerDogs, cutShort>>

\* aiortc refuses an answer in the stable state, as it may a malformed one; the
\* exception ends the session.
AnswerRejected ==
    /\ phase = "answering"
    /\ phase' = "leaving"
    /\ UNCHANGED <<cur, socket_vars, offer_vars, answer_vars, pc_vars, track_vars,
                   dog_vars, cutShort>>

\* A candidate (bad ones are logged), an answer without SDP, an unknown type.
OtherMessage ==
    /\ Serving
    /\ AfterMessage
    /\ UNCHANGED <<cur, socket_vars, offer_vars, answer_vars, pc_vars, track_vars,
                   dog_vars, cutShort>>

PeerOut ==
    /\ Serving
    /\ phase' = "leaving"
    /\ UNCHANGED <<cur, socket_vars, offer_vars, answer_vars, pc_vars, track_vars,
                   dog_vars, cutShort>>

\* async for ends on a closed websocket.
LoopEnds ==
    /\ Serving /\ ws = "closed"
    /\ phase' = "leaving"
    /\ UNCHANGED <<cur, socket_vars, offer_vars, answer_vars, pc_vars, track_vars,
                   dog_vars, cutShort>>

-----------------------------------------------------------------------------
(* Tearing down. *)

\* The websocket's context manager has closed it (close_timeout 5 s).
WsLeft ==
    /\ phase = "leaving"
    /\ ws' = "closed"
    /\ EnterFinally
    /\ UNCHANGED <<cur, offer_vars, answer_vars, pc_vars, dog_vars, cutShort>>

\* Mutant: the session waits for its media task before it returns.
Closed_joinsMedia ==
    /\ phase = "closing" /\ cur \notin media
    /\ phase' = "idle"
    /\ pcOpen' = FALSE
    /\ UNCHANGED <<cur, socket_vars, offer_vars, answer_vars, conn, track_vars,
                   dog_vars, cutShort>>

\* pc.close() has returned and so does connect_and_stream.
Closed ==
    /\ phase = "closing"
    /\ phase' = "idle"
    /\ pcOpen' = FALSE
    /\ UNCHANGED <<cur, socket_vars, offer_vars, answer_vars, conn, track_vars,
                   dog_vars, cutShort>>

\* The mode went off: run_once cancels the session at its await.  In the loop
\* the websocket is closed on the way out; a websocket that is being opened or
\* left is dropped; the offer has no finally around it, and a cancelled
\* pc.close() is not called again.
Cancel ==
    /\ \/ /\ phase \in {"serving", "answering"}
          /\ phase' = "leaving"
          /\ UNCHANGED <<heartbeat, track_vars, cutShort>>
       \/ /\ phase \in {"opening", "leaving"}
          /\ EnterFinally
          /\ UNCHANGED cutShort
       \/ /\ phase \in {"offering", "closing"}
          /\ phase' = "idle"
          /\ cutShort' = TRUE
          /\ UNCHANGED <<heartbeat, track_vars>>
    /\ UNCHANGED <<cur, ws, offer_vars, answer_vars, pc_vars, dog_vars>>

-----------------------------------------------------------------------------
(* Beside the session task. *)

PcConnects ==
    /\ stable /\ pcOpen /\ conn = "new"
    /\ conn' = "connected"
    /\ UNCHANGED <<cur, phase, socket_vars, offer_vars, answer_vars, pcOpen,
                   track_vars, dog_vars, cutShort>>

PcFails ==
    /\ stable /\ pcOpen /\ conn # "failed"
    /\ conn' = "failed"
    /\ UNCHANGED <<cur, phase, socket_vars, offer_vars, answer_vars, pcOpen,
                   track_vars, dog_vars, cutShort>>

\* The server closes the websocket, or a ping goes unanswered for 10 s.
WsDrops ==
    /\ ws = "open"
    /\ ws' = "closed"
    /\ UNCHANGED <<cur, phase, heartbeat, offer_vars, answer_vars, pc_vars,
                   track_vars, dog_vars, cutShort>>

\* The closing handshake a watchdog began is over.
WsCloses ==
    /\ ws = "closing"
    /\ ws' = "closed"
    /\ UNCHANGED <<cur, phase, heartbeat, offer_vars, answer_vars, pc_vars,
                   track_vars, dog_vars, cutShort>>

\* _ice_heartbeat returns when a send fails.
HeartbeatStops ==
    /\ heartbeat /\ ws # "open"
    /\ heartbeat' = FALSE
    /\ UNCHANGED <<cur, phase, ws, offer_vars, answer_vars, pc_vars, track_vars,
                   dog_vars, cutShort>>

\* Mutant: the watchdog closes whatever websocket the module holds.
AnswerDog_sharedWs(s) ==
    /\ s \in answerDogs
    /\ answerDogs' = answerDogs \ {s}
    /\ ws' = IF ws = "open" THEN "closing" ELSE ws
    /\ UNCHANGED <<cur, phase, heartbeat, offer_vars, answer_vars, pc_vars,
                   track_vars, peerDogs, cutShort>>

\* Mutant: the watchdog only warns.
AnswerDog_warns(s) ==
    /\ s \in answerDogs
    /\ answerDogs' = answerDogs \ {s}
    /\ UNCHANGED <<cur, phase, socket_vars, offer_vars, answer_vars, pc_vars,
                   track_vars, peerDogs, cutShort>>

\* 12 s after the websocket opened there is no answer.  Nobody cancels the
\* watchdog of a session that has ended: it closes its own, closed, websocket.
AnswerDog(s) ==
    /\ s \in answerDogs
    /\ answerDogs' = answerDogs \ {s}
    /\ ws' = IF s = cur /\ ws = "open" THEN "closing" ELSE ws
    /\ UNCHANGED <<cur, phase, heartbeat, offer_vars, answer_vars, pc_vars,
                   track_vars, peerDogs, cutShort>>

\* 30 s after it opened no PEER_IN has come: a warning.  The 12 s are over by
\* then, and so is the closing handshake they may have led to.
PeerDog(s) ==
    /\ s \in peerDogs \ answerDogs
    /\ s = cur => ws # "closing"
    /\ peerDogs' = peerDogs \ {s}
    /\ UNCHANGED <<cur, phase, socket_vars, offer_vars, answer_vars, pc_vars,
                   track_vars, answerDogs, cutShort>>

\* No frame for FRAME_TIMEOUT, as happens to every session that has ended; the
\* decode fallback ends when ffmpeg dies, too.  Nobody awaits the media task.
MediaEnds(s) ==
    /\ s \in media
    /\ media' = media \ {s}
    /\ UNCHANGED <<cur, phase, socket_vars, offer_vars, answer_vars, pc_vars,
                   renack, nudgers, dog_vars, cutShort>>

-----------------------------------------------------------------------------
Init ==
    /\ cur = 0 /\ phase = "idle"
    /\ ws = "none" /\ conn = "new"
    /\ pcOpen = FALSE /\ stable = FALSE
    /\ peerSeen = FALSE /\ offerSent = FALSE /\ answered = FALSE
    /\ sending = 0 /\ offers = 0 /\ answers = 0
    /\ heartbeat = FALSE /\ renack = FALSE
    /\ answerDogs = {} /\ peerDogs = {} /\ media = {} /\ nudgers = {}
    /\ cutShort = FALSE

\* What the session task awaits and what is sure to end: aiortc's calls, the
\* opening (10 s) and the closing (5 s) of the websocket.
SessionAwaits ==
    \/ OfferMade \/ OfferFails \/ WsOpens \/ WsFails
    \/ AnswerApplied \/ AnswerRejected
    \/ LoopEnds \/ WsLeft \/ Closed

Messages == PeerIn \/ AnswerIn \/ OtherMessage \/ PeerOut

SideTasks ==
    \/ OfferGoes \/ Track \/ PcConnects \/ PcFails
    \/ WsDrops \/ WsCloses \/ HeartbeatStops
    \/ \E s \in Sessions : AnswerDog(s) \/ PeerDog(s) \/ MediaEnds(s)

Next == Start \/ SessionAwaits \/ Messages \/ Cancel \/ SideTasks

Spec == Init /\ [][Next]_vars

\* The bounded awaits end and the timers fire.  No message, no PEER_OUT and no
\* failure has to come.
Fairness ==
    /\ WF_vars(SessionAwaits)
    /\ WF_vars(WsCloses)
    /\ WF_vars(OfferGoes)
    /\ WF_vars(\E s \in Sessions : AnswerDog(s))

FairSpec == Spec /\ Fairness

-----------------------------------------------------------------------------
(* Safety. *)

\* Wherever a session ends (a closed websocket, an exception, a cancellation in
\* any await), its heartbeat and its re-NACK loop are gone when connect_and_stream
\* has returned, and its peer connection is closed unless the session was cut off
\* before the try block or inside pc.close() (webrtc_client.py:616-625).
NothingLeftRunning ==
    phase = "idle" => ~heartbeat /\ ~renack /\ (pcOpen => cutShort)

\* A watchdog never closes the websocket of a session that has its answer, not
\* even one left over from an earlier session (webrtc_client.py:427-437).
DogSparesAnswered == [][answered /\ ws' = "closing" => ws = "closing"]_vars

\* A session with an open websocket and no answer has a watchdog waiting, also
\* while an answer is being applied.
UnansweredIsWatched ==
    /\ phase \in {"serving", "answering"} /\ ws = "open" /\ ~answered
    => cur \in answerDogs

\* The PEER_IN watchdog speaks too late to matter: when it fires, 30 s after the
\* websocket opened, the session it belongs to either had its PEER_IN or is no
\* longer waiting for one, the answer watchdog having closed the websocket after
\* 12 s.  Its "Will keep waiting" never comes true (webrtc_client.py:419-437).
PeerDogIsLate ==
    [][\A s \in peerDogs : s \notin peerDogs' /\ s = cur /\ ~peerSeen'
                           => ~(phase \in {"serving", "answering"} /\ ws = "open")]_vars

\* What the parts above lean on.
Bookkeeping ==
    /\ (heartbeat \/ renack) => phase \in {"serving", "answering", "leaving"}
    /\ phase \in {"offering", "opening"} => ws = "none" /\ ~answered
    /\ answerDogs \subseteq 1 .. cur
    /\ peerDogs \subseteq 1 .. cur
    /\ media \subseteq 1 .. cur
    /\ nudgers \subseteq 1 .. cur
    /\ cur \in answerDogs => ~answered /\ phase \notin {"offering", "opening"}
    /\ phase \in {"serving", "answering"} => ws # "none"
    /\ phase # "idle" => cur > 0
    /\ answered <=> stable
    /\ answers <= offers
    /\ sending + offers <= MaxOffers
    /\ sending + offers > 0 => peerSeen
    /\ answered \/ phase = "answering" => answers > 0

-----------------------------------------------------------------------------
(* Liveness. *)

\* A session that gets no answer ends, so that the bridge tries a fresh ticket.
UnansweredEnds == phase = "serving" /\ ~answered ~> (answered \/ phase = "idle")

\* A session that is leaving, by itself or because it was cancelled, returns
\* without waiting for its media task: what BridgeLoop assumes of TornDown.
TeardownEnds == phase \in {"leaving", "closing"} ~> phase = "idle"
=============================================================================

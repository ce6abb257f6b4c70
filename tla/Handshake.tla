------------------------------ MODULE Handshake ------------------------------
(***************************************************************************)
(* How one session after the other gets the camera to stream: the offer as *)
(* _sdp_patches.py rewrites it and webrtc_client.py trickles its           *)
(* candidates, and the ICE checks as _aioice_patches.py answers them: it   *)
(* adopts the username fragment the camera really uses, always answers     *)
(* SUCCESS, and fires a nominating check of its own for every ping.        *)
(*                                                                         *)
(* An SDP is the sequence of its lines, a line its kind.  The camera and   *)
(* aiortc are external; checks travel over UDP and may be lost.            *)
(***************************************************************************)
EXTENDS Integers, Sequences, SequencesExt

CONSTANTS
    Sessions,    \* bound: how many sessions are started
    Addresses    \* what id() may return for a connection

Candidates == {"host", "srflx"}
Ufrags == {"sdp", "stale"}   \* the fragment of the answer, that of a former session

VARIABLES
    session,     \* the session at hand, 0 before the first
    phase,       \* idle, waiting (for PEER_IN), offered, answered
    conn,        \* the address of its connection
    done,        \* _ufrag_done
    offer,       \* the offer as it is sent
    remote,      \* remote_username of the connection: none before the answer
    nominated,   \* aioice has made its one check of the pair
    camera,      \* the camera: idle, offered, checking, nominated or streaming
    uses,        \* the fragment the camera uses in its checks
    known,       \* the candidates of ours it has
    hash,        \* the fingerprint line it picked from the offer
    net,         \* checks under way: ping, or a check of ours with a fragment
    reused       \* history: an earlier connection at this address was corrected

ours == <<conn, done, offer, remote, nominated, reused>>
theirs == <<camera, uses, known, hash>>
vars == <<session, phase, ours, theirs, net>>

\* Of the offer, what it is made of is enough (AiortcOffer).
TypeOK ==
    /\ session \in Nat
    /\ phase \in {"idle", "waiting", "offered", "answered"}
    /\ conn \in Addresses /\ done \subseteq Addresses
    /\ remote \in Ufrags \cup {"none"}
    /\ camera \in {"idle", "offered", "checking", "nominated", "streaming"}
    /\ uses \in Ufrags
    /\ known \subseteq Candidates
    /\ hash \in {"none", "sha-256", "sha-384", "sha-512"}
    /\ net \subseteq Ufrags \cup {"ping"}
    /\ nominated \in BOOLEAN /\ reused \in BOOLEAN

-----------------------------------------------------------------------------
(* The offer. *)

Fingerprints == <<"sha-256", "sha-384", "sha-512">>

\* A section of the offer of aiortc, with what was gathered; MAX_BUNDLE repeats
\* the candidates in each.
Section(gathered) == <<"m=">> \o Fingerprints \o gathered

\* Audio, video and the data channel.
AiortcOffer(gathered) ==
    Section(gathered) \o Section(gathered) \o Section(gathered) \o <<"sctp-port">>

Has(sdp, line) == \E i \in 1 .. Len(sdp) : sdp[i] = line

\* inject_sctpmap.
InjectSctpmap(sdp) ==
    IF Has(sdp, "sctpmap") THEN sdp
    ELSE FlattenSeq([i \in 1 .. Len(sdp) |->
            IF sdp[i] = "sctp-port" THEN <<"sctp-port", "sctpmap">> ELSE <<sdp[i]>>])

\* Mutant: sha-512 is left in.
StripFingerprints_keeps512(sdp) == SelectSeq(sdp, LAMBDA l : l # "sha-384")

\* strip_non_sha256_fingerprints.
StripFingerprints(sdp) == SelectSeq(sdp, LAMBDA l : l \notin {"sha-384", "sha-512"})

\* apply_offer_patches.
Patched(sdp) == StripFingerprints(InjectSctpmap(sdp))

\* extract_trickle_candidates: those of the first m= section.
Trickled(sdp) ==
    {sdp[i] : i \in {j \in 1 .. Len(sdp) :
        /\ sdp[j] \in Candidates
        /\ \E k \in 1 .. j : sdp[k] = "m="
        /\ \A k, l \in 1 .. j : sdp[k] = "m=" /\ sdp[l] = "m=" => k = l}}

\* _host_candidate: the first of type host, or else the first.
Heartbeat(sdp) ==
    IF "host" \in Trickled(sdp) THEN {"host"} ELSE Trickled(sdp)

-----------------------------------------------------------------------------
(* Signaling. *)

\* A session: its connection is at whatever address is free.
Start(a) ==
    /\ phase = "idle" /\ session < Sessions
    /\ session' = session + 1 /\ phase' = "waiting"
    /\ conn' = a /\ reused' = (a \in done)
    /\ \E gathered \in {<<>>, <<"host">>, <<"srflx">>, <<"host", "srflx">>} :
           offer' = Patched(AiortcOffer(gathered))
    /\ remote' = "none" /\ nominated' = FALSE
    /\ camera' = "idle" /\ known' = {} /\ hash' = "none" /\ net' = {}
    /\ uses' \in Ufrags
    /\ UNCHANGED done

\* PEER_IN: the offer goes out and every candidate after it; the camera takes
\* note of some, being busy with the offer.
SendOffer ==
    /\ phase = "waiting"
    /\ phase' = "offered"
    /\ camera' = "offered"
    /\ known' \in SUBSET Trickled(offer)
    /\ UNCHANGED <<session, ours, uses, hash, net>>

\* _ice_heartbeat, for as long as the websocket is open; before the offer there
\* is nothing for the camera to add a candidate to.
HeartbeatSent ==
    /\ phase \in {"offered", "answered"}
    /\ known' = known \cup Heartbeat(offer)
    /\ UNCHANGED <<session, phase, ours, camera, uses, hash, net>>

\* The camera can read the offer, picks a fingerprint of it and answers.
CameraAnswers ==
    /\ camera = "offered" /\ Has(offer, "sctpmap")
    /\ camera' = "checking"
    /\ \E i \in 1 .. Len(offer) :
           offer[i] \in {Fingerprints[j] : j \in 1 .. 3} /\ hash' = offer[i]
    /\ UNCHANGED <<session, phase, ours, uses, known, net>>

\* setRemoteDescription: the fragment of the answer, and aioice checks the pair,
\* once.
AnswerApplied ==
    /\ phase = "offered" /\ camera \notin {"idle", "offered"}
    /\ phase' = "answered"
    /\ remote' = "sdp"
    /\ UNCHANGED <<session, conn, done, offer, nominated, reused, theirs, net>>

NominatesOnce ==
    /\ phase = "answered" /\ ~nominated
    /\ nominated' = TRUE
    /\ net' = net \cup {remote}
    /\ UNCHANGED <<session, phase, conn, done, offer, remote, reused, theirs>>

\* The session ends, whatever the reason; the camera gives up.
End ==
    /\ phase # "idle"
    /\ phase' = "idle" /\ camera' = "idle" /\ net' = {}
    /\ UNCHANGED <<session, ours, uses, known, hash>>

-----------------------------------------------------------------------------
(* ICE. *)

\* A camera that has not been nominated pings every 50 ms, where it knows to.
CameraPings ==
    /\ camera = "checking" /\ known # {}
    /\ net' = net \cup {"ping"}
    /\ UNCHANGED <<session, phase, ours, theirs>>

\* The ping shows another fragment than the one we have, for the first time.
Corrects == remote # "none" /\ remote # uses /\ conn \notin done

\* Mutant: a connection that was seen is not corrected.
PingArrives_marksSeen ==
    /\ "ping" \in net /\ phase # "idle"
    /\ remote' = IF Corrects THEN uses ELSE remote
    /\ done' = done \cup {conn}
    /\ net' = (net \ {"ping"}) \cup (IF remote' = "none" THEN {} ELSE {remote'})
    /\ UNCHANGED <<session, phase, conn, offer, nominated, reused, theirs>>

\* Mutant: no hammer.
PingArrives_noHammer ==
    /\ "ping" \in net /\ phase # "idle"
    /\ remote' = IF Corrects THEN uses ELSE remote
    /\ done' = IF Corrects THEN done \cup {conn} ELSE done
    /\ net' = net \ {"ping"}
    /\ UNCHANGED <<session, phase, conn, offer, nominated, reused, theirs>>

\* _patched_request_received: the fragment is corrected, the ping answered with
\* SUCCESS, and the hammer fires a nominating check under the fragment we now
\* have.  Before the answer there is none, and no check.
PingArrives ==
    /\ "ping" \in net /\ phase # "idle"
    /\ remote' = IF Corrects THEN uses ELSE remote
    /\ done' = IF Corrects THEN done \cup {conn} ELSE done
    /\ net' = (net \ {"ping"}) \cup (IF remote' = "none" THEN {} ELSE {remote'})
    /\ UNCHANGED <<session, phase, conn, offer, nominated, reused, theirs>>

\* The camera takes a nomination under the fragment it uses itself.
CheckArrives ==
    /\ \E u \in Ufrags \cap net :
        /\ net' = net \ {u}
        /\ camera' = IF camera = "checking" /\ u = uses THEN "nominated" ELSE camera
    /\ UNCHANGED <<session, phase, ours, uses, known, hash>>

\* DTLS: the camera verifies every record against the fingerprint it picked;
\* aiortc signs with SHA-256.
DtlsCompletes ==
    /\ camera = "nominated" /\ phase = "answered" /\ hash = "sha-256"
    /\ camera' = "streaming"
    /\ UNCHANGED <<session, phase, ours, uses, known, hash, net>>

Lose ==
    /\ \E m \in net : net' = net \ {m}
    /\ UNCHANGED <<session, phase, ours, theirs>>

-----------------------------------------------------------------------------
Init ==
    /\ session = 0 /\ phase = "idle"
    /\ conn \in Addresses /\ done = {}
    /\ offer = <<>> /\ remote = "none" /\ nominated = FALSE
    /\ reused = FALSE
    /\ camera = "idle" /\ uses = "sdp" /\ known = {} /\ hash = "none"
    /\ net = {}

Next ==
    \/ \E a \in Addresses : Start(a)
    \/ SendOffer \/ HeartbeatSent \/ CameraAnswers \/ AnswerApplied
    \/ NominatesOnce \/ End
    \/ CameraPings \/ PingArrives \/ CheckArrives \/ DtlsCompletes \/ Lose

\* The camera answers what it can read and goes on pinging, the websocket
\* delivers, and of the checks sent again and again some arrive.
Fairness ==
    /\ WF_vars(CameraAnswers) /\ WF_vars(AnswerApplied) /\ WF_vars(NominatesOnce)
    /\ WF_vars(HeartbeatSent) /\ WF_vars(CameraPings) /\ WF_vars(DtlsCompletes)
    /\ SF_vars(PingArrives) /\ SF_vars(CheckArrives)

Spec == Init /\ [][Next]_vars /\ Fairness

-----------------------------------------------------------------------------
(* Properties. *)

\* A camera is nominated, and streams, only under the fragment both ends have.  If
\* it is that of a former session, this connection was corrected in this session:
\* at an address whose entry in _ufrag_done an earlier connection has left behind
\* that never happens, and such a session never streams
\* (_aioice_patches.py:60-70, 96-113).
NominatedAsCorrected ==
    camera \in {"nominated", "streaming"} =>
        /\ remote = uses
        /\ uses = "stale" => conn \in done /\ ~reused

\* A camera that got the offer streams, or the session ends, however checks are
\* lost and although aioice nominates only once: the offer is one it can read
\* and verify, the heartbeat gives it a candidate, and every ping a fresh check
\* with the fragment it really uses -- unless that is the one of a session before
\* and the connection has the address of an earlier, corrected one, which is
\* still in _ufrag_done
\* (_aioice_patches.py:75-116, _sdp_patches.py:14-98, webrtc_client.py:450-469).
HandshakeCompletes ==
    phase = "offered" /\ Trickled(offer) # {} /\ ~(reused /\ uses = "stale")
        ~> (camera = "streaming" \/ phase = "idle")
=============================================================================

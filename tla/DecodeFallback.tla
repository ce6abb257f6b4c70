--------------------------- MODULE DecodeFallback ---------------------------
(***************************************************************************)
(* _stream_video of webrtc_client.py, the path taken when no video         *)
(* receiver is found: a task pipes decoded frames to an ffmpeg that was    *)
(* started for their size.  The dictionary with that ffmpeg and its size   *)
(* is shared with the session, whose finally block kills ffmpeg while the  *)
(* task is at an await of its own -- and the task outlives the session.    *)
(*                                                                         *)
(* A frame is its size.  aiortc and ffmpeg are external: ffmpeg may exit   *)
(* or stop reading at any time.                                            *)
(*                                                                         *)
(* Init, Next and their like are named after the fallback, so that         *)
(* Signaling_proofs can speak of it beside the session.                    *)
(***************************************************************************)
EXTENDS Naturals

CONSTANT Sizes     \* sizes of frames the decoder yields, 0 before a keyframe

NoSize == 0

VARIABLES
    session,    \* up, killing (it waits in stdin.close()) or over
    track,      \* the track yields frames
    pc,         \* the task: recv, write or done
    frame,      \* the frame in its hands
    thread,     \* its write: idle, queued, writing, ok or broken
    nudging,    \* its keyframe nudger runs
    proc,       \* state["proc"]: none, running or exited
    size,       \* state["size"]
    fed,        \* the size the ffmpeg in state was started for
    running     \* history: ffmpegs started by the task that still run

fallback_vars == <<session, track, pc, frame, thread, nudging, proc, size, fed, running>>

FallbackTypeOK ==
    /\ session \in {"up", "killing", "over"}
    /\ pc \in {"recv", "write", "done"}
    /\ thread \in {"idle", "queued", "writing", "ok", "broken"}
    /\ proc \in {"none", "running", "exited"}
    /\ {frame, size, fed} \subseteq Sizes \cup {NoSize}
    /\ running \in Nat
    /\ track \in BOOLEAN /\ nudging \in BOOLEAN

\* stdin.close() holds the event loop.
LoopRuns == session # "killing"

-----------------------------------------------------------------------------
(* ffmpeg. *)

\* What is left running once the ffmpeg in state, if it runs, is terminated.
OthersRunning == IF proc = "running" THEN running - 1 ELSE running

\* _kill_ffmpeg, with no writer in flight: terminated or killed, and forgotten.
KillFfmpeg ==
    /\ proc' = "none" /\ size' = NoSize
    /\ running' = OthersRunning

FfmpegExits ==
    /\ proc = "running"
    /\ proc' = "exited" /\ running' = running - 1
    /\ UNCHANGED <<session, track, pc, frame, thread, nudging, size, fed>>

-----------------------------------------------------------------------------
(* The task. *)

\* The finally block.
Finish ==
    /\ pc' = "done" /\ nudging' = FALSE
    /\ KillFfmpeg
    /\ thread' = "idle"
    /\ UNCHANGED <<session, track, frame, fed>>

\* A frame with a size; it ends the nudging.
Gets(f) ==
    /\ LoopRuns /\ pc = "recv" /\ track
    /\ f # NoSize
    /\ frame' = f /\ nudging' = FALSE

Write ==
    /\ pc' = "write" /\ thread' = "queued"
    /\ UNCHANGED <<session, track>>

\* Mutant: only the first size counts.
SizeChanged_once(f) == size = NoSize

SizeChanged(f) == size # f

\* Mutant: the ffmpeg of another size is replaced without being killed.
StartFfmpeg_keepsOld(f) ==
    /\ Gets(f) /\ SizeChanged(f)
    /\ proc' = "running" /\ size' = f /\ fed' = f
    /\ running' = running + 1
    /\ Write

\* The ffmpeg of another size, if there is one, is killed and a new one started.
\* One that is dead at the poll that follows counts as one whose first write breaks.
StartFfmpeg(f) ==
    /\ Gets(f) /\ SizeChanged(f)
    /\ proc' = "running" /\ size' = f /\ fed' = f
    /\ running' = OthersRunning + 1
    /\ Write

\* Popen raises: the task ends.
StartFails(f) ==
    /\ LoopRuns /\ pc = "recv" /\ track /\ f # NoSize
    /\ SizeChanged(f)
    /\ Finish

Forward(f) ==
    /\ Gets(f) /\ ~SizeChanged(f) /\ proc = "running"
    /\ Write
    /\ UNCHANGED <<proc, size, fed, running>>

\* ffmpeg has died, or was killed.
FindsDead(f) ==
    /\ LoopRuns /\ pc = "recv" /\ track /\ f # NoSize
    /\ ~SizeChanged(f) /\ proc # "running"
    /\ Finish

Handle(f) == StartFfmpeg(f) \/ StartFails(f) \/ Forward(f) \/ FindsDead(f)

\* No frame for FRAME_TIMEOUT, or recv raises as the track has ended.
FrameTimeout == LoopRuns /\ pc = "recv" /\ Finish

\* Mutant: the task tries again.
TrackRaises_retries ==
    /\ LoopRuns /\ pc = "recv" /\ ~track
    /\ UNCHANGED fallback_vars

TrackRaises == LoopRuns /\ pc = "recv" /\ ~track /\ Finish

Written ==
    /\ LoopRuns /\ pc = "write" /\ thread = "ok"
    /\ pc' = "recv" /\ thread' = "idle"
    /\ UNCHANGED <<session, track, frame, nudging, proc, size, fed, running>>

\* A broken pipe, or stdin was closed by the session.
WriteFailed == LoopRuns /\ pc = "write" /\ thread = "broken" /\ Finish

-----------------------------------------------------------------------------
(* The thread of the write. *)

\* It takes the lock of stdin, unless the session has closed it.
WriteBegins ==
    /\ thread = "queued"
    /\ thread' = IF proc = "none" THEN "broken" ELSE "writing"
    /\ UNCHANGED <<session, track, pc, frame, nudging, proc, size, fed, running>>

WriteEnds ==
    /\ thread = "writing"
    /\ \/ thread' = "ok"
       \/ proc # "running" /\ thread' = "broken"
    /\ UNCHANGED <<session, track, pc, frame, nudging, proc, size, fed, running>>

-----------------------------------------------------------------------------
(* The session. *)

\* Its finally block: stdin.close() waits for the lock of a writer.
SessionEnds ==
    /\ session = "up"
    /\ IF proc = "running" /\ thread = "writing"
         THEN session' = "killing" /\ UNCHANGED <<proc, size, running>>
         ELSE session' = "over" /\ KillFfmpeg
    /\ UNCHANGED <<track, pc, frame, thread, nudging, fed>>

KillReturns ==
    /\ session = "killing" /\ thread # "writing"
    /\ session' = "over" /\ KillFfmpeg
    /\ UNCHANGED <<track, pc, frame, thread, nudging, fed>>

\* pc.close(): the track ends once the frames already decoded are taken; or it
\* ends because the camera has gone.
TrackEnds ==
    /\ track /\ LoopRuns
    /\ track' = FALSE
    /\ UNCHANGED <<session, pc, frame, thread, nudging, proc, size, fed, running>>

-----------------------------------------------------------------------------
FallbackInit ==
    /\ session = "up" /\ track = TRUE
    /\ pc = "recv" /\ frame = NoSize /\ thread = "idle" /\ nudging = TRUE
    /\ proc = "none" /\ size = NoSize /\ fed = NoSize /\ running = 0

FallbackNext ==
    \/ \E f \in Sizes : Handle(f)
    \/ FrameTimeout \/ TrackRaises \/ Written \/ WriteFailed
    \/ WriteBegins \/ WriteEnds
    \/ SessionEnds \/ KillReturns \/ TrackEnds
    \/ FfmpegExits

\* The event loop serves the task and the session, a thread begins its write, a
\* write to an ffmpeg that is gone ends, and a closed connection ends its track.
FallbackFairness ==
    /\ WF_fallback_vars(TrackRaises)
    /\ WF_fallback_vars(Written) /\ WF_fallback_vars(WriteFailed)
    /\ WF_fallback_vars(WriteBegins)
    /\ WF_fallback_vars(proc # "running" /\ WriteEnds)
    /\ WF_fallback_vars(KillReturns) /\ WF_fallback_vars(session = "over" /\ TrackEnds)

FallbackSpec == FallbackInit /\ [][FallbackNext]_fallback_vars /\ FallbackFairness

-----------------------------------------------------------------------------
(* Properties. *)

\* Raw frames carry no size of their own: what is written to a running ffmpeg is
\* of the size it was started for, also after the session killed the one before
\* and forgot its size (webrtc_client.py:659-677, 780-793).
FedAsStarted ==
    pc = "write" /\ proc = "running" => frame = fed /\ size = fed

\* Two parties kill, one starts, and an ffmpeg may exit by itself: what runs is the
\* one ffmpeg the two of them still know, so none is left to publish to the path of
\* the next session, and none at all when the task is over, whichever of them ended
\* first (webrtc_client.py:624, 659-685, 780-793).
NoFfmpegLost ==
    /\ running = IF proc = "running" THEN 1 ELSE 0
    /\ pc = "done" => running = 0

\* A task that outlives its session, maybe with an ffmpeg started after the
\* session killed its own, ends with it -- unless it is in the middle of a write to
\* an ffmpeg that is alive, which need not read (webrtc_client.py:616-625, 641-685).
TaskFollowsSession ==
    session # "up"
        ~> \/ session = "over" /\ pc = "done"
           \/ thread = "writing" /\ proc = "running"
=============================================================================

----------------------------- MODULE Forwarder -----------------------------
(***************************************************************************)
(* forward_video of _rtp_forwarder.py: the tap on the jitter buffer puts   *)
(* frames in a bounded queue, one task takes them out and writes them to   *)
(* the standard input of ffmpeg through a private thread, starting ffmpeg  *)
(* on a keyframe and starting it again after it died.  With audio, every   *)
(* ffmpeg comes with a pipe of its own.                                    *)
(*                                                                         *)
(* A frame is the set of the kinds of NAL unit in it; the empty set is a   *)
(* frame without a start code.  ffmpeg is external: it may exit or stop    *)
(* reading at any time.                                                    *)
(***************************************************************************)
EXTENDS Integers, Sequences

CONSTANTS
    Frames,     \* the frames the camera sends, sets of NAL kinds
    QueueMax,   \* QUEUE_MAXSIZE
    Audio,      \* the audio track is forwarded
    Cancels     \* the task may be cancelled (the process shuts down)

Nals == {"slice", "idr", "sps", "pps"}
ParamSets == {"sps", "pps"}

ASSUME ForwarderAssumption ==
    /\ Frames \subseteq SUBSET Nals
    /\ QueueMax \in Nat \ {0}
    /\ Audio \in BOOLEAN
    /\ Cancels \in BOOLEAN

VARIABLES
    queue,     \* frames between the tap and the task
    params,    \* _ParamSetCache: which parameter sets have been seen
    pc,        \* where the task is: get, write, reap (in finally), done or failed
    proc,      \* its ffmpeg: none, running, or exited and not yet noticed
    out,       \* what it writes, or wrote last
    fresh,     \* nothing has been written to this ffmpeg yet
    inflight,  \* the writer thread is in proc.stdin.write
    pump       \* the audio pump of this ffmpeg is open

task_vars == <<params, pc, out, fresh, inflight, pump>>
vars == <<queue, proc, task_vars>>

TypeOK ==
    /\ queue \in Seq(Frames) /\ Len(queue) <= QueueMax
    /\ params \subseteq ParamSets
    /\ pc \in {"get", "write", "reap", "done", "failed"}
    /\ proc \in {"none", "running", "exited"}
    /\ out \subseteq Nals
    /\ fresh \in BOOLEAN /\ inflight \in BOOLEAN /\ pump \in BOOLEAN

-----------------------------------------------------------------------------
(* The tap. *)

\* _on_frame: a full queue drops the frame that arrives; once the task is
\* in its finally block the tap is gone.
FrameArrives(f) ==
    /\ pc \in {"get", "write"}
    /\ queue' = IF Len(queue) < QueueMax THEN Append(queue, f) ELSE queue
    /\ UNCHANGED <<proc, task_vars>>

-----------------------------------------------------------------------------
(* The task: from queue.get() to its next await there is one step. *)

\* Mutant: the cache is that of one frame.
Known_frameOnly(f) == f \cap ParamSets

\* The parameter sets known once frame f has been looked at.
Known(f) == params \cup (f \cap ParamSets)

\* A frame is taken out of the queue and its parameter sets are remembered.
Take(f) ==
    /\ pc = "get" /\ queue # <<>>
    /\ f = Head(queue)
    /\ queue' = Tail(queue)
    /\ params' = Known(f)

\* A headerless frame is skipped, whatever ffmpeg does.
SkipGarbage(f) ==
    /\ Take(f) /\ f = {}
    /\ UNCHANGED <<proc, pc, out, fresh, inflight, pump>>

\* The gate ffmpeg starts behind.
MayStart(f) == Known(f) = ParamSets /\ "idr" \in f

WaitForKeyframe(f) ==
    /\ Take(f) /\ f # {}
    /\ proc = "none" /\ ~MayStart(f)
    /\ UNCHANGED <<proc, pc, out, fresh, inflight, pump>>

\* An IDR that brings neither parameter set gets both from the cache.
Framed(f) == IF "idr" \in f /\ f \cap ParamSets = {} THEN f \cup ParamSets ELSE f

\* run_in_executor: the thread starts to write.
Write(f) ==
    /\ pc' = "write" /\ inflight' = TRUE
    /\ out' = Framed(f)

\* An ffmpeg that is dead already at the poll that follows counts as one whose
\* first write breaks: the frame is lost and the gate armed again either way.
StartFfmpeg(f) ==
    /\ Take(f) /\ f # {}
    /\ proc = "none" /\ MayStart(f)
    /\ proc' = "running" /\ fresh' = TRUE /\ pump' = Audio
    /\ Write(f)

\* Popen raises (no process, no descriptor), and so does forward_video: finally
\* knows nothing of the pump made for this ffmpeg.
StartFails(f) ==
    /\ Take(f) /\ f # {}
    /\ proc = "none" /\ MayStart(f)
    /\ pump' = Audio
    /\ pc' = "failed"
    /\ UNCHANGED <<proc, out, fresh, inflight>>

Forward(f) ==
    /\ Take(f) /\ f # {}
    /\ proc = "running"
    /\ Write(f)
    /\ UNCHANGED <<proc, fresh, pump>>

\* Mutant: the fresh ffmpeg gets the frame at hand.
FindsExited_restartsAtOnce(f) ==
    /\ Take(f) /\ f # {}
    /\ proc = "exited"
    /\ proc' = "running" /\ fresh' = TRUE
    /\ Write(f)
    /\ UNCHANGED pump

\* Mutant: the dead ffmpeg is left in place.
FindsExited_keepsProc(f) ==
    /\ Take(f) /\ f # {}
    /\ proc = "exited"
    /\ UNCHANGED <<proc, pc, out, fresh, inflight, pump>>

\* Mutant: the dead ffmpeg is reaped and its pump is left open.
FindsExited_keepsPump(f) ==
    /\ Take(f) /\ f # {}
    /\ proc = "exited"
    /\ proc' = "none"
    /\ UNCHANGED <<pc, out, fresh, inflight, pump>>

\* proc.poll(): ffmpeg has died since the last frame.  It is reaped, the pump
\* is closed, this frame is lost and the gate is armed again.
FindsExited(f) ==
    /\ Take(f) /\ f # {}
    /\ proc = "exited"
    /\ proc' = "none" /\ pump' = FALSE
    /\ UNCHANGED <<pc, out, fresh, inflight>>

Handle(f) ==
    \/ SkipGarbage(f) \/ WaitForKeyframe(f) \/ StartFfmpeg(f) \/ StartFails(f)
    \/ Forward(f) \/ FindsExited(f)

\* The thread has written the frame; a small one stays in the buffer of stdin
\* even when ffmpeg is dead.
Written ==
    /\ pc = "write" /\ inflight
    /\ pc' = "get" /\ inflight' = FALSE /\ fresh' = FALSE
    /\ UNCHANGED <<queue, proc, params, out, pump>>

\* BrokenPipeError: reaped, closed, armed again.
PipeBroken ==
    /\ pc = "write" /\ proc = "exited"
    /\ pc' = "get" /\ inflight' = FALSE
    /\ proc' = "none" /\ pump' = FALSE
    /\ UNCHANGED <<queue, params, out, fresh>>

\* Mutant: the task warns and waits on.
FrameTimeout_waits ==
    /\ pc = "get" /\ queue = <<>>
    /\ UNCHANGED vars

\* No frame for FRAME_TIMEOUT: the finally block runs through, nothing being
\* in flight.
FrameTimeout ==
    /\ pc = "get" /\ queue = <<>>
    /\ pc' = "done"
    /\ proc' = "none" /\ pump' = FALSE
    /\ UNCHANGED <<queue, params, out, fresh, inflight>>

\* Cancelled at queue.get() or while the thread writes.  finally closes the
\* pump and goes on to _reap_ffmpeg.
Cancel ==
    /\ Cancels
    /\ pc \in {"get", "write"}
    /\ pc' = "reap"
    /\ pump' = FALSE
    /\ UNCHANGED <<queue, proc, params, out, fresh, inflight>>

\* Mutant: an ffmpeg that has not exited is waited for and never killed.
Reaped_waits ==
    /\ pc = "reap" /\ ~inflight /\ proc # "running"
    /\ pc' = "done"
    /\ proc' = "none"
    /\ UNCHANGED <<queue, params, out, fresh, inflight, pump>>

\* _reap_ffmpeg: closing stdin waits for the lock of a writer in flight, then
\* ffmpeg is terminated and, at the latest, killed.
Reaped ==
    /\ pc = "reap" /\ ~inflight
    /\ pc' = "done"
    /\ proc' = "none"
    /\ UNCHANGED <<queue, params, out, fresh, inflight, pump>>

\* The writer thread of a cancelled task ends: ffmpeg reads on, or has died.
WriterEnds ==
    /\ pc = "reap" /\ inflight
    /\ inflight' = FALSE
    /\ UNCHANGED <<queue, proc, params, pc, out, fresh, pump>>

\* ffmpeg dies: an error, a lost RTSP connection, a publisher taken over.
FfmpegExits ==
    /\ proc = "running"
    /\ proc' = "exited"
    /\ UNCHANGED <<queue, task_vars>>

-----------------------------------------------------------------------------
Init ==
    /\ queue = <<>>
    /\ params = {}
    /\ pc = "get" /\ proc = "none"
    /\ out = {} /\ fresh = FALSE
    /\ inflight = FALSE /\ pump = FALSE

Next ==
    \/ \E f \in Frames : FrameArrives(f) \/ Handle(f)
    \/ Written \/ PipeBroken \/ FrameTimeout
    \/ Cancel \/ Reaped \/ WriterEnds
    \/ FfmpegExits

Spec == Init /\ [][Next]_vars

\* A complete keyframe finds room in the queue.
KeyframeQueued ==
    /\ Len(queue) < QueueMax
    /\ \E f \in Frames : {"sps", "pps", "idr"} \subseteq f /\ FrameArrives(f)

\* The event loop serves the task and a write to a dead ffmpeg fails; nothing
\* makes a live ffmpeg read.
Fairness ==
    /\ WF_vars(\E f \in Frames : Handle(f))
    /\ WF_vars(proc = "exited" /\ (Written \/ PipeBroken))
    /\ WF_vars(Reaped)
    /\ WF_vars(proc = "exited" /\ WriterEnds)

FairSpec == Spec /\ Fairness

\* The same with a camera that sends keyframes every now and then.
KeyframeSpec == FairSpec /\ SF_vars(KeyframeQueued)

-----------------------------------------------------------------------------
(* Safety. *)

\* What an ffmpeg is given first contains a keyframe, also when it replaces one
\* that died mid-stream; nothing that is given to it is a headerless frame, and
\* prepending never meets an empty cache: by the time anything is written both
\* parameter sets are known (_rtp_forwarder.py:654-684, 690-713, 730-735).
StartsOnKeyframe ==
    pc = "write" =>
        /\ out # {} /\ params = ParamSets
        /\ fresh => "idr" \in out

\* The pump of an ffmpeg is closed when that ffmpeg is reaped, and when the task
\* is over no ffmpeg, no writer and no pump is left -- but for the pump of an
\* ffmpeg that could not be started (_rtp_forwarder.py:540-548, 763-770).
NoneLeft ==
    /\ pc = "get" /\ proc = "none" => ~pump
    /\ pc = "done" => proc = "none" /\ ~inflight /\ ~pump
    /\ pc = "failed" => proc = "none" /\ ~inflight

Safety == StartsOnKeyframe /\ NoneLeft

\* What the parts of Safety lean on.
Bookkeeping ==
    /\ proc # "none" => params = ParamSets
    /\ pc = "write" => inflight /\ proc # "none"
    /\ pc = "get" => ~inflight
    /\ proc = "none" /\ pc # "failed" => ~pump
    /\ pc = "reap" => ~pump
    /\ pc = "get" /\ proc = "running" => ~fresh

-----------------------------------------------------------------------------
(* Liveness. *)

\* A dead ffmpeg is replaced as long as keyframes come, or the task is over
\* (_rtp_forwarder.py:690-705).
RestartsOnKeyframe ==
    proc = "exited" ~> (proc = "running" \/ pc \in {"done", "failed"})

\* A cancelled task ends, whatever ffmpeg does, unless a write to an ffmpeg that
\* is alive is in flight: closing stdin waits for it, before ffmpeg is terminated
\* (_rtp_forwarder.py:437-452, 767-770).
CancelledEnds ==
    pc = "reap" /\ (~inflight \/ proc = "exited") ~> pc = "done"
=============================================================================

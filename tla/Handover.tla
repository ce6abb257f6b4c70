------------------------------ MODULE Handover ------------------------------
(***************************************************************************)
(* One session after the other, and their RTP forwarders on the one RTSP   *)
(* path.  on_track starts forward_video and nobody waits for it or cancels *)
(* it, so the forwarder of the session that has ended (the old one) works  *)
(* on, on the frames still in its queue, beside that of the next session   *)
(* (the new one).  This module extends Forwarder, whose state is that of   *)
(* the new one, and has another instance of it for the old one; each       *)
(* publishes to the path.                                                  *)
(*                                                                         *)
(* MediaMTX is external: whoever publishes last has the path, and the      *)
(* connection of the publisher before it is closed, which its ffmpeg       *)
(* notices when it next writes.                                            *)
(***************************************************************************)
EXTENDS Forwarder

VARIABLES
    oQueue, oParams, oPc, oProc, oOut, oFresh, oInflight, oPump,
    switched,   \* the new session has the camera, the track of the old has ended
    owner,      \* whose ffmpeg publishes: old, new or nobody
    kicked,     \* forwarders whose ffmpeg has lost its connection
    retaken     \* history: how often the old one took the path from the new one

old_vars == <<oQueue, oParams, oPc, oProc, oOut, oFresh, oInflight, oPump>>
path_vars == <<owner, kicked, retaken>>
both_vars == <<old_vars, vars, switched, path_vars>>

Old == INSTANCE Forwarder
    WITH queue <- oQueue, params <- oParams, pc <- oPc, proc <- oProc, out <- oOut,
         fresh <- oFresh, inflight <- oInflight, pump <- oPump

Ended == {"done", "failed"}

-----------------------------------------------------------------------------
\* Mutant: the new session gets the track while the old one keeps its tap.
OldFrame_keepsTap(f) == Old!FrameArrives(f)

\* The track of a session that has ended brings no more frames.
OldFrame(f) == ~switched /\ Old!FrameArrives(f)

\* forward_video of the old session; its frames do not stop before it has ended.
OldTask ==
    \/ \E f \in Frames : OldFrame(f) \/ Old!Handle(f)
    \/ Old!Written \/ Old!PipeBroken
    \/ switched /\ Old!FrameTimeout

\* An ffmpeg that is gone has no path.
Leaves(who, running) ==
    /\ owner' = IF owner = who /\ ~running THEN "nobody" ELSE owner
    /\ kicked' = IF running THEN kicked ELSE kicked \ {who}
    /\ UNCHANGED retaken

OldSteps ==
    /\ OldTask \/ Old!FfmpegExits
    /\ Leaves("old", oProc' = "running")
    /\ UNCHANGED <<vars, switched>>

\* forward_video of the new session.
NewTask ==
    \/ \E f \in Frames : FrameArrives(f) \/ Handle(f)
    \/ Written \/ PipeBroken \/ FrameTimeout

NewSteps ==
    /\ switched
    /\ NewTask \/ FfmpegExits
    /\ Leaves("new", proc' = "running")
    /\ UNCHANGED <<old_vars, switched>>

\* connect_and_stream returns and is called again: on_track starts a forwarder.
Switch ==
    /\ ~switched /\ switched' = TRUE
    /\ UNCHANGED <<old_vars, vars, path_vars>>

\* An ffmpeg that runs and was not turned away has connected.
Publish(who, ffmpeg) ==
    /\ ffmpeg = "running" /\ owner # who /\ who \notin kicked
    /\ owner' = who
    /\ kicked' = IF owner = "nobody" THEN kicked ELSE kicked \cup {owner}
    /\ retaken' = IF who = "old" /\ owner = "new" THEN retaken + 1 ELSE retaken
    /\ UNCHANGED <<old_vars, vars, switched>>

-----------------------------------------------------------------------------
HandoverInit ==
    /\ Old!Init /\ Init
    /\ switched = FALSE
    /\ owner = "nobody" /\ kicked = {} /\ retaken = 0

HandoverNext ==
    \/ OldSteps \/ NewSteps \/ Switch
    \/ Publish("old", oProc) \/ Publish("new", proc)

\* An ffmpeg that has lost its connection exits when it is given frames.
OldLost == "old" \in kicked /\ oInflight /\ Old!FfmpegExits /\ OldSteps
NewLost == "new" \in kicked /\ inflight /\ FfmpegExits /\ NewSteps

\* The event loop serves both tasks, the camera sends the new session keyframes
\* every now and then, and an ffmpeg connects: the old one if it stays alive, the
\* new one some time if it is started again and again.
HandoverFairness ==
    /\ WF_both_vars(\E f \in Frames : Old!Handle(f) /\ OldSteps)
    /\ WF_both_vars(Old!FrameTimeout /\ OldSteps)
    /\ WF_both_vars(oProc = "exited" /\ (Old!Written \/ Old!PipeBroken) /\ OldSteps)
    /\ WF_both_vars(\E f \in Frames : Handle(f) /\ NewSteps)
    /\ WF_both_vars(proc = "exited" /\ (Written \/ PipeBroken) /\ NewSteps)
    /\ SF_both_vars(OldLost) /\ SF_both_vars(NewLost)
    /\ WF_both_vars(Publish("old", oProc)) /\ SF_both_vars(Publish("new", proc))
    /\ SF_both_vars(KeyframeQueued /\ NewSteps)

HandoverSpec == HandoverInit /\ [][HandoverNext]_both_vars /\ HandoverFairness

-----------------------------------------------------------------------------
(* Properties. *)

\* The forwarder of a session that has ended can take the path back from the
\* next one, but only with what its queue holds: each time costs it a frame, or
\* is the ffmpeg it had when the session ended (_rtp_forwarder.py:471-492,
\* 617-670, webrtc_client.py:311-318).
TakesBackFew == retaken + (IF switched THEN Len(oQueue) ELSE 0) <= QueueMax + 1

\* In the end the path is the new session's: nobody stops the old forwarder, but
\* it runs out of frames and is over, even if a write of its to a live ffmpeg was
\* stuck, and the new one publishes -- or is over itself
\* (_rtp_forwarder.py:606-613, 690-735, webrtc_client.py:311-318).
NewGetsPath ==
    switched ~> ((oPc \in Ended /\ owner = "new") \/ pc \in Ended)
=============================================================================

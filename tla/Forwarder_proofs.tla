-------------------------- MODULE Forwarder_proofs --------------------------
(***************************************************************************)
(* Theorems about Forwarder for every set of frames and every queue size,  *)
(* and about Handover, whose two forwarders both implement it.             *)
(***************************************************************************)
EXTENDS Handover, SequenceTheorems, TLAPS

Flags == fresh \in BOOLEAN /\ inflight \in BOOLEAN /\ pump \in BOOLEAN

Ranges ==
    /\ queue \in Seq(Frames) /\ Len(queue) <= QueueMax
    /\ params \subseteq ParamSets
    /\ pc \in {"get", "write", "reap", "done", "failed"}
    /\ proc \in {"none", "running", "exited"}
    /\ out \subseteq Nals

IInv == Flags /\ Ranges /\ Safety /\ Bookkeeping

\* Looking at a frame forgets no parameter set and learns no other NAL.
LEMMA KnownGrows ==
    ASSUME NEW f \in Frames, params \subseteq ParamSets
    PROVE  params \subseteq Known(f) /\ Known(f) \subseteq ParamSets
  BY DEF Known

\* What is written for a frame is made of NAL units, is empty only for an empty
\* frame and holds the keyframe of the frame.
LEMMA FramedKeeps ==
    ASSUME NEW f \in Frames
    PROVE  /\ Framed(f) \subseteq Nals
           /\ f \subseteq Framed(f)
  BY ForwarderAssumption DEF ForwarderAssumption, Framed, Nals, ParamSets

\* No frame has come.
LEMMA InitEstablishes == Init => IInv
<1> SUFFICES ASSUME Init PROVE IInv
  OBVIOUS
<1> USE ForwarderAssumption DEF ForwarderAssumption
<1>1. Flags
  BY Zenon DEF Init, Flags
<1>2. Ranges /\ Safety /\ Bookkeeping
  BY DEF Init, Ranges, Safety, StartsOnKeyframe, NoneLeft,
     Bookkeeping, Nals, ParamSets
<1> QED
  BY <1>1, <1>2 DEF IInv

\* Every flag stays a Boolean.
LEMMA FlagsKept == IInv /\ [Next]_vars => Flags'
<1> SUFFICES ASSUME IInv, [Next]_vars PROVE Flags'
  OBVIOUS
<1> USE ForwarderAssumption DEF ForwarderAssumption, IInv, Flags
<1>1. ASSUME NEW f \in Frames, FrameArrives(f) PROVE Flags'
  BY <1>1, Zenon DEF FrameArrives, task_vars
<1>2. ASSUME NEW f \in Frames, SkipGarbage(f) PROVE Flags'
  BY <1>2, Zenon DEF SkipGarbage, Take
<1>3. ASSUME NEW f \in Frames, WaitForKeyframe(f) PROVE Flags'
  BY <1>3, Zenon DEF WaitForKeyframe, Take
<1>4. ASSUME NEW f \in Frames, StartFfmpeg(f) PROVE Flags'
  BY <1>4, Zenon DEF StartFfmpeg, Take, Write
<1>5. ASSUME NEW f \in Frames, StartFails(f) PROVE Flags'
  BY <1>5, Zenon DEF StartFails, Take
<1>6. ASSUME NEW f \in Frames, Forward(f) PROVE Flags'
  BY <1>6, Zenon DEF Forward, Take, Write
<1>7. ASSUME NEW f \in Frames, FindsExited(f) PROVE Flags'
  BY <1>7, Zenon DEF FindsExited, Take
<1>8. CASE Written
  BY <1>8, Zenon DEF Written
<1>9. CASE PipeBroken
  BY <1>9, Zenon DEF PipeBroken
<1>10. CASE FrameTimeout
  BY <1>10, Zenon DEF FrameTimeout
<1>11. CASE Cancel
  BY <1>11, Zenon DEF Cancel
<1>12. CASE Reaped
  BY <1>12, Zenon DEF Reaped
<1>13. CASE WriterEnds
  BY <1>13, Zenon DEF WriterEnds
<1>14. CASE FfmpegExits
  BY <1>14, Zenon DEF FfmpegExits, task_vars
<1>15. CASE UNCHANGED vars
  BY <1>15, Zenon DEF vars, task_vars
<1> QED
  BY <1>1, <1>2, <1>3, <1>4, <1>5, <1>6, <1>7,
     <1>8, <1>9, <1>10, <1>11, <1>12, <1>13, <1>14, <1>15
     DEF Next, Handle

\* The queue keeps its bound, and everything its type.
LEMMA RangesKept == IInv /\ [Next]_vars => Ranges'
<1> SUFFICES ASSUME IInv, [Next]_vars PROVE Ranges'
  OBVIOUS
<1> USE ForwarderAssumption, KnownGrows, FramedKeeps
    DEF ForwarderAssumption, IInv, Ranges
<1>1. ASSUME NEW f \in Frames, FrameArrives(f) PROVE Ranges'
  BY <1>1 DEF FrameArrives, task_vars
<1>2. ASSUME NEW f \in Frames, SkipGarbage(f) PROVE Ranges'
  BY <1>2 DEF SkipGarbage, Take
<1>3. ASSUME NEW f \in Frames, WaitForKeyframe(f) PROVE Ranges'
  BY <1>3 DEF WaitForKeyframe, Take
<1>4. ASSUME NEW f \in Frames, StartFfmpeg(f) PROVE Ranges'
  BY <1>4 DEF StartFfmpeg, Take, Write
<1>5. ASSUME NEW f \in Frames, StartFails(f) PROVE Ranges'
  BY <1>5 DEF StartFails, Take
<1>6. ASSUME NEW f \in Frames, Forward(f) PROVE Ranges'
  BY <1>6 DEF Forward, Take, Write
<1>7. ASSUME NEW f \in Frames, FindsExited(f) PROVE Ranges'
  BY <1>7 DEF FindsExited, Take
<1>8. CASE Written
  BY <1>8 DEF Written
<1>9. CASE PipeBroken
  BY <1>9 DEF PipeBroken
<1>10. CASE FrameTimeout
  BY <1>10 DEF FrameTimeout
<1>11. CASE Cancel
  BY <1>11 DEF Cancel
<1>12. CASE Reaped
  BY <1>12 DEF Reaped
<1>13. CASE WriterEnds
  BY <1>13 DEF WriterEnds
<1>14. CASE FfmpegExits
  BY <1>14 DEF FfmpegExits, task_vars
<1>15. CASE UNCHANGED vars
  BY <1>15 DEF vars, task_vars
<1> QED
  BY <1>1, <1>2, <1>3, <1>4, <1>5, <1>6, <1>7,
     <1>8, <1>9, <1>10, <1>11, <1>12, <1>13, <1>14, <1>15
     DEF Next, Handle

\* The gate, the cache and the clean-up survive every step.
LEMMA SafetyKept == IInv /\ [Next]_vars => Safety' /\ Bookkeeping'
<1> DEFINE Safe == Safety /\ Bookkeeping
<1> SUFFICES ASSUME IInv, [Next]_vars PROVE Safe'
  OBVIOUS
<1> USE KnownGrows, FramedKeeps
    DEF IInv, Ranges, Safety, StartsOnKeyframe, NoneLeft, Bookkeeping
<1>1. ASSUME NEW f \in Frames, FrameArrives(f) PROVE Safe'
  BY <1>1 DEF FrameArrives, task_vars
<1>2. ASSUME NEW f \in Frames, SkipGarbage(f) PROVE Safe'
  BY <1>2 DEF SkipGarbage, Take
<1>3. ASSUME NEW f \in Frames, WaitForKeyframe(f) PROVE Safe'
  BY <1>3 DEF WaitForKeyframe, Take
<1>4. ASSUME NEW f \in Frames, StartFfmpeg(f) PROVE Safe'
  <2>1. /\ proc' = "running" /\ pc' = "write" /\ params' = Known(f)
        /\ out' = Framed(f) /\ f # {} /\ "idr" \in f
        /\ Known(f) = ParamSets /\ inflight'
    BY <1>4, Zenon DEF StartFfmpeg, Take, Write, MayStart
  <2>2. "idr" \in out' /\ out' # {} /\ params' = ParamSets
    BY <2>1, FramedKeeps
  <2> QED
    BY <2>1, <2>2
<1>5. ASSUME NEW f \in Frames, StartFails(f) PROVE Safe'
  BY <1>5 DEF StartFails, Take
<1>6. ASSUME NEW f \in Frames, Forward(f) PROVE Safe'
  BY <1>6 DEF Forward, Take, Write
<1>7. ASSUME NEW f \in Frames, FindsExited(f) PROVE Safe'
  BY <1>7 DEF FindsExited, Take
<1>8. CASE Written
  BY <1>8 DEF Written
<1>9. CASE PipeBroken
  BY <1>9 DEF PipeBroken
<1>10. CASE FrameTimeout
  BY <1>10 DEF FrameTimeout
<1>11. CASE Cancel
  BY <1>11 DEF Cancel
<1>12. CASE Reaped
  BY <1>12 DEF Reaped
<1>13. CASE WriterEnds
  BY <1>13 DEF WriterEnds
<1>14. CASE FfmpegExits
  BY <1>14 DEF FfmpegExits, task_vars
<1>15. CASE UNCHANGED vars
  BY <1>15 DEF vars, task_vars
<1> QED
  BY <1>1, <1>2, <1>3, <1>4, <1>5, <1>6, <1>7,
     <1>8, <1>9, <1>10, <1>11, <1>12, <1>13, <1>14, <1>15
     DEF Next, Handle

\* IInv is inductive, so every reachable state satisfies it.
THEOREM Invariance == Spec => []IInv
<1>1. IInv /\ [Next]_vars => IInv'
  BY FlagsKept, RangesKept, SafetyKept DEF IInv
<1> QED
  BY <1>1, InitEstablishes, PTL DEF Spec

\* Type correctness of the forwarder, with the bound of its queue.
THEOREM TypeCorrect == Spec => []TypeOK
<1>1. IInv => TypeOK
  BY Zenon DEF IInv, Flags, Ranges, TypeOK
<1> QED
  BY <1>1, Invariance, PTL

\* Whatever the camera sends and whenever ffmpeg dies, an ffmpeg gets a keyframe
\* first and never a headerless frame.
THEOREM EveryFfmpegStartsOnKeyframe == Spec => []StartsOnKeyframe
<1>1. IInv => StartsOnKeyframe
  BY DEF IInv, Safety
<1> QED
  BY <1>1, Invariance, PTL

\* When the task is over no ffmpeg, writer or pump is left, but for the pump of an
\* ffmpeg that could not be started.
THEOREM NothingIsLeft == Spec => []NoneLeft
<1>1. IInv => NoneLeft
  BY DEF IInv, Safety
<1> QED
  BY <1>1, Invariance, PTL
-----------------------------------------------------------------------------
(* Handover. *)

\* The forwarder of the new session does what Forwarder allows: the theorems above
\* hold of it, whatever the old one does beside it.
THEOREM NewIsAForwarder == HandoverSpec => Spec
<1>1. HandoverInit => Init
  BY DEF HandoverInit
<1>2. [HandoverNext]_both_vars => [Next]_vars
  <2> SUFFICES ASSUME HandoverNext PROVE Next \/ UNCHANGED vars
    BY DEF both_vars
  <2>1. CASE NewSteps
    BY <2>1 DEF NewSteps, NewTask, Next
  <2>2. CASE OldSteps \/ Switch \/ Publish("old", oProc) \/ Publish("new", proc)
    BY <2>2 DEF OldSteps, Switch, Publish
  <2> QED
    BY <2>1, <2>2 DEF HandoverNext
<1> QED
  BY <1>1, <1>2, PTL DEF HandoverSpec, Spec

\* So the forwarder of a session that begins beside the one before starts every
\* ffmpeg on a keyframe too, and leaves nothing behind.
THEOREM NewIsSafe == HandoverSpec => []StartsOnKeyframe /\ []NoneLeft
  BY NewIsAForwarder, EveryFfmpegStartsOnKeyframe, NothingIsLeft

\* The forwarder of the old session does what Forwarder allows too: it only loses
\* its tap.
THEOREM OldIsAForwarder == HandoverSpec => Old!Spec
<1>1. HandoverInit => Old!Init
  BY DEF HandoverInit
<1>2. [HandoverNext]_both_vars => [Old!Next]_(Old!vars)
  <2> SUFFICES ASSUME HandoverNext PROVE Old!Next \/ UNCHANGED Old!vars
    BY DEF both_vars, old_vars, Old!vars, Old!task_vars
  <2>1. CASE OldSteps
    BY <2>1 DEF OldSteps, OldTask, OldFrame, Old!Next
  <2>2. CASE NewSteps \/ Switch \/ Publish("old", oProc) \/ Publish("new", proc)
    BY <2>2 DEF NewSteps, Switch, Publish, old_vars, Old!vars, Old!task_vars
  <2> QED
    BY <2>1, <2>2 DEF HandoverNext
<1> QED
  BY <1>1, <1>2, PTL DEF HandoverSpec, Old!Spec

\* The frames the old forwarder has or may yet get.
Left == IF switched THEN Len(oQueue) ELSE QueueMax

\* Its ffmpeg can still take the path without a new start.
Credit == IF oProc = "running" /\ "old" \notin kicked /\ owner # "old" THEN 1 ELSE 0

\* What pays for taking the path back: the frames of the old queue, and the ffmpeg
\* that runs already.
Budget == retaken + Left + Credit <= QueueMax + 1

\* An ffmpeg that was turned away runs no more by the time another is started, and
\* before the switch there is nobody to take the path from.
PathShape ==
    /\ switched \in BOOLEAN
    /\ oQueue \in Seq(Frames) /\ Len(oQueue) <= QueueMax
    /\ retaken \in Nat
    /\ owner = "old" \/ "old" \in kicked => oProc = "running"
    /\ ~switched => owner # "new" /\ proc # "running" /\ retaken = 0

PathInv == PathShape /\ Budget

\* An ffmpeg of the old session costs a frame, and no step brings one back.
LEMMA StartsCostFrames ==
    ASSUME oQueue \in Seq(Frames), Len(oQueue) <= QueueMax, OldTask \/ Old!FfmpegExits
    PROVE  /\ oQueue' \in Seq(Frames) /\ Len(oQueue') <= QueueMax
           /\ switched => Len(oQueue') <= Len(oQueue)
           /\ oProc' = "running" =>
                \/ oProc = "running"
                \/ oProc = "none" /\ (switched => Len(oQueue') < Len(oQueue))
<1> DEFINE Costs ==
      /\ oQueue' \in Seq(Frames) /\ Len(oQueue') <= QueueMax
      /\ switched => Len(oQueue') <= Len(oQueue)
      /\ oProc' = "running" =>
           \/ oProc = "running"
           \/ oProc = "none" /\ (switched => Len(oQueue') < Len(oQueue))
<1> USE ForwarderAssumption DEF ForwarderAssumption
<1>1. ASSUME NEW f \in Frames, OldFrame(f) PROVE Costs
  BY <1>1 DEF OldFrame, Old!FrameArrives, Old!task_vars
<1>2. ASSUME NEW f \in Frames, Old!Handle(f) PROVE Costs
  <2>1. oQueue # <<>> /\ oQueue' = Tail(oQueue)
    BY <1>2 DEF Old!Handle, Old!SkipGarbage, Old!WaitForKeyframe, Old!StartFfmpeg,
       Old!StartFails, Old!Forward, Old!FindsExited, Old!Take
  <2>2. oQueue' \in Seq(Frames) /\ Len(oQueue') < Len(oQueue) /\ Len(oQueue') <= QueueMax
    BY <2>1
  <2>3. oProc' = "running" => oProc \in {"running", "none"}
    BY <1>2 DEF Old!Handle, Old!SkipGarbage, Old!WaitForKeyframe, Old!StartFfmpeg,
       Old!StartFails, Old!Forward, Old!FindsExited
  <2> QED
    BY <2>2, <2>3
<1>3. CASE Old!Written \/ Old!PipeBroken \/ Old!FrameTimeout \/ Old!FfmpegExits
  BY <1>3 DEF Old!Written, Old!PipeBroken, Old!FrameTimeout, Old!FfmpegExits
<1> QED
  BY <1>1, <1>2, <1>3 DEF OldTask

\* The budget is made of natural numbers.
LEMMA BudgetTypes ==
    ASSUME PathShape
    PROVE  /\ Len(oQueue) \in Nat /\ QueueMax \in Nat /\ retaken \in Nat
           /\ Left \in Nat /\ Left <= QueueMax
           /\ Credit \in 0 .. 1
           /\ switched => Left = Len(oQueue)
           /\ ~switched => Left = QueueMax /\ retaken = 0
  BY ForwarderAssumption DEF ForwarderAssumption, PathShape, Left, Credit

\* The shape is kept: the old ffmpeg is turned away while it runs, and its exit is
\* noticed before it is started again.
LEMMA ShapeKept == PathShape /\ [HandoverNext]_both_vars => PathShape'
<1> SUFFICES ASSUME PathShape, [HandoverNext]_both_vars PROVE PathShape'
  OBVIOUS
<1> USE DEF PathShape
<1>1. CASE OldSteps
  BY <1>1, StartsCostFrames DEF OldSteps, Leaves, vars
<1>2. CASE NewSteps
  BY <1>2 DEF NewSteps, Leaves, old_vars
<1>3. CASE Switch
  BY <1>3 DEF Switch, old_vars, vars, path_vars
<1>4. CASE Publish("old", oProc)
  BY <1>4 DEF Publish, old_vars, vars
<1>5. CASE Publish("new", proc)
  <2>1. /\ UNCHANGED <<oQueue, oProc, proc, switched, retaken>>
        /\ proc = "running" /\ owner' = "new"
    BY <1>5 DEF Publish, old_vars, vars
  <2>2. "old" \in kicked' => "old" \in kicked \/ owner = "old"
    BY <1>5 DEF Publish
  <2> QED
    BY <2>1, <2>2
<1>6. CASE UNCHANGED both_vars
  BY <1>6 DEF both_vars, old_vars, vars, path_vars
<1> QED
  BY <1>1, <1>2, <1>3, <1>4, <1>5, <1>6 DEF HandoverNext

\* A step of the old forwarder spends what it has: an ffmpeg it starts, a frame.
LEMMA OldStepsPay ==
    ASSUME PathShape, PathShape', Budget, OldSteps
    PROVE  Budget'
<1>1. /\ switched => Len(oQueue') <= Len(oQueue)
      /\ oProc' = "running" =>
           \/ oProc = "running"
           \/ oProc = "none" /\ (switched => Len(oQueue') < Len(oQueue))
  BY StartsCostFrames DEF OldSteps, PathShape
<1>2. /\ UNCHANGED <<switched, retaken>>
      /\ oProc' = "running" => kicked' = kicked /\ owner' = owner
  BY DEF OldSteps, Leaves
<1>3. /\ QueueMax \in Nat /\ retaken \in Nat /\ Left \in Nat /\ Credit \in 0 .. 1
      /\ switched => Left = Len(oQueue)
      /\ ~switched => retaken = 0
  BY BudgetTypes
<1>4. /\ retaken' \in Nat /\ Left' \in Nat /\ Credit' \in 0 .. 1
      /\ Left' <= QueueMax
      /\ switched => Left' = Len(oQueue')
  BY <1>2, BudgetTypes DEF PathShape, Left, Credit
<1>5. retaken + Left + Credit <= QueueMax + 1
  BY DEF Budget
<1>6. \/ retaken' <= retaken /\ Left' <= Left /\ Credit' <= Credit
      \/ retaken' <= retaken /\ Left' < Left
      \/ retaken' = 0 /\ Left' <= QueueMax
  <2>1. CASE ~switched
    BY <2>1, <1>2, <1>3, <1>4
  <2>2. CASE switched /\ Credit' = 1 /\ oProc # "running"
    <3>1. oProc' = "running"
      BY <2>2 DEF Credit
    <3>2. Len(oQueue') < Len(oQueue)
      BY <3>1, <2>2, <1>1
    <3>3. Left' < Left
      BY <3>2, <2>2, <1>3, <1>4
    <3> QED
      BY <3>3, <1>2, <1>3
  <2>3. CASE switched /\ ~(Credit' = 1 /\ oProc # "running")
    <3>1. Left' <= Left
      BY <2>3, <1>1, <1>3, <1>4
    <3>2. Credit' <= Credit
      <4>1. CASE Credit' = 0
        BY <4>1, <1>3
      <4>2. CASE Credit' = 1
        BY <4>2, <2>3, <1>2 DEF Credit
      <4> QED
        BY <4>1, <4>2, <1>4
    <3> QED
      BY <3>1, <3>2, <1>2, <1>3
  <2> QED
    BY <2>1, <2>2, <2>3 DEF PathShape
<1> DEFINE r == retaken'  l == Left'  c == Credit'
<1>7. r + l + c <= QueueMax + 1
  <2>1. /\ r \in Nat /\ l \in Nat /\ c \in 0 .. 1
        /\ \/ r <= retaken /\ l <= Left /\ c <= Credit
           \/ r <= retaken /\ l < Left
           \/ r = 0 /\ l <= QueueMax
    BY <1>4, <1>6
  <2> HIDE DEF r, l, c
  <2> QED
    BY <2>1, <1>3, <1>5
<1> QED
  BY <1>7 DEF Budget

\* An ffmpeg that takes the path has spent its credit; the path changing hands
\* otherwise gives none.
LEMMA PublishPays ==
    ASSUME PathShape, PathShape', Budget, Publish("old", oProc) \/ Publish("new", proc)
    PROVE  Budget'
<1>1. /\ QueueMax \in Nat /\ retaken \in Nat /\ Left \in Nat /\ Credit \in 0 .. 1
      /\ retaken + Left + Credit <= QueueMax + 1
  BY BudgetTypes DEF Budget
<1>2. retaken' \in Nat /\ Credit' \in 0 .. 1
  BY DEF PathShape, Credit
<1>3. Left' = Left
  BY DEF Publish, old_vars, Left
<1>4. \/ retaken' \in {retaken, retaken + 1} /\ Credit = 1 /\ Credit' = 0
      \/ retaken' = retaken /\ Credit' <= Credit
  <2>1. CASE Publish("old", oProc)
    BY <2>1 DEF Publish, Credit
  <2>2. CASE Publish("new", proc)
    BY <2>2 DEF Publish, Credit, old_vars
  <2> QED
    BY <2>1, <2>2
<1> DEFINE r == retaken'  l == Left'  c == Credit'
<1>5. r + l + c <= QueueMax + 1
  <2>1. /\ r \in Nat /\ l = Left /\ c \in 0 .. 1
        /\ \/ r \in {retaken, retaken + 1} /\ Credit = 1 /\ c = 0
           \/ r = retaken /\ c <= Credit
    BY <1>2, <1>3, <1>4
  <2> HIDE DEF r, l, c
  <2> QED
    BY <2>1, <1>1
<1> QED
  BY <1>5 DEF Budget

\* An ended session takes the path from the next one at most as often as its queue
\* had frames, and once more, however the two forwarders, their ffmpegs and
\* MediaMTX interleave.
THEOREM FewAreTakenBack == HandoverSpec => []TakesBackFew
<1>1. HandoverInit => PathInv
  <2> SUFFICES ASSUME HandoverInit PROVE PathInv
    OBVIOUS
  <2>1. PathShape
    <3>1. oQueue \in Seq(Frames) /\ Len(oQueue) <= QueueMax
      BY ForwarderAssumption, EmptySeq DEF ForwarderAssumption, HandoverInit, Old!Init
    <3>2. retaken = 0 /\ kicked = {} /\ owner = "nobody" /\ proc = "none"
      BY DEF HandoverInit, Init
    <3>3. retaken \in Nat /\ owner # "old" /\ owner # "new" /\ proc # "running"
      BY <3>2
    <3>4. switched \in BOOLEAN
      BY Zenon DEF HandoverInit
    <3> QED
      BY <3>1, <3>2, <3>3, <3>4, Zenon DEF PathShape
  <2>2. retaken = 0 /\ Credit = 0
    BY DEF HandoverInit, Old!Init, Credit
  <2> QED
    BY <2>1, <2>2, BudgetTypes DEF PathInv, Budget
<1>2. PathInv /\ [HandoverNext]_both_vars => PathInv'
  <2> SUFFICES ASSUME PathInv, [HandoverNext]_both_vars PROVE Budget'
    BY ShapeKept DEF PathInv
  <2>1. PathShape /\ PathShape' /\ Budget
    BY ShapeKept DEF PathInv
  <2>2. CASE NewSteps
    <3>1. /\ UNCHANGED <<oQueue, oProc, switched, retaken>>
          /\ owner' = owner \/ (owner = "new" /\ owner' = "nobody")
          /\ "old" \in kicked' <=> "old" \in kicked
      BY <2>2 DEF NewSteps, old_vars, Leaves
    <3>2. Left' = Left /\ Credit' = Credit
      BY <3>1 DEF Left, Credit
    <3> QED
      BY <2>1, <3>1, <3>2 DEF Budget
  <2>3. CASE Switch
    <3>1. UNCHANGED <<oQueue, oProc, owner, kicked, retaken>>
      BY <2>3 DEF Switch, old_vars, path_vars
    <3>2. Left = QueueMax /\ Left' = Len(oQueue) /\ Credit' = Credit
      BY <3>1, <2>3 DEF Switch, Left, Credit
    <3>3. Len(oQueue) <= QueueMax
      BY <2>1 DEF PathShape
    <3> QED
      BY <2>1, <3>1, <3>2, <3>3, BudgetTypes DEF Budget
  <2>4. CASE UNCHANGED both_vars
    BY <2>1, <2>4 DEF both_vars, old_vars, path_vars, Budget, Left, Credit
  <2> QED
    BY <2>1, <2>2, <2>3, <2>4, OldStepsPay, PublishPays DEF HandoverNext
<1>3. PathInv => TakesBackFew
  <2> SUFFICES ASSUME PathInv PROVE TakesBackFew
    OBVIOUS
  <2>1. PathShape /\ Budget
    BY DEF PathInv
  <2>2. CASE switched
    BY <2>1, <2>2, BudgetTypes DEF Budget, TakesBackFew
  <2>3. CASE ~switched
    BY <2>1, <2>3, BudgetTypes DEF TakesBackFew
  <2> QED
    BY <2>2, <2>3
<1> QED
  BY <1>1, <1>2, <1>3, PTL DEF HandoverSpec
=============================================================================

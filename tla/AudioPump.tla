------------------------------ MODULE AudioPump ------------------------------
(***************************************************************************)
(* The audio side of forward_video, _rtp_forwarder.py: the audio tap puts  *)
(* chunks in a bounded queue, and every ffmpeg comes with an _AudioPump    *)
(* that owns the write end of a pipe and a task that carries chunks from   *)
(* the queue to it, through os.write on a thread of the default executor.  *)
(*                                                                         *)
(* close() cancels the task and frees the number of the descriptor at once *)
(* -- also while a thread is about to write, or to write the rest of a     *)
(* chunk, to that number; the rest of the process may take the number over *)
(* meanwhile.  The model follows the numbers.  ffmpeg, asyncio, the        *)
(* executor and the kernel's pipes are external.                           *)
(***************************************************************************)
EXTENDS Integers, Sequences

CONSTANTS
    Starts,     \* how many times ffmpeg is started (a bound of the model)
    Chunks,     \* how many chunks the camera sends (a bound of the model)
    QueueMax,   \* the size of audio_queue
    Numbers     \* numbers of descriptors

ASSUME AudioPumpAssumption ==
    /\ Starts \in Nat /\ Chunks \in Nat
    /\ QueueMax \in Nat \ {0}
    /\ Numbers \subseteq Nat \ {0}

Pumps == 1 .. Starts
Free == 0      \* nobody has the number
Other == -1    \* some other file of the process has it; p > 0: pump p has it

VARIABLES
    last,       \* the chunk that arrived last
    queue,      \* audio_queue
    table,      \* the process's table of descriptors: who has each number
    end,        \* the number pump p writes to; 0 before it exists
    closed,     \* close() has been called on pump p
    task,       \* its task: none, new, get, write, ended
    thread,     \* its write: idle, queued, ready, blocked (in os.write), ok, broken
    target,     \* whose file os.write is on
    current,    \* the pump of forward_video, 0: none
    alive,      \* the ffmpeg of that pump runs
    kept,       \* pumps whose read end the parent still has
    over        \* forward_video is in its finally block, or past it

pump_vars == <<end, closed, task, thread, target>>
main_vars == <<current, alive, kept, over>>
vars == <<last, queue, table, pump_vars, main_vars>>

TypeOK ==
    /\ last \in Nat /\ queue \in Seq(Nat)
    /\ table \in [Numbers -> Pumps \cup {Free, Other}]
    /\ end \in [Pumps -> Numbers \cup {0}]
    /\ closed \in [Pumps -> BOOLEAN]
    /\ task \in [Pumps -> {"none", "new", "get", "write", "ended"}]
    /\ thread \in [Pumps -> {"idle", "queued", "ready", "blocked", "ok", "broken"}]
    /\ target \in [Pumps -> Pumps \cup {Free, Other}]
    /\ current \in Pumps \cup {0} /\ kept \subseteq Pumps
    /\ alive \in BOOLEAN /\ over \in BOOLEAN

\* The pipe of pump p can still be read from.
HasReader(p) == p \in kept \/ (p = current /\ alive)

\* _reap_ffmpeg blocks the event loop until ffmpeg has gone.
LoopRuns == ~(over /\ current # 0)

-----------------------------------------------------------------------------
(* The tap. *)

\* Mutant: a full queue drops the chunk that arrives.
Queued_dropsNewest(c) == IF Len(queue) < QueueMax THEN Append(queue, c) ELSE queue

\* A full queue drops the oldest chunk.
Queued(c) == Append(IF Len(queue) < QueueMax THEN queue ELSE Tail(queue), c)

\* _on_audio; the tap is taken off at the end.
ChunkArrives ==
    /\ ~over /\ last < Chunks
    /\ last' = last + 1
    /\ queue' = Queued(last + 1)
    /\ UNCHANGED <<table, pump_vars, main_vars>>

-----------------------------------------------------------------------------
(* forward_video. *)

\* The next pump: os.pipe() gives it a free number.
NewPump(p, n) ==
    /\ ~over /\ current = 0
    /\ end[p] = 0 /\ \A q \in Pumps : q < p => end[q] # 0
    /\ table[n] = Free
    /\ table' = [table EXCEPT ![n] = p]
    /\ end' = [end EXCEPT ![p] = n]

\* Mutant: the parent keeps its copy of the read end.
Start_keepsReadEnd(p, n) ==
    /\ NewPump(p, n)
    /\ task' = [task EXCEPT ![p] = "new"]
    /\ current' = p /\ alive' = TRUE
    /\ kept' = kept \cup {p}
    /\ UNCHANGED <<last, queue, closed, thread, target, over>>

\* _start_av_ffmpeg: the child has the read end and the parent drops its copy.
Start(p, n) ==
    /\ NewPump(p, n)
    /\ task' = [task EXCEPT ![p] = "new"]
    /\ current' = p /\ alive' = TRUE
    /\ UNCHANGED <<last, queue, closed, thread, target, kept, over>>

\* Popen raises and so does forward_video: nobody closes the pipe.
StartFails(p, n) ==
    /\ NewPump(p, n)
    /\ kept' = kept \cup {p}
    /\ over' = TRUE
    /\ UNCHANGED <<last, queue, closed, task, thread, target, current, alive>>

\* ffmpeg dies.
FfmpegExits ==
    /\ alive
    /\ alive' = FALSE
    /\ UNCHANGED <<last, queue, table, pump_vars, current, kept, over>>

\* close(): the task is asked to end, and whatever has the number is closed.
Close(p) ==
    /\ closed' = [closed EXCEPT ![p] = TRUE]
    /\ table' = [table EXCEPT ![end[p]] = Free]

\* A dead ffmpeg is noticed: its pump is closed and forgotten.
Reap ==
    /\ ~over /\ current # 0 /\ ~alive
    /\ Close(current)
    /\ current' = 0
    /\ UNCHANGED <<last, queue, end, task, thread, target, alive, kept, over>>

\* The finally block: no frame came, or the task was cancelled.
Finally ==
    /\ ~over /\ over' = TRUE
    /\ IF current = 0 THEN UNCHANGED <<closed, table>> ELSE Close(current)
    /\ UNCHANGED <<last, queue, end, task, thread, target, current, alive, kept>>

\* _reap_ffmpeg has returned.
Terminated ==
    /\ over /\ current # 0
    /\ current' = 0 /\ alive' = FALSE
    /\ UNCHANGED <<last, queue, table, pump_vars, kept, over>>

-----------------------------------------------------------------------------
(* _pump: the task of a pump. *)

\* run_in_executor.
Submit(p) ==
    /\ task' = [task EXCEPT ![p] = "write"]
    /\ thread' = [thread EXCEPT ![p] = "queued"]
    /\ UNCHANGED <<last, table, end, closed, target, main_vars>>

\* The first write is 50 ms of silence.
Prime(p) ==
    /\ LoopRuns /\ task[p] = "new" /\ ~closed[p]
    /\ Submit(p)
    /\ UNCHANGED queue

TakeChunk(p) ==
    /\ LoopRuns /\ task[p] = "get" /\ ~closed[p]
    /\ queue # <<>> /\ queue' = Tail(queue)
    /\ Submit(p)

\* Mutant: the task ends with its first write.
Written_once(p) ==
    /\ LoopRuns /\ task[p] = "write" /\ ~closed[p] /\ thread[p] = "ok"
    /\ task' = [task EXCEPT ![p] = "ended"]
    /\ thread' = [thread EXCEPT ![p] = "idle"]
    /\ UNCHANGED <<last, queue, table, end, closed, target, main_vars>>

Written(p) ==
    /\ LoopRuns /\ task[p] = "write" /\ ~closed[p] /\ thread[p] = "ok"
    /\ task' = [task EXCEPT ![p] = "get"]
    /\ thread' = [thread EXCEPT ![p] = "idle"]
    /\ UNCHANGED <<last, queue, table, end, closed, target, main_vars>>

\* Mutant: the task closes the descriptor it could not write to.
WriteFailed_closes(p) ==
    /\ LoopRuns /\ task[p] = "write" /\ ~closed[p] /\ thread[p] = "broken"
    /\ task' = [task EXCEPT ![p] = "ended"]
    /\ thread' = [thread EXCEPT ![p] = "idle"]
    /\ table' = [table EXCEPT ![end[p]] = Free]
    /\ UNCHANGED <<last, queue, end, closed, target, main_vars>>

\* BrokenPipeError or another OSError: the task returns, and the pump stays open
\* until forward_video closes it.
WriteFailed(p) ==
    /\ LoopRuns /\ task[p] = "write" /\ ~closed[p] /\ thread[p] = "broken"
    /\ task' = [task EXCEPT ![p] = "ended"]
    /\ thread' = [thread EXCEPT ![p] = "idle"]
    /\ UNCHANGED <<last, queue, table, end, closed, target, main_vars>>

\* The cancellation lands: a write no thread has begun is dropped, one that has
\* goes on without the task.
Cancelled(p) ==
    /\ LoopRuns /\ closed[p] /\ task[p] \in {"new", "get", "write"}
    /\ task' = [task EXCEPT ![p] = "ended"]
    /\ thread' = [thread EXCEPT ![p] = IF @ = "queued" THEN "idle" ELSE @]
    /\ UNCHANGED <<last, queue, table, end, closed, target, main_vars>>

-----------------------------------------------------------------------------
(* _write_all: the thread of a write. *)

\* The thread of p goes on to a step, on the file of owner while it is blocked.
ThreadGoes(p, to, owner) ==
    /\ thread' = [thread EXCEPT ![p] = to]
    /\ target' = [target EXCEPT ![p] = IF to = "blocked" THEN owner ELSE 0]
    /\ UNCHANGED <<last, queue, table, end, closed, task, main_vars>>

\* A thread of the executor takes the write on.
PickedUp(p) ==
    /\ thread[p] = "queued"
    /\ ThreadGoes(p, "ready", p)

\* os.write: the kernel looks the number up, now.
EntersWrite(p) ==
    /\ thread[p] = "ready"
    /\ LET owner == table[end[p]] IN
        ThreadGoes(p, IF owner = Other \/ HasReader(owner) THEN "blocked" ELSE "broken",
                   owner)

\* All is written; nothing says when.
WriteEnds(p) ==
    /\ thread[p] = "blocked"
    /\ target[p] = Other \/ HasReader(target[p])
    /\ ThreadGoes(p, "ok", p)

\* The reader has gone: a chunk that fitted is written, one of which nothing was
\* written fails, and one written in part is a short write: the loop goes on
\* with the rest.  A foreign file may refuse a write at any time.
ReaderGone(p) ==
    /\ thread[p] = "blocked"
    /\ target[p] # Other => ~HasReader(target[p])
    /\ \E to \in {"ok", "broken", "ready"} : ThreadGoes(p, to, p)

\* A write is under way.
Busy(p) == thread[p] \in {"queued", "ready", "blocked"}

\* The rest of the process opens a file, or closes one of its own.
OthersOpen(n) ==
    /\ table[n] = Free
    /\ table' = [table EXCEPT ![n] = Other]
    /\ UNCHANGED <<last, queue, pump_vars, main_vars>>

OthersClose(n) ==
    /\ table[n] = Other
    /\ table' = [table EXCEPT ![n] = Free]
    /\ UNCHANGED <<last, queue, pump_vars, main_vars>>

-----------------------------------------------------------------------------
Init ==
    /\ last = 0 /\ queue = <<>>
    /\ table = [n \in Numbers |-> Free]
    /\ end = [p \in Pumps |-> 0]
    /\ closed = [p \in Pumps |-> FALSE]
    /\ task = [p \in Pumps |-> "none"]
    /\ thread = [p \in Pumps |-> "idle"]
    /\ target = [p \in Pumps |-> 0]
    /\ current = 0 /\ alive = FALSE /\ kept = {} /\ over = FALSE

Task(p) ==
    \/ Prime(p) \/ TakeChunk(p) \/ Written(p) \/ WriteFailed(p) \/ Cancelled(p)

Thread(p) ==
    \/ PickedUp(p) \/ EntersWrite(p) \/ WriteEnds(p) \/ ReaderGone(p)

Next ==
    \/ ChunkArrives
    \/ \E p \in Pumps, n \in Numbers : Start(p, n) \/ StartFails(p, n)
    \/ FfmpegExits \/ Reap \/ Finally \/ Terminated
    \/ \E p \in Pumps : Task(p) \/ Thread(p)
    \/ \E n \in Numbers : OthersOpen(n) \/ OthersClose(n)

\* The event loop serves the tasks, the executor has a thread for each write, a
\* write nobody can read ends, and ffmpeg is killed at the latest.  Nothing makes
\* a live ffmpeg read.
Fairness ==
    /\ WF_vars(Terminated)
    /\ \A p \in Pumps :
        /\ WF_vars(Task(p)) /\ WF_vars(PickedUp(p)) /\ WF_vars(EntersWrite(p))
        /\ WF_vars(ReaderGone(p))

Spec == Init /\ [][Next]_vars /\ Fairness

-----------------------------------------------------------------------------
(* Properties. *)

\* As long as a pump is not closed, its number is that of its own pipe: the
\* number is given back by close() and nobody else, once.  So only the write a
\* closed pump leaves in flight can reach a file of somebody else, and close()
\* never closes one (_rtp_forwarder.py:369-373, 419-428).
OpenPumpOwnsItsEnd ==
    \A p \in Pumps :
        /\ end[p] # 0 /\ ~closed[p] => table[end[p]] = p
        /\ thread[p] = "blocked" /\ target[p] # p => closed[p]

\* Whoever takes chunks, the queue is the freshest chunks in their order: what a
\* pre-IDR wait or a slow pump costs is the oldest ones
\* (_rtp_forwarder.py:510-531).
QueueIsFreshest ==
    /\ Len(queue) <= QueueMax
    /\ \A i \in 1 .. Len(queue) : queue[i] = last - Len(queue) + i

\* A closed pump leaves nothing behind: its task ends, and so does its write,
\* the parent having dropped its copy of the read end -- unless the number was
\* reused and the rest of a chunk went to a file of somebody else
\* (_rtp_forwarder.py:382-388, 412-428).
ClosedPumpEnds ==
    \A p \in Pumps :
        closed[p] ~> (task[p] \in {"none", "ended"}
                        /\ (Busy(p) => thread[p] = "blocked" /\ target[p] # p))

\* Audio does not stall on its own: while ffmpeg runs and chunks wait, the pump
\* gets to a write again and again, whatever the pumps before it left behind
\* (_rtp_forwarder.py:390-417).
AudioGoesOn ==
    []<>(\/ over \/ ~alive \/ queue = <<>>
         \/ current # 0 /\ thread[current] = "blocked")
=============================================================================

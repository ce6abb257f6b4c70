------------------------------- MODULE Renack -------------------------------
(***************************************************************************)
(* The periodic re-NACK of _aiortc_media_patches.py: one task per video    *)
(* receiver wakes every NACK_INTERVAL_MS, reads what the NackGenerator of  *)
(* aiortc reports missing and asks for it again, at most MaxRetries times  *)
(* for each packet.  Its counters are pruned only when a round finds that  *)
(* a packet is no longer missing, so they lag behind the generator.        *)
(*                                                                         *)
(* The generator is external: packets go missing and stop being so         *)
(* (received, or older than RTP_HISTORY_SIZE) at any moment, also while a  *)
(* request is being sent.                                                  *)
(***************************************************************************)
EXTENDS Naturals

CONSTANTS
    Seqs,        \* sequence numbers of packets
    MaxRetries   \* NACK_MAX_RETRIES

ASSUME RenackAssumption == MaxRetries \in Nat

VARIABLES
    missing,     \* nack_gen.missing
    gone,        \* missing no more since the last round of the loop
    retries,     \* the counters of the loop; 0 is an absent one
    attached,    \* _renack_tasks has a task for this receiver
    loop,        \* that task: ended, sleeping or sending
    asked        \* history: requests for a packet since it went missing

vars == <<missing, gone, retries, attached, loop, asked>>

TypeOK ==
    /\ missing \subseteq Seqs /\ gone \subseteq Seqs
    /\ retries \in [Seqs -> 0 .. MaxRetries]
    /\ asked \in [Seqs -> Nat]
    /\ attached \in BOOLEAN
    /\ loop \in {"ended", "sleeping", "sending"}

None == [s \in Seqs |-> 0]

-----------------------------------------------------------------------------
(* The generator. *)

\* A gap opens.  A number just seen is not missing again before the next
\* round: that takes 65536 packets, and a round some tens of milliseconds.
GapOpens(S) ==
    /\ S # {} /\ S \cap (missing \cup gone) = {}
    /\ missing' = missing \cup S
    /\ asked' = [s \in Seqs |-> IF s \in S THEN 0 ELSE asked[s]]
    /\ UNCHANGED <<gone, retries, attached, loop>>

\* Packets arrive at last, or age out of the history.
GapCloses(S) ==
    /\ S # {} /\ S \subseteq missing
    /\ missing' = missing \ S
    /\ gone' = IF attached THEN gone \cup S ELSE gone
    /\ UNCHANGED <<retries, attached, loop, asked>>

-----------------------------------------------------------------------------
(* The loop. *)

\* Mutant: counters outlive the gap they were for.
Pruned_never == retries

\* The counters without those of packets that are no longer missing.
Pruned == [s \in Seqs |-> IF s \in missing THEN retries[s] ELSE 0]

\* What a round asks for.
Wanted == {s \in missing : Pruned[s] < MaxRetries}

PlusOne(count) == [s \in Seqs |-> IF s \in Wanted THEN count[s] + 1 ELSE count[s]]

\* Mutant: the first round whose packets are all exhausted is the last.
Round_stops ==
    /\ loop = "sleeping"
    /\ retries' = PlusOne(Pruned)
    /\ asked' = PlusOne(asked)
    /\ gone' = {}
    /\ loop' = IF Wanted # {} THEN "sending" ELSE IF missing = {} THEN "sleeping" ELSE "ended"
    /\ UNCHANGED <<missing, attached>>

\* The task wakes up: it prunes, counts and, if anything is left to ask for,
\* starts to send.  The counter is raised before the send, whatever it yields.
\* A source is active as soon as anything is missing.
Round ==
    /\ loop = "sleeping"
    /\ retries' = PlusOne(Pruned)
    /\ asked' = PlusOne(asked)
    /\ gone' = {}
    /\ loop' = IF Wanted # {} THEN "sending" ELSE "sleeping"
    /\ UNCHANGED <<missing, attached>>

\* The request is out, or the send raised and that was logged.
Sent ==
    /\ loop = "sending"
    /\ loop' = "sleeping"
    /\ UNCHANGED <<missing, gone, retries, attached, asked>>

\* attach_periodic_renack: nothing happens while the loop runs; otherwise a new
\* one starts with counters of its own.
Attach ==
    /\ ~attached \/ loop = "ended"
    /\ attached' = TRUE
    /\ loop' = "sleeping"
    /\ retries' = None /\ asked' = None
    /\ gone' = {}
    /\ UNCHANGED missing

\* detach_periodic_renack: the task is cancelled where it waits.
Detach ==
    /\ attached
    /\ attached' = FALSE
    /\ loop' = "ended"
    /\ gone' = {}
    /\ UNCHANGED <<missing, retries, asked>>

-----------------------------------------------------------------------------
Init ==
    /\ missing = {} /\ gone = {}
    /\ retries = None /\ asked = None
    /\ attached = FALSE /\ loop = "ended"

Next ==
    \/ \E S \in SUBSET Seqs : GapOpens(S) \/ GapCloses(S)
    \/ Round \/ Sent
    \/ Attach \/ Detach

\* The event loop wakes the task, and a datagram is sent or refused at once.
Fairness == WF_vars(Round) /\ WF_vars(Sent)

Spec == Init /\ [][Next]_vars /\ Fairness

-----------------------------------------------------------------------------
(* Properties. *)

\* Every gap has a retry budget of its own: although the counters are pruned by
\* the loop and not by the generator, the counter of a missing packet is the
\* number of requests made since it went missing, never what an earlier gap at
\* the same number left over, it stops at MaxRetries, and nothing else than a
\* packet missing since the last round keeps one
\* (_aiortc_media_patches.py:200-218).
BudgetPerGap ==
    attached =>
        /\ \A s \in missing : retries[s] = asked[s] /\ asked[s] <= MaxRetries
        /\ \A s \in Seqs \ (missing \cup gone) : retries[s] = 0

\* As long as a loop is attached, a packet that stays missing is asked for until
\* its budget is spent, whatever happens to the others and to the sends
\* (_aiortc_media_patches.py:196-253).
AskedUntilSpent ==
    \A s \in Seqs :
        attached /\ s \in missing
            ~> (~attached \/ s \notin missing \/ retries[s] = MaxRetries)
=============================================================================

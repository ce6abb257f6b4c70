-------------------------- MODULE AudioPump_proofs --------------------------
(***************************************************************************)
(* Theorems about AudioPump for every number of starts of ffmpeg, of       *)
(* chunks and of descriptors, and every size of the queue.                 *)
(***************************************************************************)
EXTENDS AudioPump, SequenceTheorems, TLAPS

\* A pump that was not made does nothing, and the pump at hand was made and is
\* open until the finally block.
Bookkeeping ==
    /\ \A p \in Pumps :
        end[p] = 0 => task[p] = "none" /\ thread[p] = "idle" /\ ~closed[p]
    /\ current # 0 => end[current] # 0
    /\ current # 0 /\ ~over => ~closed[current]

\* q is the freshest chunks once chunk n has arrived.
Fresh(q, n) ==
    /\ Len(q) <= QueueMax
    /\ \A i \in 1 .. Len(q) : q[i] = n - Len(q) + i

IInv == TypeOK /\ QueueIsFreshest /\ OpenPumpOwnsItsEnd /\ Bookkeeping

\* A write is only ever begun by a pump that was made.
LEMMA WriterHasEnd ==
    ASSUME TypeOK, Bookkeeping, NEW p \in Pumps, thread[p] # "idle"
    PROVE  end[p] \in Numbers
  BY DEF TypeOK, Bookkeeping

\* The next number continues a run of numbers.
LEMMA AppendRun ==
    ASSUME NEW s \in Seq(Nat), NEW x \in Nat,
           \A i \in 1 .. Len(s) : s[i] = x - Len(s) + i
    PROVE  /\ Append(s, x + 1) \in Seq(Nat)
           /\ Len(Append(s, x + 1)) = Len(s) + 1
           /\ \A i \in 1 .. Len(s) + 1 : Append(s, x + 1)[i] = x - Len(s) + i
<1>1. x + 1 \in Nat /\ Len(s) \in Nat
  OBVIOUS
<1>2. /\ Append(s, x + 1) \in Seq(Nat)
      /\ Len(Append(s, x + 1)) = Len(s) + 1
      /\ \A i \in 1 .. Len(s) : Append(s, x + 1)[i] = s[i]
      /\ Append(s, x + 1)[Len(s) + 1] = x + 1
  BY <1>1, AppendProperties
<1>3. ASSUME NEW i \in 1 .. Len(s) + 1
      PROVE  Append(s, x + 1)[i] = x - Len(s) + i
  <2>1. CASE i = Len(s) + 1
    BY <1>1, <1>2, <2>1
  <2>2. CASE i # Len(s) + 1
    <3>1. i \in 1 .. Len(s)
      BY <1>1, <2>2
    <3> QED
      BY <1>2, <3>1
  <2> QED
    BY <2>1, <2>2
<1> QED
  BY <1>2, <1>3

\* A chunk that is queued comes last, and the queue keeps its bound.
LEMMA QueuedIsFreshest ==
    ASSUME TypeOK, QueueIsFreshest
    PROVE  /\ Queued(last + 1) \in Seq(Nat)
           /\ Fresh(Queued(last + 1), last + 1)
<1> USE AudioPumpAssumption DEF AudioPumpAssumption, TypeOK, QueueIsFreshest
<1> DEFINE rest == IF Len(queue) < QueueMax THEN queue ELSE Tail(queue)
<1>1. /\ rest \in Seq(Nat) /\ Len(rest) < QueueMax
      /\ \A i \in 1 .. Len(rest) : rest[i] = last - Len(rest) + i
  <2>1. CASE Len(queue) < QueueMax
    BY <2>1
  <2>2. CASE ~(Len(queue) < QueueMax)
    <3>1. queue # <<>>
      BY <2>2
    <3>2. /\ Tail(queue) \in Seq(Nat) /\ Len(Tail(queue)) = Len(queue) - 1
          /\ \A i \in 1 .. Len(Tail(queue)) : Tail(queue)[i] = queue[i + 1]
      BY <3>1, HeadTailProperties
    <3> QED
      BY <2>2, <3>2
  <2> QED
    BY <2>1, <2>2
<1>2. Queued(last + 1) = Append(rest, last + 1)
  BY DEF Queued
<1>3. last \in Nat
  OBVIOUS
<1> HIDE DEF rest
<1>4. /\ Queued(last + 1) \in Seq(Nat)
      /\ Len(Queued(last + 1)) = Len(rest) + 1
      /\ \A i \in 1 .. Len(rest) + 1 : Queued(last + 1)[i] = last - Len(rest) + i
  <2>1. /\ rest \in Seq(Nat)
        /\ \A i \in 1 .. Len(rest) : rest[i] = last - Len(rest) + i
    BY <1>1
  <2>2. /\ Append(rest, last + 1) \in Seq(Nat)
        /\ Len(Append(rest, last + 1)) = Len(rest) + 1
        /\ \A i \in 1 .. Len(rest) + 1 : Append(rest, last + 1)[i] = last - Len(rest) + i
    BY <1>3, <2>1, AppendRun, Zenon
  <2> QED
    BY <1>2, <2>2, Zenon
<1>5. Len(rest) \in Nat
  BY <1>1
<1>6. Len(Queued(last + 1)) <= QueueMax
  BY <1>1, <1>4, <1>5
<1>7. ASSUME NEW i \in 1 .. Len(Queued(last + 1))
      PROVE  Queued(last + 1)[i] = last + 1 - Len(Queued(last + 1)) + i
  <2>1. i \in 1 .. Len(rest) + 1
    BY <1>4
  <2>2. Queued(last + 1)[i] = last - Len(rest) + i
    BY <1>4, <2>1
  <2> QED
    BY <1>3, <1>4, <1>5, <2>1, <2>2
<1> QED
  BY <1>4, <1>6, <1>7 DEF Fresh

\* Taking a chunk leaves the freshest.
LEMMA TailIsFreshest ==
    ASSUME TypeOK, QueueIsFreshest, queue # <<>>
    PROVE  /\ Tail(queue) \in Seq(Nat)
           /\ Len(Tail(queue)) <= QueueMax
           /\ \A i \in 1 .. Len(Tail(queue)) : Tail(queue)[i] = last - Len(Tail(queue)) + i
<1> USE AudioPumpAssumption DEF AudioPumpAssumption, TypeOK, QueueIsFreshest
<1>1. /\ Tail(queue) \in Seq(Nat) /\ Len(Tail(queue)) = Len(queue) - 1
      /\ \A i \in 1 .. Len(Tail(queue)) : Tail(queue)[i] = queue[i + 1]
  BY HeadTailProperties
<1> QED
  BY <1>1

\* Every variable keeps to its range.
LEMMA TypesKept ==
    ASSUME TypeOK, QueueIsFreshest, Bookkeeping, [Next]_vars
    PROVE  TypeOK'
<1> USE AudioPumpAssumption DEF AudioPumpAssumption, TypeOK,
        Pumps, Free, Other, pump_vars, main_vars
<1>1. ASSUME ChunkArrives PROVE TypeOK'
  BY <1>1, QueuedIsFreshest DEF ChunkArrives
<1>2. ASSUME NEW p \in Pumps, NEW n \in Numbers, Start(p, n) PROVE TypeOK'
  BY <1>2 DEF Start, NewPump
<1>3. ASSUME NEW p \in Pumps, NEW n \in Numbers, StartFails(p, n) PROVE TypeOK'
  BY <1>3 DEF StartFails, NewPump
<1>4. ASSUME FfmpegExits PROVE TypeOK'
  BY <1>4 DEF FfmpegExits
<1>5. ASSUME Reap PROVE TypeOK'
  BY <1>5 DEF Reap, Close
<1>6. ASSUME Finally PROVE TypeOK'
  BY <1>6 DEF Finally, Close
<1>7. ASSUME Terminated PROVE TypeOK'
  BY <1>7 DEF Terminated
<1>8. ASSUME NEW p \in Pumps, Prime(p) PROVE TypeOK'
  BY <1>8 DEF Prime, Submit
<1>9. ASSUME NEW p \in Pumps, TakeChunk(p) PROVE TypeOK'
  BY <1>9, TailIsFreshest DEF TakeChunk, Submit
<1>10. ASSUME NEW p \in Pumps, Written(p) PROVE TypeOK'
  BY <1>10 DEF Written
<1>11. ASSUME NEW p \in Pumps, WriteFailed(p) PROVE TypeOK'
  BY <1>11 DEF WriteFailed
<1>12. ASSUME NEW p \in Pumps, Cancelled(p) PROVE TypeOK'
  BY <1>12 DEF Cancelled
<1>13. ASSUME NEW p \in Pumps, PickedUp(p) PROVE TypeOK'
  BY <1>13 DEF PickedUp, ThreadGoes
<1>14. ASSUME NEW p \in Pumps, EntersWrite(p) PROVE TypeOK'
  <2>1. end[p] \in Numbers
    BY <1>14, WriterHasEnd DEF EntersWrite
  <2> QED
    BY <1>14, <2>1 DEF EntersWrite, ThreadGoes
<1>15. ASSUME NEW p \in Pumps, WriteEnds(p) PROVE TypeOK'
  BY <1>15 DEF WriteEnds, ThreadGoes
<1>16. ASSUME NEW p \in Pumps, ReaderGone(p) PROVE TypeOK'
  BY <1>16 DEF ReaderGone, ThreadGoes
<1>17. ASSUME NEW n \in Numbers, OthersOpen(n) PROVE TypeOK'
  BY <1>17 DEF OthersOpen
<1>18. ASSUME NEW n \in Numbers, OthersClose(n) PROVE TypeOK'
  BY <1>18 DEF OthersClose
<1>19. ASSUME UNCHANGED vars PROVE TypeOK'
  BY <1>19 DEF vars
<1> QED
  BY <1>1, <1>2, <1>3, <1>4, <1>5, <1>6, <1>7, <1>8, <1>9, <1>10, <1>11, <1>12, <1>13, <1>14, <1>15, <1>16, <1>17, <1>18, <1>19
     DEF Next, Task, Thread

\* Only the tap and the task that takes a chunk touch the queue.
LEMMA QueueKept ==
    ASSUME TypeOK, QueueIsFreshest, [Next]_vars
    PROVE  QueueIsFreshest'
<1> USE DEF QueueIsFreshest, pump_vars, main_vars
<1>1. ASSUME ChunkArrives PROVE QueueIsFreshest'
  <2>1. last' = last + 1 /\ queue' = Queued(last + 1)
    BY <1>1 DEF ChunkArrives
  <2>2. Fresh(Queued(last + 1), last + 1)
    BY QueuedIsFreshest
  <2>3. Fresh(queue, last)' <=> QueueIsFreshest'
    BY DEF Fresh
  <2> QED
    BY <2>1, <2>2, <2>3
<1>2. ASSUME NEW p \in Pumps, NEW n \in Numbers, Start(p, n) PROVE QueueIsFreshest'
  BY <1>2 DEF Start, NewPump
<1>3. ASSUME NEW p \in Pumps, NEW n \in Numbers, StartFails(p, n) PROVE QueueIsFreshest'
  BY <1>3 DEF StartFails, NewPump
<1>4. ASSUME FfmpegExits PROVE QueueIsFreshest'
  BY <1>4 DEF FfmpegExits
<1>5. ASSUME Reap PROVE QueueIsFreshest'
  BY <1>5 DEF Reap, Close
<1>6. ASSUME Finally PROVE QueueIsFreshest'
  BY <1>6 DEF Finally, Close
<1>7. ASSUME Terminated PROVE QueueIsFreshest'
  BY <1>7 DEF Terminated
<1>8. ASSUME NEW p \in Pumps, Prime(p) PROVE QueueIsFreshest'
  BY <1>8 DEF Prime, Submit
<1>9. ASSUME NEW p \in Pumps, TakeChunk(p) PROVE QueueIsFreshest'
  BY <1>9, TailIsFreshest DEF TakeChunk, Submit
<1>10. ASSUME NEW p \in Pumps, Written(p) PROVE QueueIsFreshest'
  BY <1>10 DEF Written
<1>11. ASSUME NEW p \in Pumps, WriteFailed(p) PROVE QueueIsFreshest'
  BY <1>11 DEF WriteFailed
<1>12. ASSUME NEW p \in Pumps, Cancelled(p) PROVE QueueIsFreshest'
  BY <1>12 DEF Cancelled
<1>13. ASSUME NEW p \in Pumps, PickedUp(p) PROVE QueueIsFreshest'
  BY <1>13 DEF PickedUp, ThreadGoes
<1>14. ASSUME NEW p \in Pumps, EntersWrite(p) PROVE QueueIsFreshest'
  BY <1>14 DEF EntersWrite, ThreadGoes
<1>15. ASSUME NEW p \in Pumps, WriteEnds(p) PROVE QueueIsFreshest'
  BY <1>15 DEF WriteEnds, ThreadGoes
<1>16. ASSUME NEW p \in Pumps, ReaderGone(p) PROVE QueueIsFreshest'
  BY <1>16 DEF ReaderGone, ThreadGoes
<1>17. ASSUME NEW n \in Numbers, OthersOpen(n) PROVE QueueIsFreshest'
  BY <1>17 DEF OthersOpen
<1>18. ASSUME NEW n \in Numbers, OthersClose(n) PROVE QueueIsFreshest'
  BY <1>18 DEF OthersClose
<1>19. ASSUME UNCHANGED vars PROVE QueueIsFreshest'
  BY <1>19 DEF vars
<1> QED
  BY <1>1, <1>2, <1>3, <1>4, <1>5, <1>6, <1>7, <1>8, <1>9, <1>10, <1>11, <1>12, <1>13, <1>14, <1>15, <1>16, <1>17, <1>18, <1>19
     DEF Next, Task, Thread

\* A free number goes to one pump, and close() gives back that of the pump at
\* hand, which is open and so has it.
LEMMA EndsKept ==
    ASSUME TypeOK, OpenPumpOwnsItsEnd, Bookkeeping, [Next]_vars
    PROVE  OpenPumpOwnsItsEnd'
<1> USE AudioPumpAssumption DEF AudioPumpAssumption, TypeOK,
        OpenPumpOwnsItsEnd, Bookkeeping, Pumps, Free, Other, pump_vars, main_vars
<1>1. ASSUME ChunkArrives PROVE OpenPumpOwnsItsEnd'
  BY <1>1 DEF ChunkArrives, Queued
<1>2. ASSUME NEW p \in Pumps, NEW n \in Numbers, Start(p, n) PROVE OpenPumpOwnsItsEnd'
  BY <1>2 DEF Start, NewPump
<1>3. ASSUME NEW p \in Pumps, NEW n \in Numbers, StartFails(p, n) PROVE OpenPumpOwnsItsEnd'
  BY <1>3 DEF StartFails, NewPump
<1>4. ASSUME FfmpegExits PROVE OpenPumpOwnsItsEnd'
  BY <1>4 DEF FfmpegExits
<1>5. ASSUME Reap PROVE OpenPumpOwnsItsEnd'
  <2>1. CASE current = 0
    BY <1>5, <2>1 DEF Reap
  <2>2. CASE current # 0
    <3>1. current \in Pumps /\ end[current] \in Numbers /\ table[end[current]] = current
      BY <1>5, <2>2 DEF Reap
    <3>2. ASSUME NEW q \in Pumps, q # current, end[q] # 0, ~closed[q]
          PROVE  end[q] # end[current]
      BY <3>1, <3>2
    <3>3. Close(current) /\ UNCHANGED <<end, thread, target>>
      BY <1>5, <2>2 DEF Reap
    <3> QED
      BY <2>2, <3>1, <3>2, <3>3 DEF Close
  <2> QED
    BY <2>1, <2>2
<1>6. ASSUME Finally PROVE OpenPumpOwnsItsEnd'
  <2>1. CASE current = 0
    BY <1>6, <2>1 DEF Finally
  <2>2. CASE current # 0
    <3>1. current \in Pumps /\ end[current] \in Numbers /\ table[end[current]] = current
      BY <1>6, <2>2 DEF Finally
    <3>2. ASSUME NEW q \in Pumps, q # current, end[q] # 0, ~closed[q]
          PROVE  end[q] # end[current]
      BY <3>1, <3>2
    <3>3. Close(current) /\ UNCHANGED <<end, thread, target>>
      BY <1>6, <2>2 DEF Finally
    <3> QED
      BY <2>2, <3>1, <3>2, <3>3 DEF Close
  <2> QED
    BY <2>1, <2>2
<1>7. ASSUME Terminated PROVE OpenPumpOwnsItsEnd'
  BY <1>7 DEF Terminated
<1>8. ASSUME NEW p \in Pumps, Prime(p) PROVE OpenPumpOwnsItsEnd'
  BY <1>8 DEF Prime, Submit
<1>9. ASSUME NEW p \in Pumps, TakeChunk(p) PROVE OpenPumpOwnsItsEnd'
  BY <1>9 DEF TakeChunk, Submit
<1>10. ASSUME NEW p \in Pumps, Written(p) PROVE OpenPumpOwnsItsEnd'
  BY <1>10 DEF Written
<1>11. ASSUME NEW p \in Pumps, WriteFailed(p) PROVE OpenPumpOwnsItsEnd'
  BY <1>11 DEF WriteFailed
<1>12. ASSUME NEW p \in Pumps, Cancelled(p) PROVE OpenPumpOwnsItsEnd'
  BY <1>12 DEF Cancelled
<1>13. ASSUME NEW p \in Pumps, PickedUp(p) PROVE OpenPumpOwnsItsEnd'
  BY <1>13 DEF PickedUp, ThreadGoes
<1>14. ASSUME NEW p \in Pumps, EntersWrite(p) PROVE OpenPumpOwnsItsEnd'
  <2>1. end[p] \in Numbers
    BY <1>14, WriterHasEnd DEF EntersWrite
  <2> QED
    BY <1>14, <2>1 DEF EntersWrite, ThreadGoes
<1>15. ASSUME NEW p \in Pumps, WriteEnds(p) PROVE OpenPumpOwnsItsEnd'
  BY <1>15 DEF WriteEnds, ThreadGoes
<1>16. ASSUME NEW p \in Pumps, ReaderGone(p) PROVE OpenPumpOwnsItsEnd'
  BY <1>16 DEF ReaderGone, ThreadGoes
<1>17. ASSUME NEW n \in Numbers, OthersOpen(n) PROVE OpenPumpOwnsItsEnd'
  BY <1>17 DEF OthersOpen
<1>18. ASSUME NEW n \in Numbers, OthersClose(n) PROVE OpenPumpOwnsItsEnd'
  BY <1>18 DEF OthersClose
<1>19. ASSUME UNCHANGED vars PROVE OpenPumpOwnsItsEnd'
  BY <1>19 DEF vars
<1> QED
  BY <1>1, <1>2, <1>3, <1>4, <1>5, <1>6, <1>7, <1>8, <1>9, <1>10, <1>11, <1>12, <1>13, <1>14, <1>15, <1>16, <1>17, <1>18, <1>19
     DEF Next, Task, Thread

\* What was made stays made, and only Finally closes the pump at hand.
LEMMA BookkeepingKept ==
    ASSUME TypeOK, Bookkeeping, [Next]_vars
    PROVE  Bookkeeping'
<1> USE AudioPumpAssumption DEF AudioPumpAssumption, TypeOK,
        Bookkeeping, Pumps, Free, Other, pump_vars, main_vars
<1>1. ASSUME ChunkArrives PROVE Bookkeeping'
  BY <1>1 DEF ChunkArrives, Queued
<1>2. ASSUME NEW p \in Pumps, NEW n \in Numbers, Start(p, n) PROVE Bookkeeping'
  BY <1>2 DEF Start, NewPump
<1>3. ASSUME NEW p \in Pumps, NEW n \in Numbers, StartFails(p, n) PROVE Bookkeeping'
  BY <1>3 DEF StartFails, NewPump
<1>4. ASSUME FfmpegExits PROVE Bookkeeping'
  BY <1>4 DEF FfmpegExits
<1>5. ASSUME Reap PROVE Bookkeeping'
  BY <1>5 DEF Reap, Close
<1>6. ASSUME Finally PROVE Bookkeeping'
  BY <1>6 DEF Finally, Close
<1>7. ASSUME Terminated PROVE Bookkeeping'
  BY <1>7 DEF Terminated
<1>8. ASSUME NEW p \in Pumps, Prime(p) PROVE Bookkeeping'
  BY <1>8 DEF Prime, Submit
<1>9. ASSUME NEW p \in Pumps, TakeChunk(p) PROVE Bookkeeping'
  BY <1>9 DEF TakeChunk, Submit
<1>10. ASSUME NEW p \in Pumps, Written(p) PROVE Bookkeeping'
  BY <1>10 DEF Written
<1>11. ASSUME NEW p \in Pumps, WriteFailed(p) PROVE Bookkeeping'
  BY <1>11 DEF WriteFailed
<1>12. ASSUME NEW p \in Pumps, Cancelled(p) PROVE Bookkeeping'
  BY <1>12 DEF Cancelled
<1>13. ASSUME NEW p \in Pumps, PickedUp(p) PROVE Bookkeeping'
  BY <1>13 DEF PickedUp, ThreadGoes
<1>14. ASSUME NEW p \in Pumps, EntersWrite(p) PROVE Bookkeeping'
  BY <1>14 DEF EntersWrite, ThreadGoes
<1>15. ASSUME NEW p \in Pumps, WriteEnds(p) PROVE Bookkeeping'
  BY <1>15 DEF WriteEnds, ThreadGoes
<1>16. ASSUME NEW p \in Pumps, ReaderGone(p) PROVE Bookkeeping'
  BY <1>16 DEF ReaderGone, ThreadGoes
<1>17. ASSUME NEW n \in Numbers, OthersOpen(n) PROVE Bookkeeping'
  BY <1>17 DEF OthersOpen
<1>18. ASSUME NEW n \in Numbers, OthersClose(n) PROVE Bookkeeping'
  BY <1>18 DEF OthersClose
<1>19. ASSUME UNCHANGED vars PROVE Bookkeeping'
  BY <1>19 DEF vars
<1> QED
  BY <1>1, <1>2, <1>3, <1>4, <1>5, <1>6, <1>7, <1>8, <1>9, <1>10, <1>11, <1>12, <1>13, <1>14, <1>15, <1>16, <1>17, <1>18, <1>19
     DEF Next, Task, Thread

\* No chunk, no pump.
LEMMA InitEstablishes == Init => IInv
<1> SUFFICES ASSUME Init PROVE IInv
  OBVIOUS
<1> USE AudioPumpAssumption DEF AudioPumpAssumption, Init, Pumps, Free, Other
<1>1. TypeOK
  <2>1. queue \in Seq(Nat)
    BY EmptySeq
  <2>2. alive \in BOOLEAN /\ over \in BOOLEAN /\ closed \in [Pumps -> BOOLEAN]
    OBVIOUS
  <2> QED
    BY <2>1, <2>2 DEF TypeOK
<1>2. QueueIsFreshest
  BY DEF QueueIsFreshest
<1>3. OpenPumpOwnsItsEnd /\ Bookkeeping
  BY DEF OpenPumpOwnsItsEnd, Bookkeeping
<1> QED
  BY <1>1, <1>2, <1>3 DEF IInv

\* The invariant always holds.
LEMMA IInvHolds == Spec => []IInv
<1>1. IInv /\ [Next]_vars => IInv'
  BY TypesKept, QueueKept, EndsKept, BookkeepingKept DEF IInv
<1> QED
  BY InitEstablishes, <1>1, PTL DEF Spec

\* Numbers, tasks, threads and the queue keep to their ranges.
THEOREM TypeCorrect == Spec => []TypeOK
<1>1. IInv => TypeOK
  BY DEF IInv
<1> QED
  BY <1>1, IInvHolds, PTL

\* Whoever takes chunks and however often ffmpeg is started, the queue is the
\* freshest audio in order (_rtp_forwarder.py:510-531).
THEOREM QueueStaysFresh == Spec => []QueueIsFreshest
<1>1. IInv => QueueIsFreshest
  BY DEF IInv
<1> QED
  BY <1>1, IInvHolds, PTL

\* A pump that is not closed has its descriptor to itself, whatever the rest of
\* the process opens and closes (_rtp_forwarder.py:369-373, 419-428).
THEOREM OpenPumpsOwnTheirEnds == Spec => []OpenPumpOwnsItsEnd
<1>1. IInv => OpenPumpOwnsItsEnd
  BY DEF IInv
<1> QED
  BY <1>1, IInvHolds, PTL
=============================================================================

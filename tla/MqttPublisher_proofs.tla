------------------------ MODULE MqttPublisher_proofs ------------------------
(***************************************************************************)
(* Theorems about MqttPublisher for every queue size, every number of      *)
(* connections and every number of device states.                          *)
(***************************************************************************)
EXTENDS MqttPublisher, SequenceTheorems, TLAPS

\* Only a connection that serves handles commands or publishes from the queue.
Idle ==
    /\ phase # "down" => client # 0
    /\ phase # "serving" => echo = NoEcho /\ inbox = <<>> /\ carrying = 0

\* From the echo at the connect on, the topic follows the mode.
ModeFollows ==
    /\ phase \in {"restore", "subscribe", "serving"} /\ echo = NoEcho => modeTopic = mode
    /\ echo # NoEcho => echo = mode

\* With an empty queue the newest state is at the broker, on its way there, or
\* taken by the pump of a lost connection.
StateFollows ==
    queue = <<>> =>
        IF carrying # 0
        THEN carrying = last \/ eaten = last
        ELSE phase \in {"subscribe", "serving"} => stateTopic = last \/ eaten = last

IInv == TypeOK /\ Idle /\ FreshestLast /\ ModeFollows /\ StateFollows

\* A state that is queued comes last, and the queue keeps its bound.
LEMMA CoalescedLast ==
    ASSUME TypeOK, NEW s \in States \ {0}
    PROVE  /\ Coalesced(s) \in Seq(States \ {0})
           /\ Len(Coalesced(s)) <= QueueMax
           /\ Coalesced(s) # <<>>
           /\ Coalesced(s)[Len(Coalesced(s))] = s
<1> USE MqttAssumption DEF MqttAssumption, TypeOK
<1> DEFINE kept == IF Len(queue) < QueueMax THEN queue ELSE Tail(queue)
<1>1. kept \in Seq(States \ {0}) /\ Len(kept) < QueueMax
  <2>1. CASE Len(queue) < QueueMax
    BY <2>1
  <2>2. CASE ~(Len(queue) < QueueMax)
    <3>1. queue # <<>>
      BY <2>2
    <3> QED
      BY <2>2, <3>1
  <2> QED
    BY <2>1, <2>2
<1>2. Coalesced(s) = Append(kept, s)
  BY DEF Coalesced
<1> HIDE DEF kept
<1> QED
  BY <1>1, <1>2

\* Taking the oldest state leaves the newest last, unless it was the only one.
LEMMA TakenHead ==
    ASSUME TypeOK, FreshestLast, queue # <<>>
    PROVE  /\ Head(queue) \in States \ {0}
           /\ Tail(queue) \in Seq(States \ {0})
           /\ Len(Tail(queue)) <= QueueMax
           /\ Tail(queue) = <<>> => Head(queue) = last
           /\ Tail(queue) # <<>> => Tail(queue)[Len(Tail(queue))] = last
<1> USE MqttAssumption DEF MqttAssumption, TypeOK, FreshestLast
<1>1. Head(queue) \in States \ {0} /\ Tail(queue) \in Seq(States \ {0}) /\ Len(Tail(queue)) = Len(queue) - 1
  OBVIOUS
<1>2. Len(queue) \in Nat \ {0} /\ Head(queue) = queue[1]
  BY EmptySeq
<1>3. \A i \in 1 .. Len(Tail(queue)) : Tail(queue)[i] = queue[i + 1]
  BY HeadTailProperties
<1>4. Tail(queue) # <<>> => Len(Tail(queue)) \in Nat \ {0}
  BY <1>1, EmptySeq
<1>5. Tail(queue) = <<>> => Len(Tail(queue)) = 0
  BY EmptySeq
<1> QED
  BY <1>1, <1>2, <1>3, <1>4, <1>5

\* Before the first connection nothing is queued and nothing published.
LEMMA InitEstablishes == Init => IInv
  BY MqttAssumption DEF MqttAssumption, Init, IInv, TypeOK, Idle, FreshestLast,
     ModeFollows, StateFollows, Phases, Clients, States, NoEcho

\* Every variable stays in its range.
LEMMA TypesKept == IInv /\ [Next]_vars => TypeOK'
<1> SUFFICES ASSUME IInv, [Next]_vars PROVE TypeOK'
  OBVIOUS
<1> USE MqttAssumption DEF MqttAssumption, IInv, TypeOK, Phases, Clients, States,
        command_vars, pump_vars, topic_vars
<1>1. CASE Connect
  BY <1>1 DEF Connect
<1>2. CASE AnnounceOnline \/ EchoMode \/ RestoreState
  <2>1. CASE AnnounceOnline
    BY <2>1 DEF AnnounceOnline
  <2>2. CASE EchoMode
    BY <2>2 DEF EchoMode
  <2>3. CASE RestoreState
    BY <2>3 DEF RestoreState
  <2> QED
    BY <1>2, <2>1, <2>2, <2>3
<1>3. CASE Subscribe
  BY <1>3 DEF Subscribe, Idle
<1>4. CASE ConnectionEnds
  <2>1. mode' \in Modes
    BY <1>4 DEF ConnectionEnds
  <2>2. modeTopic' \in Modes \cup {NoEcho} /\ stateTopic' \in States
    BY <1>4 DEF ConnectionEnds
  <2>3. wills' \subseteq Clients
    <3>1. client \in Clients
      BY <1>4 DEF ConnectionEnds, Idle
    <3>2. wills' \in {wills, wills \cup {client}}
      BY <1>4 DEF ConnectionEnds
    <3> QED
      BY <3>1, <3>2
  <2>4. availTopic' \in {"none", "online", "offline"}
    BY <1>4 DEF ConnectionEnds
  <2> QED
    BY <1>4, <2>1, <2>2, <2>3, <2>4 DEF ConnectionEnds
<1>5. CASE PublishState
  <2>1. last' \in States \ {0}
    BY <1>5 DEF PublishState
  <2> QED
    BY <1>5, <2>1, CoalescedLast DEF PublishState
<1>6. CASE PumpTakes
  BY <1>6, TakenHead DEF PumpTakes
<1>7. CASE PumpPublished
  BY <1>7 DEF PumpPublished, Idle
<1>8. ASSUME NEW c \in Clients, OrphanTakes(c) PROVE TypeOK'
  BY <1>8, TakenHead DEF OrphanTakes
<1>9. ASSUME NEW c \in Clients, WillFires(c) PROVE TypeOK'
  BY <1>9 DEF WillFires
<1>10. ASSUME NEW m \in Modes, Choose(m) PROVE TypeOK'
  <2>1. inbox' \in Seq(Modes) /\ Len(inbox') <= MaxInbox
    <3>1. CASE phase = "serving"
      <4>1. inbox' = Append(inbox, m) /\ Len(inbox) < MaxInbox
        BY <1>10, <3>1 DEF Choose
      <4> QED
        BY <4>1
    <3>2. CASE phase # "serving"
      BY <1>10, <3>2 DEF Choose
    <3> QED
      BY <3>1, <3>2
  <2> QED
    BY <1>10, <2>1 DEF Choose
<1>11. CASE ApplyMode
  BY <1>11 DEF ApplyMode
<1>12. CASE EchoPublished
  BY <1>12 DEF EchoPublished
<1>13. CASE UNCHANGED vars
  BY <1>13 DEF vars
<1> QED
  BY <1>1, <1>2, <1>3, <1>4, <1>5, <1>6, <1>7, <1>8, <1>9, <1>10, <1>11, <1>12, <1>13
  DEF Next

\* The topics keep following the mode and the newest state.
LEMMA TopicsFollow ==
    IInv /\ [Next]_vars => Idle' /\ FreshestLast' /\ ModeFollows' /\ StateFollows'
<1> SUFFICES ASSUME IInv, [Next]_vars
             PROVE  Idle' /\ FreshestLast' /\ ModeFollows' /\ StateFollows'
  OBVIOUS
<1> USE MqttAssumption DEF MqttAssumption, IInv, Idle, FreshestLast, ModeFollows,
        StateFollows, command_vars, pump_vars, topic_vars
<1>1. CASE Connect
  BY <1>1 DEF Connect, TypeOK
<1>2. CASE AnnounceOnline \/ EchoMode
  BY <1>2 DEF AnnounceOnline, EchoMode
<1>3. CASE RestoreState
  BY <1>3 DEF RestoreState
<1>4. CASE Subscribe
  BY <1>4 DEF Subscribe
<1>5. CASE ConnectionEnds
  BY <1>5 DEF ConnectionEnds
<1>6. CASE PublishState
  <2>1. last' \in States \ {0}
    BY <1>6 DEF PublishState, States, TypeOK
  <2>2. queue' # <<>> /\ queue'[Len(queue')] = last'
    BY <1>6, <2>1, CoalescedLast DEF PublishState
  <2> QED
    BY <1>6, <2>2 DEF PublishState
<1>7. CASE PumpTakes
  <2>1. phase = "serving" /\ queue' = Tail(queue) /\ carrying' = Head(queue)
        /\ UNCHANGED <<phase, client, mode, echo, inbox, last, eaten, modeTopic, stateTopic>>
    BY <1>7 DEF PumpTakes
  <2>2. queue # <<>>
    BY <1>7 DEF PumpTakes
  <2> QED
    BY <2>1, <2>2, TakenHead
<1>8. CASE PumpPublished
  BY <1>8 DEF PumpPublished
<1>9. ASSUME NEW c \in Clients, OrphanTakes(c)
      PROVE  Idle' /\ FreshestLast' /\ ModeFollows' /\ StateFollows'
  <2>1. /\ queue # <<>> /\ queue' = Tail(queue) /\ eaten' = Head(queue)
        /\ UNCHANGED <<phase, client, mode, echo, inbox, last, carrying, modeTopic, stateTopic>>
    BY <1>9 DEF OrphanTakes
  <2> QED
    BY <2>1, TakenHead
<1>10. ASSUME NEW c \in Clients, WillFires(c)
       PROVE  Idle' /\ FreshestLast' /\ ModeFollows' /\ StateFollows'
  BY <1>10 DEF WillFires
<1>11. ASSUME NEW m \in Modes, Choose(m)
       PROVE  Idle' /\ FreshestLast' /\ ModeFollows' /\ StateFollows'
  BY <1>11 DEF Choose
<1>12. CASE ApplyMode
  BY <1>12 DEF ApplyMode, TypeOK, NoEcho
<1>13. CASE EchoPublished
  BY <1>13 DEF EchoPublished
<1>14. CASE UNCHANGED vars
  BY <1>14 DEF vars
<1> QED
  BY <1>1, <1>2, <1>3, <1>4, <1>5, <1>6, <1>7, <1>8, <1>9, <1>10, <1>11, <1>12, <1>13,
     <1>14 DEF Next

\* IInv is inductive, so every reachable state satisfies it.
THEOREM Invariance == Spec => []IInv
<1>1. IInv /\ [Next]_vars => IInv'
  BY TypesKept, TopicsFollow DEF IInv
<1> QED
  BY <1>1, InitEstablishes, PTL DEF Spec

\* Type correctness of the MQTT task, with the bounds of its queues.
THEOREM TypeCorrect == Spec => []TypeOK
<1>1. IInv => TypeOK
  BY DEF IInv
<1> QED
  BY <1>1, Invariance, PTL

\* The freshest state is never the one a full queue drops.
THEOREM FreshestIsLast == Spec => []FreshestLast
<1>1. IInv => FreshestLast
  BY DEF IInv, StateFollows
<1> QED
  BY <1>1, Invariance, PTL

\* An idle connection's broker has the freshest state, unless the pump of a lost
\* connection took it.
THEOREM StatesReachBroker == Spec => []BrokerCatchesUp
<1>1. IInv => BrokerCatchesUp
  BY DEF IInv, StateFollows, BrokerCatchesUp
<1> QED
  BY <1>1, Invariance, PTL

\* Home Assistant's select shows the mode of the bridge.
THEOREM SelectIsRight == Spec => []SelectShowsMode
<1>1. IInv => SelectShowsMode
  BY DEF IInv, ModeFollows, SelectShowsMode
<1> QED
  BY <1>1, Invariance, PTL
-----------------------------------------------------------------------------
(* Whose wills are outstanding. *)

\* The wills the broker may still publish are those of connections that are lost.
WillsAreOld == \A c \in wills : c <= client /\ (phase # "down" => c < client)

LEMMA WillsStayOld == TypeOK /\ WillsAreOld /\ [Next]_vars => WillsAreOld'
<1> SUFFICES ASSUME TypeOK, WillsAreOld, [Next]_vars PROVE WillsAreOld'
  OBVIOUS
<1>1. client \in Nat /\ wills \subseteq Nat
  BY MqttAssumption DEF MqttAssumption, TypeOK, Clients
<1>2. CASE Connect
  BY <1>1, <1>2 DEF Connect, WillsAreOld
<1>3. CASE ConnectionEnds
  <2>1. phase # "down" /\ phase' = "down" /\ client' = client
    BY <1>3 DEF ConnectionEnds
  <2>2. wills' \subseteq wills \cup {client}
    BY <1>3, Zenon DEF ConnectionEnds
  <2> QED
    BY <1>1, <2>1, <2>2 DEF WillsAreOld
<1>4. ASSUME NEW c \in Clients, WillFires(c) PROVE WillsAreOld'
  BY <1>4 DEF WillFires, WillsAreOld
<1>5. CASE AnnounceOnline \/ EchoMode \/ RestoreState \/ Subscribe
  BY <1>5 DEF AnnounceOnline, EchoMode, RestoreState, Subscribe, WillsAreOld
<1>6. CASE \/ PublishState \/ PumpTakes \/ PumpPublished \/ ApplyMode \/ EchoPublished
           \/ UNCHANGED vars
  <2>1. UNCHANGED <<phase, client, wills>>
    BY <1>6 DEF PublishState, PumpTakes, PumpPublished, ApplyMode, EchoPublished, vars
  <2> QED
    BY <2>1 DEF WillsAreOld
<1>7. ASSUME NEW c \in Clients, OrphanTakes(c) PROVE WillsAreOld'
  BY <1>7 DEF OrphanTakes, WillsAreOld
<1>8. ASSUME NEW m \in Modes, Choose(m) PROVE WillsAreOld'
  BY <1>8 DEF Choose, WillsAreOld
<1> QED
  BY <1>2, <1>3, <1>4, <1>5, <1>6, <1>7, <1>8 DEF Next

\* Only the late will of an earlier connection hides a bridge that is connected.
THEOREM OnlyLateWillsHide == Spec => HiddenByLateWill
<1> DEFINE Late == phase # "down" /\ phase' # "down"
                   /\ availTopic = "online" /\ availTopic' # "online"
                   => \E c \in wills \ wills' : c < client
<1>1. WillsAreOld /\ [Next]_vars => [Late]_vars
  <2> SUFFICES ASSUME WillsAreOld, Next, phase # "down", phase' # "down",
                      availTopic = "online", availTopic' # "online"
               PROVE  \E c \in wills \ wills' : c < client
    OBVIOUS
  <2>1. PICK c \in Clients : WillFires(c)
    BY DEF Next, Connect, AnnounceOnline, EchoMode, RestoreState, Subscribe,
       ConnectionEnds, PublishState, PumpTakes, PumpPublished, OrphanTakes, Choose,
       ApplyMode, EchoPublished, topic_vars
  <2> QED
    BY <2>1 DEF WillFires, WillsAreOld
<1>2. Init => WillsAreOld
  BY DEF Init, WillsAreOld
<1> QED
  BY <1>1, <1>2, WillsStayOld, TypeCorrect, PTL DEF Spec, HiddenByLateWill
-----------------------------------------------------------------------------
(* Which states the queue has. *)

\* A state that is queued continues the window, which moves on when it is full.
LEMMA CoalescedWindow ==
    ASSUME TypeOK, QueueIsNewest, NEW s \in States \ {0}, s = last + 1
    PROVE  /\ Len(Coalesced(s)) \in Nat /\ Len(Coalesced(s)) <= Len(queue) + 1
           /\ \A i \in 1 .. Len(Coalesced(s)) : Coalesced(s)[i] = s - Len(Coalesced(s)) + i
<1> USE MqttAssumption DEF MqttAssumption, TypeOK, QueueIsNewest
<1> DEFINE kept == IF Len(queue) < QueueMax THEN queue ELSE Tail(queue)
<1>1. last \in Nat /\ Len(queue) \in Nat
  BY DEF States
<1>2. /\ kept \in Seq(States \ {0}) /\ Len(kept) \in Nat /\ Len(kept) <= Len(queue)
      /\ \A i \in 1 .. Len(kept) : kept[i] = last - Len(kept) + i
  <2>1. CASE Len(queue) < QueueMax
    BY <1>1, <2>1
  <2>2. CASE ~(Len(queue) < QueueMax)
    <3>1. queue # <<>>
      BY <2>2
    <3>2. Tail(queue) \in Seq(States \ {0}) /\ Len(Tail(queue)) = Len(queue) - 1
      BY <3>1
    <3>3. \A i \in 1 .. Len(Tail(queue)) : Tail(queue)[i] = queue[i + 1]
      BY <3>1, HeadTailProperties
    <3> QED
      BY <1>1, <2>2, <3>1, <3>2, <3>3
  <2> QED
    BY <2>1, <2>2
<1>3. Coalesced(s) = Append(kept, s)
  BY DEF Coalesced
<1> HIDE DEF kept
<1>4. /\ Len(Append(kept, s)) = Len(kept) + 1
      /\ Append(kept, s)[Len(kept) + 1] = s
      /\ \A i \in 1 .. Len(kept) : Append(kept, s)[i] = kept[i]
  BY <1>2, AppendProperties
<1>5. \A i \in 1 .. Len(kept) + 1 : Append(kept, s)[i] = s - (Len(kept) + 1) + i
  <2> SUFFICES ASSUME NEW i \in 1 .. Len(kept) + 1
               PROVE  Append(kept, s)[i] = s - (Len(kept) + 1) + i
    OBVIOUS
  <2>1. CASE i \in 1 .. Len(kept)
    BY <1>1, <1>2, <1>4, <2>1
  <2>2. CASE i = Len(kept) + 1
    BY <1>1, <1>2, <1>4, <2>2
  <2> QED
    BY <1>2, <2>1, <2>2
<1>6. Len(Coalesced(s)) = Len(kept) + 1
  BY <1>3, <1>4
<1> HIDE DEF TypeOK, QueueIsNewest
<1>7. Len(Coalesced(s)) \in Nat /\ Len(Coalesced(s)) <= Len(queue) + 1
  BY <1>1, <1>2, <1>6
<1>8. \A i \in 1 .. Len(Coalesced(s)) : Coalesced(s)[i] = s - Len(Coalesced(s)) + i
  BY <1>3, <1>5, <1>6
<1> QED
  BY <1>7, <1>8

\* The state that is taken is the oldest of the window and newer than any before it.
LEMMA TakenWindow ==
    ASSUME TypeOK, QueueIsNewest, queue # <<>>
    PROVE  /\ Len(Tail(queue)) = Len(queue) - 1
           /\ Head(queue) = last - Len(Tail(queue))
           /\ \A i \in 1 .. Len(Tail(queue)) : Tail(queue)[i] = last - Len(Tail(queue)) + i
<1> USE DEF TypeOK, QueueIsNewest
<1>1. last \in Nat /\ Len(queue) \in Nat \ {0}
  BY EmptySeq DEF States
<1>2. Len(Tail(queue)) = Len(queue) - 1 /\ Head(queue) = queue[1]
  OBVIOUS
<1>3. \A i \in 1 .. Len(Tail(queue)) : Tail(queue)[i] = queue[i + 1]
  BY HeadTailProperties
<1> QED
  BY <1>1, <1>2, <1>3

\* The queue is the newest states and no other, and every state leaves it once and
\* in its turn.
THEOREM QueueIsAWindow == Spec => []QueueIsNewest
<1>1. Init => QueueIsNewest
  BY DEF Init, QueueIsNewest
<1>2. TypeOK /\ QueueIsNewest /\ [Next]_vars => QueueIsNewest'
  <2> SUFFICES ASSUME TypeOK, QueueIsNewest, [Next]_vars PROVE QueueIsNewest'
    OBVIOUS
  <2>0. last \in Nat /\ carrying \in Nat /\ eaten \in Nat /\ Len(queue) \in Nat
    BY MqttAssumption DEF MqttAssumption, TypeOK, States
  <2>1. CASE PublishState
    <3>1. last' = last + 1 /\ last' \in States \ {0} /\ queue' = Coalesced(last')
          /\ UNCHANGED <<carrying, eaten>>
      BY <2>1, MqttAssumption DEF MqttAssumption, PublishState, TypeOK, States
    <3> DEFINE s == last'
    <3>2. /\ Len(Coalesced(s)) \in Nat /\ Len(Coalesced(s)) <= Len(queue) + 1
          /\ \A i \in 1 .. Len(Coalesced(s)) : Coalesced(s)[i] = s - Len(Coalesced(s)) + i
      BY <3>1, CoalescedWindow
    <3> QED
      BY <2>0, <3>1, <3>2 DEF QueueIsNewest
  <2>2. CASE PumpTakes
    <3>1. queue # <<>> /\ queue' = Tail(queue) /\ carrying' = Head(queue)
          /\ UNCHANGED <<last, eaten>>
      BY <2>2 DEF PumpTakes
    <3> QED
      BY <2>0, <3>1, TakenWindow DEF QueueIsNewest
  <2>3. ASSUME NEW c \in Clients, OrphanTakes(c) PROVE QueueIsNewest'
    <3>1. queue # <<>> /\ queue' = Tail(queue) /\ eaten' = Head(queue)
          /\ UNCHANGED <<last, carrying>>
      BY <2>3 DEF OrphanTakes
    <3> QED
      BY <2>0, <3>1, TakenWindow DEF QueueIsNewest
  <2>4. CASE /\ UNCHANGED <<queue, last>>
             /\ carrying' \in {0, carrying} /\ eaten' \in {0, eaten}
    <3>1. CASE queue = <<>>
      BY <2>0, <2>4, <3>1 DEF QueueIsNewest
    <3>2. CASE queue # <<>>
      <4>1. queue[1] \in States \ {0} /\ queue[1] = last - Len(queue) + 1
        BY <2>0, <3>2, EmptySeq DEF TypeOK, QueueIsNewest
      <4>2. last - Len(queue) >= 0
        BY <2>0, <4>1, MqttAssumption DEF MqttAssumption, States
      <4> QED
        BY <2>0, <2>4, <4>2 DEF QueueIsNewest
    <3> QED
      BY <3>1, <3>2
  <2>5. ASSUME Next \/ UNCHANGED vars, ~PublishState, ~PumpTakes,
               \A c \in Clients : ~OrphanTakes(c)
        PROVE  /\ UNCHANGED <<queue, last>>
               /\ carrying' \in {0, carrying} /\ eaten' \in {0, eaten}
    BY <2>5 DEF Next, Connect, AnnounceOnline, EchoMode, RestoreState, Subscribe,
       ConnectionEnds, PumpPublished, WillFires, Choose, ApplyMode, EchoPublished,
       vars, command_vars, pump_vars, topic_vars
  <2> QED
    BY <2>1, <2>2, <2>3, <2>4, <2>5
<1> QED
  BY <1>1, <1>2, TypeCorrect, PTL DEF Spec
-----------------------------------------------------------------------------
(* Refinement of StateFeed. *)

\* A pump that waits carries nothing.
FeedInv == IInv /\ QueueIsNewest /\ (client \in waiting => carrying = 0)

Pending == {queue[i] : i \in 1 .. Len(queue)} \cup ({carrying} \ {0})

\* An interval up to the newest state, and what the pump carries.
PendingShape == Pending = (last - Len(queue) + 1 .. last) \cup ({carrying} \ {0})

\* What may still go out has this shape.
LEMMA PendingIsAnInterval == TypeOK /\ QueueIsNewest => PendingShape
<1> SUFFICES ASSUME TypeOK, QueueIsNewest PROVE PendingShape
  OBVIOUS
<1>1. last \in Nat /\ Len(queue) \in Nat
  BY DEF TypeOK, States
<1>2. \A i \in 1 .. Len(queue) : queue[i] = last - Len(queue) + i
  BY DEF QueueIsNewest
<1>3. \A x \in last - Len(queue) + 1 .. last :
         /\ x - (last - Len(queue)) \in 1 .. Len(queue)
         /\ queue[x - (last - Len(queue))] = x
  BY <1>1, <1>2
<1>4. \A i \in 1 .. Len(queue) : queue[i] \in last - Len(queue) + 1 .. last
  BY <1>1, <1>2
<1> QED
  BY <1>3, <1>4 DEF Pending, PendingShape

\* The window is never longer than what there is to see.
LEMMA WindowIsPositive ==
    ASSUME TypeOK, QueueIsNewest
    PROVE  last \in Nat /\ Len(queue) \in Nat /\ Len(queue) <= last
<1>1. last \in Nat /\ Len(queue) \in Nat
  BY DEF TypeOK, States
<1>2. CASE queue = <<>>
  BY <1>1, <1>2
<1>3. CASE queue # <<>>
  <2>1. queue[1] \in States \ {0} /\ queue[1] = last - Len(queue) + 1
    BY <1>1, <1>3, EmptySeq DEF TypeOK, QueueIsNewest
  <2> QED
    BY <1>1, <2>1, MqttAssumption DEF MqttAssumption, States
<1> QED
  BY <1>2, <1>3

\* A full queue keeps its length.
LEMMA CoalescedLength ==
    ASSUME TypeOK, NEW s \in States \ {0}
    PROVE  Len(Coalesced(s)) = IF Len(queue) < QueueMax THEN Len(queue) + 1 ELSE Len(queue)
<1> USE MqttAssumption DEF MqttAssumption, TypeOK
<1>1. CASE Len(queue) < QueueMax
  BY <1>1 DEF Coalesced
<1>2. CASE ~(Len(queue) < QueueMax)
  <2>1. queue # <<>>
    BY <1>2
  <2>2. Tail(queue) \in Seq(States \ {0}) /\ Len(Tail(queue)) = Len(queue) - 1
    BY <2>1
  <2>3. Coalesced(s) = Append(Tail(queue), s)
    BY <1>2 DEF Coalesced
  <2> QED
    BY <1>2, <2>2, <2>3, AppendProperties
<1> QED
  BY <1>1, <1>2

\* A pump waits again when it has published, and a connection begins without one.
LEMMA WaitingIsFree ==
    IInv /\ (client \in waiting => carrying = 0) /\ [Next]_vars
      => (client \in waiting => carrying = 0)'
<1> SUFFICES ASSUME IInv, client \in waiting => carrying = 0, [Next]_vars
             PROVE  (client \in waiting => carrying = 0)'
  OBVIOUS
<1> USE DEF IInv, Idle, command_vars, pump_vars, topic_vars
<1>1. CASE Connect \/ Subscribe
  BY <1>1 DEF Connect, Subscribe
<1>2. CASE AnnounceOnline \/ EchoMode \/ RestoreState
  BY <1>2 DEF AnnounceOnline, EchoMode, RestoreState
<1>3. CASE ConnectionEnds
  BY <1>3 DEF ConnectionEnds
<1>4. CASE PublishState
  BY <1>4 DEF PublishState
<1>5. CASE PumpTakes \/ PumpPublished
  BY <1>5 DEF PumpTakes, PumpPublished
<1>6. ASSUME NEW c \in Clients, OrphanTakes(c) \/ WillFires(c)
      PROVE  (client \in waiting => carrying = 0)'
  BY <1>6 DEF OrphanTakes, WillFires
<1>7. ASSUME NEW m \in Modes, Choose(m) PROVE (client \in waiting => carrying = 0)'
  BY <1>7 DEF Choose
<1>8. CASE ApplyMode \/ EchoPublished
  BY <1>8 DEF ApplyMode, EchoPublished
<1>9. CASE UNCHANGED vars
  BY <1>9 DEF vars
<1> QED
  BY <1>1, <1>2, <1>3, <1>4, <1>5, <1>6, <1>7, <1>8, <1>9 DEF Next

\* Every step of the task is one of the feed, or changes nothing it sees.
LEMMA FeedStep ==
    FeedInv /\ [Next]_vars /\ FeedInv' => [Feed!Next]_(Feed!vars)
<1> SUFFICES ASSUME FeedInv, FeedInv', [Next]_vars PROVE [Feed!Next]_(Feed!vars)
  OBVIOUS
<1> DEFINE low == last - Len(queue)
           held == {carrying} \ {0}
<1>1. /\ last \in Nat /\ Len(queue) \in Nat /\ low \in Nat
      /\ carrying \in Nat /\ carrying <= low
      /\ Pending = (low + 1 .. last) \cup held
  <2>1. TypeOK /\ QueueIsNewest
    BY DEF FeedInv, IInv
  <2>2. last \in Nat /\ Len(queue) \in Nat /\ Len(queue) <= last
    BY <2>1, WindowIsPositive
  <2>3. carrying \in Nat /\ carrying <= last - Len(queue)
    BY <2>1 DEF TypeOK, States, QueueIsNewest
  <2>4. Pending = (low + 1 .. last) \cup held
    BY <2>1, PendingIsAnInterval DEF PendingShape
  <2> QED
    BY <2>2, <2>3, <2>4
<1>2. TypeOK' /\ QueueIsNewest'
  BY DEF FeedInv, IInv
<1>3. Pending' = (last' - Len(queue') + 1 .. last') \cup ({carrying'} \ {0})
  <2>1. PendingShape'
    BY <1>2, PendingIsAnInterval, PTL
  <2> QED
    BY <2>1 DEF PendingShape
<1>4. CASE PublishState
  <2>1. /\ last' = last + 1 /\ last' \in States \ {0} /\ queue' = Coalesced(last')
        /\ UNCHANGED <<carrying, stateTopic>>
    BY <1>4, <1>1, MqttAssumption DEF MqttAssumption, PublishState, States, topic_vars
  <2>2. Len(queue') = Len(queue) + 1 \/ (Len(queue') = Len(queue) /\ Len(queue) > 0)
    BY <2>1, CoalescedLength, <1>1, MqttAssumption DEF MqttAssumption, FeedInv, IInv
  <2>3. CASE Len(queue') = Len(queue) + 1
    <3>1. Pending' = (low + 1 .. last + 1) \cup held
      BY <1>1, <1>3, <2>1, <2>3
    <3>2. Pending' = Pending \cup {last'}
      BY <1>1, <2>1, <3>1
    <3> QED
      BY <2>1, <3>2 DEF Feed!Next, Feed!Read, Pending
  <2>4. CASE Len(queue') = Len(queue) /\ Len(queue) > 0
    <3>1. Pending' = (low + 2 .. last + 1) \cup held
      BY <1>1, <1>3, <2>1, <2>4
    <3>2. low + 1 \in Pending /\ low + 1 \notin held
      BY <1>1, <2>4
    <3>3. Pending' = (Pending \ {low + 1}) \cup {last'}
      BY <1>1, <2>1, <3>1, <3>2
    <3> QED
      BY <2>1, <3>2, <3>3 DEF Feed!Next, Feed!Read, Pending
  <2> QED
    BY <2>2, <2>3, <2>4
<1>5. CASE PumpTakes
  <2>1. /\ queue # <<>> /\ carrying = 0 /\ carrying' = Head(queue) /\ queue' = Tail(queue)
        /\ UNCHANGED <<last, stateTopic>>
    BY <1>5 DEF PumpTakes, FeedInv, topic_vars
  <2>2. Len(queue') = Len(queue) - 1 /\ carrying' = low + 1 /\ Len(queue) > 0
    BY <1>1, <2>1, TakenWindow, EmptySeq DEF FeedInv, IInv, TypeOK
  <2>3. Pending' = (low + 2 .. last) \cup {low + 1}
    BY <1>1, <1>3, <2>1, <2>2
  <2>4. Pending' = Pending
    BY <1>1, <2>1, <2>2, <2>3
  <2> QED
    BY <2>1, <2>4 DEF Feed!vars, Pending
<1>6. ASSUME carrying # 0, UNCHANGED <<queue, last>>, carrying' = 0,
             stateTopic' \in {stateTopic, carrying}
      PROVE  Feed!Next
  <2>1. carrying \in Pending /\ \A t \in Pending : carrying <= t
    BY <1>1, <1>6
  <2>2. Pending' = Pending \ {carrying}
    BY <1>1, <1>3, <1>6
  <2>3. CASE stateTopic' = carrying
    BY <1>6, <2>1, <2>2, <2>3 DEF Feed!Next, Feed!Show, Pending
  <2>4. CASE stateTopic' = stateTopic
    BY <1>6, <2>1, <2>2, <2>4 DEF Feed!Next, Feed!Lose, Pending
  <2> QED
    BY <1>6, <2>3, <2>4
<1>7. CASE PumpPublished
  <2>1. carrying # 0 /\ UNCHANGED <<queue, last>> /\ carrying' = 0 /\ stateTopic' = carrying
    BY <1>7 DEF PumpPublished
  <2> QED
    BY <1>6, <2>1
<1>8. CASE ConnectionEnds
  <2>1. /\ UNCHANGED <<queue, last>> /\ carrying' = 0
        /\ stateTopic' \in {stateTopic} \cup ({carrying} \ {0})
    BY <1>8 DEF ConnectionEnds
  <2>2. CASE carrying = 0
    BY <2>1, <2>2 DEF Feed!vars
  <2>3. CASE carrying # 0
    BY <1>6, <2>1, <2>3
  <2> QED
    BY <2>2, <2>3
<1>9. ASSUME NEW c \in Clients, OrphanTakes(c) PROVE Feed!Next
  <2>1. queue # <<>> /\ queue' = Tail(queue) /\ UNCHANGED <<last, carrying, stateTopic>>
    BY <1>9 DEF OrphanTakes, topic_vars
  <2>2. Len(queue') = Len(queue) - 1 /\ Len(queue) > 0
    BY <1>1, <2>1, TakenWindow, EmptySeq DEF FeedInv, IInv, TypeOK
  <2>3. Pending' = (low + 2 .. last) \cup held
    BY <1>1, <1>3, <2>1, <2>2
  <2>4. low + 1 \in Pending /\ low + 1 \notin held
    BY <1>1, <2>2
  <2>5. Pending' = Pending \ {low + 1}
    BY <1>1, <2>2, <2>3, <2>4
  <2> QED
    BY <2>1, <2>4, <2>5 DEF Feed!Next, Feed!Lose, Pending
<1>10. CASE RestoreState
  <2>1. UNCHANGED <<queue, last, carrying>> /\ stateTopic' = IF last = 0 THEN stateTopic ELSE last
    BY <1>10 DEF RestoreState
  <2> QED
    BY <2>1 DEF Feed!Next, Feed!ShowAgain, Feed!vars
<1>11. ASSUME Next \/ UNCHANGED vars, ~PublishState, ~PumpTakes, ~PumpPublished,
              ~ConnectionEnds, ~RestoreState, \A c \in Clients : ~OrphanTakes(c)
       PROVE  UNCHANGED <<queue, last, carrying, stateTopic>>
  BY <1>11 DEF Next, Connect, AnnounceOnline, EchoMode, Subscribe, WillFires, Choose,
     ApplyMode, EchoPublished, vars, command_vars, pump_vars, topic_vars
<1>12. UNCHANGED <<queue, last, carrying, stateTopic>> => UNCHANGED Feed!vars
  BY DEF Feed!vars
<1> QED
  BY <1>4, <1>5, <1>7, <1>8, <1>9, <1>10, <1>11, <1>12 DEF Feed!Next

\* The MQTT task feeds the topic in turn, whatever the size of its queue, however
\* often it reconnects and however many pumps it leaves behind.
THEOREM FeedRefinement == Spec => FeedsInTurn
<1>1. Init => Feed!Init
  BY EmptySeq DEF Init, Feed!Init
<1>2. Init => (client \in waiting => carrying = 0)
  BY DEF Init
<1>3. FeedInv /\ [Next]_vars /\ FeedInv' => [Feed!Next]_(Feed!vars)
  BY FeedStep
<1> QED
  BY <1>1, <1>2, <1>3, Invariance, QueueIsAWindow, WaitingIsFree, PTL
     DEF Spec, FeedsInTurn, Feed!Spec, FeedInv
=============================================================================

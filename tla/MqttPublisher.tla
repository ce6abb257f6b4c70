--------------------------- MODULE MqttPublisher ---------------------------
(***************************************************************************)
(* The MQTT task of mqtt_control.py: _run connects again and again,        *)
(* _on_connect announces and subscribes, and _serve runs a pump, which     *)
(* takes device states from a bounded queue, beside a handler of mode      *)
(* commands.  asyncio.gather gives up at the first exception of the two    *)
(* and leaves the other running, so the pump of a lost connection goes on  *)
(* waiting at the queue.  What a mode does to the bridge is BridgeLoop's.  *)
(*                                                                         *)
(* A device state is its number.  The broker and its retained topics, Home *)
(* Assistant (which offers the select only while the bridge is available)  *)
(* and aiomqtt are external.  Discovery never changes and is left out.     *)
(***************************************************************************)
EXTENDS Integers, Sequences

CONSTANTS
    Modes,      \* MODES
    QueueMax,   \* maxsize of _state_q
    MaxConns,   \* bound: connections opened
    MaxStates,  \* bound: device states published
    MaxInbox    \* bound: commands aiomqtt holds for the handler

ASSUME MqttAssumption ==
    /\ Modes # {} /\ "none" \notin Modes
    /\ QueueMax \in Nat \ {0}
    /\ MaxConns \in Nat \ {0}
    /\ MaxStates \in Nat \ {0}
    /\ MaxInbox \in Nat \ {0}

Clients == 1 .. MaxConns
States == 0 .. MaxStates   \* 0: no state yet
NoEcho == "none"

VARIABLES
    phase,       \* where _run is: down, in one of the awaits of _on_connect, serving
    client,      \* the connection at hand or the last one
    mode,        \* _mode
    echo,        \* the mode whose echo the handler is publishing
    inbox,       \* commands that have arrived and wait for the handler
    queue,       \* _state_q
    last,        \* _last_state
    waiting,     \* connections whose pump waits in _state_q.get()
    carrying,    \* the state the pump of this connection is publishing
    availTopic, modeTopic, stateTopic,   \* retained by the broker
    wills,       \* lost connections the broker still takes for alive
    eaten        \* history: newest state a pump of a lost connection has taken
                 \* since the last state was republished

command_vars == <<mode, echo, inbox>>
pump_vars == <<queue, last, waiting, carrying, eaten>>
topic_vars == <<availTopic, modeTopic, stateTopic>>
vars == <<phase, client, command_vars, pump_vars, topic_vars, wills>>

Phases == {"down", "announce", "echo", "restore", "subscribe", "serving"}

TypeOK ==
    /\ phase \in Phases
    /\ client \in 0 .. MaxConns
    /\ mode \in Modes
    /\ echo \in Modes \cup {NoEcho}
    /\ inbox \in Seq(Modes) /\ Len(inbox) <= MaxInbox
    /\ queue \in Seq(States \ {0}) /\ Len(queue) <= QueueMax
    /\ last \in States /\ carrying \in States /\ eaten \in States
    /\ waiting \subseteq Clients
    /\ availTopic \in {"none", "online", "offline"}
    /\ modeTopic \in Modes \cup {NoEcho}
    /\ stateTopic \in States
    /\ wills \subseteq Clients

-----------------------------------------------------------------------------
(* Connecting. *)

Connect ==
    /\ phase = "down" /\ client < MaxConns
    /\ phase' = "announce" /\ client' = client + 1
    /\ UNCHANGED <<command_vars, pump_vars, topic_vars, wills>>

AnnounceOnline ==
    /\ phase = "announce"
    /\ phase' = "echo"
    /\ availTopic' = "online"
    /\ UNCHANGED <<client, command_vars, pump_vars, modeTopic, stateTopic, wills>>

\* Mutant: the mode is echoed when it changes and at no other time.
EchoMode_firstOnly ==
    /\ phase = "echo"
    /\ phase' = "restore"
    /\ modeTopic' = IF client = 1 THEN mode ELSE modeTopic
    /\ UNCHANGED <<client, command_vars, pump_vars, availTopic, stateTopic, wills>>

EchoMode ==
    /\ phase = "echo"
    /\ phase' = "restore"
    /\ modeTopic' = mode
    /\ UNCHANGED <<client, command_vars, pump_vars, availTopic, stateTopic, wills>>

\* Mutant: a reconnect does not publish the last state again.
RestoreState_skips ==
    /\ phase = "restore"
    /\ phase' = "subscribe"
    /\ eaten' = 0
    /\ UNCHANGED <<client, command_vars, queue, last, waiting, carrying, topic_vars, wills>>

\* _last_state, when there is one.
RestoreState ==
    /\ phase = "restore"
    /\ phase' = "subscribe"
    /\ stateTopic' = IF last = 0 THEN stateTopic ELSE last
    /\ eaten' = 0
    /\ UNCHANGED <<client, command_vars, queue, last, waiting, carrying, availTopic,
                   modeTopic, wills>>

\* The subscription is there; the pump and the handler of _serve start.
Subscribe ==
    /\ phase = "subscribe"
    /\ phase' = "serving"
    /\ waiting' = waiting \cup {client}
    /\ UNCHANGED <<client, command_vars, queue, last, carrying, eaten, topic_vars, wills>>

\* An exception anywhere in the connection.  What was being published may have
\* reached the broker, a command that had arrived may still be applied by the
\* handler that is left behind, and the broker gets to know at once, or late, or
\* (a DISCONNECT goes out after a publish that timed out) leaves the topic alone.
\* The pump, if it waits, keeps waiting; if it publishes, it dies.
ConnectionEnds ==
    /\ phase # "down"
    /\ phase' = "down"
    /\ modeTopic' \in {modeTopic} \cup ({echo} \ {NoEcho})
    /\ stateTopic' \in {stateTopic} \cup ({carrying} \ {0})
    /\ mode' \in {mode} \cup {Head(inbox) : i \in {1} \cap DOMAIN inbox}
    /\ echo' = NoEcho /\ inbox' = <<>> /\ carrying' = 0
    /\ \/ availTopic' = "offline" /\ UNCHANGED wills
       \/ wills' = wills \cup {client} /\ UNCHANGED availTopic
       \/ UNCHANGED <<availTopic, wills>>
    /\ UNCHANGED <<client, queue, last, waiting, eaten>>

\* The broker gives a lost connection up and publishes its will.
WillFires(c) ==
    /\ c \in wills
    /\ wills' = wills \ {c}
    /\ availTopic' = "offline"
    /\ UNCHANGED <<phase, client, command_vars, pump_vars, modeTopic, stateTopic>>

-----------------------------------------------------------------------------
(* Device states. *)

\* Mutant: a full queue drops the newest state.
Coalesced_dropsNewest(s) == IF Len(queue) < QueueMax THEN Append(queue, s) ELSE queue

\* A full queue drops the oldest state.
Coalesced(s) ==
    Append(IF Len(queue) < QueueMax THEN queue ELSE Tail(queue), s)

\* publish_state, in whatever phase the connection is.
PublishState ==
    /\ last < MaxStates
    /\ last' = last + 1
    /\ queue' = Coalesced(last')
    /\ UNCHANGED <<phase, client, command_vars, waiting, carrying, eaten, topic_vars, wills>>

PumpTakes ==
    /\ phase = "serving" /\ client \in waiting /\ queue # <<>>
    /\ carrying' = Head(queue) /\ queue' = Tail(queue)
    /\ waiting' = waiting \ {client}
    /\ UNCHANGED <<phase, client, command_vars, last, eaten, topic_vars, wills>>

\* Mutant: the pump publishes one state and ends.
PumpPublished_once ==
    /\ carrying # 0
    /\ stateTopic' = carrying /\ carrying' = 0
    /\ UNCHANGED <<phase, client, command_vars, queue, last, waiting, eaten, availTopic,
                   modeTopic, wills>>

PumpPublished ==
    /\ carrying # 0
    /\ stateTopic' = carrying /\ carrying' = 0
    /\ waiting' = waiting \cup {client}
    /\ UNCHANGED <<phase, client, command_vars, queue, last, eaten, availTopic,
                   modeTopic, wills>>

\* The pump of a lost connection is woken instead: publishing on its client
\* raises at once, and the pump ends with the state it took.
OrphanTakes(c) ==
    /\ c \in waiting /\ (c = client => phase # "serving")
    /\ queue # <<>>
    /\ eaten' = Head(queue) /\ queue' = Tail(queue)
    /\ waiting' = waiting \ {c}
    /\ UNCHANGED <<phase, client, command_vars, last, carrying, topic_vars, wills>>

-----------------------------------------------------------------------------
(* Mode commands. *)

\* The operator chooses a mode.  The discovered select does not ask for retained
\* commands, so one that is sent while nobody is subscribed, as between the
\* announcement and the subscription, is gone and changes nothing.
Choose(m) ==
    /\ availTopic = "online" /\ phase = "serving"
    /\ Len(inbox) < MaxInbox
    /\ inbox' = Append(inbox, m)
    /\ UNCHANGED <<phase, client, mode, echo, pump_vars, topic_vars, wills>>

\* _apply_mode up to its publish; a payload that is no mode changes nothing.
ApplyMode ==
    /\ phase = "serving" /\ echo = NoEcho /\ inbox # <<>>
    /\ mode' = Head(inbox) /\ echo' = Head(inbox)
    /\ inbox' = Tail(inbox)
    /\ UNCHANGED <<phase, client, pump_vars, topic_vars, wills>>

EchoPublished ==
    /\ echo # NoEcho
    /\ modeTopic' = echo /\ echo' = NoEcho
    /\ UNCHANGED <<phase, client, mode, inbox, pump_vars, availTopic, stateTopic,
                   wills>>

-----------------------------------------------------------------------------
Init ==
    /\ phase = "down" /\ client = 0
    /\ mode \in Modes
    /\ echo = NoEcho /\ inbox = <<>>
    /\ queue = <<>> /\ last = 0
    /\ waiting = {} /\ carrying = 0 /\ eaten = 0
    /\ availTopic = "none" /\ modeTopic = NoEcho /\ stateTopic = 0
    /\ wills = {}

Next ==
    \/ Connect \/ AnnounceOnline \/ EchoMode \/ RestoreState \/ Subscribe
    \/ ConnectionEnds
    \/ PublishState \/ PumpTakes \/ PumpPublished
    \/ \E c \in Clients : OrphanTakes(c) \/ WillFires(c)
    \/ \E m \in Modes : Choose(m)
    \/ ApplyMode \/ EchoPublished

Spec == Init /\ [][Next]_vars

\* The event loop runs the tasks of a connection; a publish is acknowledged or
\* ends the connection.  Connections need not last.
Fairness ==
    /\ WF_vars(AnnounceOnline \/ EchoMode \/ RestoreState \/ Subscribe)
    /\ WF_vars(PumpTakes \/ PumpPublished)
    /\ WF_vars(ApplyMode \/ EchoPublished)

FairSpec == Spec /\ Fairness

-----------------------------------------------------------------------------
(* Properties. *)

\* However long an outage and however full the queue, the newest state is the
\* last that will be published: the one thing a full queue never drops is the
\* freshest reading (mqtt_control.py:271-279).
FreshestLast == queue # <<>> => queue[Len(queue)] = last

\* The queue is a window on the newest states, without a gap, and what a pump has
\* taken from it is older than all of it: no overflow, and no pump that a lost
\* connection left behind, makes one to be taken twice or after a newer one
\* (mqtt_control.py:271-279, 322-339).
QueueIsNewest ==
    /\ \A i \in 1 .. Len(queue) : queue[i] = last - Len(queue) + i
    /\ carrying <= last - Len(queue)
    /\ eaten <= last - Len(queue)

\* The readings that may still go out, in the queue or in the hands of the pump.
Feed == INSTANCE StateFeed
        WITH newest <- last, shown <- stateTopic,
             pending <- {queue[i] : i \in 1 .. Len(queue)} \cup ({carrying} \ {0})

\* Through overflows, reconnects and the pumps they leave behind, a state goes out
\* in its turn and once, but for the last one, which a reconnect repeats
\* (mqtt_control.py:271-279, 312-332).
FeedsInTurn == Feed!Spec

\* A bridge that has announced itself goes offline for Home Assistant, while it is
\* connected, only by the will of a connection before this one, which the broker
\* had still taken for alive; its own never fires (mqtt_control.py:289-291, 306).
HiddenByLateWill ==
    [][phase # "down" /\ phase' # "down" /\ availTopic = "online" /\ availTopic' # "online"
       => \E c \in wills \ wills' : c < client]_vars

\* When a connection has nothing left to publish the broker has the newest state,
\* be it through the queue or through the reconnect, unless that very state went
\* to the pump of a lost connection (mqtt_control.py:316-317, 322-325).
BrokerCatchesUp ==
    phase = "serving" /\ queue = <<>> /\ carrying = 0
        => stateTopic = last \/ eaten = last

\* Home Assistant's select shows the mode the bridge is in whenever no command is
\* being handled, also when the mode changed as a connection broke and its echo
\* was lost (mqtt_control.py:315, 359).
SelectShowsMode == phase = "serving" /\ echo = NoEcho => modeTopic = mode

\* On a connection that lasts the broker ends up with the newest state.
SettlesFresh ==
    <>[](phase = "serving") => <>[](stateTopic = last \/ eaten = last)
=============================================================================

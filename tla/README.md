# Verification of birdfy-bridge

birdfy-bridge is one Python process (asyncio, one thread for the event loop) beside a MediaMTX server in one container. It
logs in to the Birdfy cloud, negotiates a WebRTC session with a camera and forwards the H.264 it receives to `ffmpeg`,
which publishes it to MediaMTX as RTSP. Home Assistant switches its mode over MQTT and reads its sensors; Docker runs a
healthcheck every 30 seconds. This directory models the parts that decide, wait, retry and clean up, checks them with TLC
on small instances and proves the central safety facts with TLAPS for all instances. `PROJECT.json` lists components, runs,
mutants, hazards, findings, theorems, and for every definition the source lines it stands for.

## Inventory

| Component | Source | State | Operations | What is hard | What makes it correct |
|---|---|---|---|---|---|
| Bridge loop | `main.py` | `was_off`, `consecutive_failures`, off sentinel, the await it is in | `main`, `run_once`, `poll_state_only` | the mode changes at any await; crash and restart | obeys the mode in force, aborts a stream at off, sentinel exactly in off mode |
| Mode control | `mqtt_control.py` | mode, mode file, `_mode_changed`, `_off_event` | `_apply_mode`, `sleep_until_mode_change`, `off_event` | an edge-like and a level-like event between two tasks | no change lost, mode survives a restart |
| MQTT publisher | `mqtt_control.py` | state queue, last state, client | `publish_state`, `_run`, `_on_connect`, `_serve` | reconnects, tasks a connection leaves behind, wills, retained topics | broker ends up with the newest state and the right mode |
| Healthcheck | `docker/healthcheck.py` | `down_since` file | `main` | sampling, sentinel, MediaMTX down, restarts | unhealthy after the grace window, never before, and surely then |
| Cloud authentication | `birdfy_api.py` | token cache file | `login_or_resume`, `login`, `refresh_token`, `get_devices` | which failure may cost a login; kills; account changes | a login only when the cache is useless; sessions of the right account, but for a cache that names none |
| Signaling session | `webrtc_client.py` | events, peer connection, websocket, watchdogs, side tasks | `connect_and_stream` | messages in any order, timers racing answers, cancellation | sessions end and leave nothing running |
| RTP forwarder | `_rtp_forwarder.py` | frame queue, parameter-set cache, `ffmpeg`, writer thread | `forward_video` | process death at any point, bounded queue, blocking writes | every ffmpeg starts on a keyframe; nothing outlives the task |
| Audio pump | `_rtp_forwarder.py` | chunk queue, pipe ends, a task and a thread for each ffmpeg | `_AudioPump` | a thread in `os.write` while the pipe is closed and its number reused | the queue holds the freshest audio; an open pump's number is its own; closed pumps end |
| Periodic re-NACK | `_aiortc_media_patches.py` | loops by `id(receiver)`, retry counters | `attach_periodic_renack`, `detach_periodic_renack` | counters that lag behind gaps which open and close | a budget of its own for every gap, and all of it is used |
| ICE patches | `_aioice_patches.py` | connections already corrected, by `id` | `request_received` | checks are lost, identities are reused, the camera has an old fragment | the handshake completes |
| SDP patches | `_sdp_patches.py` | none | three rewrites of a text | what a camera must find in the offer | the handshake completes |
| Decode fallback | `webrtc_client.py` | `ffmpeg` and its size, shared with the session | `_stream_video` | two parties kill, one starts | frames fit their ffmpeg; at most one runs and none is lost; the task ends with the session |
| Device pick, ticket and state | `main.py`, `birdfy_api.py` | serial bound to MQTT, the pass under way | `_pick_device`, `get_addx_ticket`, `select_single_device`, `stop_live` | lists that change, calls that fail and answer None | states go to the topics of their device |
| Session state poller | `main.py` | its task | `_session_state_poller` | a read in flight when the session ends | no older state after a newer one |
| Request signing, identity | `birdfy_api.py` | UDID | headers, hashes, redaction | data only | not modelled |
| Media tuning, diagnostics | several | jitter buffers, null decoder | configuration, logging | none | not modelled |
| Image, tests, docs | `Dockerfile`, `docker/`, `tests/`, `docs/` | | | | read as statements about the program |

**Interactions.** `main()` awaits `run_once`, which awaits `login_or_resume` (AuthResume), fetches a ticket, publishes the
device state (a synchronous call into the MQTT publisher's queue) and runs `connect_and_stream` as a task beside a wait for
the off event. Beside that task the session poller reads the device state with the ticket of the session. The MQTT task
writes the mode, its file and its two events; the main task reads them. `connect_and_stream` starts the forwarder (or the
decode fallback) as a task from a callback of aiortc and never awaits it, so that the forwarders of two sessions may work
side by side on the one RTSP path. `forward_video` uses one thread of its own for writes, its audio pump the threads of the
default executor. The patches of aioice, aiortc and SDP are called by these libraries. The healthcheck is another process and
shares the sentinel file with the main task and nothing else. The cloud, the camera, the MQTT broker, Home Assistant,
`ffmpeg`, MediaMTX, aiortc and Docker are external; each is modelled by what it may do to the code.

## Modules

| Module | Models | State and actions against the code |
|---|---|---|
| `ModeSwitch` | the promise to an operator | abstract specification: sessions begin only by a decision in a mode that allows them, a session live at a switch to off is doomed, a bridge that has waited obeys the mode in force |
| `BridgeLoop` | bridge loop and mode control | a step is the code between two awaits; `pc` names the await (`settle`, `pollAuth`, `auth`, `stream`, `backoff`, ...); `ApplyMode` is `_apply_mode` at any of them; `Wake` is `sleep_until_mode_change` returning, by event or by time-out, and the top of the loop with it; `Crash`, `CrashInWrite` and `Restart` keep `file` and `sentinel`; `announced` records that a poll of this off phase has published, whoever bound the serial before |
| `StateFeed` | the promise about the topic with the device state | abstract specification: a reading that waits goes out in its turn and once, a new one is never what a full queue costs, only the newest is shown again |
| `MqttPublisher` | the MQTT task | `phase` is the await of `_run` and `_on_connect`; `waiting` holds a connection for every pump in `_state_q.get()`, with those gather has left behind; the topics and the wills are the broker's |
| `Healthcheck` | the script, Docker's count | time in intervals, the timer file by its age; four branches of `main` as four actions, between which everything sampled may change |
| `AuthResume` | authentication and its cache | `pc` is the request under way, a token is a number, the cloud keeps the sets of tokens it accepts and would renew; `untagged` has the tokens whose saved response names no account, one that was cached before the start and its renewals |
| `CloudSession` | a pass of `run_once` or `poll_state_only` | extends `AuthResume`: `step` is the await behind the authentication, `poller` the task beside the stream, `answers` who holds a reading of the device state, by age; a `GotDevices` step is the return of the list, the pick, and `configure` |
| `Signaling` | `connect_and_stream` | `phase` is the await of the session task, one action per message type and per side task; what may outlive a session is kept as a set of sessions |
| `Forwarder` | `forward_video` | a frame is the set of NAL kinds in it; `pc` is `queue.get`, the write, or the finally block; `inflight` is the writer thread |
| `AudioPump` | the audio tap, `_AudioPump`, `_write_all` | the table of descriptors says who has each number; `thread[p]` is the write of pump p, from the executor's queue to the kernel; chunks are numbers |
| `Handover` | two sessions' forwarders | extends `Forwarder`, whose variables are those of the new session's, and has an instance `Old` of it for the ended one's, with the path that MediaMTX gives to whoever publishes last |
| `DecodeFallback` | `_stream_video`, `_kill_ffmpeg` | `pc` is `recv` or the write; the dictionary with `ffmpeg` and its size is shared with the session, whose kill waits in `stdin.close()`; `running` counts the processes themselves, killed or not |
| `Renack` | the re-NACK loop | a round is the code from the wake to the send, another the code behind the send; gaps open and close in between |
| `Handshake` | the SDP rewrites, the trickled candidates, `request_received` | an SDP is a sequence of kinds of lines, on which the rewrites are operators; checks travel in a set that loses them; `done` is `_ufrag_done` |
| `<M>_proofs` | theorems about `<M>` | and about what stands beside it: `CloudSession` in `AuthResume_proofs`, `DecodeFallback` in `Signaling_proofs`, `Handover` in `Forwarder_proofs`, `Handshake` in `Renack_proofs` |

Definitions named `X_something` stand before `X` and are mutated forms of it; no specification uses them. Each stands for a
plausible bug, and `PROJECT.json` names the property that notices it.

Delays are left to the place that sleeps; where two of them are ordered by the code (12 s and 30 s in the signaling session)
the guard says so. An HTTP outcome is a choice. Logging, payload formats, the discovery messages and headers are left out.
The unit of atomicity in asyncio is the code between two awaits, and that is what an action is; where an await publishes
or sends, the effect is placed in its action and an action that breaks the connection may still let it happen or not. One
action is coarser: `AnswerDog` of Signaling is the time-out of `wait_for` and the `ws.close()` behind it
(`webrtc_client.py:433`, `:437`), though an answer can be handled between the two in one turn of the loop. The code does not
look again before it closes, so such a session is closed although it is answered; `DogSparesAnswered` does not speak of it.

Four modules put components together. `BridgeLoop` is the main task and the mode half of the MQTT task, and is shown to
implement `ModeSwitch`. `CloudSession` runs passes on top of `AuthResume` and is proved to implement it. `Handover` has two
forwarders, each proved to do what `Forwarder` allows. `Handshake` has the session, the SDP patches and the ICE patches
against one camera. Elsewhere, what one component assumes of another is what the other is shown to do: `BridgeLoop!TornDown`
(a cancelled session returns) is `TeardownEnds` of Signaling, its `Authenticate`, `PollAuth` and `PollCloud` are the outcomes
of a pass of CloudSession, the streams that end at any time in CloudSession are those of Signaling and BridgeLoop,
Forwarder's pump is open or closed as AudioPump's `current`, and `SentinelFlips` of Healthcheck lets the sentinel change
between any two checks, which is more than the loop does (`SentinelMatchesLoop`).

## Runs

Bounds are the constants of the `.cfg` files; the states are the distinct ones TLC finds.

| Run | States | Asks |
|---|---|---|
| `bridge_loop` | 19966 | in two configurations (polls and settle delay on a good disk; neither, on a failing one): sentinel, off abort, lost wake-ups, persisted mode, off entry announced in its own off phase, refinement of `ModeSwitch`, and that off, on and a failed entry poll take effect |
| `cloud_session` | 554840 | logins, accounts and cached tokens with kills, a failing disk, account changes and a cache that names no account; states in order and on the topics of their device |
| `mqtt_publisher` | 244962 | newest state at the broker, the select right after any reconnect, the state settling on a connection that lasts |
| `signaling` | 9964 | nothing left running, every unanswered session watched, watchdogs spare answered ones, sessions end |
| `handshake` | 3426 | the camera streams although checks are lost, with whatever fragment it uses |
| `forwarder` | 3102 | keyframe start, parameter sets, processes and pipes, replacement of a dead ffmpeg, cancellation |
| `handover` | 56293 | how often the forwarder of an ended session takes the path back, and that the new one gets it |
| `audio_pump` | 116552 | whose descriptor a pump writes to, which chunks the queue keeps, that closed pumps end and audio goes on |
| `decode_fallback` | 128 | frames fit their ffmpeg, no second one runs and none is left over, the task ends with its session |
| `renack` | 8153 | the retry budget of every gap, and that it is used |
| `healthcheck` | 246 | the grace window is honoured, over restarts too, and a dead stream is reported |
| `stale_sleep` | | (a violation) that a sleeping loop sleeps for the mode in force |

Why the bounds suffice. *BridgeLoop* has none but the ladder: modes, events and awaits are all there, and the ladder is
modelled up to the index where it stays. *MqttPublisher*: two connections are needed for a pump to be left behind and a
third to see the effect of two of them; a queue of two overflows with four states; three modes behave as two here, since the
task only copies them. *Healthcheck*: a window of four intervals and three strikes tell "not yet", "just" and "long since"
apart. *CloudSession*: two accounts, and three tokens, so that a login, its renewal and the login after it happen; two
devices, so that the one that is asked for may be first, second or missing; passes are not bounded. The file may hold a
token without an account from the start, of either of them, and is empty otherwise. *Signaling*: two sessions
show what a leftover of one does to the next, two offers are the duplicate. *Handshake*: two sessions and two addresses, so
that the second connection may or may not have the address of the first, and a camera may use the fragment of the session
before. *Forwarder*: a queue of two is full, the six frames are those the code tells apart (no start code, delta, bare
keyframe, parameter sets alone, keyframe with one set, keyframe with both). *Handover* needs two of these frames (a delta and a
complete keyframe): what the others do is in Forwarder; it has neither audio nor cancellation, since nobody cancels the task.
*AudioPump*: two starts of ffmpeg are the closed pump and its successor, three chunks overflow a queue of two, and of two
descriptors one is reused while the other is held. *DecodeFallback*: two sizes, and 0, the frame before a keyframe. *Renack*:
one packet is asked for while another's budget is spent and a third goes missing or is found; three retries are more than one
and fewer than the gaps. The theorems below drop all of these bounds for the safety they state.

`CHECK_DEADLOCK FALSE` appears where the model ends: after its bounded sessions (Signaling, Handshake), connections
(MqttPublisher), chunks and starts (AudioPump), or when the task is over (Forwarder, Handover, DecodeFallback).

### What the code says and does not do

One run checks a statement of the repository and finds it violated: `stale_sleep`. A mode change wakes the loop "now, not at
the next sleep edge" (`mqtt_control.py:347`), and yet one that comes during a session or a poll is drained by the sleep that
follows (`:213`), which then runs its full length, up to 300 s, or 600 s in off mode. `OffTakesEffect` and `OnTakesEffect` say
what remains true: the change is obeyed in the end.

The other disagreements are behaviours the models contain, and that the passing properties allow for by name.

Of the bridge loop, the cloud and MQTT:

* A kill between truncation and write of the mode file loses the mode (`mqtt_control.py:89`; `CrashInWrite`), and 60 s of
  failing requests reset the ladder (`main.py:546`; `SessionOver`).
* "Only latch 'entry handled' once the poll actually published", lest a hiccup end in "a blank steady state" (`main.py:500`):
  a device state that cannot be read is published as all unknown, `poll_state_only` returns True, and the blank is latched
  (`OffEntryAnnounced` asks for a published state, not for a known one). In the same way a failed re-read during a session
  replaces good values by unknown ones (`main.py:387`; a failed call is an answer in `SelectAnswered`).
* The poll on entering off is made whatever `BIRDFY_OFF_POLL_SECONDS` is (`main.py:493`), and its delay with it;
  `docs/configuration.md:35` says "Only applies when `BIRDFY_OFF_POLL_SECONDS > 0`" (`LoopTop`).
* `connect_and_stream` has no "internal retry" with a stoplive and a new ticket (`main.py:213`): a failed session ends, and the
  next pass has the new ticket, after a back-off. The device is selected after the ticket and not before it (`:211`).
* The topics keep the serial of the first device while `_pick_device` falls back to another one (`mqtt_control.py:233`,
  `main.py:172`; `missed` in `TopicsTellOneDevice`). `configure("")` is a call that takes effect too, against `:230`.
* The cache "must be tied to the same account" (`birdfy_api.py:148`), and one that "belongs to a different account" leads to a
  login (`docs/configuration.md:69`); a cache without `_cached_email` is resumed for whatever account is configured
  (`birdfy_api.py:454`), and a refresh saves it without one again (`:167`, `:423`). The code itself always saves the address
  after a login, so only a file from elsewhere is of this kind (`untagged`): `SessionIsMine` excepts it by name, and
  `TaggedAreMine` proves that without one the account is always the right one.
* "The mode is read from a retained MQTT topic, so it survives bridge restarts" (`docs/home-assistant.md:21`): it survives by
  the mode file (`mqtt_control.py:70`, `:135`), which `:18` calls the source of truth; the select's state topic is only
  written, and the discovery payload (`:386`) asks for no retained commands, against `:29`.
* A refresh that fails because the network does costs a login (`birdfy_api.py:432`; `RefreshFails`), where the cache is there
  so that a transient error does not (`:117`).
* `gather` leaves the pump of a lost connection at the queue (`mqtt_control.py:332`): it takes the newer state and loses it,
  where a test has it that a stale state never lingers ahead of a newer one (`eaten` in `BrokerCatchesUp`).
* The will of the connection before, fired late, replaces "online" (`mqtt_control.py:289`; `WillFires`;
  `HiddenByLateWill` says that nothing else hides a connected bridge), and a mode command
  sent between "online" and the subscription is lost (`:314`; `Choose`).

Of the session:

* The PEER_IN watchdog says "Will keep waiting" after 30 s (`webrtc_client.py:425`), and the answer watchdog has closed the
  websocket after 12 s. `PeerDogIsLate` states, and a theorem proves, that it is always so.
* A second PEER_IN before `_send_offer` has finished sends the offer twice (`webrtc_client.py:517`; `MaxOffers = 2`).
* A media task that ends is not noticed, nor a failed peer connection before the next message (`webrtc_client.py:311`, `:608`,
  `:644`), where "no frames" is to mean a reconnect.
* The keyframe nudger of the passthrough path is never cancelled (`webrtc_client.py:326`); `nudgers` only grows.
* `NothingLeftRunning` excepts the peer connection of a session cut off before its try block or inside `pc.close()`.
* `_ufrag_done` is keyed by `id()` and never pruned (`_aioice_patches.py:25`): a connection at the address of an earlier one
  is not corrected (`reused` in `HandshakeCompletes`). `NominatedAsCorrected` states, and a theorem proves, that its camera,
  if it uses the fragment of a former session, never streams.
* A re-NACK names the first SSRC of the receiver (`_aiortc_media_patches.py:228`) where a comment above speaks of the most
  recent one; requests stop at the cap and not when the packets arrive; a request whose send failed has used up its share.

Of the forwarder:

* An IDR with one parameter set is not completed (`_rtp_forwarder.py:709`; `Framed`), and `forward_video` does not return
  when ffmpeg dies, as its docstring has it (`:463`; `RestartsOnKeyframe`).
* The pump of an ffmpeg that cannot be started is never closed (`_rtp_forwarder.py:545`); `NoneLeft` names this path
  (`pc = "failed"`) as the only one.
* A cancelled forwarder with a write in flight to an ffmpeg that does not read waits for ever: `close()` takes the lock of
  the writer, and `terminate()` comes after it (`_rtp_forwarder.py:444`). `CancelledEnds` excepts exactly this, and nothing
  bounds the write itself (`:715`).
* `close()` of a pump gives its descriptor back while a thread may be about to write to it (`_rtp_forwarder.py:424`): the
  rest of a chunk can reach the file that got the number. `OpenPumpOwnsItsEnd` says that only a closed pump's write can.
* The forwarder of a session that has ended takes the RTSP path back from that of the next one, as often as its queue has
  frames (`webrtc_client.py:311`; `TakesBackFew`).

Of the healthcheck: a restart of the container does not reset the grace window (`docker/healthcheck.py:51`), since `/tmp`
outlives it, and the window is one of samples: `GraceHonoured` counts what checks saw, over restarts.

## Fairness

* BridgeLoop: weak fairness of the main task's bounded awaits (requests with a time-out, sleeps, a cancelled stream) and of
  the restart by s6. A stream need not end, no command need come, the broker need not be there.
* MqttPublisher: the tasks of a connection run; aiomqtt ends a publish by its acknowledgement or by an exception, which is
  `ConnectionEnds`. Connections need not be made, nor last; `SettlesFresh` supposes one that does.
* Healthcheck: Docker keeps running it.
* Signaling: the bounded awaits end (websocket open time-out 10 s, close time-out 5 s), timers fire, a created task runs. No
  message, no PEER_OUT, no failure need come.
* Forwarder: the task runs while frames are queued, and a write to a dead ffmpeg fails. A live ffmpeg need not read.
  `RestartsOnKeyframe` adds a camera that again and again gets a complete keyframe into the queue (strong fairness of
  `KeyframeQueued`, since the queue is full in between).

* Handover: as Forwarder for both tasks; the new session gets keyframes, a write to a connection MediaMTX has closed fails in
  the end, and an ffmpeg that lives connects.
* AudioPump: tasks are served, the executor runs what is submitted, a write nobody can read ends, `terminate()` is followed
  by `kill()`. A live ffmpeg need not read, chunks need not come.
* DecodeFallback: as Forwarder; the track of a closed connection ends.
* Renack: the loop wakes, and a send returns or raises.
* Handshake: the websocket delivers, the camera answers an offer it can read and goes on pinging; of the checks that are sent
  again and again some arrive (strong fairness). Each single check may be lost.

CloudSession states safety only and has no fairness.

Without a condition of this kind the liveness properties are false: every reconnect needs something to happen.

## Proofs

Eight modules hold theorems; all obligations are proved by Z3, Zenon and LS4. They cover every module but the two abstract
specifications, and state every safety property that a passing run checks. Each follows one argument: an inductive
invariant (`IInv`), three facts (`Init => IInv`, `IInv /\ [Next]_vars => IInv'`, and `IInv` implies the property), and a
temporal step. The invariant is checked by TLC before it is proved. The steps that need different provers (flags, ranges) are
split into conjuncts, which is why some proof modules restate `TypeOK` as `Flags` and `Ranges`. Type correctness is a theorem
in each (`TypeCorrect`) and no run repeats it.

| Module | Theorems | Why the invariant is more than the property |
|---|---|---|
| `BridgeLoop_proofs` | `SentinelIsRight`, `OffNeverMissed`, `ChangeWakes`, `ModeComesBack`, `EntryIsAnnounced`, `Refinement` (implements `ModeSwitch`) | the off event is level-triggered (`set` iff the mode is off) once it exists; a session's waiter exists only with the event and exactly in the stream and its teardown; the long off pause is reached by a published poll or from `was_off`, and both memories end with the off phase |
| `MqttPublisher_proofs` | `StatesReachBroker`, `FreshestIsLast`, `SelectIsRight` | the newest state is last in the queue, carried, at the broker, or eaten, also in the phases before serving; the topic follows the mode from the echo on; nothing is carried or echoed outside serving |
| | `OnlyLateWillsHide` | the wills outstanding are those of connections before the one at hand |
| | `QueueIsAWindow`, `FeedRefinement` (implements `StateFeed`) | the queue is the window of the last states, without a gap, and what pumps took is older: so what is published is the least of what waits, and what an overflow drops is not the newest |
| `Healthcheck_proofs` | `GraceIsHonoured` | the timer file is never older than the last check that would have removed it |
| `AuthResume_proofs` | `SessionsAreMine`, `TaggedAreMine`, `ReturnedAreCached`, `LoginsAreNeeded` | the token at hand is of the configured account or names none; during validation and refresh it is the one in the file; a token under refresh has been rejected, so it is dead |
| | `GoodTokensAreKept` | during a login the file holds nothing of use, even where it could not be removed |
| CloudSession | `PassesAuthenticate` (implements `AuthResume`), and with it `PassesAreMine`, `PassesAreCached`, `PassesLogInWhenNeeded`, `PassesKeepGoodTokens` | a step of a pass is one of the authentication or leaves its variables alone |
| | `OneReadingAtATime`, `NeverGoesBack`, `TopicsAreOfTheDevice`, `SessionTypeCorrect` | a poller lives in the stream only, so no two parties read at a time, and what is handed over is newer than what was; until a list lacks the device, target and serial are none or `DEVICE_ID` |
| `Signaling_proofs` | `NothingIsLeftRunning`, `UnansweredAreWatched`, `DogsSpareAnswered`, `PeerDogsAreLate` | a waiting watchdog of this session implies that it has no answer; watchdogs belong to sessions already begun; side tasks run only in the phases whose exit stops them; an answer supposes an offer, and an offer a PEER_IN |
| DecodeFallback | `FramesFitTheirFfmpeg`, `NoFfmpegIsLost`, `FallbackTypeCorrect` | what runs is exactly the ffmpeg in the shared dictionary, the session's kill takes the size with the process, and a thread that writes belongs to the ffmpeg there is |
| `Forwarder_proofs` | `EveryFfmpegStartsOnKeyframe`, `NothingIsLeft` | an ffmpeg exists only once both parameter sets are known; nothing is written to one that has not had its keyframe; a pump is open only beside its ffmpeg |
| Handover | `NewIsAForwarder`, `OldIsAForwarder` (each implements `Forwarder`), `NewIsSafe` | as for the passes: the other forwarder and the path are stutters |
| | `FewAreTakenBack` | a budget: retakes, frames in the old queue and the old ffmpeg's right to publish once never add up to more than the queue holds and one. A frame is spent to start an ffmpeg, the ffmpeg to take the path |
| `Renack_proofs` | `EveryGapHasItsBudget` | no packet is at once missing and gone since the last round, which is what makes pruning late enough to be safe |
| Handshake | `CamerasStreamAsCorrected`, `HandshakeTypeCorrect` | a connection's fragment is the right one, or what one correction in this session made of it; a check that travels carries a fragment the connection has or had |
| `AudioPump_proofs` | `QueueStaysFresh`, `OpenPumpsOwnTheirEnds` | no two open pumps have one number; a write supposes a pump that was made; a thread that blocks on another file is one of a closed pump |

`PassesAuthenticate`, `NewIsAForwarder` and `OldIsAForwarder` are what makes a theorem about a component one about the module
that composes it: the theorems about `AuthResume` hold of the passes that the run `cloud_session` explores, and those about
`Forwarder` of both forwarders of `handover`. Five of the facts proved are in no run: `QueueIsNewest`, `FeedsInTurn` and
`HiddenByLateWill` of `MqttPublisher`, `GoodTokenIsKept` of `AuthResume`, and `NominatedAsCorrected` of `Handshake`. Each can
be added to the configuration of its module (for `AuthResume`, `CloudSession.cfg`) and holds there.

Assumptions are the named `ASSUME`s of the modules: constants are of their types, bounds are positive. Theorems hold for
every value of them: any ladder length, grace window, number of tokens, sessions, connections, states, and any set of
frames.

Only model-checked: every liveness property (the provers have no `ENABLED` and no fairness), and what the violation run
shows. What the SDP rewrites make of an offer stays with `HandshakeCompletes` too: they are folds and selections over
sequences, whose meaning for every offer needs an induction over the sequence; so the offer is the one variable of
`Handshake` that its `TypeOK` leaves out. The project's own modules declare nothing `RECURSIVE`.

## Not modelled

Hashes, signatures, headers, redaction and the UDID are data. Jitter-buffer capacities, the null decoder, the logging of RTCP
feedback, the data channel (whose messages are logged), the start of the logging and the parsing of the environment decide
nothing that another part waits for. `get_stream_play` has no caller. The discovery payloads never change and their place in
`_on_connect` is between two awaits that are modelled; the length of MQTT's reconnect back-off is left to `Connect`. Image and
configuration files are used for what they fix: the restart policy, the order of services, the checks' interval and count.
Thread scheduling inside CPython, sockets and the contents of media are out of scope.

## Plan

Done, in this order: `ModeSwitch`, `BridgeLoop`, `Healthcheck`, `Signaling`, `Forwarder`, `AuthResume`, `MqttPublisher`;
`Renack`, `AudioPump`, `Handshake` (which took the place of separate modules for ICE and SDP), `DecodeFallback`, `Handover`,
`CloudSession`; `StateFeed`; each but this with its run, mutants and, as far as the table says, theorems. Next:

1. `Container`: `BridgeLoop` with `Healthcheck`, timed in intervals: a paused bridge is never unhealthy, one that has given up
   surely is. It takes the place of the environment `SentinelFlips`.
2. Abstract specifications with refinements: a credential store for `AuthResume` and a keyframe-gated sink for `Forwarder`,
   each to be implemented as `ModeSwitch` and `StateFeed` are.

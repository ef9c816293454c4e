# A TLA+ model of michoi

michoi speaks PENGUIN0, the UDP protocol of a building's door intercom, in
place of (or beside) the Pad on the wall of a flat, and offers the calls, the
cameras, the lock and the elevator to HTTP clients and to HomeKit. This
directory models the parts of it where threads, packets and failures meet,
checks them with TLC and proves properties of eight specifications with TLAPS.

Source references are to `src/*.rs` of the repository, docs to `docs/`.

## 1. The system

### Components

| Component | Code | State | Operations | Modelled |
|---|---|---|---|---|
| Call state machine | `state.rs` | phase, owner, session, time of the last unlock | start_call, pad_answer, remote_answer, unlock, hangup | `CallMachine` |
| Incoming call | `agent.rs`, `wire_tap.rs`, `wire_udp.rs` | the machine and the next session number, peers, the nftables silence table (kernel state) | execute (claim, unlock, hangup), on_call_started, on_pad_answer, on_pad_unlock, on_wire_hangup | `AgentCall`, `CallSpec` |
| Command cache | `agent_api.rs` | map and queue of command results | get, store | `CommandCache` |
| Event feed | `agent_api.rs`, `agent_server.rs` | next seq, ring, broadcast channel; one SSE stream per client | push, subscribe, recent, replay, live, lag | `EventFeed`, `FeedSpec` |
| Outbound sessions | `agent.rs` | slots `monitor` and `call_session`, a task per session | start/stop monitor, dial, hangup, dispatch in on_wire | `Outbound` |
| Discovery service | `discovery.rs` | waiters by station id | resolve, run | `Discovery` |
| Elevator call | `agent.rs`, `emitter.rs` | acknowledgement waiters | call_elevator_now, the ack in on_wire | `Elevator` |
| Identity and learned peers | `agent.rs` 437-558, `wire_tap.rs`, `wire_udp.rs` | pinned addresses, ids and MACs, the last sender | accept_endpoints, observe_discovery, learning on the wire, where a command goes | `Peers` |
| Media path | `protocol.rs`, `agent_api.rs`, `agent_server.rs` | open frames, pre-roll, latest frame, broadcast channel | reassemble, push_video, push_audio, subscribe, mjpeg_stream | `Reassembly`, `PreRoll`, `Media`; not the datagram splitter and codecs |
| Talk-back | `agent_server.rs`, `agent.rs` | the exclusive slot, packet numbers | talk_upload, talk_websocket, talk | `TalkBack` |
| HomeKit bridge | `hap.rs` | lock, switch, doorbell; the loops that poll them | unlock and relock, lift, watch | `HomeKit` |
| Software door station | `door_station.rs` | a machine, cache and log; `streaming`, media loops, speaker | ring, hangup_local, execute, media loop | `DoorStation` on `SimulatedAgent` |
| Replay Agent | `replay_agent.rs` | a machine, cache and log; a timeline | build, play, execute | `ReplayAgent` on `SimulatedAgent`; session messages only |
| Emitter, handshake tools | `emitter.rs`, `main.rs` | main loop, receiver task, watch channel, report | ring, dial, monitor, elevator | `Emitter` |
| Python Pad | `pad_intercom/service.py` | phase under a lock, the door to send to, cooldown | control thread, answer, unlock, hangup | `LanPad`; control and actions only |
| Configuration, command line, codecs, capture and raw I/O, web page | `config.rs`, `main.rs`, `protocol.rs`, `transport.rs`, `ethernet.rs`, `bridge.rs`, `pcap.rs`, `web/` | - | - | no, see "Not modelled" |

`vendor/hap` is a third-party library and outside the model.

### How they interact

- The **wire task** (`wire_udp.rs` in pad mode, `wire_tap.rs` beside a physical
  Pad) first decides who a packet is from (`Peers`) and hands it to
  `Agent::on_wire`. That function gives session messages first to a running
  monitor, then to an outbound call, then to the incoming call; elevator
  acknowledgements complete every waiter; fragments and audio go to the media
  path.
- Every **HTTP request** runs on a task of its own on a multi-threaded runtime
  and calls `execute`, `call_elevator_now`, `start_monitor_now`, `dial_now`,
  `talk` directly. HomeKit's loops are more such clients inside the process.
- They share the `Agent`: each field has its own mutex, and no handler holds
  one mutex across two steps. All the interesting behaviour comes from that.
- Handlers **push events**; each SSE stream reads the ring once and then the
  broadcast channel. Media streams do the same with latest frame and channel.
- In tap mode a claim **installs an nftables table** that silences the physical
  Pad and the end of the call removes it. The table belongs to the kernel and
  survives the process.
- The **door station** and the **replay Agent** put the same machine, cache and
  log behind the same HTTP server; the **emitter** is the far end of the wire.
  The **Python Pad** is a separate program for the same job.

### What is hard, and what correctness means

| Component | Hard | Must hold |
|---|---|---|
| Incoming call | claim against the Pad's answer; hangup against hangup; effects and events after the lock is released; failing sends and nft scripts; death with the table installed | a call is answered once; calls end once and do not overlap; the Pad is silenced exactly while a remote client owns the call; the feed accounts for every call |
| Command cache | lookup and store are apart; eviction; restarts | an id acts once; a replayed result is true |
| Event feed | numbering and broadcast are apart; lag; reconnect at the edge of the ring; restart | no event slips between replay and live; a client ends up knowing everything |
| Outbound | check, await, install; a task that cleans a slot another has filled; dropped handles | no slot keeps a dead session; each call is reported once; orphans end |
| Discovery, elevator | waiters shared by all lookups of an id; timeouts against late replies; acks that name no call | only a timeout costs a lookup its answer; no ack is missed; the car is called once per id |
| Peers | what is learned first is pinned, some of it from packets that are then refused | pins belong to one door; a door once heard is never shut out; commands reach it |
| Media | numbers wrap and repeat across cameras; loss, repetition, reordering; two caps on one buffer; three places per frame under three locks | queue and map agree; shown frames are whole; the pre-roll is the recent suffix; a stream misses only what it lagged behind |
| HomeKit, talk-back | loops write what they poll; one slot over two handlers; which call a voice goes to | the slot has one holder; voices do not mix; nothing opens unasked; the lock shows what happened |
| Simulated Agents | the streaming flag has no lock in common with the call; a capture that knows nothing of the commands | events tell the call; media runs exactly while there is one |
| Emitter | three requests per ring; two tasks on one socket | both ends end together; the report is complete |
| Python Pad | check, send and write of an action are three steps; the door is outside the lock | the phase is true when nobody is under way; unlocks go to answered calls |

`PROJECT.json` lists the single hazards at their lines, with the properties
that would catch each.

## 2. The modules

An action is one critical section, one await, or one call to the outside. A
value that the code reads under one lock and uses under the next is a variable
of the handler in the model, as it is a local in the code. History variables,
declared apart, record what happened and steer nothing. The definitions that
stand in for others in the mutants of `PROJECT.json` are marked "Mutant" and
used by nothing else.

### The Agent's core

**`CallMachine`** is `state.rs` as operators over a record: a `...Verdict`
operator for the condition of each transition and one for its effect. The
cooldown is the boolean `cooling`: whether the cooldown after the last unlock
is still running is the only thing the code asks of the time. The media counters,
which nothing branches on, are left out.

**`CommandCache`** is `store` and `get` as operators. As in the code, storing
an id twice queues it twice, and the size of the map decides about eviction
while the queue decides about the victim.

**`AgentCall`** composes the two with the threads. A worker runs `execute`:
`Begin` or `Replay` (cache lookup), `ReadPeers`, `ReadSession` (before the
call's lock), then `Claim`, `UnlockDoor`, `HangUp` or `Reject` (the section of
the machine), `Send` or `SendFails`, `SilencePad` or `RestorePad` (the wire's
effect), `Publish` and `StoreResult`. The wire task runs the handlers
`WireRequest`, `WirePadAnswer`, `WirePadUnlock`, `WireHangup` with the steps
`WireRestore` and `WirePublish` that follow. Messages are the environment's:
any may come, be repeated, or never come, so loss, duplication and reordering
need no actions of their own. `CooldownElapses` is time. `Crash` forgets all
but the table; `Restart` is `run_agent`, where `TapWire::open` removes what is
left. Outside: media and keepalives, and messages that a monitor or an
outbound call takes (lost, from here). Whether the door is known is a boolean.
`target`, the session a transition really applied to, and `slipped`, whether an
effect on the table ran out of turn or failed, let the silence be specified
precisely although it can go wrong.

**`CallSpec`** is the same seen from far away: calls with numbers that ring one
after the other, are answered by the Pad or a client, whoever is first, and end
once; no threads, messages or commands. `LifeOf` reads the life of a call off
the machine, and `CallImplemented` says that `AgentCall` does nothing else.

**`EventFeed`** has pushers and SSE clients. `Record` is the section of
`push`, `Broadcast` the send after it. `Connect` subscribes, `Replay` reads the
ring and writes the first chunk, `Deliver` and `Lag` read the channel,
`Disconnect` ends a stream at any point, `Restart` starts an empty log under
old clients. A snapshot tells of every event up to its moment: true of the call
events, whose outcome the snapshot shows, and an abstraction for others. A
chunk reaches the client whole or not at all. **`FeedSpec`** is what the API
document promises, without rings or numbers: a client knows a growing prefix
of what happened, and everything in the end.

**`Outbound`** has clients that start and stop monitors and calls, the tasks of
those sessions, and the wire. A handle is the number of its request; dropping
and using the cancel channel are told apart only in `dropped`. The steps of a
start are check, await, empty and fill the slot, spawn; `CleanUp` is the task's
own emptying of the slot, also after it could not open its socket. The incoming
call is only up or not.

**`Discovery`** is the waiter map. `Register`, `Query`/`QueryFails`, `Find` or
`GiveUp` and `Clear` are `resolve`; `Reply` takes all waiters of an id out of
the map under its lock and `Deliver` uses them one by one after it, as `run`
does; `SocketFails` ends `run`. **`Elevator`** composes it with the command
cache and `call_elevator_now`, and with other threads that look stations up
(camera list, monitor, dial). `DoorAcks` is the acknowledgement on the wire,
which may be late, repeated or meant for the physical Pad.

### Around the core

**`Peers`** has stations - an id, an address and a MAC each - that send
anything at any time, and the Agent that pins what it sees first. In pad mode
(`wire_udp.rs`) every datagram is taken for the door's; in tap mode
(`wire_tap.rs`) a frame is attributed by its addresses. Each way a packet can
take is an action: a datagram that carries a session or does not, a frame on
the door's or the Pad's side of the bridge, a discovery query or reply. At the
start the door may be configured or not, with its address and MAC known or not.

**`Reassembly`** is `JpegReassembler` with cameras whose image numbers come
again; **`PreRoll`** is `MediaRing` as operators; **`Media`** composes them with
the wire thread, which hands a frame to the latest frame, the ring and the
channel in three sections, and with MJPEG streams that subscribe, show the
latest frame, read the channel, lag, and leave.

**`Calls`** is the incoming call's machine and the dialled line as the clients
in the process see them, one step per transition. **`HomeKit`** is `hap.rs`:
the loops of lock, elevator switch and doorbell with their remembered values,
over characteristics that users write in between. **`TalkBack`** is the slot
`TALK_BUSY`, from its compare-exchange to the end of either handler, and `talk`:
build a frame's packet for the line or the claimed call, then send it.
**`Clients`** composes the two over the same calls.

**`SimulatedAgent`** is `execute` as door station and replay Agent have it, with
cache and events. **`DoorStation`** adds the console (`ring`, `hangup_local`),
the flag `streaming` and the media loops; **`ReplayAgent`** builds a timeline
from a capture and plays it over the machine. **`LanPad`** is the Python Pad: the
control thread between a message, its lock section, its reply and `_remote`; and
POSTs between check, send and write. `late` are the threads that go by a phase
replaced since, `muddled` that one of them has written. **`Bench`** runs one of
the three, as `kind` says, in one specification: they share nothing.

**`Emitter`** is a tool (main loop, receiver task, watch channel, report) and
the far end: for a ring and a dialled call another michoi in pad mode with its
own `CallMachine`; for a monitor and the elevator a door that answers as the
tools expect. Between them are packets that are lost or overtake each other.

`MC*.tla` add symmetry sets and the images of `Media`. `AgentCallProofs`,
`EventFeedProofs`, `OutboundProofs`, `WireProofs`, `BenchProofs`,
`ClientsProofs`, `ElevatorProofs` and `EmitterProofs` hold the proofs.

## 3. The runs

Passing runs:

| Run | What it asks | Bounds | States |
|---|---|---|---|
| `call` | the calls run as `CallSpec` says; ends, events, announcements, silence, in every interleaving of two workers and the wire, with nft scripts that may fail and a restart | 2 workers, 2 calls, 2 requests, one id per action, 1 crash | 1.1 M |
| `call_faults` | ids act once and results are true, with failing sends and scripts, eviction, death and restart; the strict unlock policy | cache of 1, 1 call per run, 3 requests, 1 crash | 0.5 M |
| `feed` | ring exact, nothing slips, with two pushers, lag, reconnect, restart | ring 2, channel 2, 5 events, 2 connections | 84 k |
| `feed_one` | one pusher, no restart: the feed implements `FeedSpec`, liveness included | 5 events, 3 connections | 2.9 k |
| `outbound` | no slot keeps a dead session, calls are reported once and every one hung up, orphans end | 1 client, 2 monitors, 2 dials | 0.6 M |
| `elevator` | lookups lose answers only to timeouts, the map keeps no stale waiter, no ack is missed, the id calls once | 2 requesting threads with 3 requests of one id, 1 other thread, 3 lookups, 2 stations | 4.8 M |
| `peers` | one door is pinned, doors once heard stay heard, commands reach the caller | 2 doors and a camera, both modes, every configuration; nothing else is bounded | 1.3 k |
| `media` | queue and map of the reassembler agree, shown frames are whole, the pre-roll is the recent suffix, streams miss nothing but what they lagged behind | 3 images on 2 numbers, 1 open frame, channel 1, 3 bytes, window 1, 1 viewer, 8 inputs together | 1.3 M |
| `clients` | the slot has one holder, voices do not mix, nothing is unlocked or lifted unasked, the lock shows what was opened, the loops come to rest | 2 talkers with 2 turns and 3 frames, 2 rings, 1 dial, 2 taps, 5 outside events together | 0.7 M |
| `bench` | simulated station and replay: events tell the call, media follows it and falls silent, a captured hangup ends the pass; the Python Pad: its phase is true, its unlocks in answered calls | 2 workers, 2 requests, 2 calls, any capture of up to 3 messages; 2 HTTP threads, 3 rings, 4 posts | 1.0 M |
| `emitter` | both ends end together, no voice at a Pad that rings, complete reports, a hangup ends the tool | 3 requests per ring as in the code, 2 unlocks; any packet lost or overtaken | 0.5 M |

Why the bounds are enough for the cases meant. Two workers and the wire are
three concurrent handlers, and each race above is between two or three; a
second call lets an effect of the first land in it. A cache of one result
evicts at the second store. Five events overflow ring and channel of 2 both by
more than one, so that every edge of `recent` is met. Two monitors are what it
takes for one to clean up the other. In `media` two images share a number with
different counts, one open frame makes the second number evict the first, and a
channel of one lags at the second frame. In `clients` two talkers with two
turns hand the slot over and back while both calls come and go. In `bench` three
messages are a capture with its request, answer and hangup in any order and
number. `MaxEvents` in `AgentCall` bounds only the Pad's own unlocks, which
could go on for ever. Larger values repeat these situations; where there are
proofs they remove the bounds altogether, and in `outbound` also the bound to
one client at a time.

`CHECK_DEADLOCK FALSE` is set where bounds end the model - `feed`, `feed_one`,
`bench`, `emitter`, `media` and `clients`: pushers, operators, users, cameras
and tools come to their end. Elsewhere the wire always has another message.

The type invariants are not among the standing runs' properties: those of
`AgentCall`, `EventFeed`, `Outbound`, `Peers` and `LanPad` are proved, and the
others say nothing that a misspelt value would not break at once.

One run finds a counterexample, to a sentence of the documents:

| Run | Sentence | What the code does |
|---|---|---|
| `call_twice` | "a retried request can never unlock twice" (`openapi.yaml` 48-50; `PENGUIN0.md` 295) | two requests with one id that overlap both miss the cache and both act |

Properties that the code breaks in a known way are stated up to the cause:
`AtMostOnce` and `ResultsAreTrue` except the ids in `excused` (raced with
themselves, were evicted, outlived a restart), `SilenceTracksCall` except after
a `slipped` effect, `EventsTellTheCall` except when `misled`, the properties of
`Peers` except when `strangers` were pinned, those of `LanPad` except when
`muddled`, `CallsEndTogether` and `ReportIsComplete` except when `disturbed` by
the network. So they say that nothing *else* breaks the promise.

### Fairness

All of it is weak fairness: each of these steps stays enabled until taken. The
runs without a temporal property use no fairness.

- Feed: a thread that has left the section of `push` goes on to the broadcast;
  a client reconnects (an `EventSource` does by itself) and its stream's task is
  scheduled. Nothing forces events to happen or connections to break.
- Outbound: a handler or task that has begun is scheduled; an await of a
  discovery ends because it has a timeout. Nothing forces requests or messages.
- Bench: a media loop whose flag is cleared looks at it, once a tick. Nothing
  forces the console, the clients or the capture.
- Emitter: the receiver task reads what has come, and the main loop, whose
  `select!` has the watch channel first, takes its next step. Packets may be
  lost, the socket may fail.
- Clients: the three loops of HomeKit are tokio tasks and are scheduled. Users,
  calls and talkers need not move.

## 4. What is proved

Eight modules have proofs; each theorem holds for every value of the constants
that meets the assumptions named with it.

**`AgentCallProofs`**, for every set of workers and command ids, every cache
capacity, policy, mode, set of faults and every bound:

| Theorem | Says |
|---|---|
| `TypeCorrect` | `Spec => []TypeOK` |
| `CallsLive` | `Spec => CallImplemented`: every behaviour is one of `CallSpec` |
| `FirstAnswer` | a call is answered at most once |
| `NoOverlap` | every call ends once, before the next starts |
| `CommandsActOnce` | an id acts at most once, up to the three exceptions |
| `ReplaysTellTheTruth` | a cached result is true, up to the same |
| `SilenceFollowsOwner` | the Pad is silenced exactly while a remote client owns the call, unless an effect slipped |
| `FeedAnnouncesCalls` | calls are announced in the order of their sessions, the Pad's answer after its call |
| `FeedAccountsForCalls` | when all is quiet, and no packet failed, there is one event for every start, answer and end |

Assumptions: `BoundsAssumption` (the bounds are natural numbers) and
`PolicyAssumption` (the settings are booleans, the faults known ones). None of
the invariants is inductive by itself.

- `CallInv` adds to `CallsDoNotOverlap` that the machine's session is the last
  one handed out, that later sessions are untouched, and that a ringing session
  has no answer yet; without the last, an answer could be a second one. The
  lemma `CallSteps` says which actions touch the call at all.
- `CallsLive` maps an answer to the answer of the call that rings (`AnswerMaps`),
  a hangup of either side to the end of the call that is up (`EndMaps`), an
  accepted session request to the next ring (`RingMaps`), the end of the process
  to `Forget` and the rest to stutters. It needs `CallInv`, for the next number
  is that of a call nobody knows yet, and `OwnedInv`: who answered is known.
- `OnceInv` follows a command id through `execute`: before the section of the
  machine it has not acted, after it has exactly once and its executor still
  runs or its result is cached, and an id that runs is not cached and runs once.
  Both cache theorems follow. `StoreKeeps` and `CommandSteps` say what the
  cache and the other actions leave alone.
- `SilenceInv` says that a table without a remote owner is about to be removed
  by somebody, and an owner without a table about to install it, as long as
  nothing slipped.
- `AnnounceInv` says that every number handed out is announced, or is the last
  one and the wire task is at its announcement. Numbers and announcements come
  from one task; the machine alone would not order them.
- `TallyInv` balances events against calls: what was told, and what the wire
  task and the workers that changed a call have yet to tell, are together the
  calls answered, and likewise those that are over. `CallInv` says of each
  transition that its call was not counted before. `AppendCounts` and
  `OneMoreCounted` are the steps of the two sides; that the workers under way
  are finitely many, whatever the set of workers, is part of the invariant.

**`EventFeedProofs`**, for any number of pushers, clients, connections and
restarts (`CapacityAssumption`: ring and channel hold at least one event;
`BoundsAssumption`: bounds are natural numbers):

| Theorem | Says |
|---|---|
| `TypeCorrect` | `Spec => []TypeOK` |
| `RingKept` | the ring holds the last events, without a gap |
| `NothingIsLost` | no event falls between what a stream replays and what it reads live |
| `FeedIsInOrder` | with one pusher and no restart, initial states and steps map to those of `FeedSpec` |

`FeedInv` adds to the first three that no cursor is ahead of the channel and
that a stream that has not replayed still has the `Last-Event-ID` it came with;
it is the whole of the inductive invariant. `FeedIsInOrder` is the safety half
of the refinement that `feed_one` checks. Its `OrderInv` says that broadcasts
come in the order of their numbers, and that a client knows exactly a prefix,
which reaches its `Last-Event-ID` and, on a live stream, its cursor. Two pushers
break the first already, and with it `FeedSpec` (section 5).

**`OutboundProofs`**, for any number of clients, monitors and dials (bounds are
natural numbers; the requests are a set):

| Theorem | Says |
|---|---|
| `TypeCorrect` | `Spec => []TypeOK` |
| `NoZombies` | no slot keeps the handle of a session that is over |
| `ReportsOnce` | a dialled call is reported hung up at most once |
| `EveryDialIsReported` | with one client at a time, every call that was cut is reported, or about to be |
| `OnlyOverwritingLoses` | with any number of clients, no step but a dial over a call on the line loses a report |

The invariant is `TypeOK /\ MonitorInv /\ LineInv /\ ReportInv`. `MonitorInv`
says that numbers are taken by one request each, that the handle a request is
about to install is that of a task not yet begun, and that the slot never holds
one whose task has cleaned up; `LineInv` the same of the line, whose handle
moreover has not been cut; `ReportInv` that whoever is about to report a call
has cut its handle and nobody else is about to. One lemma for each
(`MonitorStep`, `LineStep`, `ReportStep`) and one for the type (`TypeStep`).
`DialsAreHungUp` is false for two clients, whose dials may overwrite each other.
`StaysAccounted` and `CutIsAccounted` say that every other step keeps it, which
is `OnlyOverwritingLoses`; with one client (the hypothesis of
`EveryDialIsReported`, `\A r, s \in Requests : r = s`) a callee is looked up only
while the line is free (`LookInv`), so that no dial overwrites.

**`WireProofs`**, what comes from the wire: peers, for every set of stations in
which nobody is called "unknown" or "pad" (`PeersAssumption`,
`UnknownAssumption`), and media, for every set of images, number of open frames,
set of viewers, channel, window and cap (`ImagesAssumption`,
`OpenFramesAssumption`, `MediaAssumption`, `RingAssumption`: an image has a
fragment, at least one frame may be open or in the channel, window and cap are
natural numbers, and so are the sizes of what is pushed):

| Theorem | Says |
|---|---|
| `OneDoor` | id, address and MAC that are pinned belong to one door, unless a stranger was pinned |
| `StaysHeard` | a door heard once, or configured, is never refused later, up to the same |
| `ReachesTheCaller` | a command of a call goes to the door that rang (tap mode), or carries its id (pad mode) |
| `NeverRepinned` | no step replaces a pin |
| `BufferAgrees` | the reassembler's queue and map hold the same numbers, each once, no more than may be open |
| `FramesAreShown` | an image that arrived entirely was shown, unless it clashed with another of its number or was pushed out by younger ones |
| `StreamsAreComplete` | a stream that has begun misses no frame but those its channel dropped |
| `PreRollStaysRecent` | what the pre-roll lacks is older than its window or did not fit into the cap, and what it keeps is of the window and fits |

For the peers the invariant is `TypeOK /\ PinInv /\ OneDoorPinned /\ DoorsStayHeard`; `PinInv`
adds that the MAC comes with its address, that the door of a call is the pinned
one, and that once a door was heard both its id and its address are pinned. The
lemmas `DatagramHas`, `PadFrameHas` and `LearningKeeps` say what each way of
learning can do to the pins.

For the reassembler it is `AssemblyTyped /\ BufferInStep /\ ImagesInv`. The last
says of an image of which something came that it is excused - shown, clashed, or
passed by as many younger numbers as may be open - or open: its number's entry
holds exactly what came of it, and the numbers queued behind its own are younger
than it. So whenever `trim` reaches the number, it is passed by enough of them:
that is the step from "the oldest leaves" to "whoever left was excused", and
without the queue in the invariant it cannot be made. `RetainKeeps`,
`FrontLeaves` and `LeavingIs` say what `retain` and the loop of `trim` leave of
the queue, `StaysQueued` and `OthersStayOpen` what that means for the images.

For the streams `HandInv` orders the places a frame goes to: it is the latest
before it is broadcast, so nothing broadcast is younger than the latest, and a
stream that begins with the latest has missed nothing. The wire thread holds the
next number until the ring has it. `BroadcastQueues` and `ViewerKeeps` are the
two sides of the channel. With the mutant that broadcasts first, `HandInv` is
what fails.

For the pre-roll the invariant is `RingInv`, over `pushed`, the log of everything
pushed so far, which is in clock order (`LogInv`, `IsLog`). Both queues *fit*
the log: they are items of it in its order (`Fits`), so that what a queue holds
is a set of places in the log (`Held`), and sums of sizes over a queue are sums
over these places (`SizesOfQueue`). `Recent` is the window's half of the property,
`Justified` the cap's: whatever is missing of the window would not have fitted
together with everything younger. A push keeps both (`RecentLater`, `PushIs`): the
new item is the youngest, the window and the room only shrink. For the eviction,
`SinceFits` says what the window cuts and `LoweredIs` that the loop over the cap
pops the older of the two fronts, each pop justified by the sum at that moment,
until the sum fits (`CappedIs`). The loop is a recursive function of the number of
pops, and so are the sums; `AllNumbers`, induction through the set of the numbers
that have the property and the well-foundedness of `<`, carries what is shown of one
step (`Steps`, `Iterates`) to all of them.

**`BenchProofs`**, for any number of workers, calls, requests and HTTP threads,
none of which is the control thread (`SimulatedAssumption`,
`CapturedAssumption`, `LanPadAssumption`):

| Theorem | Says |
|---|---|
| `EventsAreTrue` | simulated station and replay: when no event is due, what a client has been told is the machine's state, unless it was misled |
| `MediaFollowsTheCall` | the station streams exactly while there is a call, once nobody is about to change the flag, unless a command strayed |
| `PassEnds` | after the captured hangup the machine stays idle to the end of the pass, for captures of any length |
| `LanTypeCorrect` | `LanSpec => []LanTypeOK` |
| `PhaseTold` | the Pad's phase is true when nobody is under way, unless an overtaken thread wrote last |
| `UnlocksInAnsweredCalls` | an unlock of a thread that was not overtaken goes to an answered call |
| `PadRuns` | `Spec => LanSpec`: what is proved of the Pad holds in the specification that is run |

- `TellInv` looks at the events that are due. Of those that are right, the
  latest that is not an unlock tells what the machine is now; and a view that
  nobody will correct is true. An event that is not the latest may say anything.
- `FlagFollows` says who is about to write the flag when flag and call differ:
  the console, or a worker that has ended a call.
- `BeginsOnce`: only the first message of a timeline begins a call.
- The Pad's invariant says where an action of each kind can be (`PlacesInv`),
  what threads that are not late still know (`OnTimeInv`: an answer about to be
  written has been sent, an unlock about to be sent meets a connected phase),
  and how phase and door differ from `PhaseIsTrue` by what somebody is about to
  do (`CallInv`).

**`ClientsProofs`**, for every set of talkers, every bound on calls and rings
and every capacity of the cache:

| Theorem | Says |
|---|---|
| `OneTalker` | the talk-back slot is taken exactly while one talker holds it |
| `OneVoice` | one voice after the other, and each destination's packets in order |
| `ShownOnlyOpened` | the lock is never shown open more often than the door was opened |
| `OnlyWhatWasAsked` | the bridge unlocks and calls the car at most as often as users tapped, and the doorbell is pressed at most once a call |

The first two rest on `TalkInv`: besides both properties it bounds the number of
the outbound call (`LineInv`) and says that whoever is in the slot speaks in the
present turn, that nothing said is of a later one, and how the numbers already
used stand to the counters of the destinations (`VoiceInv`); `NumberIsNew` is
the step from the counter to the packet. The third rests on `ShowInv`, whose
core `FreshInv` is that every cached id is older than the bridge's counter, so
that no command of the bridge is replayed. The fourth rests on `LoopsInv`, by
which a loop that is past its poll, or will act at the next one, has a tap left
to serve, and on `BellInv`: presses made and rings still in the receiver's
buffer are together no more than the calls that came. `StartedOfTail` and its
like count the buffer.

**`ElevatorProofs`**, for any number of requests, other seekers, stations, ids
and lookups, and every capacity and set of faults:

| Theorem | Says |
|---|---|
| `OnlyTimeouts` | behind every dropped sender is a lookup of the station that timed out |
| `WaitersOwned` | the map holds no sender of a lookup that is over, but for unsent queries |
| `CarCalledOnce` | an id calls the car at most once, up to overlap and eviction |
| `AcksHeard` | no request that waits when an acknowledgement comes reports "offline" |

`DiscInv` joins five facts about the service: each seeker has a lookup of its
own that has not ended while it waits (`SeekInv`), numbers are new
(`NumbersInv`), the map holds unanswered lookups of its station that are not
being delivered (`PendingInv`), and every sender dropped, received or not, has a
timeout at its root (`RootInv`). A lookup drops others either because it timed
out or because it was dropped itself, which is where the induction goes.
`RequestInv` joins two facts about requests: a call number is one request's and
its acknowledgement is awaited from before the call is sent (`AckInv`), and an
unexcused id is run by one request, which is neither cached nor has called
before it sends (`OnceInv`). `DiscoverySteps` says that nothing else in
`Elevator` touches the service.

The assumptions there are `LookupsAssumption` and `RequestsAssumption`: bounds
are natural numbers, the seekers are the requests and the lookers, and the door
is a station.

**`EmitterProofs`**, for any number of repeated requests and unlocks
(`EmitterAssumption`):

| Theorem | Says |
|---|---|
| `EndsAgree` | when a tool is done and none of its packets is under way, the Agent it called is idle, unless the network disturbed them |
| `RingsUndisturbed` | no voice reaches a Pad that still rings in the call it was sent for, whatever is lost or overtaken |
| `ReportTellsAll` | the report of an undisturbed ring that the far end hung up tells the answer and every unlock |

`EndInv` says that the last packet of a tool that is done is its hangup.
`VoiceInv` says that an answer that was observed, is on its way, or has already
drawn voice, means that the call it belongs to no longer rings: what rings later
is a call that a repeated request began. `ReportInv` is about the packets on
their way back: unlocks observed and unlocks under way add up to those the Pad
sent (`UnlocksAddUp`), all of them come before its hangup (`HangupIsLast`), and
so does the answer (`AnswerIsComing`).

TLC evaluates all assumptions in the runs.

Only model-checked: liveness - `OrphansEnd`, `StationFallsSilent`,
`ComesToRest`, `HangupEndsTool` and the fairness half of `FeedImplemented` -,
for liveness under fairness and ENABLED are out of the prover's reach. Induction
theorems that take an operator are too; where a proof needs induction over data
(the pre-roll) it goes through a set of numbers.

## 5. Disagreements read in the code, without a run of their own

The incoming call:

- "Both are removed when the call ends (fail-open)" (`wire_tap.rs` 11-14): a
  claim that installs the table after the wire's hangup has removed it leaves it
  in place until the next start (`SilenceTracksCall` excepts it as `slipped`).
- "`unlock` is rate limited by the cooldown" (`README.md` 73): a ring or a hangup
  in between resets the cooldown (`state.rs` 87 and 142).
- The exit of the process leaves the nftables table where it is (`agent.rs`
  1363, against `firewall.rs` 7-8 and `ARCHITECTURE.md` 121); only the next
  start removes it.
- The default unlock policy lets an unlock pass in every phase;
  `PENGUIN0.md` 294 asks for the stricter rule, which `RequiresAnswer` selects.
- `max_call_seconds` (`config.rs` 296) is never read: a call whose hangup is
  lost stays up and later rings are ignored.

The event feed:

- Clients "receive every event they missed" (`openapi.yaml` 40-42): two pushers
  may broadcast in the other order (`agent_api.rs` 523), and a client that
  reconnects after the later number never hears of the earlier.
- After a restart an old `Last-Event-ID` above the new numbers counts as
  up to date (`agent_api.rs` 540): no snapshot comes, against `openapi.yaml`
  42-43.

Monitors, dialled calls and the elevator:

- "A new request replaces it" (`openapi.yaml` 260): the old monitor's cleanup
  empties the slot whatever is in it (`agent.rs` 334), so that the new monitor's
  handle is dropped and it ends too.
- A monitor can start over a call that came up during its discovery
  (`agent.rs` 311-322, against `openapi.yaml` 261), and two concurrent dials
  overwrite each other without `call_hung_up` (`agent.rs` 905, against
  `openapi.yaml` 318).
- "Drop our waiter on timeout" (`discovery.rs` 104) drops every waiter of the
  id, and each of those drops the next ones when it wakes. A command refused
  with `no_call` for that reason is cached, so its retries are refused too.
- An elevator acknowledgement completes a request that has registered and not
  yet sent its call; the request then reports success for an answer to
  somebody else's.
- When the discovery socket reports one error, `run` returns for good and every
  later lookup times out. `TapWire::run` does the same (`agent.rs` 1325): the
  Agent goes on serving HTTP and hears nothing.

Learned peers (`config.example.toml` 19-21: unset values are "discovered or
learned from the door's discovery exchange / the first call, then pinned"):

- In pad mode any datagram before the first ring - of a monitored camera, a
  called station, the elevator's door - pins its sender's address as the
  door's, and a door at another address is not heard afterwards.
- In tap mode the MAC of a frame is pinned before its session is accepted
  (`wire_tap.rs` 123), and the discovery query of another door pins that one's
  address beside the configured door's id (`wire_tap.rs` 82-85).
- In pad mode a command goes to the last sender (`wire_udp.rs` 42), which need
  not be the door that rang.

HomeKit and talk-back:

- HomeKit claims a call to unlock and never hangs it up: the Pad stays silenced
  and the call is its own until the door hangs up.
- A user's write while a loop is serving the one before is overwritten by its
  reset (`hap.rs` 333); one taken back within a poll is not seen at all.
- Somebody who holds the talk-back WebSocket open and sends nothing keeps the
  slot for ever, and a talker carries over into the next call that is answered.
- The microphone goes to a callee that has not answered (`agent.rs` 1092).
- A chunk above 64 KiB is cut off (`agent_server.rs` 905) and its rest is read as
  the next chunk's header.

The Python Pad:

- An answer that is overtaken by the door's hangup makes the ended call
  "connected"; a request that repeats itself makes an answered call ring again.
- A client's hangup between lines 161 and 171 of `service.py` makes `sendto`
  raise in the control thread, which ends; so does a failing network.
- An unlock that cannot be sent has spent the cooldown.

## 6. Not modelled

- **Configuration** (`config.rs`), **command line** (`main.rs`) and routing,
  negotiation and authentication in `agent_server.rs`: parsing and defaults
  without state; settings that matter are CONSTANTS. `max_call_seconds` is named
  above because nothing reads it.
- **Codecs**: headers, audio and JPEG packets of `protocol.rs` and `media.rs`
  are byte-level functions; a message is its kind in the models. So is
  `split_coalesced`. The reassembler, which has state, is in `Reassembly`.
- **Capture and raw I/O** (`transport.rs`, `ethernet.rs`, `bridge.rs`,
  `pcap.rs`): no protocol of their own.
- `talk_video`, which takes no slot and no number that another reads; keepalives,
  which change nothing; the media frames that door station and replay Agent play.
- The Python Pad's media queues and its answers to discovery and bootstrap.
- The **web page**: a browser client of the API.

## 7. What is left

The routing of one packet through `Peers`, `Outbound` and `AgentCall` in one
composition is the largest step not taken: the three are checked with the
others' decisions left open, which admits more behaviours than there are. Every
safety property that the runs check has a theorem; the liveness properties
have only their runs.

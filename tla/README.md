# Ambilight+Hue Pro Bridge: TLA+ specifications

The program stands between Philips Ambilight TVs and a real Hue bridge: it plays an old Hue
bridge to the TVs (REST v1, optional DTLS-PSK streaming) and streams their colours to an
entertainment area of the real bridge. These modules model how it does so: the on-demand
outbound stream, the requests and frames that drive it, the start and stop of the service around
it, the persisted configuration, the DTLS server and the way of a colour. TLC checks them on small
instances; TLAPS proves every safety and action property of the passing runs for every
value of the constants; liveness is left to TLC.

Paths below are relative to `src/ambilight_hue_bridge/`.

## 1. The system and its parts

| Component (source) | State it keeps | Operations | Talks to |
|---|---|---|---|
| **Engine** (`engine/engine.py`) | session, owner, lights of the stream; handles of the start task, ticker and health monitor; generation of starts; time of the last write, end of the re-grab block; blinks; colour buffers | `submit_color`, `start_stream`, `identify`, `stop_identify`, `stop`; tasks `_start_stream`, `_run_ticker`, `_run_health`; `_teardown` | called by emulator, inbound streamer, web UI and the application; opens `EntertainmentSession`s on the real bridge |
| **REST emulator** (`emulator/rest_v1.py`, `light_repr.py`) | groups, next group id, light states by TV and light | create, activate, deactivate and delete a group; light state; group action; pairing | TVs over HTTP; calls Engine and TV pairing |
| **Inbound streamer** (`emulator/inbound.py`, `huestream.py`) | – | `_on_frame`: decode, resolve to lights, `submit_color` | callback of the DTLS server, on the event loop |
| **DTLS server** (`emulator/dtls_server.py`) | one set of handshake attributes for all peers: identity, randoms, keys, transcript, sequence number, epoch, state | one handler per record; hand-over of frames with `call_soon_threadsafe` | TVs over UDP, in a thread of its own |
| **Colour path** (`engine/engine.py`, `ingest.py`, `mapping.py`, `color.py`) | target colours by light id, eased colours, blinks | write, ease, blink, map to channels | runs in the ticker |
| **Configuration** (`config/store.py`, `models.py`) | paired TVs with area, split, lights; bridges with cached areas; active bridge; the file | `load`, `save` | read and written by all |
| **Web UI server** (`web/server.py`) | – | assign and delete a TV, list areas, pair, activate and delete a bridge | Configuration, real bridge, `Engine.stop` |
| **Bridge pairing, areas** (`outbound/controller.py`) | – | `pair_and_store`, `active_bridge`, `tv_stream_target`, `lights_from_area` | Configuration |
| **TV pairing** (`emulator/pairing.py`) | – | `create_user` | Configuration |
| **Application** (`app.py`) | handles of the components, the stop event | start them in order, wait for a signal, stop them in order; find or make up the address the identity is made from | all |
| **SSDP, mDNS** (`discovery/ssdp.py`, `mdns.py`) | socket and advertising task; registration | advertise, answer a search, register | LAN |
| **Command line** (`__main__.py`) | a `Config` of its own | `run`; `pair`, a process of its own on the same file; `areas`, which only reads | the file, real bridge |
| **Descriptor, identity, certificate** (`discovery/description.py`, `cert.py`, `identity.py`) | two files | formatting, written once | – |

How they interact. Everything but the DTLS thread runs on one asyncio event loop, so state
changes hands only at an `await`. REST handlers do not yield before their one await
(`stop_stream()` in a DELETE), because `log_requests` has already read the body; a frame comes
from the DTLS thread as a callback between any two steps. The shared state that matters is the
Engine's handful of attributes and the one in-memory `Config`.

What is hard, and what makes each part correct:

* **Engine**: a start takes seconds and can be cancelled or overtaken in them; a ticker that ends
  and a `stop()` tear the same things down, each with several awaits; the monitor acts on an
  answer about a session that may be gone; the bridge drops us silently or gives the area to
  another controller. *Correct*: one start, one ticker, one live stream at a time; no open session
  is lost; a session always has somebody who will end it; an activated area is released; the
  stream comes back after a loss.
* **Emulator**: any order of requests of several TVs against an engine in any of its states.
  *Correct*: no TV takes the live stream of another.
* **Configuration and web UI**: operations that await a bridge in the middle, while others change
  what they work on; a kill between any two saves. *Correct*: a TV's lights belong to its area;
  what was answered is in the file; a deleted TV stays deleted, a paired bridge stays paired; the
  active bridge exists; TVs see one identity for good, over restarts too.
* **Service**: start can fail at any part, stop can meet anything in any state, requests are served
  until its end, and a thread feeds the loop. *Correct*: a stop leaves nothing behind and always
  ends; nothing arrives after its source was stopped; an error of the network silences nothing.
* **DTLS**: peers share one set of attributes; datagrams are lost, doubled and reordered; the
  callback runs later than the decryption. *Correct*: a frame counts for the TV that sent it; a TV
  that keeps trying is heard.
* **Colours**: state that outlives streams and assignments. *Correct*: a frame drives exactly the
  channels of its area; a new stream does not fade in from an old one; the output settles on what
  was written last.

## 2. Modules

| Module | What it is | Extends |
|---|---|---|
| `OutboundStream` | abstract: what the engine promises the real bridge | |
| `Engine` | the engine, the session library and the bridge it sees | |
| `EngineProofs` | invariants, the health monitor, the release of areas | `Engine`, `TLAPS` |
| `OutboundProofs` | the engine implements the safe part of `OutboundStream`; one attempt or stream at a time | `EngineProofs` |
| `Emulator` | REST handlers, frames and deleted TVs on top of the engine | `Engine` |
| `EmulatorProofs` | its theorems, and the engine's under requests and deletions | `Emulator`, `OutboundProofs` |
| `Lifecycle` | start and stop of the service around the engine, the DTLS thread, SSDP, mDNS | `Engine` |
| `LifecycleProofs` | its theorems, and the engine's in its service | `Lifecycle`, `OutboundProofs` |
| `Config` | configuration, store, web UI, pairing, restarts, the command line | |
| `ConfigProofs` | its theorems | `Config`, `TLAPS` |
| `Dtls` | the DTLS server, its clients and the network | |
| `DtlsProofs` | its theorems | `Dtls`, `TLAPS` |
| `Colors` | a colour from the write to the frame | |
| `ColorsProofs` | its theorems | `Colors`, `TLAPS` |
| `MCEngine`, `MCEmulator`, `MCLifecycle`, `MCConfig`, `MCDtls`, `MCColors` | model values, instances, symmetry | each its module |

An action is what runs between two awaits. In the lists below the code's name comes first where
it differs. A definition whose comment begins with "Mutant:" is a plausible bug: putting it in the
place of the definition that follows must make a property fail (PROJECT.json lists the pairs).

**Engine.** A *slot* is everything one `create_task(self._start_stream())` gives rise to: that
task, the session it opens, and the ticker and the monitor it creates; slots are reused when all of
it is gone. A *stopper* is a concurrent caller of `stop()` (a DELETE of a group, the web UI's
delete, the shutdown).

* attributes: `session`, `startTask`, `ticker`, `healthTask`, `streamOwner`, `streamLights` (the
  TV whose lights they are), `remote` (`_remote_dead`), `ourRid`, `identify`;
* time: `lastUpdate` says whether fewer than `IDLE_TIMEOUT_S` passed since the last write,
  `regrab` whether the re-grab block runs;
* `spc`: where each start task is (`ready`, `connect`, `discard`: closing a session that is out
  of date, `abort`: closing one after an exception); `stale`: its generation was bumped; `cancels`:
  a `CancelledError` is on its way;
* `pc`, `arg`: tickers and callers of `stop()` – running, or waiting in a teardown for a start
  task, a ticker, a monitor or an `aclose()`; `hpc`, `hfails`, `hsess`: monitors;
* `lib`, `area`, `active`, `view`: the session in the library, and the area on the bridge as
  `remote_status()` would report it.

`SubmitColor`, `StartStream`, `Identify` share `Inbound` (timestamp, owner, `_may_start`);
`Stop`/`StopResume` are `stop()` up to and after its await; `TeardownTicker`, `TeardownHealth`,
`TeardownSession` are the three stretches of `_teardown`, each running on to the next await that
really yields (awaiting a task that is done does not); `StartBegin` … `StartCloseFails` are the
paths of `_start_stream`, with one action for each point where a cancellation can strike; `Halt` is
`stop()` without what its caller does to the configuration first (`Emulator!DeleteTV`);
`HealthAsk`/`HealthAnswer`/`HealthError` one round of `_run_health`. The library and the bridge are
external and modelled by what `engine.py` relies on.

**Emulator.** A group is reduced to its stream: none, not an entertainment group, off, or the TV
it is active for. `Denied` is the single-stream guard. A DELETE that stops a stream goes on as a
stopper of the engine. The second TV matters: it is what the guard is for. `known` are the TVs the
configuration knows: `DeleteTV` (web UI) takes one out and stops its stream; its requests are
refused from then on, its DTLS frames are not (`inbound.py:100`).

**Lifecycle.** `at` is where `run()` is: `start` (with `step`, the part that comes next), `serve`,
each await of `stop()` (`join` is the executor's `join()` of the DTLS thread, `closing`
`Engine.stop()`, `notify` the SSDP task, `handlers` the runner's wait for handlers at work), `over`
or `raised`, then the end of `asyncio.run`: `CancelAll` cancels every task that is left, once, and
`Exit` is when they have ended. `up` are the parts that came up and were not stopped. `thread` and
`running` are the DTLS thread and its flag; `ready` is the queue of what it and the executor handed to
the loop, in order. Between any two steps of start and stop the engine's own tasks run (`Engaged`),
frames arrive (`OnFrame`) and requests are served as long as the HTTP part is up (`Request`).
A start that fails goes on at the stop, as the `finally` of `run()` does; an exception of one
component's stop skips the rest. The parts' own work is theirs: what matters here is that they are
up, and what `stop()` awaits.

**Config.** Each web operation is split at its awaits; `pc = "rebuild"` is the point between two
saves of one handler, where only a kill can strike. `orphan` says that the bridge a request waits
for was deleted and the request goes on with the object it holds. Every action that saves takes
`ok`: with `Save(FALSE)` the save raised, the request ends and the memory stays `ahead` of the
file. So it is when a smoothing that is no number ends an assignment after area and split were
changed (`AssignRaises`), when asking for the areas raises what the handler does not expect
(`AreasRaise`) and when `stop_stream()` raises in a deletion (`DeleteStopped` without `ok`). `suspect`
are TVs whose last assignment failed so, overlapped another one or was cut short by a kill; the next
one that runs alone takes a TV out. `Kill` takes the service down with whatever was not saved, `Start`
is `load()` and `resolve_mac()`, which makes up an address if the host has none and saves it.
`CliPairs` to `CliPaired` is the command line's `pair`, a second process beside the service, up or
down: `snap` is the copy it loaded, which replaces the file at its end, and `cut` are the TVs that
were suspect or being assigned when it was read. `removed`, `paired` and `told` are the deletions and
pairings that were reported and the addresses TVs have seen, without those that the copy of the
other process does not have at that moment: it is written last. `ByWeb` and `ByCli` are the bridges
that either process pairs with. Lights are represented by what they were built from: area and split.

**Dtls.** One action per handler, chosen by the record's kind. Cryptography is symbolic: a record
can be read with the keys it was written with. The transcript is kept message by message, because
the client checks it in the server's Finished. `Restart` is a new process of the bridge in the
middle of it all. The clients follow RFC 6347 and are external.

**Colors.** The stream's life is reduced to down, connecting and up (it is `Engine`'s subject).
A channel's id is its place in the area. One colour component; eased values are fixed-point (`Unit`
steps to a colour step), a smoothing factor is a number of `Parts`. `Unit` must be fine enough for
rounding not to stop the easing early, which floats do not either; 8 with 4 parts is. `Settles` is
about a stream that stays up, which idealises: in the code one whose TVs fall silent idles out after
`IDLE_TIMEOUT_S`. The file may
hold any factor of `Factors`; the web UI clamps what it stores (`Cap`), the ticker clamps what it
reads. An assignment sets area, split and, if the body has one, smoothing in `Assign`; it is in
`assigning` until the bridge has answered, when `Rebuild` makes the lights of the area it asked about
(none if that area is not found), or `RebuildFails`. Assignments of one TV may overlap. `AssignRaises`
is the request whose smoothing is no number, `SetSmoothing` one of nothing but the smoothing;
`suspect` is as in `Config`, and `streamSound` records, when a stream starts, that its owner was
neither suspect nor being assigned. A group action goes to group 0 or to a group of the TV's making
(`Groups`: any list of light ids, its own or not). A frame is the set of its commands, each with its
light, channel and colour.
`DeviceNumber` says which light of the merged area a device becomes; `MergedAsCoded` (in
`MCColors`) compares that with the code's way, channel by channel, for all areas of up to four
channels.

## 3. What TLC checks

| Run | Question | Answer |
|---|---|---|
| `engine_safety` | Can any interleaving lose a session, leave one unwatched, run two starts or tickers, let a monitor act on the wrong session, leave an area active, or give up a stream that is still ours? | no: `NoStrandedSession`, `SessionHasKeeper`, `SingleStart`, `SingleTicker`, `HealthWatchesSession`, `AreaReleased`, `NoFalseAlarm`; and `Inv` is invariant |
| `engine_implements` | Does the engine keep the promise of `OutboundStream`, its liveness included, and close everything once the TVs are off? | yes: `ImplementsOutboundFairly`, `QuietCloses` |
| `engine_recovers` | Does the stream of a writing TV come back after drops, silent ends, takeovers, failed starts, unpairing and reassigning, and does an ownerless stream find an owner? | yes, but for two losses the monitor cannot recognise (`Unrecognised`): `Recovers`, `OwnerReturns` |
| `emulator_safety` | Do two TVs' requests and the deletion of either, in any order, keep the engine's invariant, and can one take the other's live stream? | they keep it; it cannot: `Inv`, `NoTakeover` |
| `lifecycle` | However far the start came and whatever one fault hits: does the stop leave nothing behind and always end, is the engine left alone after its sources stopped, does a cancelled start release its area, do errors of the network silence nothing? | yes: `StopComplete`, `Exits`, `InboundSilent`, `CancelledStartReleases`, `KeepsServing` |
| `config` | Two requests in flight, two bridges, a kill or a request that raises at any point, and a use of the command line beside the service: do lights belong to areas, is what was answered kept, does the active bridge exist, is the identity one? | yes, with the exceptions the properties name: `LightsMatch`, `Durable`, `DeletedForGood`, `PairedForGood`, `ActiveConfigured`, `StableIdentity` |
| `dtls_frames` | Two TVs and an unpaired client in one set of attributes: can a frame count for another TV? | no: `FrameIdentity` |
| `dtls_heard` | Does a TV that keeps trying get through after losses and restarts of the bridge? | yes: `Heard` |
| `colors_stream` | Do frames drive exactly the area's channels whatever is assigned meanwhile, start fresh, stay between old colour and target, and settle? | yes, for a stream that started sound: `WholeArea`, `FreshStart`, `NoOvershoot`, `Settles` |
| `engine_wakeup` | Is `NoStrandedSession` safe from a frame that slips in between the end of a start task and the wake-up of `stop()`? | **no** (violation) |
| `engine_lights` | Do the lights of a stream belong to its owner? | **no** (violation of `LightsOfOwner`) |
| `lifecycle_outbound` | Does a stop that raises nothing leave the real bridge out of streaming mode? | **no** (violation of `StopsOutbound`) |

### Bounds, and why they are enough

* Engine: three slots let a session be closed while another start is cancelled and a third begins;
  the invariant excludes more than one start task, and the proofs are for any number. One TV, as
  the engine tells TVs apart only by owner and lights; two where that is the question
  (`engine_lights`, `emulator_safety`). One stopper against the tickers' own teardowns; the proofs
  are for any number. Faults: one for safety, two for recovery, so that a loss can follow a failed
  recovery. `engine_recovers` allows two edits: away and back.
* Lifecycle: one TV, one slot (the engine's own concurrency is `engine_safety`'s), the application
  and one DELETE as callers of `Engine.stop()`, one fault anywhere – in a start, the thread, SSDP,
  mDNS, the engine or the bridge –, one callback of the thread in the queue besides the join's.
* Config: one user and two requests at a time, which is what interferes in every pair of operations;
  a bridge with an area that the web UI pairs with and one without that the command line pairs with;
  two addresses. One kill or one request that raises, at any point, and one use of the command line,
  at any point and for any time, with one request at a time in flight meanwhile
  (`OneBeside`). The proofs are for any number of each.
* Dtls: one attempt each of three clients, one loss or restart and one doubled datagram, unordered
  delivery; for liveness five attempts of one client against four losses or restarts, so that those
  run out first.
* Colors: one TV, an area of a gradient strip of two channels and an area of one channel; two
  streams; three requests in all, so two writes around a teardown and a third in between, or a write
  and two assignments that overlap; factors of 1.0 and of -1.0 in the file and in the edit. The
  proofs are for any areas, frames, bodies and numbers.

### Assumptions named as constants

* `PromptWakeup` – no inbound write runs between the end of a task and the wake-up of whoever
  awaits it, one turn of the event loop. The code does not guarantee it: a write that is queued in
  that very turn, such as the callback of a frame from the DTLS thread, runs there. What is proved
  under it holds outside this window, and `engine_wakeup` shows what happens inside.
* `SlowConnect` – opening a session (about 4 s, `rest_v1.py:400-401`) outlasts every step that is
  already due (a tick, a wake-up). Without it the session of a new start could be installed before
  an old ticker looks around.
* `OrderedBridge` – the bridge serves our stop and start of one area in sending order; only
  `engine_recovers` sets it.
* `CalmNetwork` – for `Heard` only: flights arrive in order and no timer fires while an answer may
  still come, nothing is doubled, and the bridge restarts only while a handshake is under way. A
  late or doubled ClientHello resets an established session (`dtls_server.py:164-171`) and a resent
  ClientKeyExchange enters the transcript twice (188), so without it the client must start again and
  may be reset again.

`Lifecycle` leaves out that the join of the thread gives up after two seconds: no wait of the thread
is longer than one (`dtls_server.py:113-134`). It takes it that the runner's cleanup waits for
handlers at work; aiohttp does so for a minute.

### Fairness

Engine: every step of a task that can run is taken (the event loop), the bridge answers, timers
fire, and a TV that is on keeps writing. Silence is forced only when all TVs are off. Nothing
forces a fault, an edit, a `stop()`, a power-off. Dtls: the thread reads its socket, the loop runs
its callbacks, clients act on what they get, their timers fire, and a connected one keeps
streaming. Colors: the ticker ticks and blinks expire. Lifecycle: `run()` goes on where it can, the
thread, the SSDP task and the tasks of the engine take their steps, the bridge answers, and a TV that
is on is received. All of it is weak fairness but for `OnFrame`: a callback in the loop's queue runs
in the next turn, whatever else runs before it, so a strong one is due to it (under `PromptWakeup`
it is not enabled throughout).

Deadlock is not checked where the system may stop for good: TVs off and everything closed, or a
bound used up.

## 4. What is proved

Every theorem holds for every number of everything the module's constants bound.

**Engine** (`EngineProofs`), from `SlotAssumption` and `BoundAssumption`:

* `TypeCorrect`: `Spec => []TypeOK`, without further assumptions.
* `Invariance`: `PromptWakeup /\ SlowConnect` and `Spec` give `[]Inv`; from it `NothingStranded`,
  `KeeperAlways`, `OneStart`, `OneTicker`, `HealthCurrent`: `NoStrandedSession`, `SessionHasKeeper`,
  `SingleStart`, `SingleTicker`, `HealthWatchesSession`.
* `FalseAlarms`: `NoFalseAlarm`, under the same assumptions.
* `AreasReleased`: `[]AreaReleased`, if there is one caller of `stop()` besides (`OneStopper`; with
  two it is false, see section 5).
* `OneWayToLeak`: `LeaksOnlyRecancelled` – for any number of callers, and without any assumption on
  timing: without faults, an area is only ever forgotten while active where a start task that is closing its
  session is cancelled once more (`engine.py:313`). It needs no invariant but the types: every other
  step keeps the area in some slot's hands.

The five do not carry themselves from step to step. `Inv` adds what they lean on:
`StartInv` – the one start task is the one `startTask` names, never next to a live stream, in a
slot with neither ticker nor installed session, and when the start task a `stop()` awaits has
ended, no other runs (this is where `PromptWakeup` is needed: `StopResume` clears `startTask`
without looking); `TickerInv` – the installed ticker runs alone and its slot is the session's;
`WaitInv` – who may wait for what; `HealthInv` – only the installed monitor runs, for the installed
session; `KeeperInv` – a session without its ticker is about to be taken out by a teardown whose
next step is due (this is where `SlowConnect` is needed: a new session cannot be installed in
between). TLC checks `Inv` in `engine_safety` and, with two TVs' requests, in `emulator_safety`.

`FalseAlarms` adds `RidInv` – while the bridge has yet to name our streamer nothing is learned, and
while it names ours nothing else is – which holds because no start can activate the streamed area
(`StartInv`) and a poll is about the installed session (`HealthInv`). `AreasReleased` adds
`ReleaseInv`: a start task that was cancelled or outdated, or that closes an active area, is awaited
by the one `stop()`, so that nothing can cancel its `aclose()`; and one that does close an active
area has no cancellation under way.

**The promise to the bridge** (`OutboundProofs`): `Implements` – `Spec => ImplementsOutbound`, under
`PromptWakeup` and `SlowConnect`: one attempt, one live stream, nothing opened next to it, whatever
was opened is closed before it is forgotten. `SessionInv` (in `Engine`) says what the library has to
say about the session in each place that holds one; without it a step of the code could map to a
step of `OutboundStream` in the wrong state. `OneAtATime` – `Spec => []Outbound!Exclusive`: no attempt
next to a live stream. It is an invariant of the abstract specification (`PromiseExclusive`), so the
refinement carries it over.

**Emulator** (`EmulatorProofs`): what the engine's theorems say, they say of the engine alone, called
by anybody; here its callers are the requests of the TVs and the web UI. `EmulatorSteps` shows that
each step is one of the engine's, a write that `Inbound` allows, or a `Halt`, and that carries the
theorems over: `EmulatorTypes`; `EngineSurvives` – `Inv`; `EmulatorImplements` and
`EmulatorOneAtATime` – the promise to the bridge; `EmulatorFalseAlarms`; `EmulatorReleases` –
`AreaReleased` with one DELETE at a time; `EmulatorLeaks` – `LeaksOnlyRecancelled` with any number.
Assumptions are those of the engine's theorem. Its own: `GroupTypes` – types; `OwnerSafe` –
`NoTakeover`, without any assumption on timing: no request and no step of the engine puts another TV
in the place of the owner of a live stream.

**Lifecycle** (`LifecycleProofs`): `LifecycleTypes` – types, those of the engine included;
`SilenceAfterStop` – `InboundSilent`, from `InboundInv`: the wake-up of the join is the last thing the
thread leaves in the queue, whatever its length; `NothingLeftUp` – `StopComplete`, from `PartsInv`.
`EngineInService` – from the first step of the start until the loop ends (`LoopRuns`), the service's
calls keep to what the engine's proofs expect: `ServiceInv`, under `PromptWakeup` and `SlowConnect`.
So until then `ServiceImplements`, `ServiceFalseAlarms` and `ServiceLeaks` hold as for the engine
alone. What `CancelAll` does after it is outside the engine's invariant, since it cancels all tasks at
once; `StartsRelease` – `CancelledStartReleases` – says what is left of it: without faults, a start
task that is cancelled releases its area, unless it is cancelled again or its session was installed. It follows
from the types, step by step, so it holds in any state, the end of the loop included.

**Config** (`ConfigProofs`), from `ConfigAssumption` alone, the command line beside the service, failing
requests and kills included: `ConfigTypes` – types; `ActiveNeverDangles` – `ActiveConfigured`;
`PairingsLast`, `IdentityIsLocked`, `DeletionsLast`, `NothingUnsaved`, `LightsFollowAreas` –
`PairedForGood`, `StableIdentity`, `DeletedForGood`, `Durable`, `LightsMatch`. None is inductive: each
speaks of the file or the memory, but the file is what the memory, or the command line's copy, was
before. The invariant `IInv` says the same of whatever may be written next – memory, file and copy.
`PairedInv`: a reported pairing is in all three; `IdentityInv`: so is the address TVs have seen;
`DeletedInv`: a username is minted once, so what was deleted cannot come back under it, it is in none of
the three, and a deletion that waits is of a TV off the list; `DurableInv`: only a waiting assignment or
deletion, or what `ahead` records, leaves the file behind the memory (`Durable` speaks of no request in
flight at all, which a step that lets one begin does not preserve); `LightsInv`: the lights match in
all three, but for the TVs that are suspect, being assigned or, in the copy, `cut`; a TV not in the list
has no lights to come back with; and an assignment that nothing overlapped asks about the area its TV
has. `ActiveInv` does so for the active id.

**Dtls** (`DtlsProofs`), from `ClientAssumption`: `TypeCorrect`; `Invariance` – whenever the server's
keys fit a record, the identity it names is that of the record's writer (`KeysInv`: identity and keys
are only ever set and cleared together, by a restart too), and a queued frame carries the identity
it was decrypted under (`QueueInv`); `FramesIdentified` – `FrameIdentity`.

**Colors** (`ColorsProofs`), from `ColorsAssumption`: `TypeCorrect` – no easing, rounding or blink
leaves the range of colours; `AreaWhole` – `WholeArea`; `StartsFresh` – `FreshStart`; `EasesWithin` –
`NoOvershoot`. The invariant `IInv` adds to the types: `LightsInv` – each TV's lights are none or were
built from an area, and from its own unless it is suspect or being assigned, and what is pending for
a TV that is not suspect asks about the area it has, which is what makes the end of an assignment put
things right; `StreamInv` – so were the stream's lights, from the area it is open on if it started
sound; `FrameInv` – a frame shows the smoothed buffer through the stream's lights, so what holds of the
lights holds of the frame; `FreshInv` – before the first frame nothing is eased, so that the first
one is exact. The lemmas below them are arithmetic – `NearestBetween`, `NearestMonotone`,
`NearestExact` on rounding, `MeanBetween` on the weighted mean, from `div` and `mod` alone – and
`DeviceNumberInjective`: the device that comes up first in an area has the lower number.
`LightsOfArea` rests on it: the lights of any area partition its channels, one each or by device.

Only model-checked: liveness – `QuietCloses`, `Recovers`, `OwnerReturns`, `Exits`, `KeepsServing`,
`Heard`, `Settles`, and what `ImplementsOutboundFairly` says beyond `ImplementsOutbound`. Fairness
and ENABLED are out of the prover's reach. That `DeviceNumber` is what the code's loop computes
(`MergedAsCoded`) would be an induction over the channels; TLC evaluates it up to four.

## 5. Where code and text part

The three violation runs are findings in PROJECT.json. While modelling, TLC refuted more of what
comments and ARCHITECTURE.md say. The formulas are in the MC modules or in the modules named, under
the bounds given; no run repeats them. Engine bounds, unless said otherwise: one TV, one area, two
slots, no edits, `PromptWakeup` and `SlowConnect`.

| Formula | Bounds | What happens |
|---|---|---|
| `AreaReleased` | two stoppers, no fault | the second `stop()` cancels the `aclose()` in the handler of the first one's cancellation (`engine.py:313`; `suppress(Exception)` does not stop it): the area stays active. `engine.py:309-311` wants it closed. |
| `MCEngine!StopReleases` | one stopper | a `stop()` that meets a teardown under way finds no session and returns while the bridge still streams. |
| `MCEngine!OwnedStream` | one stopper | the teardown of an old session clears the owner under a start that has begun: a stream without an owner (`engine.py:424`), which the guard lets any TV join. |
| `MCEngine!RidIsOurs` | one slot, one fault | a takeover before the first poll that names a streamer: the other controller's id is learned as ours (`engine.py:380`). |
| `MCEngine!NoRegrab` | two faults | the back-off is looked at only when a task is created: a start may already be under way. |
| `MCEngine!Serves` | two TVs, one without an area | that TV writes first, becomes the owner, cannot stream, and nothing resets it: the other one never gets a stream (`engine.py:120`). |
| `MCEngine!IdlesOut` | two TVs, two areas | the idle clock is common: the writes of a TV that may not stream keep the stream of one that left (`engine.py:123`). |
| `MCEmulator!OwnDeleteOnly` | as `emulator_safety` | a DELETE of any existing group stops whatever stream there is (`rest_v1.py:425`). |
| `MCEmulator!GroupResolvable` | as `emulator_safety` | a POST takes the next id even if a PUT made a group under it, and overwrites it (`rest_v1.py:352`). |
| `MCEmulator!DeletedDark` | as `emulator_safety` | a TV is deleted while its start is under way but owned by nobody or by another TV by now: no stop, and the stream comes up with its lights (`web/server.py:157`). |
| `Config!LightsMatch` without `suspect` | as `config` | of two overlapping assignments the area of one and the lights of the other may remain; a smoothing that is no number ends the request with status 500 when area and split have changed and the lights have not (`web/server.py:136`), and so does an unexpected answer of the bridge; `_list_areas` saves in the middle of an assignment (`web/server.py:191`), and a kill there keeps the new area with the old lights. |
| `Config!Durable` without `ahead` | as `config` | what such a request changed, or a deletion whose `stop_stream()` raises (`web/server.py:159`), is in memory and not in the file until some other request saves. |
| `Config!DeletedForGood`, `PairedForGood`, `StableIdentity` with `removed`, `paired`, `told` counting all that was reported | as `config` | `pair` writes the copy it loaded up to 30 s earlier over what the service saved meanwhile – without a bridge that was paired, with a TV that was deleted, without an address that was made up – and the service's next save takes the command line's bridge out again (`__main__.py:263`; the docstring of `_pair` promises to store the credentials). |
| `Lifecycle!CancelledStartReleases` without its exceptions | as `lifecycle` | the end of the loop interrupts an `aclose()`, or cancels a ticker that never ran: the area stays active. |
| `Colors!WholeArea` without `streamSound` | as `colors_stream` | a stream started during an assignment, or after one that failed or was overlapped, opens the area of one with the lights of another and keeps both. |
| `MCColors!LatestWins` | as `colors_stream`, with `Bodies <- HueOnly` | a hue/sat write leaves `colormode` at xy: its colour is not shown (`rest_v1.py:65-81`). |

## 6. What is not modelled

* **Descriptor, identity**: formatting. That the address the identity is made from stays is
  `StableIdentity`.
* **Certificate files** (`discovery/cert.py`): key and certificate are written once, one after the
  other; a kill in between leaves a pair that the next start cannot load, and nothing repairs it.
  Two writes in a row say all there is to say.
* **Command line**: precedence of options and environment, logging. `areas` only reads.
* **SSDP**: the reply to an M-SEARCH changes no state. **mDNS**: an exception of the registration
  that is not an `OSError` (`mdns.py:65`) leaves the library open; it is not told from the one that
  ends the start.
* **Listeners** for HTTPS and ingress are one part that may fail, as nothing depends on them.
* **Groups**: attributes other than the stream and the lights (name, class, locations) and the JSON a TV
  reads. `stream.owner` of a group outlives the stream when the engine idles out (`rest_v1.py:396`):
  what a TV concludes from it is not in this code.
* **Blinks** are keyed by light id in `Engine` and `Colors` as in the code, so one TV ends another's
  (`engine.py:178`); no property claims otherwise.
* **A bridge switched under a running stream** (`web/server.py:238`): `Activate` and `DeleteBridge`
  do not touch the engine, whose stream goes on until it idles out; `Engine!ChangeBridge` is the
  engine's side of it.
* **Two writers of one temporary file** (`store.py:56`): a save of the service and one of the command
  line at the same instant; saves are atomic in `Config`. A start whose save raises ends there and is left
  out.
* **Rates**: a start that fails at once is retried at the next write; that this is at frame rate
  needs a notion of time the models do not have.
* **Colour spaces**: which field of a state counts is modelled; the conversion is not.
* **The web page and read-only routes.**

## 7. Plan

Built in this order: the engine with its abstract specification and proofs (everything else drives
it), the emulator on top of it, the configuration, the DTLS server, the colours; then the service's
life, restarts and the command line in `Config`, deleted TVs in `Emulator`, restarts in `Dtls`; then
the refinement, `Emulator`, `Config` and `Lifecycle` proved; then `Colors`, and the engine's theorems
carried over to the emulator and the service.

What is left, the most telling first:
1. `Config` with `Engine`: deleting or switching the active bridge under its stream.
2. What a TV reads of its groups after the engine idled out.
3. A recovery of `Dtls` after a late or doubled hello, if the code comes to have one.

## 8. Running

    tlc -config EngineSafety.cfg MCEngine        # each run names its module and cfg in PROJECT.json
    tlapm EngineProofs.tla                       # likewise OutboundProofs, EmulatorProofs,
                                                 # LifecycleProofs, ConfigProofs, DtlsProofs,
                                                 # ColorsProofs

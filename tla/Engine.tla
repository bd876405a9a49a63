------------------------------- MODULE Engine -------------------------------
(***************************************************************************)
(* The outbound engine of the bridge (ambilight_hue_bridge/engine).        *)
(*                                                                         *)
(* One Engine object keeps a handful of attributes (session, owner, task   *)
(* handles) that three kinds of asyncio task share: the start task that    *)
(* opens a session with the real bridge, the ticker that streams frames    *)
(* until the TV falls silent, and the health monitor that polls the        *)
(* bridge.  Request handlers, decoded frames and callers of stop() mutate  *)
(* the same attributes.  An action is what runs between two awaits.        *)
(*                                                                         *)
(* A slot stands for everything one call of create_task(_start_stream())   *)
(* can give rise to: that start task, the session it opens, and the ticker *)
(* and the health monitor it creates.  Slots are reused once all of it is  *)
(* gone.  Time is abstract: lastUpdate says whether fewer than             *)
(* IDLE_TIMEOUT_S passed since the last inbound write, regrab whether the  *)
(* re-grab block is running, and identify holds the lights whose blink has *)
(* not expired.                                                            *)
(***************************************************************************)
EXTENDS Naturals, FiniteSets

CONSTANTS
    TV,             \* paired TVs, by username
    Area,           \* entertainment areas of the real bridge
    Light,          \* virtual light ids
    Slot,           \* bound on start tasks and sessions alive at once
    Stopper,        \* bound on concurrent calls of stop()
    None,           \* Python's None
    NoArea,         \* the empty area of an unassigned TV
    Assignments,    \* the TV -> area assignments the configuration may start with
    MaxFaults,      \* bound on faults of the network, the bridge and the library
    MaxEdits,       \* bound on edits of the configuration while the engine runs
    PromptWakeup,   \* no inbound write runs between the end of a task
                    \* and the wake-up of whoever awaits it
    SlowConnect,    \* opening a session outlasts every step already due
    OrderedBridge   \* the bridge serves our start and stop PUTs in sending order

ASSUME SlotAssumption ==
    /\ None \notin TV \cup Slot \cup Stopper
    /\ NoArea \notin Area
    /\ Slot \cap Stopper = {}

ASSUME BoundAssumption ==
    /\ MaxFaults \in Nat /\ MaxEdits \in Nat
    /\ Assignments \subseteq [TV -> Area \cup {NoArea}]
    /\ {PromptWakeup, SlowConnect, OrderedBridge} \subseteq BOOLEAN

VARIABLES
    \* attributes of the Engine object
    streamOwner, streamLights, session, startTask, ticker, healthTask,
    remote, ourRid, identify, lastUpdate, regrab,
    \* start tasks, by slot
    spc, cancels, stale, target,
    \* tickers and callers of stop(): where they wait, and for which slot
    pc, arg,
    \* health monitors, by slot
    hpc, hfails, hsess,
    \* sessions as the library sees them, and the areas as the bridge sees them
    lib, area, active, view,
    \* configuration, TVs that are on, faults and edits so far
    assign, bridge, on, faults, edits

attrs  == <<streamOwner, streamLights, session, ticker, healthTask, remote, ourRid, identify>>
clock  == <<lastUpdate, regrab>>
starts == <<spc, cancels, stale, target>>
actors == <<pc, arg>>
health == <<hpc, hfails, hsess>>
net    == <<lib, area, active, view>>
config == <<assign, bridge, on, faults, edits>>
vars   == <<attrs, startTask, clock, starts, actors, health, net, config>>

Actor == Stopper \cup Slot
FailsToRecover == 2          \* _HEALTH_FAILS_TO_RECOVER

TypeOK ==
    /\ streamOwner \in TV \cup {None} /\ streamLights \in TV \cup {None}
    /\ session \in Slot \cup {None} /\ startTask \in Slot \cup {None}
    /\ ticker \in Slot \cup {None} /\ healthTask \in Slot \cup {None}
    /\ ourRid \in {"none", "us", "other"} /\ remote \in {"alive", "dead"}
    /\ identify \subseteq Light
    /\ lastUpdate \in {"recent", "old"} /\ regrab \in {"allowed", "blocked"}
    /\ spc \in [Slot -> {"idle", "ready", "connect", "discard", "abort"}]
    /\ cancels \subseteq Slot /\ stale \subseteq Slot
    /\ target \in [Slot -> TV \cup {None}]
    /\ pc \in [Actor -> {"idle", "new", "run", "cancelled", "start", "ticker", "health", "close"}]
    /\ arg \in [Actor -> Slot \cup {None}]
    /\ hpc \in [Slot -> {"idle", "sleep", "poll"}]
    /\ hfails \in [Slot -> 0 .. FailsToRecover - 1]
    /\ hsess \in [Slot -> Slot \cup {None}]
    /\ lib \in [Slot -> {"closed", "opening", "activated", "streaming", "dropped", "closing"}]
    /\ area \in [Slot -> Area \cup {NoArea}]
    /\ active \subseteq Slot
    /\ view \in [Area -> {"idle", "unnamed", "ours", "cleared", "foreign"}]
    /\ assign \in [TV -> Area \cup {NoArea}] /\ bridge \in {"paired", "absent"}
    /\ on \subseteq TV
    /\ faults \in 0 .. MaxFaults /\ edits \in 0 .. MaxEdits

Init ==
    /\ streamOwner = None /\ streamLights = None
    /\ session = None /\ startTask = None /\ ticker = None /\ healthTask = None
    /\ remote = "alive" /\ ourRid = "none" /\ identify = {}
    /\ lastUpdate = "old" /\ regrab = "allowed"
    /\ spc = [i \in Slot |-> "idle"] /\ cancels = {} /\ stale = {}
    /\ target = [i \in Slot |-> None]
    /\ pc = [a \in Actor |-> "idle"] /\ arg = [a \in Actor |-> None]
    /\ hpc = [i \in Slot |-> "idle"] /\ hfails = [i \in Slot |-> 0]
    /\ hsess = [i \in Slot |-> None]
    /\ lib = [i \in Slot |-> "closed"] /\ area = [i \in Slot |-> NoArea]
    /\ active = {} /\ view = [a \in Area |-> "idle"]
    /\ assign \in Assignments /\ bridge = "paired" /\ on = TV
    /\ faults = 0 /\ edits = 0

-----------------------------------------------------------------------------
(* Predicates the code tests.                                              *)

IsStreaming == session # None /\ lib[session] = "streaming"

\* tv_stream_target: the area a TV streams to; nobody and an unassigned TV have none.
AreaOf(tv) == IF tv \in TV THEN assign[tv] ELSE NoArea

CanStream(owner) == bridge = "paired" /\ AreaOf(owner) # NoArea

\* Mutants: a start next to a start under way, and a start next to a live stream.
MayStartTwice(owner) == ~IsStreaming /\ regrab = "allowed" /\ CanStream(owner)
MayStartLive(owner) == startTask = None /\ regrab = "allowed" /\ CanStream(owner)

MayStart(owner) == ~IsStreaming /\ startTask = None /\ regrab = "allowed" /\ CanStream(owner)

\* Mutant: silence does not end the stream.
TickerMustStopDeaf == remote = "dead" \/ ~IsStreaming

TickerMustStop == lastUpdate = "old" \/ remote = "dead" \/ ~IsStreaming

\* Nothing of an earlier start lives in slot i any more.
Free(i) ==
    /\ spc[i] = "idle" /\ pc[i] = "idle" /\ hpc[i] = "idle"
    /\ lib[i] = "closed" /\ i \notin {session, startTask, ticker, healthTask}
    /\ \A a \in Actor : arg[a] # i

\* What a waits for has ended: its wake-up is in the ready queue of the loop.
AwaitOver(a) ==
    \/ pc[a] = "start" /\ spc[arg[a]] = "idle"
    \/ pc[a] = "ticker" /\ pc[arg[a]] = "idle"
    \/ pc[a] = "health"

\* The next step of a is a matter of at most one frame interval.
StepDue(a) ==
    AwaitOver(a) \/ pc[a] \in {"new", "cancelled"} \/ (pc[a] = "run" /\ TickerMustStop)

InboundAllowed == PromptWakeup => \A a \in Actor : ~AwaitOver(a)

-----------------------------------------------------------------------------
(* Operations called by the emulator: plain functions, no await.           *)

\* An inbound write: the timestamp, the owner, and the start of a stream if one may start.
Inbound(owner) ==
    /\ InboundAllowed
    /\ lastUpdate' = "recent"
    /\ streamOwner' = owner
    /\ IF MayStart(owner)
       THEN \E i \in Slot : /\ Free(i)
                            /\ startTask' = i
                            /\ spc' = [spc EXCEPT ![i] = "ready"]
       ELSE UNCHANGED <<startTask, spc>>
    /\ UNCHANGED <<streamLights, session, ticker, healthTask, remote, ourRid, regrab, cancels,
                   stale, target, actors, health, net, config>>

\* Mutant: a colour never adopts a stream.
AdoptedNever(tv) == streamOwner

Adopted(tv) == IF streamOwner = None THEN tv ELSE streamOwner

SubmitColor(tv) == tv \in on /\ Inbound(Adopted(tv)) /\ UNCHANGED identify

StartStream(tv) == tv \in on /\ Inbound(tv) /\ UNCHANGED identify

Identify(tv, l) ==
    tv \in on /\ Inbound(Adopted(tv)) /\ identify' = identify \cup {l}

StopIdentify(l) ==
    /\ l \in identify /\ identify' = identify \ {l}
    /\ UNCHANGED <<streamOwner, streamLights, session, ticker, healthTask, remote, ourRid,
                   startTask, clock, starts, actors, health, net, config>>

-----------------------------------------------------------------------------
(* Teardown, run by a ticker that ends or by a caller of stop().  It is    *)
(* one atomic step up to its next await: the cancelled ticker, then the    *)
(* cancelled health monitor, then the closing of the session.  Awaiting a  *)
(* task that is done does not yield.                                       *)

TeardownSession(a) ==
    /\ session' = None /\ streamOwner' = None /\ streamLights' = None
    /\ identify' = {} /\ remote' = "alive" /\ ourRid' = "none"
    /\ IF session = None
       THEN /\ pc' = [pc EXCEPT ![a] = "idle"] /\ arg' = [arg EXCEPT ![a] = None]
            /\ UNCHANGED lib
       ELSE /\ pc' = [pc EXCEPT ![a] = "close"] /\ arg' = [arg EXCEPT ![a] = session]
            /\ lib' = [lib EXCEPT ![session] = "closing"]

\* Mutant: the monitor is forgotten, not cancelled.
TeardownHealthForgets(a) == healthTask' = None /\ TeardownSession(a) /\ UNCHANGED <<hpc, hsess>>

TeardownHealth(a) ==
    /\ healthTask' = None
    /\ IF healthTask # None /\ hpc[healthTask] # "idle"
       THEN /\ pc' = [pc EXCEPT ![a] = "health"] /\ arg' = [arg EXCEPT ![a] = healthTask]
            /\ hpc' = [hpc EXCEPT ![healthTask] = "idle"]
            /\ hsess' = [hsess EXCEPT ![healthTask] = None]
            /\ UNCHANGED <<session, streamOwner, streamLights, identify, remote, ourRid, lib>>
       ELSE TeardownSession(a) /\ UNCHANGED <<hpc, hsess>>

\* A ticker cancelled before its first step ends at once; a running one runs its finally.
TeardownTicker(a) ==
    /\ ticker' = None
    /\ IF ticker \notin {None, a} /\ pc[ticker] # "idle"
       THEN /\ pc' = [pc EXCEPT ![a] = "ticker",
                                ![ticker] = IF @ = "new" THEN "idle" ELSE "cancelled"]
            /\ arg' = [arg EXCEPT ![a] = ticker]
            /\ UNCHANGED <<healthTask, hpc, hsess, session, streamOwner, streamLights, identify,
                           remote, ourRid, lib>>
       ELSE TeardownHealth(a)

TeardownFrame == UNCHANGED <<clock, hfails, area, active, view, config>>

\* The health monitor a teardown cancelled has ended.
HealthAwaited(a) ==
    /\ pc[a] = "health"
    /\ TeardownSession(a)
    /\ UNCHANGED <<ticker, healthTask, startTask, starts, hpc, hsess>> /\ TeardownFrame

\* The ticker a teardown cancelled has ended.
TickerAwaited(a) ==
    /\ pc[a] = "ticker" /\ pc[arg[a]] = "idle"
    /\ TeardownHealth(a)
    /\ UNCHANGED <<ticker, startTask, starts>> /\ TeardownFrame

\* session.aclose() returned: the bridge confirmed the stop of an activated area.
SessionClosed(a) ==
    /\ pc[a] = "close" /\ arg[a] \notin active
    /\ pc' = [pc EXCEPT ![a] = "idle"] /\ arg' = [arg EXCEPT ![a] = None]
    /\ lib' = [lib EXCEPT ![arg[a]] = "closed"]
    /\ area' = [area EXCEPT ![arg[a]] = NoArea]
    /\ UNCHANGED <<attrs, startTask, clock, starts, health, active, view, config>>

\* session.aclose() raised: the ticker dies with the exception, and so does the stop() that
\* awaits this ticker.
CloseFails(a) ==
    /\ pc[a] = "close" /\ faults < MaxFaults
    /\ LET ended == {a} \cup {b \in Actor : pc[b] = "ticker" /\ arg[b] = a}
       IN /\ pc' = [b \in Actor |-> IF b \in ended THEN "idle" ELSE pc[b]]
          /\ arg' = [b \in Actor |-> IF b \in ended THEN None ELSE arg[b]]
    /\ lib' = [lib EXCEPT ![arg[a]] = "closed"]
    /\ faults' = faults + 1
    /\ UNCHANGED <<attrs, startTask, clock, starts, health, area, active, view, assign, bridge,
                   on, edits>>

-----------------------------------------------------------------------------
(* stop(): bump the generation, cancel and await the start task, tear down. *)

\* Mutant: the start task is cancelled and forgotten, not awaited.
StopForgets(c) ==
    /\ pc[c] = "idle"
    /\ stale' = stale \cup {i \in Slot : spc[i] = "connect"}
    /\ cancels' = cancels \cup {i \in Slot : i = startTask /\ spc[i] # "idle"}
    /\ startTask' = None /\ TeardownTicker(c)
    /\ UNCHANGED <<spc, target>> /\ TeardownFrame

\* All of it but for what a caller does to the configuration first.
Halt(c) ==
    /\ pc[c] = "idle"
    /\ stale' = stale \cup {i \in Slot : spc[i] = "connect"}
    /\ IF startTask # None /\ spc[startTask] # "idle"
       THEN /\ cancels' = cancels \cup {startTask}
            /\ pc' = [pc EXCEPT ![c] = "start"] /\ arg' = [arg EXCEPT ![c] = startTask]
            /\ UNCHANGED <<attrs, startTask, hpc, hsess, lib>>
       ELSE startTask' = None /\ TeardownTicker(c) /\ UNCHANGED cancels
    /\ UNCHANGED <<spc, target, clock, hfails, area, active, view>>

Stop(c) == Halt(c) /\ UNCHANGED config

\* The awaited start task has ended: forget it, whichever it is by now, and tear down.
StopResume(c) ==
    /\ pc[c] = "start" /\ spc[arg[c]] = "idle"
    /\ startTask' = None
    /\ TeardownTicker(c)
    /\ UNCHANGED starts /\ TeardownFrame

-----------------------------------------------------------------------------
(* The start task, one per slot.                                           *)

\* Mutant: no finally clause, the handle of the finished task stays.
StartEndsBare(i) ==
    /\ spc' = [spc EXCEPT ![i] = "idle"] /\ UNCHANGED startTask
    /\ cancels' = cancels \ {i} /\ stale' = stale \ {i}
    /\ target' = [target EXCEPT ![i] = None]

\* Its finally clause.
StartEnds(i) ==
    /\ spc' = [spc EXCEPT ![i] = "idle"] /\ startTask' = None
    /\ cancels' = cancels \ {i} /\ stale' = stale \ {i}
    /\ target' = [target EXCEPT ![i] = None]

\* First step: no bridge left, or resolve the owner's area and lights and open a session.
StartBegin(i) ==
    /\ spc[i] = "ready" /\ i \notin cancels
    /\ IF bridge = "paired"
       THEN /\ spc' = [spc EXCEPT ![i] = "connect"]
            /\ target' = [target EXCEPT ![i] = streamOwner]
            /\ area' = [area EXCEPT ![i] = AreaOf(streamOwner)]
            /\ lib' = [lib EXCEPT ![i] = "opening"] /\ active' = active \ {i}
            /\ UNCHANGED <<startTask, cancels, stale>>
       ELSE StartEnds(i) /\ UNCHANGED <<area, lib, active>>
    /\ UNCHANGED <<attrs, clock, actors, health, view, config>>

\* session.start() returned.  It may have swallowed a cancellation; the generation tells.
StartConnected(i) ==
    /\ spc[i] = "connect" /\ lib[i] = "activated"
    /\ SlowConnect => \A a \in Actor : ~StepDue(a)
    /\ IF i \in stale
       THEN /\ spc' = [spc EXCEPT ![i] = "discard"]
            /\ lib' = [lib EXCEPT ![i] = "closing"]
            /\ cancels' = cancels \ {i}
            /\ UNCHANGED <<stale, startTask, target, session, streamLights, remote, ourRid,
                           ticker, healthTask, pc, hpc, hfails>>
       ELSE /\ lib' = [lib EXCEPT ![i] = "streaming"]
            /\ session' = i /\ streamLights' = target[i]
            /\ remote' = "alive" /\ ourRid' = "none"
            /\ ticker' = i /\ pc' = [pc EXCEPT ![i] = "new"]
            /\ healthTask' = i /\ hpc' = [hpc EXCEPT ![i] = "sleep"]
            /\ hfails' = [hfails EXCEPT ![i] = 0]
            /\ StartEnds(i)
    /\ UNCHANGED <<streamOwner, identify, clock, arg, hsess, area, active, view, config>>

\* session.start() raised (always, when the owner has no area): close the session.  What it
\* raised may have replaced a cancellation.
StartFails(i) ==
    /\ spc[i] = "connect"
    /\ faults' = IF area[i] = NoArea THEN faults ELSE faults + 1
    /\ faults' <= MaxFaults
    /\ spc' = [spc EXCEPT ![i] = "abort"] /\ cancels' = cancels \ {i}
    /\ lib' = [lib EXCEPT ![i] = "closing"]
    /\ UNCHANGED <<attrs, startTask, clock, stale, target, actors, health, area, active, view,
                   assign, bridge, on, edits>>

\* CancelledError before the first step: nothing of the task ever runs, not even its finally.
CancelUnstarted(i) ==
    /\ spc[i] = "ready" /\ i \in cancels
    /\ spc' = [spc EXCEPT ![i] = "idle"] /\ cancels' = cancels \ {i}
    /\ UNCHANGED <<attrs, startTask, clock, stale, target, actors, health, net, config>>

\* Mutant: the handler of CancelledError re-raises without closing the session.
CancelConnectLeaks(i) ==
    /\ spc[i] \in {"connect", "discard"} /\ i \in cancels
    /\ StartEnds(i)
    /\ lib' = [lib EXCEPT ![i] = "closed"]
    /\ UNCHANGED <<attrs, clock, actors, health, area, active, view, config>>

\* CancelledError in session.start() or in the aclose() of a discarded session: close it.
CancelConnect(i) ==
    /\ spc[i] \in {"connect", "discard"} /\ i \in cancels
    /\ spc' = [spc EXCEPT ![i] = "abort"] /\ cancels' = cancels \ {i}
    /\ lib' = [lib EXCEPT ![i] = "closing"]
    /\ UNCHANGED <<attrs, startTask, clock, stale, target, actors, health, area, active, view,
                   config>>

\* A second CancelledError interrupts the aclose() of the handler itself.
CancelClose(i) ==
    /\ spc[i] = "abort" /\ i \in cancels
    /\ StartEnds(i)
    /\ lib' = [lib EXCEPT ![i] = "closed"]
    /\ area' = IF i \in active THEN area ELSE [area EXCEPT ![i] = NoArea]
    /\ UNCHANGED <<attrs, clock, actors, health, active, view, config>>

\* The start task's own aclose() returned.
StartClosed(i) ==
    /\ spc[i] \in {"discard", "abort"} /\ i \notin cancels /\ i \notin active
    /\ StartEnds(i)
    /\ lib' = [lib EXCEPT ![i] = "closed"] /\ area' = [area EXCEPT ![i] = NoArea]
    /\ UNCHANGED <<attrs, clock, actors, health, active, view, config>>

\* Its aclose() raised: a discarded session is closed again, an aborted one is given up.
StartCloseFails(i) ==
    /\ spc[i] \in {"discard", "abort"} /\ i \notin cancels /\ faults < MaxFaults
    /\ faults' = faults + 1
    /\ IF spc[i] = "discard"
       THEN /\ spc' = [spc EXCEPT ![i] = "abort"]
            /\ UNCHANGED <<startTask, cancels, stale, target, lib>>
       ELSE StartEnds(i) /\ lib' = [lib EXCEPT ![i] = "closed"]
    /\ UNCHANGED <<attrs, clock, actors, health, area, active, view, assign, bridge, on, edits>>

-----------------------------------------------------------------------------
(* The ticker: one iteration of its loop, or its finally clause.           *)

\* Mutant: a loop without finally, the ticker just returns.
TickerStepBare(t) ==
    /\ pc[t] \in {"new", "run"}
    /\ pc' = [pc EXCEPT ![t] = IF TickerMustStop THEN "idle" ELSE "run"]
    /\ UNCHANGED <<attrs, arg, hpc, hsess, lib, startTask, starts>> /\ TeardownFrame

TickerStep(t) ==
    /\ pc[t] \in {"new", "run"}
    /\ IF TickerMustStop
       THEN TeardownTicker(t)
       ELSE pc' = [pc EXCEPT ![t] = "run"] /\ UNCHANGED <<attrs, arg, hpc, hsess, lib>>
    /\ UNCHANGED <<startTask, starts>> /\ TeardownFrame

TickerCancelled(t) ==
    /\ pc[t] = "cancelled"
    /\ TeardownTicker(t)
    /\ UNCHANGED <<startTask, starts>> /\ TeardownFrame

-----------------------------------------------------------------------------
(* The health monitor.                                                     *)

HealthEnds(i) == hpc' = [hpc EXCEPT ![i] = "idle"] /\ hsess' = [hsess EXCEPT ![i] = None]

\* After a sleep: leave if there is nothing to watch, else ask for the session's status.
HealthAsk(i) ==
    /\ hpc[i] = "sleep"
    /\ IF ~IsStreaming \/ remote = "dead"
       THEN HealthEnds(i)
       ELSE hpc' = [hpc EXCEPT ![i] = "poll"] /\ hsess' = [hsess EXCEPT ![i] = session]
    /\ UNCHANGED <<attrs, startTask, clock, starts, actors, hfails, net, config>>

View(i) == IF area[i] \in Area THEN view[area[i]] ELSE "idle"

Rid(v) == IF v = "ours" THEN "us" ELSE IF v = "foreign" THEN "other" ELSE "none"

\* Mutant: one strike too many.
LostLate(strikes) == strikes > FailsToRecover

Lost(strikes) == strikes >= FailsToRecover

\* Mutant: a second answer overwrites the learned id, and no answer without one is trusted.
HealthAnswerHasty(i) ==
    /\ hpc[i] = "poll"
    /\ LET v == View(hsess[i])
           strike == hfails[i] + 1
           lost == Lost(strike)
       IN /\ ourRid' = Rid(v)
          /\ IF Rid(v) = "us"
             THEN /\ hfails' = [hfails EXCEPT ![i] = 0]
                  /\ hpc' = [hpc EXCEPT ![i] = "sleep"]
                  /\ UNCHANGED remote
             ELSE /\ hfails' = [hfails EXCEPT ![i] = IF lost THEN 0 ELSE strike]
                  /\ hpc' = [hpc EXCEPT ![i] = IF lost THEN "idle" ELSE "sleep"]
                  /\ remote' = IF lost THEN "dead" ELSE remote
          /\ hsess' = [hsess EXCEPT ![i] = None]
    /\ UNCHANGED <<streamOwner, streamLights, session, ticker, healthTask, identify, startTask,
                   lastUpdate, regrab, starts, actors, net, config>>

\* remote_status() answered: learn our streamer's id once, then count what is not ours; on
\* the last strike back off if another streamer is named, flag the stream dead and leave.
HealthAnswer(i) ==
    /\ hpc[i] = "poll"
    /\ LET v == View(hsess[i])
           streamed == v # "idle"
           strike == hfails[i] + 1
           lost == Lost(strike)
       IN /\ ourRid' = IF streamed /\ ourRid = "none" THEN Rid(v) ELSE ourRid
          /\ IF streamed /\ Rid(v) = ourRid'
             THEN /\ hfails' = [hfails EXCEPT ![i] = 0]
                  /\ hpc' = [hpc EXCEPT ![i] = "sleep"]
                  /\ UNCHANGED <<regrab, remote>>
             ELSE /\ hfails' = [hfails EXCEPT ![i] = IF lost THEN 0 ELSE strike]
                  /\ hpc' = [hpc EXCEPT ![i] = IF lost THEN "idle" ELSE "sleep"]
                  /\ remote' = IF lost THEN "dead" ELSE remote
                  /\ regrab' = IF lost /\ streamed /\ Rid(v) # "none" THEN "blocked" ELSE regrab
          /\ hsess' = [hsess EXCEPT ![i] = None]
    /\ UNCHANGED <<streamOwner, streamLights, session, ticker, healthTask, identify, startTask,
                   lastUpdate, starts, actors, net, config>>

\* remote_status() raised: not counted as a loss.
HealthError(i) ==
    /\ hpc[i] = "poll" /\ faults < MaxFaults
    /\ faults' = faults + 1
    /\ hpc' = [hpc EXCEPT ![i] = "sleep"] /\ hsess' = [hsess EXCEPT ![i] = None]
    /\ UNCHANGED <<attrs, startTask, clock, starts, actors, hfails, net, assign, bridge, on,
                   edits>>

-----------------------------------------------------------------------------
(* The library and the bridge.                                             *)

\* The bridge took our start PUT: the area is active, its streamer not named yet.
BridgeActivates(i) ==
    /\ spc[i] = "connect" /\ lib[i] = "opening" /\ area[i] # NoArea
    /\ OrderedBridge => ~\E j \in Slot : area[j] = area[i] /\ j \in active /\ lib[j] = "closing"
    /\ lib' = [lib EXCEPT ![i] = "activated"] /\ active' = active \cup {i}
    /\ view' = [view EXCEPT ![area[i]] = "unnamed"]
    /\ UNCHANGED <<attrs, startTask, clock, starts, actors, health, area, config>>

\* The bridge took the stop PUT of aclose(); another controller's stream is not ours to end.
BridgeStops(i) ==
    /\ lib[i] = "closing" /\ i \in active
    /\ active' = active \ {i}
    /\ view' = [view EXCEPT ![area[i]] = IF @ = "foreign" THEN @ ELSE "idle"]
    /\ UNCHANGED <<attrs, startTask, clock, starts, actors, health, lib, area, config>>

BridgeNames(a) ==
    /\ view[a] = "unnamed" /\ view' = [view EXCEPT ![a] = "ours"]
    /\ UNCHANGED <<attrs, startTask, clock, starts, actors, health, lib, area, active, config>>

\* The bridge ends our stream, forgets its streamer, or another controller takes the area.
BridgeFault(a, v) ==
    /\ faults < MaxFaults /\ faults' = faults + 1
    /\ \/ v = "idle" /\ view[a] \in {"unnamed", "ours"}
       \/ v = "cleared" /\ view[a] = "ours"
       \/ v = "foreign"
    /\ view' = [view EXCEPT ![a] = v]
    /\ UNCHANGED <<attrs, startTask, clock, starts, actors, health, lib, area, active, assign,
                   bridge, on, edits>>

ForeignLeaves(a) ==
    /\ view[a] = "foreign" /\ view' = [view EXCEPT ![a] = "idle"]
    /\ UNCHANGED <<attrs, startTask, clock, starts, actors, health, lib, area, active, config>>

\* The library notices that its stream is gone.
SessionDrops(i) ==
    /\ lib[i] = "streaming" /\ faults < MaxFaults
    /\ faults' = faults + 1 /\ lib' = [lib EXCEPT ![i] = "dropped"]
    /\ UNCHANGED <<attrs, startTask, clock, starts, actors, health, area, active, view, assign,
                   bridge, on, edits>>

-----------------------------------------------------------------------------
(* Time, the TVs and the configuration.                                    *)

\* IDLE_TIMEOUT_S without a write: impossible while a ticker renews the timestamp for a blink.
Silence ==
    /\ lastUpdate = "recent" /\ lastUpdate' = "old"
    /\ ~(identify # {} /\ IsStreaming /\ \E t \in Slot : pc[t] = "run")
    /\ UNCHANGED <<attrs, startTask, regrab, starts, actors, health, net, config>>

BackoffOver ==
    /\ regrab = "blocked" /\ regrab' = "allowed"
    /\ UNCHANGED <<attrs, startTask, lastUpdate, starts, actors, health, net, config>>

\* A blink runs out; the next tick purges the entry before it looks at any other.
IdentifyExpires(l) == StopIdentify(l)

PowerOff(tv) ==
    /\ tv \in on /\ on' = on \ {tv}
    /\ UNCHANGED <<attrs, startTask, clock, starts, actors, health, net, assign, bridge, faults,
                   edits>>

\* The web UI assigns a TV to another area, or to none.
Reassign ==
    /\ edits < MaxEdits /\ edits' = edits + 1
    /\ \E tv \in TV : \E a \in (Area \cup {NoArea}) \ {assign[tv]} :
          assign' = [assign EXCEPT ![tv] = a]
    /\ UNCHANGED <<attrs, startTask, clock, starts, actors, health, net, bridge, on, faults>>

\* The web UI pairs with the real bridge, so that it has credentials, or removes it.
ChangeBridge ==
    /\ edits < MaxEdits /\ edits' = edits + 1
    /\ bridge' = IF bridge = "paired" THEN "absent" ELSE "paired"
    /\ UNCHANGED <<attrs, startTask, clock, starts, actors, health, net, assign, on, faults>>

Reconfigure == Reassign \/ ChangeBridge

-----------------------------------------------------------------------------
InboundStep ==
    \E tv \in TV : \/ SubmitColor(tv) \/ StartStream(tv)
                   \/ \E l \in Light : Identify(tv, l)

TeardownStep(a) ==
    HealthAwaited(a) \/ TickerAwaited(a) \/ SessionClosed(a) \/ CloseFails(a)

StartStep(i) ==
    \/ StartBegin(i) \/ StartConnected(i) \/ StartFails(i) \/ StartClosed(i) \/ StartCloseFails(i)
    \/ CancelUnstarted(i) \/ CancelConnect(i) \/ CancelClose(i)

TickerTask(t) == TickerStep(t) \/ TickerCancelled(t)

HealthStep(i) == HealthAsk(i) \/ HealthAnswer(i) \/ HealthError(i)

BridgeStep ==
    \/ \E i \in Slot : BridgeActivates(i) \/ BridgeStops(i) \/ SessionDrops(i)
    \/ \E a \in Area : \/ BridgeNames(a) \/ ForeignLeaves(a)
                       \/ \E v \in {"idle", "cleared", "foreign"} : BridgeFault(a, v)

TimeStep == Silence \/ BackoffOver \/ \E l \in Light : IdentifyExpires(l)

\* What the engine, the bridge, time and the web UI do between two calls of the emulator.
Internal ==
    \/ \E c \in Stopper : StopResume(c)
    \/ \E a \in Actor : TeardownStep(a)
    \/ \E i \in Slot : StartStep(i) \/ TickerTask(i) \/ HealthStep(i)
    \/ BridgeStep \/ TimeStep
    \/ \E tv \in TV : PowerOff(tv)
    \/ Reconfigure

Next ==
    \/ InboundStep
    \/ \E l \in Light : StopIdentify(l)
    \/ \E c \in Stopper : Stop(c)
    \/ Internal

Spec == Init /\ [][Next]_vars

\* The event loop runs every task that can run, the bridge answers, timers fire, and a TV that
\* is on keeps writing.  Nothing forces a fault, an edit, a power-off, a stop() or a TV's silence.
Fairness ==
    /\ \A i \in Slot : /\ WF_vars(StartStep(i)) /\ WF_vars(TickerTask(i)) /\ WF_vars(HealthStep(i))
                       /\ WF_vars(BridgeActivates(i)) /\ WF_vars(BridgeStops(i))
    /\ \A a \in Actor : WF_vars(TeardownStep(a))
    /\ \A c \in Stopper : WF_vars(StopResume(c))
    /\ \A a \in Area : WF_vars(BridgeNames(a))
    /\ WF_vars(BackoffOver) /\ \A l \in Light : WF_vars(IdentifyExpires(l))
    /\ \A tv \in TV : WF_vars(SubmitColor(tv))
    /\ WF_vars(on = {} /\ Silence)

FairSpec == Spec /\ Fairness

-----------------------------------------------------------------------------
(* Safety.                                                                 *)

\* Every session that is not closed is in somebody's hands: its start task still runs, the
\* engine has it installed, or a teardown is closing it.  No path through start, stop, idle
\* teardown and failure loses the only reference to an open session (_start_stream, _teardown).
NoStrandedSession ==
    \A i \in Slot : lib[i] # "closed" =>
        \/ spc[i] # "idle"
        \/ session = i
        \/ \E a \in Actor : pc[a] = "close" /\ arg[a] = i

\* An installed session has its own ticker watching it, or a teardown that has yet to take it
\* out of the engine: silence, a drop and a dead remote are always noticed (_run_ticker).
SessionHasKeeper ==
    session # None =>
        \/ ticker = session /\ pc[ticker] \in {"new", "run"}
        \/ \E a \in Actor : pc[a] \in {"ticker", "cancelled", "health"}

\* At most one start task exists, and it is the one stop() would find and cancel (_may_start
\* against the _start_task = None of the task's own finally and of stop()).
SingleStart == \A i \in Slot : spc[i] # "idle" => startTask = i

\* At most one ticker streams (_ticker is overwritten by every start that completes).
SingleTicker == \A s, t \in Slot : {pc[s], pc[t]} \subseteq {"new", "run"} => s = t

\* A health poll in flight is about the installed session, by the installed monitor: no late
\* answer about an older stream can flag the current one (_run_health after its await).
HealthWatchesSession ==
    \A i \in Slot : hpc[i] = "poll" => healthTask = i /\ hsess[i] = session

\* As long as nothing else fails, an area we activated on the bridge is never forgotten while it
\* is active: the handler of a cancelled start closes it (engine.py 308-314), every teardown
\* closes it.
AreaReleased == faults = 0 => \A i \in Slot : i \in active => lib[i] # "closed"

\* The monitor never gives up a stream that the bridge still credits to us, or has yet to credit
\* to anyone: what it learned of an earlier stream is forgotten (_our_streamer_rid), the streamer
\* it waits for is not held against it, and two strikes run in a row (engine.py 377-406).
NoFalseAlarm ==
    [][IsStreaming /\ remote = "alive" /\ remote' = "dead"
            => view[area[session]] \notin {"unnamed", "ours"}]_vars

\* The lights of the installed stream are those of the TV that owns it (engine.py 81-83).
LightsOfOwner == session # None /\ streamOwner # None => streamLights = streamOwner

-----------------------------------------------------------------------------
(* Why the first five hold: an invariant that every step preserves, given  *)
(* prompt wake-ups and slow connects.                                      *)

\* Start tasks: a single one, never next to a live stream, in a slot without a ticker or an
\* installed session, and without any session before its first step; a stop() whose start task
\* has ended finds no other start task running.
StartInv ==
    /\ SingleStart
    /\ \A i \in Slot : spc[i] # "idle" => ~IsStreaming /\ pc[i] = "idle" /\ session # i
    /\ \A i \in Slot : spc[i] = "ready" => lib[i] = "closed"
    /\ \A c \in Actor : pc[c] = "start" =>
           arg[c] \in Slot /\ (spc[arg[c]] = "idle" => \A i \in Slot : spc[i] = "idle")

\* Tickers: the installed one runs, and runs alone; a cancelled one is no longer installed.
TickerInv ==
    /\ ticker # None => pc[ticker] \in {"new", "run"} /\ session \in {None, ticker}
    /\ \A t \in Slot : pc[t] \in {"new", "run"} => ticker = t
    /\ \A a \in Actor : pc[a] = "cancelled" => ticker = None

\* Waiting: only a stop() awaits a ticker, which is then on its way out; whoever closes a
\* session has one to close.
WaitInv ==
    /\ \A a \in Stopper : pc[a] \notin {"new", "run", "cancelled"}
    /\ \A a \in Slot : pc[a] \notin {"start", "ticker"}
    /\ \A a \in Actor : pc[a] = "ticker" =>
           arg[a] \in Slot /\ pc[arg[a]] \in {"idle", "cancelled", "health", "close"}
    /\ \A a \in Actor : pc[a] = "close" => arg[a] \in Slot

\* Health monitors: only the installed one runs, and only for the installed session.
HealthInv ==
    /\ \A i \in Slot : hpc[i] # "idle" => healthTask = i
    /\ healthTask # None => session = healthTask
    /\ \A i \in Slot : hpc[i] = "poll" => hsess[i] = session
    /\ \A a \in Actor : pc[a] = "health" => healthTask = None

\* The teardown of a is about to take the session out of the engine.
Taking(a) ==
    \/ pc[a] \in {"cancelled", "health"}
    \/ pc[a] = "ticker" /\ pc[arg[a]] = "idle"

\* The session: watched by its ticker, or about to be taken by a teardown whose step is due.
KeeperInv == session # None => ticker = session \/ \E a \in Actor : Taking(a)

Inv == StartInv /\ TickerInv /\ WaitInv /\ HealthInv /\ KeeperInv /\ NoStrandedSession

\* What the library has to say about a session in each place that holds one: an installed one
\* streams or was dropped, a connecting one is on its way up, and one that was given up is being
\* closed by exactly one task.  With Inv it carries the refinement of OutboundStream.
SessionInv ==
    /\ session # None => lib[session] \in {"streaming", "dropped"}
    /\ \A i \in Slot : lib[i] \in {"streaming", "dropped"} => session = i
    /\ \A i \in Slot : spc[i] = "connect" <=> lib[i] \in {"opening", "activated"}
    /\ \A i \in Slot : spc[i] \in {"discard", "abort"} => lib[i] = "closing"
    /\ \A a \in Actor : pc[a] = "close" => lib[arg[a]] = "closing" /\ spc[arg[a]] = "idle"
    /\ \A a, b \in Actor : pc[a] = "close" /\ pc[b] = "close" /\ arg[a] = arg[b] => a = b

-----------------------------------------------------------------------------
(* Liveness.                                                               *)

\* Once the TVs are off, the engine ends up with every session closed, for good.
QuietCloses == on = {} ~> [](\A i \in Slot : lib[i] = "closed")

\* A stream whose owner a late teardown erased (engine.py 424, after its await) is adopted by
\* the next TV that writes a colour, unless it ends first or every TV is off.
OwnerReturns ==
    (IsStreaming /\ streamOwner = None) ~> (~IsStreaming \/ streamOwner # None \/ on = {})

\* Our stream as the bridge sees it.
ShownLive == IsStreaming /\ view[area[session]] \in {"unnamed", "ours"}

\* The monitor cannot tell a takeover or a drop that happens before it learned our streamer id.
Unrecognised ==
    /\ IsStreaming
    /\ \/ ourRid = "other"
       \/ ourRid = "none" /\ view[area[session]] = "cleared"

\* While an assigned TV keeps writing and a bridge is paired, the stream comes back after every
\* drop, silent or not, every takeover and every edit of the configuration, except for the two
\* losses the monitor cannot recognise.
Recovers ==
    \A tv \in TV :
        <>[](tv \in on /\ assign[tv] # NoArea /\ bridge = "paired")
            => []<>(ShownLive \/ Unrecognised)

-----------------------------------------------------------------------------
(* The promise to the bridge.                                              *)

Outbound == INSTANCE OutboundStream WITH
    Session <- Slot, NoSession <- None,
    opening <- IF startTask # None /\ spc[startTask] = "connect" THEN startTask ELSE None,
    live    <- IF IsStreaming THEN session ELSE None,
    closing <- {i \in Slot : lib[i] \in {"dropped", "closing"}}

\* Every step is an allowed step of the outbound stream or leaves it alone.
ImplementsOutbound == Outbound!Safe

\* Under the fairness of the loop it also keeps the promise to finish what it starts.
ImplementsOutboundFairly == Outbound!Spec

=============================================================================

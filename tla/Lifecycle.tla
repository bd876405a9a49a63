----------------------------- MODULE Lifecycle -----------------------------
(***************************************************************************)
(* The service (app.py) around the engine: its start in order, its run     *)
(* until a signal, its stop, and what asyncio.run does at the end, with    *)
(* the thread of the DTLS server (emulator/dtls_server.py), the SSDP       *)
(* advertiser and the mDNS registration (discovery/).                      *)
(*                                                                         *)
(* The thread hands frames to the event loop with call_soon_threadsafe, as *)
(* does the executor that joins the thread: "ready" is that queue.  HTTP   *)
(* is served from its part of the start to the end of the stop, so         *)
(* requests and engine tasks run between any two steps of either.          *)
(***************************************************************************)
EXTENDS Engine, Sequences

CONSTANTS
    App,            \* the caller of Engine.stop() that is the application
    MaxReady        \* bound on callbacks of the thread the loop has yet to run

ASSUME AppAssumption == App \in Stopper /\ MaxReady \in Nat

VARIABLES
    at,             \* where run() is
    step,           \* the part of the start that comes next
    up,             \* the parts that were started and not stopped
    running, thread, ready,     \* the DTLS server: its flag, its thread, its callbacks
    notify          \* the task that advertises over SSDP

place   == <<at, step, up>>
inbound == <<running, thread, ready>>
service == <<place, inbound, notify>>
allVars == <<vars, service>>

\* "listeners" are the sites for HTTPS and for the add-on's ingress on the runner of "http".  They
\* may be missing, which nothing else depends on.
Parts == <<"http", "listeners", "ssdp", "mdns", "inbound">>
PartSet == {Parts[k] : k \in 1 .. Len(Parts)}

\* Parts that may be configured away; an error of mDNS at its start has the same effect.
Optional == {"mdns", "inbound"}

LifecycleTypeOK ==
    /\ TypeOK
    /\ at \in {"start", "serve", "inbound", "join", "engine", "closing", "mdns", "ssdp", "notify",
               "http", "handlers", "over", "raised", "cancel", "exit"}
    /\ step \in 1 .. Len(Parts) + 1 /\ up \subseteq PartSet
    /\ running \in BOOLEAN /\ thread \in {"none", "recv", "sleep", "ended"}
    /\ ready \in Seq({"frame", "joined"})
    /\ notify \in {"none", "send", "sleep", "cancelled", "ended"}

LifecycleInit ==
    /\ Init
    /\ at = "start" /\ step = 1 /\ up = {}
    /\ running = FALSE /\ thread = "none" /\ ready = <<>> /\ notify = "none"

Fault == faults < MaxFaults /\ faults' = faults + 1
FaultFrame == UNCHANGED <<attrs, startTask, clock, starts, actors, health, net, assign, bridge, on,
                          edits>>

-----------------------------------------------------------------------------
(* The start.                                                              *)

\* The DTLS thread starts with its part, and the task that advertises over SSDP with its own.
ThreadStarts == running' = TRUE /\ thread' = "recv"
NotifyStarts == notify' = "send"

\* The next part comes up.
PartUp ==
    /\ at = "start" /\ step <= Len(Parts)
    /\ step' = step + 1 /\ up' = up \cup {Parts[step]}
    /\ IF Parts[step] = "inbound" THEN ThreadStarts ELSE UNCHANGED <<running, thread>>
    /\ IF Parts[step] = "ssdp" THEN NotifyStarts ELSE UNCHANGED notify
    /\ UNCHANGED <<vars, at, ready>>

PartLeftOut ==
    /\ at = "start" /\ step <= Len(Parts) /\ Parts[step] \in Optional
    /\ step' = step + 1
    /\ UNCHANGED <<vars, at, up, inbound, notify>>

\* Mutant: the stop is not in a finally clause.
PartFailsBare ==
    /\ at = "start" /\ step <= Len(Parts) /\ Parts[step] # "mdns" /\ Fault /\ FaultFrame
    /\ at' = "over" /\ UNCHANGED <<step, up, inbound, notify>>

\* A port that is taken, no multicast, no certificate: start() raises, and run() stops what is
\* up.  Only mDNS keeps errors of the network (OSError) to itself.
PartFails ==
    /\ at = "start" /\ step <= Len(Parts) /\ Parts[step] # "mdns" /\ Fault /\ FaultFrame
    /\ at' = "inbound" /\ UNCHANGED <<step, up, inbound, notify>>

Started ==
    /\ at = "start" /\ step > Len(Parts) /\ at' = "serve"
    /\ UNCHANGED <<vars, step, up, inbound, notify>>

\* SIGINT or SIGTERM; one that comes during the start takes effect at its end.
RequestStop ==
    /\ at = "serve" /\ at' = "inbound"
    /\ UNCHANGED <<vars, step, up, inbound, notify>>

-----------------------------------------------------------------------------
(* The DTLS thread.                                                        *)

ThreadFrame == UNCHANGED <<place, notify>>

\* The guard of its loop, once an iteration is over.
NextRound == IF running THEN "recv" ELSE "ended"

\* A datagram with a frame, perhaps the last one before the socket is closed.
ThreadReceives ==
    /\ thread = "recv" /\ on # {} /\ Len(ready) < MaxReady
    /\ ready' = Append(ready, "frame") /\ thread' = NextRound
    /\ UNCHANGED <<vars, running>> /\ ThreadFrame

\* stop() closed the socket, or half a second passed without a datagram.
ThreadEnds ==
    /\ thread = "recv" /\ ~running /\ thread' = "ended"
    /\ UNCHANGED <<vars, running, ready>> /\ ThreadFrame

\* Mutant: any error of the socket ends the thread.
ThreadErrorEnds ==
    /\ thread = "recv" /\ running /\ Fault /\ FaultFrame
    /\ thread' = "ended"
    /\ UNCHANGED <<running, ready>> /\ ThreadFrame

\* An error of the socket while the server runs: wait a second, go on.
ThreadError ==
    /\ thread = "recv" /\ running /\ Fault /\ FaultFrame
    /\ thread' = "sleep"
    /\ UNCHANGED <<running, ready>> /\ ThreadFrame

ThreadWakes ==
    /\ thread = "sleep" /\ thread' = NextRound
    /\ UNCHANGED <<vars, running, ready>> /\ ThreadFrame

\* The executor's join() of the thread returned; its two seconds outlast any wait of the thread.
Joined ==
    /\ at = "join" /\ thread = "ended" /\ thread' = "none"
    /\ ready' = Append(ready, "joined")
    /\ UNCHANGED <<vars, running>> /\ ThreadFrame

\* The loop runs the callback of a frame.
OnFrame ==
    /\ ready # <<>> /\ Head(ready) = "frame"
    /\ ready' = Tail(ready)
    /\ \E tv \in TV : Inbound(Adopted(tv)) /\ UNCHANGED identify
    /\ UNCHANGED <<running, thread>> /\ ThreadFrame

-----------------------------------------------------------------------------
(* The SSDP task and HTTP requests.                                        *)

Notify ==
    /\ notify = "send" /\ notify' = "sleep"
    /\ UNCHANGED <<vars, place, inbound>>

\* Mutant: an error of the network ends the task.
NotifyFailsForGood ==
    /\ notify = "send" /\ Fault /\ FaultFrame
    /\ notify' = "ended" /\ UNCHANGED <<place, inbound>>

NotifyFails ==
    /\ notify = "send" /\ Fault /\ FaultFrame
    /\ notify' = "sleep" /\ UNCHANGED <<place, inbound>>

NotifyWakes ==
    /\ notify = "sleep" /\ notify' = "send"
    /\ UNCHANGED <<vars, place, inbound>>

NotifyEnds ==
    /\ notify = "cancelled" /\ notify' = "ended"
    /\ UNCHANGED <<vars, place, inbound>>

\* A write of a TV, or the DELETE of a group, which goes on as a caller of Engine.stop().
Request ==
    /\ "http" \in up /\ at \notin {"cancel", "exit"}
    /\ \/ \E tv \in TV : SubmitColor(tv)
       \/ \E c \in Stopper \ {App} : Stop(c)
    /\ UNCHANGED service

-----------------------------------------------------------------------------
(* The stop: inbound, engine, mDNS, SSDP, HTTP.  What raises skips the rest. *)

Goto(where) == at' = where /\ UNCHANGED <<vars, step>>

\* Mutant: the thread is told to end but not awaited.
StopInboundForgets ==
    /\ at = "inbound" /\ running' = FALSE /\ up' = up \ {"inbound"} /\ Goto("engine")
    /\ UNCHANGED <<thread, ready, notify>>

StopInbound ==
    /\ at = "inbound" /\ running' = FALSE
    /\ Goto(IF "inbound" \in up THEN "join" ELSE "engine")
    /\ UNCHANGED <<up, thread, ready, notify>>

InboundStopped ==
    /\ at = "join" /\ ready # <<>> /\ Head(ready) = "joined"
    /\ ready' = Tail(ready) /\ up' = up \ {"inbound"} /\ Goto("engine")
    /\ UNCHANGED <<running, thread, notify>>

StopEngine ==
    /\ at = "engine" /\ Stop(App) /\ at' = "closing"
    /\ UNCHANGED <<step, up, inbound, notify>>

EngineStopped ==
    /\ at = "closing" /\ pc[App] = "idle" /\ Goto("mdns")
    /\ UNCHANGED <<up, inbound, notify>>

StopMdns ==
    /\ at = "mdns" /\ up' = up \ {"mdns"} /\ Goto("ssdp")
    /\ UNCHANGED <<inbound, notify>>

MdnsRaises ==
    /\ at = "mdns" /\ "mdns" \in up /\ Fault /\ FaultFrame
    /\ at' = "raised" /\ UNCHANGED <<step, up, inbound, notify>>

\* Mutant: the endless task is awaited without being cancelled.
StopSsdpUncancelled ==
    /\ at = "ssdp" /\ Goto(IF notify = "none" THEN "http" ELSE "notify")
    /\ UNCHANGED <<notify, up, inbound>>

StopSsdp ==
    /\ at = "ssdp" /\ Goto(IF notify = "none" THEN "http" ELSE "notify")
    /\ notify' = IF notify = "none" THEN "none" ELSE "cancelled"
    /\ UNCHANGED <<up, inbound>>

SsdpStopped ==
    /\ at = "notify" /\ notify = "ended" /\ notify' = "none"
    /\ up' = up \ {"ssdp"} /\ Goto("http")
    /\ UNCHANGED inbound

\* The runner closes its sites, then waits for the handlers that are still at work.
StopHttp ==
    /\ at = "http" /\ up' = up \ {"http", "listeners"} /\ Goto("handlers")
    /\ UNCHANGED <<inbound, notify>>

HttpStopped ==
    /\ at = "handlers" /\ \A c \in Stopper : pc[c] = "idle"
    /\ Goto("over")
    /\ UNCHANGED <<up, inbound, notify>>

-----------------------------------------------------------------------------
(* The end of asyncio.run: every task that is left is cancelled, once.     *)

\* A ticker that never ran ends at once; one that ran does its finally clause; an aclose() is
\* interrupted; who awaits a task under suppress() goes on.
CancelAll ==
    /\ at \in {"over", "raised"} /\ at' = "cancel"
    /\ cancels' = {i \in Slot : spc[i] # "idle"}
    /\ pc' = [a \in Actor |-> IF pc[a] \in {"new", "close"} THEN "idle"
                              ELSE IF pc[a] = "run" THEN "cancelled" ELSE pc[a]]
    /\ arg' = [a \in Actor |-> IF pc[a] = "close" THEN None ELSE arg[a]]
    /\ lib' = [i \in Slot |-> IF \E a \in Actor : pc[a] = "close" /\ arg[a] = i
                              THEN "closed" ELSE lib[i]]
    /\ hpc' = [i \in Slot |-> "idle"] /\ hsess' = [i \in Slot |-> None]
    /\ notify' = IF notify = "none" THEN "none" ELSE "ended"
    /\ UNCHANGED <<attrs, startTask, clock, spc, stale, target, hfails, area, active, view, config,
                   step, up, inbound>>

\* They have all ended; a ticker that was made since is not waited for.
Exit ==
    /\ at = "cancel"
    /\ \A i \in Slot : spc[i] = "idle"
    /\ \A a \in Actor : pc[a] \in {"idle", "new", "run"}
    /\ at' = "exit" /\ UNCHANGED <<vars, step, up, inbound, notify>>

-----------------------------------------------------------------------------
\* A step of the engine; Engine.stop() raises if the closing of a session did that it awaits.
Engaged(A) ==
    /\ at # "exit" /\ A
    /\ at' = IF at = "closing" /\ faults' > faults /\ pc[App] # "idle" /\ pc'[App] = "idle"
             THEN "raised" ELSE at
    /\ UNCHANGED <<step, up, inbound, notify>>

StartStop ==
    \/ PartUp \/ PartLeftOut \/ PartFails \/ Started
    \/ StopInbound \/ InboundStopped \/ StopEngine \/ EngineStopped \/ StopMdns \/ MdnsRaises
    \/ StopSsdp \/ SsdpStopped \/ StopHttp \/ HttpStopped \/ CancelAll \/ Exit

ThreadStep == ThreadReceives \/ ThreadEnds \/ ThreadError \/ ThreadWakes \/ Joined
NotifyStep == Notify \/ NotifyFails \/ NotifyWakes \/ NotifyEnds

LifecycleNext ==
    \/ StartStop \/ RequestStop \/ ThreadStep \/ OnFrame \/ NotifyStep \/ Request
    \/ Engaged(Internal)

LifecycleSpec == LifecycleInit /\ [][LifecycleNext]_allVars

\* run() goes on, thread, executor, loop and SSDP task run, the bridge answers, the tasks of the
\* engine end, and a TV that streams is received.
LifecycleFairness ==
    /\ WF_allVars(StartStop) /\ WF_allVars(ThreadStep) /\ WF_allVars(ThreadReceives)
    /\ SF_allVars(OnFrame) /\ WF_allVars(NotifyStep)
    /\ \A i \in Slot : /\ WF_allVars(Engaged(StartStep(i) \/ TickerTask(i)))
                       /\ WF_allVars(Engaged(BridgeActivates(i) \/ BridgeStops(i)))
    /\ \A a \in Actor : WF_allVars(Engaged(TeardownStep(a) \/ (a \in Stopper /\ StopResume(a))))

FairLifecycle == LifecycleSpec /\ LifecycleFairness

-----------------------------------------------------------------------------
Stopped == {"engine", "closing", "mdns", "ssdp", "notify", "http", "handlers", "over"}

\* Once the stop of the inbound server returned, no frame reaches the engine any more: neither
\* from the thread nor from the callbacks it left behind (app.py 220-222, dtls_server.py 106-114).
InboundSilent == at \in Stopped => thread = "none" /\ ready = <<>>

\* A stop that raises nothing leaves nothing of the service behind, however much of the start
\* had been done (app.py 126-133: "it also unwinds a partial start() failure").
StopComplete ==
    at = "over" => up = {} /\ thread = "none" /\ notify = "none"

\* A start task the end of the loop cancels releases the area it activated, unless its handler
\* is cancelled a second time; only a session that was installed in spite of the cancellation is
\* left (engine.py 308-314).
CancelledStartReleases ==
    [][\A i \in Slot :
          /\ at = "cancel" /\ spc[i] \notin {"idle", "ready"} /\ spc'[i] = "idle" /\ faults' = 0
          /\ spc[i] = "abort" => i \notin cancels
          => i \notin active' \/ session' = i]_allVars

\* A signal, or a start that failed, always ends the process: nothing the stop awaits waits
\* for ever, whatever the engine, the thread and the network do meanwhile.
Exits == at \notin {"start", "serve"} ~> at = "exit"

\* While the service runs, errors of the network silence neither the DTLS server nor SSDP.
KeepsServing ==
    /\ <>[](at = "serve" /\ "inbound" \in up /\ on # {}) => []<>(ready # <<>>) /\ []<>(ready = <<>>)
    /\ <>[](at = "serve") => []<>(notify = "send")

\* ARCHITECTURE.md 205-206: a clean shutdown has the real bridge leave streaming mode.
StopsOutbound == at = "over" => active = {}
=============================================================================

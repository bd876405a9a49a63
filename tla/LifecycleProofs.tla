-------------------------- MODULE LifecycleProofs --------------------------
(***************************************************************************)
(* Proofs about Lifecycle: what the stop of the service leaves behind, and *)
(* that the engine's invariant outlives everything but the end of the      *)
(* loop.  They hold for any bounds, parts up, faults and callers.          *)
(***************************************************************************)
EXTENDS Lifecycle, OutboundProofs

\* The parts, one by one.
LEMMA PartFacts ==
    /\ Len(Parts) = 5
    /\ PartSet = {"http", "listeners", "ssdp", "mdns", "inbound"}
    /\ \A k \in 1 .. 5 : Parts[k] \in PartSet
<1>1. Len(Parts) = 5
  BY DEF Parts
<1>2. \A k \in 1 .. 5 : Parts[k] \in PartSet
  BY <1>1 DEF PartSet
<1>3. /\ Parts[1] = "http" /\ Parts[2] = "listeners" /\ Parts[3] = "ssdp"
      /\ Parts[4] = "mdns" /\ Parts[5] = "inbound"
  BY DEF Parts
<1>4. \A p : p \in PartSet <=> p \in {"http", "listeners", "ssdp", "mdns", "inbound"}
  BY <1>1, <1>3 DEF PartSet
<1>5. QED
  BY <1>1, <1>2, <1>4

\* The queue of callbacks: what is left of it, and what is first in it.
LEMMA QueueFacts ==
    ASSUME NEW S, NEW q \in Seq(S), q # <<>>
    PROVE  /\ Len(q) \in Nat \ {0} /\ Head(q) = q[1]
           /\ Tail(q) \in Seq(S) /\ Len(Tail(q)) = Len(q) - 1
           /\ \A k \in 1 .. Len(Tail(q)) : Tail(q)[k] = q[k + 1]
  OBVIOUS

-----------------------------------------------------------------------------
(* Types.                                                                  *)

\* What a step of the service does to the engine is a step of the engine, a frame of the DTLS
\* thread, a fault counted, or the cancelling of every task at the end of the loop.
LEMMA EngineSteps ==
    ASSUME LifecycleNext
    PROVE  \/ [Next]_vars
           \/ OnFrame
           \/ Fault /\ FaultFrame
           \/ CancelAll
<1>1. ASSUME Request PROVE Next
  BY <1>1 DEF Request, Next, InboundStep
<1>2. ASSUME StopEngine PROVE Next
  BY <1>2, AppAssumption DEF StopEngine, Next
<1>3. ASSUME Engaged(Internal) PROVE Next
  BY <1>3 DEF Engaged, Next
<1>4. ASSUME ThreadStep PROVE UNCHANGED vars \/ (Fault /\ FaultFrame)
  BY <1>4 DEF ThreadStep, ThreadReceives, ThreadEnds, ThreadError, ThreadWakes, Joined
<1>5. ASSUME NotifyStep PROVE UNCHANGED vars \/ (Fault /\ FaultFrame)
  BY <1>5 DEF NotifyStep, Notify, NotifyFails, NotifyWakes, NotifyEnds
<1>6. ASSUME StartStop PROVE UNCHANGED vars \/ (Fault /\ FaultFrame) \/ StopEngine \/ CancelAll
  BY <1>6 DEF StartStop, PartUp, PartLeftOut, PartFails, Started, StopInbound, InboundStopped,
     EngineStopped, StopMdns, MdnsRaises, StopSsdp, SsdpStopped, StopHttp, HttpStopped, Exit, Goto
<1>7. ASSUME RequestStop PROVE UNCHANGED vars
  BY <1>7 DEF RequestStop
<1>8. QED
  BY <1>1, <1>2, <1>3, <1>4, <1>5, <1>6, <1>7 DEF LifecycleNext

\* The end of the loop keeps the types.
LEMMA CancelAllTypes ==
    ASSUME TypeOK, CancelAll
    PROVE  TypeOK'
<1>1. cancels' \subseteq Slot
  BY DEF CancelAll
<1>2. pc' \in [Actor -> {"idle", "new", "run", "cancelled", "start", "ticker", "health", "close"}]
  BY DEF CancelAll, TypeOK
<1>3. arg' \in [Actor -> Slot \cup {None}] /\ hpc' \in [Slot -> {"idle", "sleep", "poll"}]
  BY DEF CancelAll, TypeOK
<1>4. /\ lib' \in [Slot -> {"closed", "opening", "activated", "streaming", "dropped", "closing"}]
      /\ hsess' \in [Slot -> Slot \cup {None}]
  BY DEF CancelAll, TypeOK
<1>5. UNCHANGED <<attrs, startTask, clock, spc, stale, target, hfails, area, active, view, config>>
  BY DEF CancelAll
<1>6. QED
  BY <1>1, <1>2, <1>3, <1>4, <1>5 DEF TypeOK, attrs, clock, config

\* Every step of the service keeps the types of the engine.
LEMMA EngineTypes ==
    ASSUME TypeOK, [LifecycleNext]_allVars
    PROVE  TypeOK'
<1>1. ASSUME OnFrame PROVE TypeOK'
  BY <1>1 DEF OnFrame, Inbound, Adopted, TypeOK, attrs, clock, starts, actors, health, net, config
<1>2. ASSUME Fault, FaultFrame PROVE TypeOK'
  BY <1>2, BoundAssumption DEF Fault, FaultFrame, TypeOK, attrs, clock, starts, actors, health, net
<1>3. ASSUME UNCHANGED allVars PROVE UNCHANGED vars
  BY <1>3 DEF allVars
<1>4. QED
  BY <1>1, <1>2, <1>3, EngineSteps, TypeStep, CancelAllTypes

\* The variables of the service, those of its engine included, keep their types.
THEOREM LifecycleTypes == LifecycleSpec => []LifecycleTypeOK
<1>1. LifecycleInit => LifecycleTypeOK
  <2>1. 1 \in 1 .. Len(Parts) + 1 /\ <<>> \in Seq({"frame", "joined"}) /\ {} \subseteq PartSet
    BY PartFacts
  <2>2. QED
    BY <2>1, TypeInit DEF LifecycleInit, LifecycleTypeOK
<1>2. ASSUME LifecycleTypeOK, [LifecycleNext]_allVars PROVE LifecycleTypeOK'
  <2> USE DEF LifecycleTypeOK, place, inbound, service
  <2>1. TypeOK'
    BY <1>2, EngineTypes
  <2>2. ASSUME PartUp PROVE LifecycleTypeOK'
    <3>1. step' \in 1 .. Len(Parts) + 1 /\ up' \subseteq PartSet
      <4>1. step \in 1 .. 5 /\ step' = step + 1 /\ up' = up \cup {Parts[step]}
        BY <2>2, <1>2, PartFacts DEF PartUp
      <4>2. Parts[step] \in PartSet
        BY <4>1, PartFacts
      <4>3. up' \subseteq PartSet
        BY <4>1, <4>2, <1>2
      <4>4. Len(Parts) = 5
        BY PartFacts
      <4>5. step' \in 1 .. Len(Parts) + 1
        BY <4>1, <4>4
      <4>6. QED
        BY <4>3, <4>5
    <3>2. /\ at' = at /\ running' \in {running, TRUE} /\ thread' \in {thread, "recv"}
          /\ ready' = ready /\ notify' \in {notify, "send"}
      BY <2>2 DEF PartUp, ThreadStarts, NotifyStarts
    <3>3. QED
      BY <2>1, <3>1, <3>2, <1>2
  <2>3. ASSUME PartLeftOut \/ PartFails \/ Started \/ RequestStop PROVE LifecycleTypeOK'
    <3>1. step' \in 1 .. Len(Parts) + 1 /\ up' = up
      BY <2>3, <1>2, PartFacts DEF PartLeftOut, PartFails, Started, RequestStop
    <3>2. QED
      BY <2>1, <2>3, <3>1, <1>2 DEF PartLeftOut, PartFails, Started, RequestStop
  <2>4. ASSUME ThreadStep PROVE LifecycleTypeOK'
    BY <2>1, <2>4, <1>2 DEF ThreadStep, ThreadReceives, ThreadEnds, ThreadError, ThreadWakes,
       Joined, ThreadFrame, NextRound
  <2>5. ASSUME NotifyStep PROVE LifecycleTypeOK'
    BY <2>1, <2>5, <1>2 DEF NotifyStep, Notify, NotifyFails, NotifyWakes, NotifyEnds
  <2>6. ASSUME OnFrame PROVE LifecycleTypeOK'
    BY <2>1, <2>6, <1>2, QueueFacts DEF OnFrame, ThreadFrame
  <2>7. ASSUME Request \/ Engaged(Internal) PROVE LifecycleTypeOK'
    BY <2>1, <2>7, <1>2 DEF Request, Engaged
  <2>8. ASSUME StopInbound \/ InboundStopped \/ StopEngine \/ EngineStopped PROVE LifecycleTypeOK'
    <3>1. ready' \in Seq({"frame", "joined"})
      BY <2>8, <1>2, QueueFacts DEF StopInbound, InboundStopped, StopEngine, EngineStopped
    <3>2. running' \in BOOLEAN /\ thread' = thread /\ notify' = notify
      BY <2>8, <1>2 DEF StopInbound, InboundStopped, StopEngine, EngineStopped, Goto
    <3>3. /\ at' \in {"join", "engine", "closing", "mdns"}
          /\ step' = step /\ up' \subseteq up
      BY <2>8, <1>2 DEF StopInbound, InboundStopped, StopEngine, EngineStopped, Goto
    <3>4. QED
      BY <2>1, <3>1, <3>2, <3>3, <1>2
  <2>9. ASSUME StopMdns \/ MdnsRaises \/ StopSsdp \/ SsdpStopped PROVE LifecycleTypeOK'
    BY <2>1, <2>9, <1>2 DEF StopMdns, MdnsRaises, StopSsdp, SsdpStopped, Goto
  <2>10. ASSUME StopHttp \/ HttpStopped \/ CancelAll \/ Exit PROVE LifecycleTypeOK'
    BY <2>1, <2>10, <1>2 DEF StopHttp, HttpStopped, CancelAll, Exit, Goto
  <2>11. ASSUME UNCHANGED allVars PROVE LifecycleTypeOK'
    BY <2>1, <2>11, <1>2 DEF allVars
  <2>12. QED
    BY <1>2, <2>2, <2>3, <2>4, <2>5, <2>6, <2>7, <2>8, <2>9, <2>10, <2>11
    DEF LifecycleNext, StartStop
<1>3. QED
  BY <1>1, <1>2, PTL DEF LifecycleSpec

-----------------------------------------------------------------------------
(* The stop.                                                               *)

\* The inbound server: without it there is neither thread nor callback, it is only up until its
\* stop has returned, and the wake-up of that stop is the last thing its thread leaves behind.
InboundInv ==
    /\ "inbound" \notin up => thread = "none" /\ ready = <<>>
    /\ "inbound" \in up => at \in {"start", "serve", "inbound", "join"}
    /\ \A k \in 1 .. Len(ready) :
           ready[k] = "joined" => k = Len(ready) /\ thread = "none" /\ at = "join"

\* The other parts: each is gone once its turn has come; the SSDP part and its task come and go
\* together.
PartsInv ==
    /\ "ssdp" \in up <=> notify # "none"
    /\ at \in {"ssdp", "notify", "http", "handlers", "over"} => "mdns" \notin up
    /\ at \in {"http", "handlers", "over"} => "ssdp" \notin up
    /\ at \in {"handlers", "over"} => "http" \notin up /\ "listeners" \notin up

\* Every step keeps InboundInv.
LEMMA InboundStepInv ==
    ASSUME LifecycleTypeOK, InboundInv, [LifecycleNext]_allVars
    PROVE  InboundInv'
<1> USE DEF InboundInv, LifecycleTypeOK, place, inbound, service
<1>1. ASSUME PartUp PROVE InboundInv'
  BY <1>1 DEF PartUp, ThreadStarts, NotifyStarts
<1>2. ASSUME PartLeftOut \/ PartFails \/ Started \/ RequestStop PROVE InboundInv'
  BY <1>2 DEF PartLeftOut, PartFails, Started, RequestStop
<1>3. ASSUME ThreadReceives PROVE InboundInv'
  <2>1. /\ thread = "recv" /\ ready' = Append(ready, "frame") /\ thread' \in {"recv", "ended"}
        /\ UNCHANGED <<at, up>>
    BY <1>3 DEF ThreadReceives, ThreadFrame, NextRound
  <2>2. /\ Len(ready') = Len(ready) + 1 /\ ready'[Len(ready) + 1] = "frame"
        /\ \A k \in 1 .. Len(ready) : ready'[k] = ready[k]
    BY <2>1
  <2>3. QED
    BY <2>1, <2>2
<1>4. ASSUME ThreadEnds \/ ThreadError \/ ThreadWakes PROVE InboundInv'
  BY <1>4 DEF ThreadEnds, ThreadError, ThreadWakes, ThreadFrame, NextRound
<1>5. ASSUME Joined PROVE InboundInv'
  <2>1. /\ at = "join" /\ thread = "ended" /\ thread' = "none"
        /\ ready' = Append(ready, "joined") /\ UNCHANGED <<at, up>>
    BY <1>5 DEF Joined, ThreadFrame
  <2>2. /\ Len(ready') = Len(ready) + 1 /\ ready'[Len(ready) + 1] = "joined"
        /\ \A k \in 1 .. Len(ready) : ready'[k] = ready[k]
    BY <2>1
  <2>3. QED
    BY <2>1, <2>2
<1>6. ASSUME OnFrame PROVE InboundInv'
  <2>1. ready # <<>> /\ ready' = Tail(ready) /\ UNCHANGED <<at, up, thread>>
    BY <1>6 DEF OnFrame, ThreadFrame
  <2>2. /\ Len(ready') = Len(ready) - 1 /\ Len(ready) \in Nat
        /\ \A k \in 1 .. Len(ready') : ready'[k] = ready[k + 1]
    BY <2>1, QueueFacts
  <2>3. ASSUME NEW k \in 1 .. Len(ready'), ready'[k] = "joined"
        PROVE  k = Len(ready') /\ thread' = "none" /\ at' = "join"
    <3>1. k + 1 \in 1 .. Len(ready) /\ ready[k + 1] = "joined"
      BY <2>2, <2>3
    <3>2. k + 1 = Len(ready) /\ thread = "none" /\ at = "join"
      BY <3>1
    <3>3. QED
      BY <3>2, <2>1, <2>2
  <2>4. QED
    BY <2>1, <2>3
<1>7. ASSUME InboundStopped PROVE InboundInv'
  <2>1. /\ at = "join" /\ ready # <<>> /\ ready[1] = "joined" /\ ready' = Tail(ready)
        /\ up' = up \ {"inbound"} /\ UNCHANGED thread
    BY <1>7, QueueFacts DEF InboundStopped, Goto
  <2>2. Len(ready) = 1 /\ thread = "none"
    <3>1. Len(ready) \in Nat \ {0}
      BY <2>1, QueueFacts
    <3>2. 1 \in 1 .. Len(ready)
      BY <3>1
    <3>3. QED
      BY <2>1, <3>2
  <2>3. ready' = <<>>
    <3>1. ready' \in Seq({"frame", "joined"}) /\ Len(ready') = 0
      BY <2>1, <2>2, QueueFacts
    <3>2. QED
      BY <3>1
  <2>4. (1 .. Len(ready')) = {} /\ "inbound" \notin up'
    BY <2>1, <2>3
  <2>5. QED
    BY <2>1, <2>2, <2>3, <2>4
<1>8. ASSUME StopInbound PROVE InboundInv'
  BY <1>8 DEF StopInbound, Goto
<1>9. ASSUME Request \/ NotifyStep PROVE InboundInv'
  BY <1>9 DEF Request, NotifyStep, Notify, NotifyFails, NotifyWakes, NotifyEnds
<1>10. ASSUME Engaged(Internal) PROVE InboundInv'
  BY <1>10 DEF Engaged
<1>11. ASSUME StopEngine \/ EngineStopped \/ StopMdns \/ MdnsRaises PROVE InboundInv'
  BY <1>11 DEF StopEngine, EngineStopped, StopMdns, MdnsRaises, Goto
<1>12. ASSUME StopSsdp \/ SsdpStopped \/ StopHttp \/ HttpStopped \/ CancelAll \/ Exit
       PROVE  InboundInv'
  BY <1>12 DEF StopSsdp, SsdpStopped, StopHttp, HttpStopped, CancelAll, Exit, Goto
<1>13. ASSUME UNCHANGED allVars PROVE InboundInv'
  BY <1>13 DEF allVars
<1> QED
  BY <1>1, <1>2, <1>3, <1>4, <1>5, <1>6, <1>7, <1>8, <1>9, <1>10, <1>11, <1>12, <1>13
  DEF LifecycleNext, StartStop, ThreadStep

\* Every step keeps PartsInv.
LEMMA PartsStepInv ==
    ASSUME LifecycleTypeOK, PartsInv, [LifecycleNext]_allVars
    PROVE  PartsInv'
<1> USE DEF PartsInv, LifecycleTypeOK, place, inbound, service
<1>1. ASSUME PartUp PROVE PartsInv'
  BY <1>1 DEF PartUp, ThreadStarts, NotifyStarts
<1>2. ASSUME PartLeftOut \/ PartFails \/ Started \/ RequestStop PROVE PartsInv'
  BY <1>2 DEF PartLeftOut, PartFails, Started, RequestStop
<1>3. ASSUME ThreadStep \/ OnFrame \/ Request PROVE PartsInv'
  BY <1>3 DEF ThreadStep, ThreadReceives, ThreadEnds, ThreadError, ThreadWakes, Joined, OnFrame,
     ThreadFrame, Request
<1>4. ASSUME NotifyStep PROVE PartsInv'
  BY <1>4 DEF NotifyStep, Notify, NotifyFails, NotifyWakes, NotifyEnds
<1>5. ASSUME Engaged(Internal) PROVE PartsInv'
  BY <1>5 DEF Engaged
<1>6. ASSUME StopInbound \/ InboundStopped \/ StopEngine \/ EngineStopped PROVE PartsInv'
  BY <1>6 DEF StopInbound, InboundStopped, StopEngine, EngineStopped, Goto
<1>7. ASSUME StopMdns \/ MdnsRaises \/ StopSsdp \/ SsdpStopped PROVE PartsInv'
  BY <1>7 DEF StopMdns, MdnsRaises, StopSsdp, SsdpStopped, Goto
<1>8. ASSUME StopHttp \/ HttpStopped \/ CancelAll \/ Exit PROVE PartsInv'
  BY <1>8 DEF StopHttp, HttpStopped, CancelAll, Exit, Goto
<1>9. ASSUME UNCHANGED allVars PROVE PartsInv'
  BY <1>9 DEF allVars
<1> QED
  BY <1>1, <1>2, <1>3, <1>4, <1>5, <1>6, <1>7, <1>8, <1>9 DEF LifecycleNext, StartStop

\* Both hold from the start and for ever.
LEMMA ServiceInvariance == LifecycleSpec => [](LifecycleTypeOK /\ InboundInv /\ PartsInv)
<1>1. LifecycleInit => InboundInv /\ PartsInv
  BY DEF LifecycleInit, InboundInv, PartsInv
<1>2. LifecycleTypeOK /\ InboundInv /\ PartsInv /\ [LifecycleNext]_allVars
          => InboundInv' /\ PartsInv'
  BY InboundStepInv, PartsStepInv
<1>3. QED
  BY <1>1, <1>2, LifecycleTypes, PTL DEF LifecycleSpec

\* Once the stop of the inbound server returned, no frame reaches the engine any more.
THEOREM SilenceAfterStop == LifecycleSpec => []InboundSilent
<1>1. InboundInv => InboundSilent
  BY DEF InboundInv, InboundSilent, Stopped
<1>2. QED
  BY <1>1, ServiceInvariance, PTL

\* A stop that raises nothing leaves nothing of the service behind.
THEOREM NothingLeftUp == LifecycleSpec => []StopComplete
<1>1. LifecycleTypeOK /\ InboundInv /\ PartsInv => StopComplete
  BY PartFacts DEF LifecycleTypeOK, InboundInv, PartsInv, StopComplete
<1>2. QED
  BY <1>1, ServiceInvariance, PTL

-----------------------------------------------------------------------------
(* The engine in its service, until the loop ends.                         *)

LoopRuns == at \notin {"cancel", "exit"}

\* No step leads back from the end of the loop.
LEMMA LoopEnds ==
    ASSUME [LifecycleNext]_allVars, ~LoopRuns
    PROVE  ~LoopRuns'
  BY DEF LoopRuns, allVars, service, place, LifecycleNext, StartStop, PartUp, PartLeftOut,
     PartFails, Started, RequestStop, ThreadStep, ThreadReceives, ThreadEnds, ThreadError,
     ThreadWakes, Joined, ThreadFrame, OnFrame, NotifyStep, Notify, NotifyFails, NotifyWakes,
     NotifyEnds, Request,
     StopInbound, InboundStopped, StopEngine, EngineStopped, StopMdns, MdnsRaises, StopSsdp,
     SsdpStopped, StopHttp, HttpStopped, CancelAll, Exit, Engaged

\* While the loop runs, a step of the service is one of the engine, a frame of the DTLS thread,
\* or a fault counted.
LEMMA LoopSteps ==
    ASSUME [LifecycleNext]_allVars, LoopRuns'
    PROVE  \/ [Next]_vars
           \/ \E tv \in TV : Inbound(Adopted(tv))
           \/ faults' = faults + 1 /\ FaultFrame
<1>1. UNCHANGED allVars => UNCHANGED vars
  BY DEF allVars
<1>2. ~CancelAll
  BY DEF CancelAll, LoopRuns
<1>3. QED
  BY <1>1, <1>2, EngineSteps DEF OnFrame, Fault

\* The engine's inductive invariant as long as the loop runs, with what it says about sessions
\* and about the bridge.
ServiceInv == LoopRuns => Inv /\ SessionInv /\ AreaInv /\ RidInv

\* The service only calls the engine the way the engine expects: the invariant holds from the
\* first step of the start to the last one of the stop.
THEOREM EngineInService ==
    ASSUME PromptWakeup, SlowConnect
    PROVE  LifecycleSpec => []ServiceInv
<1>1. LifecycleInit => ServiceInv
  BY InvInit, SlotAssumption
  DEF LifecycleInit, Init, ServiceInv, SessionInv, AreaInv, RidInv, IsStreaming, Actor
<1>2. LifecycleTypeOK /\ ServiceInv /\ [LifecycleNext]_allVars => ServiceInv'
  <2> SUFFICES ASSUME TypeOK, ServiceInv, [LifecycleNext]_allVars, LoopRuns'
               PROVE  Inv' /\ SessionInv' /\ AreaInv' /\ RidInv'
    BY DEF ServiceInv, LifecycleTypeOK
  <2>1. Inv /\ SessionInv /\ AreaInv /\ RidInv
    BY LoopEnds DEF ServiceInv
  <2>2. CASE [Next]_vars
    BY <2>1, <2>2, InvStep, SessionStep, RidStep
  <2>3. CASE \E tv \in TV : Inbound(Adopted(tv))
    BY <2>1, <2>3, InvInbound, SessionInbound, RidInbound
  <2>4. CASE FaultFrame
    <3>1. UNCHANGED <<attrs, startTask, starts, actors, health, net>>
      BY <2>4 DEF FaultFrame
    <3>2. QED
      BY <2>1, <3>1, InvFrame, SessionFrame, RidFrame DEF attrs, starts, actors, health, net
  <2>5. QED
    BY <2>2, <2>3, <2>4, LoopSteps
<1>3. QED
  BY <1>1, <1>2, LifecycleTypes, PTL DEF LifecycleSpec

\* While the loop runs, each step of the service is an allowed one of the outbound stream, or
\* leaves it alone.
PromiseInService == [][LoopRuns' => [Outbound!Next]_Outbound!vars]_allVars

\* Until it ends, the service keeps the engine's promise to the bridge: through its start, its
\* stop and any requests, frames and signals in between.
THEOREM ServiceImplements ==
    ASSUME PromptWakeup, SlowConnect
    PROVE  LifecycleSpec => Outbound!Init /\ PromiseInService
<1>1. LifecycleInit => Outbound!Init
  BY SlotAssumption DEF LifecycleInit, Init, Outbound!Init, IsStreaming
<1>2. LifecycleTypeOK /\ ServiceInv /\ [LifecycleNext]_allVars
          => [LoopRuns' => [Outbound!Next]_Outbound!vars]_allVars
  <2> SUFFICES ASSUME TypeOK, ServiceInv, [LifecycleNext]_allVars, LoopRuns'
               PROVE  [Outbound!Next]_Outbound!vars
    BY DEF LifecycleTypeOK
  <2>1. Inv /\ SessionInv
    BY LoopEnds DEF ServiceInv
  <2>2. CASE [Next]_vars
    BY <2>1, <2>2, OutboundStep
  <2>3. CASE \E tv \in TV : Inbound(Adopted(tv))
    BY <2>1, <2>3, OutboundInbound
  <2>4. CASE FaultFrame
    BY <2>4, OutboundFrame DEF FaultFrame, attrs, starts, net
  <2>5. QED
    BY <2>2, <2>3, <2>4, LoopSteps
<1>3. QED
  BY <1>1, <1>2, LifecycleTypes, EngineInService, PTL DEF LifecycleSpec, PromiseInService

\* While the loop runs, the monitor gives up no stream that the bridge credits to us or has yet
\* to credit.
THEOREM ServiceFalseAlarms ==
    ASSUME PromptWakeup, SlowConnect
    PROVE  LifecycleSpec =>
              [][LoopRuns' /\ IsStreaming /\ remote = "alive" /\ remote' = "dead"
                    => view[area[session]] \notin {"unnamed", "ours"}]_allVars
<1>1. LifecycleTypeOK /\ ServiceInv /\ [LifecycleNext]_allVars
          => [LoopRuns' /\ IsStreaming /\ remote = "alive" /\ remote' = "dead"
                 => view[area[session]] \notin {"unnamed", "ours"}]_allVars
  <2> SUFFICES ASSUME TypeOK, ServiceInv, [LifecycleNext]_allVars, LoopRuns',
                      IsStreaming, remote = "alive", remote' = "dead"
               PROVE  view[area[session]] \notin {"unnamed", "ours"}
    BY DEF LifecycleTypeOK
  <2>1. Inv /\ AreaInv /\ RidInv
    BY LoopEnds DEF ServiceInv
  <2>2. [Next]_vars
    BY LoopSteps DEF Inbound, FaultFrame, attrs
  <2>3. QED
    BY <2>1, <2>2, AlarmStep
<1>2. QED
  BY <1>1, LifecycleTypes, EngineInService, PTL DEF LifecycleSpec

\* While the loop runs, an area is only forgotten where a start task that is closing its session
\* is cancelled once more.
THEOREM ServiceLeaks ==
    LifecycleSpec =>
        [][LoopRuns' /\ AreaReleased /\ ~AreaReleased'
              => \E i \in Slot : CancelClose(i) /\ i \in active]_allVars
<1>1. LifecycleTypeOK /\ [LifecycleNext]_allVars
          => [LoopRuns' /\ AreaReleased /\ ~AreaReleased'
                 => \E i \in Slot : CancelClose(i) /\ i \in active]_allVars
  <2> SUFFICES ASSUME TypeOK, [LifecycleNext]_allVars, LoopRuns', AreaReleased, ~AreaReleased'
               PROVE  \E i \in Slot : CancelClose(i) /\ i \in active
    BY DEF LifecycleTypeOK
  <2>1. ASSUME NEW tv \in TV, Inbound(Adopted(tv)) PROVE FALSE
    BY <2>1, LeakFrame DEF Inbound, net, config
  <2>2. ASSUME faults' = faults + 1 PROVE FALSE
    BY <2>2, BoundAssumption DEF AreaReleased, TypeOK
  <2>3. QED
    BY <2>1, <2>2, LoopSteps, LeakStep
<1>2. QED
  BY <1>1, LifecycleTypes, PTL DEF LifecycleSpec

-----------------------------------------------------------------------------
(* The end of the loop.                                                    *)

\* No step of the engine but one of its own ends a start task that has begun, and without a
\* fault that step installs the session or finds the area inactive, unless it is the aclose()
\* of an aborting start that is cancelled (_start_stream).
LEMMA StartEndsClean ==
    ASSUME TypeOK, [Next]_vars, NEW i \in Slot,
           spc[i] \notin {"idle", "ready"}, spc'[i] = "idle", faults' = 0,
           spc[i] = "abort" => i \notin cancels
    PROVE  i \notin active' \/ session' = i
<1> USE DEF TypeOK, attrs, clock, starts, actors, health, net, config
<1>1. ASSUME UNCHANGED spc PROVE FALSE
  BY <1>1
<1>2. ASSUME NEW j \in Slot, StartStep(j), j # i PROVE FALSE
  BY <1>2 DEF StartStep, StartBegin, StartConnected, StartFails, StartClosed, StartCloseFails,
     CancelUnstarted, CancelConnect, CancelClose, StartEnds
<1>3. ASSUME StartStep(i) PROVE i \notin active' \/ session' = i
  <2>1. CASE StartConnected(i)
    BY <2>1 DEF StartConnected
  <2>2. CASE StartClosed(i)
    BY <2>2 DEF StartClosed
  <2>3. CASE StartBegin(i) \/ StartFails(i) \/ CancelUnstarted(i) \/ CancelConnect(i)
    BY <2>3 DEF StartBegin, StartFails, CancelUnstarted, CancelConnect
  <2>4. CASE StartCloseFails(i)
    BY <2>4, BoundAssumption DEF StartCloseFails
  <2>5. CASE CancelClose(i)
    BY <2>5 DEF CancelClose
  <2>6. QED
    BY <1>3, <2>1, <2>2, <2>3, <2>4, <2>5 DEF StartStep
<1>4. ASSUME NEW tv \in TV, Inbound(tv) PROVE FALSE
  BY <1>4 DEF Inbound
<1>5. ASSUME InboundStep PROVE FALSE
  <2>1. \E tv \in TV : Inbound(tv)
    BY <1>5 DEF InboundStep, SubmitColor, StartStream, Identify, Adopted
  <2>2. QED
    BY <1>4, <2>1
<1>6. ASSUME NEW c \in Stopper, Stop(c) \/ StopResume(c) PROVE FALSE
  BY <1>1, <1>6 DEF Stop, Halt, StopResume
<1>7. ASSUME NEW a \in Actor, TeardownStep(a) PROVE FALSE
  BY <1>1, <1>7 DEF TeardownStep, HealthAwaited, TickerAwaited, SessionClosed, CloseFails
<1>8. ASSUME NEW t \in Slot, TickerTask(t) \/ HealthStep(t) PROVE FALSE
  BY <1>1, <1>8 DEF TickerTask, TickerStep, TickerCancelled, HealthStep, HealthAsk, HealthAnswer,
     HealthError
<1>9. ASSUME BridgeStep \/ TimeStep PROVE FALSE
  BY <1>1, <1>9 DEF BridgeStep, BridgeActivates, BridgeStops, SessionDrops, BridgeNames,
     ForeignLeaves, BridgeFault, TimeStep, Silence, BackoffOver, IdentifyExpires, StopIdentify
<1>10. ASSUME (\E l \in Light : StopIdentify(l)) \/ (\E tv \in TV : PowerOff(tv)) \/ Reconfigure
       PROVE  FALSE
  BY <1>1, <1>10 DEF StopIdentify, PowerOff, Reconfigure, Reassign, ChangeBridge
<1>11. ASSUME UNCHANGED vars PROVE FALSE
  BY <1>1, <1>11 DEF vars
<1>12. QED
  BY <1>2, <1>3, <1>5, <1>6, <1>7, <1>8, <1>9, <1>10, <1>11 DEF Next, Internal

\* A start task the end of the loop cancels releases the area it activated, unless its handler
\* is cancelled a second time or its session was installed (engine.py 308-314).
THEOREM StartsRelease == LifecycleSpec => CancelledStartReleases
<1>1. ASSUME LifecycleTypeOK, [LifecycleNext]_allVars, NEW i \in Slot, at = "cancel",
             spc[i] \notin {"idle", "ready"}, spc'[i] = "idle", faults' = 0,
             spc[i] = "abort" => i \notin cancels
      PROVE  i \notin active' \/ session' = i
  <2> USE DEF LifecycleTypeOK
  <2>1. ASSUME OnFrame PROVE FALSE
    BY <1>1, <2>1 DEF OnFrame, Inbound, TypeOK
  <2>2. ASSUME Fault, FaultFrame PROVE FALSE
    BY <1>1, <2>2, BoundAssumption DEF Fault, FaultFrame, starts, TypeOK
  <2>3. ASSUME CancelAll PROVE FALSE
    BY <1>1, <2>3 DEF CancelAll
  <2>4. UNCHANGED allVars => UNCHANGED vars
    BY DEF allVars
  <2>5. [Next]_vars
    BY <1>1, <2>1, <2>2, <2>3, <2>4, EngineSteps
  <2>6. QED
    BY <1>1, <2>5, StartEndsClean
<1>2. LifecycleTypeOK /\ [LifecycleNext]_allVars =>
          \A i \in Slot :
             /\ at = "cancel" /\ spc[i] \notin {"idle", "ready"} /\ spc'[i] = "idle" /\ faults' = 0
             /\ spc[i] = "abort" => i \notin cancels
             => i \notin active' \/ session' = i
  BY <1>1
<1>3. QED
  BY <1>2, LifecycleTypes, PTL DEF LifecycleSpec, CancelledStartReleases

=============================================================================

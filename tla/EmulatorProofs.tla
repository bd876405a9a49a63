--------------------------- MODULE EmulatorProofs ---------------------------
(***************************************************************************)
(* Proofs about Emulator, for any TVs, groups, slots and stops: the        *)
(* engine's invariant and its promise to the bridge survive the requests   *)
(* and the deletion of TVs, and no request takes a live stream.            *)
(***************************************************************************)
EXTENDS Emulator, OutboundProofs

\* A write that is an alert as well: the blinks are all it changes beyond what Inbound does.
LEMMA LightStateTypes ==
    ASSUME TypeOK, NEW tv \in TV, NEW l \in Light,
           NEW alert \in {"absent", "none", "select"}, LightState(tv, l, alert)
    PROVE  TypeOK'
<1>1. Inbound(Adopted(tv)) /\ identify' \subseteq identify \cup {l}
  BY DEF LightState
<1>2. Adopted(tv) \in TV
  BY DEF Adopted, TypeOK
<1>3. QED
  BY <1>1, <1>2 DEF Inbound, TypeOK, Actor, attrs, clock, starts, actors, health, net, config

\* Deleting a TV stops its stream, whatever state the engine is in.
LEMMA DeleteTypes ==
    ASSUME TypeOK, NEW tv \in TV, NEW c \in Stopper, DeleteTV(tv, c)
    PROVE  TypeOK'
  BY BoundAssumption
  DEF DeleteTV, Halt, TeardownTicker, TeardownHealth, TeardownSession, TypeOK, Actor, attrs, clock,
      starts, actors, health, net

\* What the other requests do to the engine is a step of the engine.
LEMMA RequestSteps ==
    ASSUME NEW tv \in TV, GroupRequest(tv) \/ (\E g \in GroupId \cup {0} : GroupAction(tv, g))
                                           \/ (\E v2 \in BOOLEAN : Frame(tv, v2))
    PROVE  [Next]_vars
<1>1. ASSUME NEW kind \in {"plain", "off"}, CreateGroup(tv, kind) PROVE [Next]_vars
  BY <1>1 DEF CreateGroup
<1>2. ASSUME NEW g \in GroupId, Activate(tv, g) PROVE [Next]_vars
  BY <1>2 DEF Activate, Next, InboundStep
<1>3. ASSUME NEW g \in GroupId, Deactivate(tv, g) PROVE [Next]_vars
  BY <1>3 DEF Deactivate
<1>4. ASSUME NEW g \in GroupId, NEW c \in Stopper, DeleteGroup(tv, g, c) PROVE [Next]_vars
  BY <1>4 DEF DeleteGroup, Next
<1>5. ASSUME NEW g \in GroupId \cup {0}, GroupAction(tv, g) PROVE [Next]_vars
  BY <1>5 DEF GroupAction, Next, InboundStep
<1>6. ASSUME NEW v2 \in BOOLEAN, Frame(tv, v2) PROVE [Next]_vars
  BY <1>6 DEF Frame, Next, InboundStep
<1>7. QED
  BY <1>1, <1>2, <1>3, <1>4, <1>5, <1>6 DEF GroupRequest

\* Each step is one of the engine, or an inbound write, or the call of stop(), the latter two
\* with something that is nobody else's business: a blink or an assignment.
LEMMA EmulatorSteps ==
    ASSUME [EmulatorNext]_bridgeVars
    PROVE  \/ [Next]_vars
           \/ \E tv \in TV : Inbound(Adopted(tv))
           \/ \E c \in Stopper : Halt(c) /\ faults' = faults
           \/ UNCHANGED <<attrs, startTask, clock, starts, actors, health, net, faults>>
<1>1. ASSUME NEW tv \in TV, GroupRequest(tv) PROVE [Next]_vars
  BY <1>1, RequestSteps
<1>2. ASSUME NEW tv \in TV, ColourRequest(tv)
      PROVE  [Next]_vars \/ Inbound(Adopted(tv))
  BY <1>2, RequestSteps DEF ColourRequest, LightState
<1>3. ASSUME NEW tv \in TV, NEW c \in Stopper, DeleteTV(tv, c)
      PROVE  \/ Halt(c) /\ faults' = faults
             \/ UNCHANGED <<attrs, startTask, clock, starts, actors, health, net, faults>>
  BY <1>3 DEF DeleteTV
<1>4. CASE Internal
  BY <1>4 DEF Next
<1>5. CASE UNCHANGED bridgeVars
  BY <1>5 DEF bridgeVars
<1>6. QED
  BY <1>1, <1>2, <1>3, <1>4, <1>5 DEF EmulatorNext

\* The engine keeps its types under any requests of any TVs, and while TVs are deleted.
THEOREM EmulatorTypes == EmulatorSpec => []TypeOK
<1>1. EmulatorInit => TypeOK
  BY TypeInit DEF EmulatorInit
<1>2. TypeOK /\ [EmulatorNext]_bridgeVars => TypeOK'
  <2> SUFFICES ASSUME TypeOK, [EmulatorNext]_bridgeVars PROVE TypeOK'
    OBVIOUS
  <2>1. ASSUME [Next]_vars PROVE TypeOK'
    BY <2>1, TypeStep
  <2>2. ASSUME NEW tv \in TV, GroupRequest(tv) \/ ColourRequest(tv) PROVE TypeOK'
    BY <2>1, <2>2, RequestSteps, LightStateTypes DEF ColourRequest
  <2>3. CASE Internal
    BY <2>1, <2>3 DEF Next
  <2>4. CASE UNCHANGED bridgeVars
    BY <2>1, <2>4 DEF bridgeVars
  <2>5. QED
    BY <2>2, <2>3, <2>4, DeleteTypes DEF EmulatorNext
<1>3. QED
  BY <1>1, <1>2, PTL DEF EmulatorSpec

\* It keeps its inductive invariant as well, under prompt wake-ups and slow connects.
THEOREM EngineSurvives ==
    ASSUME PromptWakeup, SlowConnect
    PROVE  EmulatorSpec => []Inv
<1>1. EmulatorInit => Inv
  BY InvInit DEF EmulatorInit
<1>2. TypeOK /\ Inv /\ [EmulatorNext]_bridgeVars => Inv'
  <2> SUFFICES ASSUME TypeOK, Inv, [EmulatorNext]_bridgeVars PROVE Inv'
    OBVIOUS
  <2>1. CASE UNCHANGED <<attrs, startTask, clock, starts, actors, health, net>>
    BY <2>1, InvFrame DEF attrs, starts, actors, health, net
  <2>2. QED
    BY <2>1, EmulatorSteps, InvStep, InvInbound, InvHalt
<1>3. QED
  BY <1>1, <1>2, EmulatorTypes, PTL DEF EmulatorSpec

-----------------------------------------------------------------------------
(* Groups and paired TVs.                                                  *)

\* The groups and the paired TVs keep their types; a POST takes no id beyond the last one.
THEOREM GroupTypes ==
    ASSUME \E n \in GroupId : \A g \in GroupId : g <= n
    PROVE  EmulatorSpec => []EmulatorTypeOK
<1>1. MaxId \in GroupId /\ \A g \in GroupId : g <= MaxId
  BY DEF MaxId
<1> HIDE DEF MaxId
<1>2. EmulatorInit => EmulatorTypeOK
  BY <1>1, GroupAssumption DEF EmulatorInit, EmulatorTypeOK
<1>3. EmulatorTypeOK /\ [EmulatorNext]_bridgeVars => EmulatorTypeOK'
  <2> SUFFICES ASSUME EmulatorTypeOK, [EmulatorNext]_bridgeVars PROVE EmulatorTypeOK'
    OBVIOUS
  <2> USE DEF EmulatorTypeOK
  <2>1. ASSUME NEW tv \in TV, NEW kind \in {"plain", "off"}, CreateGroup(tv, kind),
               UNCHANGED known
        PROVE  EmulatorTypeOK'
    BY <2>1, <1>1, GroupAssumption DEF CreateGroup
  <2>2. ASSUME NEW tv \in TV, NEW g \in GroupId, UNCHANGED known,
               \/ Activate(tv, g) \/ Deactivate(tv, g)
               \/ \E c \in Stopper : DeleteGroup(tv, g, c)
        PROVE  EmulatorTypeOK'
    BY <2>2 DEF Activate, Deactivate, DeleteGroup
  <2>3. ASSUME NEW tv \in TV, ColourRequest(tv), UNCHANGED known PROVE EmulatorTypeOK'
    BY <2>3 DEF ColourRequest, LightState, GroupAction, Frame
  <2>4. ASSUME NEW tv \in TV, NEW c \in Stopper, DeleteTV(tv, c) PROVE EmulatorTypeOK'
    BY <2>4 DEF DeleteTV
  <2>5. CASE UNCHANGED <<groups, nextId, known>>
    BY <2>5
  <2>6. QED
    BY <2>1, <2>2, <2>3, <2>4, <2>5 DEF EmulatorNext, GroupRequest, bridgeVars
<1>4. QED
  BY <1>2, <1>3, PTL DEF EmulatorSpec

-----------------------------------------------------------------------------
(* Who owns the stream.                                                    *)

\* Nothing the engine does by itself gives a stream to anybody: at most the owner is dropped.
LEMMA InternalOwner ==
    ASSUME Internal
    PROVE  streamOwner' \in {streamOwner, None}
<1> USE DEF attrs
<1>1. ASSUME NEW c \in Stopper, StopResume(c) PROVE streamOwner' \in {streamOwner, None}
  BY <1>1 DEF StopResume, TeardownTicker, TeardownHealth, TeardownSession
<1>2. ASSUME NEW a \in Actor, TeardownStep(a) PROVE streamOwner' \in {streamOwner, None}
  BY <1>2 DEF TeardownStep, HealthAwaited, TickerAwaited, SessionClosed, CloseFails,
     TeardownHealth, TeardownSession
<1>3. ASSUME NEW i \in Slot, StartStep(i) PROVE streamOwner' = streamOwner
  BY <1>3 DEF StartStep, StartBegin, StartConnected, StartFails, StartClosed, StartCloseFails,
     CancelUnstarted, CancelConnect, CancelClose
<1>4. ASSUME NEW i \in Slot, TickerTask(i) PROVE streamOwner' \in {streamOwner, None}
  BY <1>4 DEF TickerTask, TickerStep, TickerCancelled, TeardownTicker, TeardownHealth,
     TeardownSession
<1>5. ASSUME NEW i \in Slot, HealthStep(i) PROVE streamOwner' = streamOwner
  BY <1>5 DEF HealthStep, HealthAsk, HealthAnswer, HealthError
<1>6. ASSUME BridgeStep PROVE streamOwner' = streamOwner
  BY <1>6 DEF BridgeStep, BridgeActivates, BridgeStops, SessionDrops, BridgeNames, ForeignLeaves,
     BridgeFault
<1>7. ASSUME TimeStep PROVE streamOwner' = streamOwner
  BY <1>7 DEF TimeStep, Silence, BackoffOver, IdentifyExpires, StopIdentify
<1>8. ASSUME (\E tv \in TV : PowerOff(tv)) \/ Reconfigure PROVE streamOwner' = streamOwner
  BY <1>8 DEF PowerOff, Reconfigure, Reassign, ChangeBridge
<1>9. QED
  BY <1>1, <1>2, <1>3, <1>4, <1>5, <1>6, <1>7, <1>8 DEF Internal

\* A TV that streams keeps its stream until a teardown drops the owner, for any requests of any
\* other TVs (rest_v1.py 376-389, engine.py 118-121).
THEOREM OwnerSafe == EmulatorSpec => NoTakeover
<1>1. [EmulatorNext]_bridgeVars =>
        (IsStreaming /\ streamOwner # None /\ streamOwner' # streamOwner => streamOwner' = None)
  <2> SUFFICES ASSUME [EmulatorNext]_bridgeVars, IsStreaming, streamOwner # None
               PROVE  streamOwner' \in {streamOwner, None}
    OBVIOUS
  <2> USE DEF vars, attrs
  <2>1. ASSUME NEW tv \in TV, Inbound(Adopted(tv)) PROVE streamOwner' = streamOwner
    BY <2>1 DEF Inbound, Adopted
  <2>2. ASSUME NEW tv \in TV, GroupRequest(tv) PROVE streamOwner' \in {streamOwner, None}
    BY <2>2 DEF GroupRequest, CreateGroup, Activate, Denied, StartStream, Inbound, Deactivate,
       DeleteGroup, Stop, Halt, TeardownTicker, TeardownHealth, TeardownSession
  <2>3. ASSUME NEW tv \in TV, ColourRequest(tv) PROVE streamOwner' = streamOwner
    BY <2>1, <2>3 DEF ColourRequest, LightState, GroupAction, Frame, SubmitColor
  <2>4. ASSUME NEW tv \in TV, NEW c \in Stopper, DeleteTV(tv, c)
        PROVE  streamOwner' \in {streamOwner, None}
    BY <2>4 DEF DeleteTV, Halt, TeardownTicker, TeardownHealth, TeardownSession
  <2>5. CASE Internal
    BY <2>5, InternalOwner
  <2>6. CASE UNCHANGED bridgeVars
    BY <2>6 DEF bridgeVars
  <2>7. QED
    BY <2>2, <2>3, <2>4, <2>5, <2>6 DEF EmulatorNext
<1>2. QED
  BY <1>1, PTL DEF EmulatorSpec, NoTakeover

-----------------------------------------------------------------------------
(* What the engine promises, whatever it is asked.                         *)

\* Under any requests the engine keeps its promise to the bridge: every step is an allowed one
\* of the outbound stream or leaves it alone.
THEOREM EmulatorImplements ==
    ASSUME PromptWakeup, SlowConnect
    PROVE  EmulatorSpec => ImplementsOutbound
<1>1. EmulatorInit => SessionInv /\ Outbound!Init
  BY SlotAssumption DEF EmulatorInit, Init, SessionInv, Outbound!Init, IsStreaming, Actor
<1>2. TypeOK /\ Inv /\ SessionInv /\ [EmulatorNext]_bridgeVars
          => SessionInv' /\ [Outbound!Next]_Outbound!vars
  <2> SUFFICES ASSUME TypeOK, Inv, SessionInv, [EmulatorNext]_bridgeVars
               PROVE  SessionInv' /\ [Outbound!Next]_Outbound!vars
    OBVIOUS
  <2>1. CASE [Next]_vars
    BY <2>1, SessionStep, OutboundStep
  <2>2. CASE \E tv \in TV : Inbound(Adopted(tv))
    BY <2>2, SessionInbound, OutboundInbound
  <2>3. CASE \E c \in Stopper : Halt(c)
    BY <2>3, SessionHalt, OutboundHalt
  <2>4. CASE UNCHANGED <<attrs, startTask, clock, starts, actors, health, net>>
    <3>1. UNCHANGED <<session, startTask, spc, pc, arg, lib>>
      BY <2>4 DEF attrs, starts, actors, net
    <3>2. QED
      BY <3>1, SessionFrame, OutboundFrame
  <2>5. QED
    BY <2>1, <2>2, <2>3, <2>4, EmulatorSteps
<1>3. QED
  BY <1>1, <1>2, EmulatorTypes, EngineSurvives, PTL
  DEF EmulatorSpec, ImplementsOutbound, Outbound!Safe

\* Whatever the TVs ask, no connection is attempted next to a live stream.
THEOREM EmulatorOneAtATime ==
    ASSUME PromptWakeup, SlowConnect
    PROVE  EmulatorSpec => []Outbound!Exclusive
  BY EmulatorImplements, PromiseExclusive, PTL

\* What the monitor has learned is about the installed session, whatever the TVs ask.
LEMMA EmulatorRid ==
    ASSUME PromptWakeup, SlowConnect
    PROVE  EmulatorSpec => [](AreaInv /\ RidInv)
<1>1. EmulatorInit => AreaInv /\ RidInv
  BY DEF EmulatorInit, Init, AreaInv, RidInv, IsStreaming
<1>2. TypeOK /\ Inv /\ AreaInv /\ RidInv /\ [EmulatorNext]_bridgeVars => AreaInv' /\ RidInv'
  <2> SUFFICES ASSUME TypeOK, Inv, AreaInv, RidInv, [EmulatorNext]_bridgeVars
               PROVE  AreaInv' /\ RidInv'
    OBVIOUS
  <2>1. CASE UNCHANGED <<attrs, startTask, clock, starts, actors, health, net>>
    BY <2>1, RidFrame DEF attrs, net
  <2>2. QED
    BY <2>1, EmulatorSteps, RidStep, RidInbound, RidHalt
<1>3. QED
  BY <1>1, <1>2, EmulatorTypes, EngineSurvives, PTL DEF EmulatorSpec

\* Whatever the TVs ask, the monitor never gives up a stream that the bridge credits to us or
\* has yet to credit.
THEOREM EmulatorFalseAlarms ==
    ASSUME PromptWakeup, SlowConnect
    PROVE  EmulatorSpec => NoFalseAlarm
<1>1. TypeOK /\ Inv /\ AreaInv /\ RidInv /\ [EmulatorNext]_bridgeVars
          => [IsStreaming /\ remote = "alive" /\ remote' = "dead"
                  => view[area[session]] \notin {"unnamed", "ours"}]_vars
  <2> SUFFICES ASSUME TypeOK, Inv, AreaInv, RidInv, [EmulatorNext]_bridgeVars,
                      IsStreaming, remote = "alive", remote' = "dead"
               PROVE  view[area[session]] \notin {"unnamed", "ours"}
    OBVIOUS
  <2>1. ASSUME NEW c \in Stopper, Halt(c) PROVE FALSE
    BY <2>1 DEF Halt, TeardownTicker, TeardownHealth, TeardownSession, attrs
  <2>2. ASSUME NEW tv \in TV, Inbound(Adopted(tv)) PROVE FALSE
    BY <2>2 DEF Inbound
  <2>3. [Next]_vars
    BY <2>1, <2>2, EmulatorSteps DEF attrs
  <2>4. QED
    BY <2>3, AlarmStep
<1>2. QED
  BY <1>1, EmulatorTypes, EngineSurvives, EmulatorRid, PTL DEF EmulatorSpec, NoFalseAlarm

\* Without faults and with one DELETE at a time, no request has the engine forget an area it
\* activated.
THEOREM EmulatorReleases ==
    ASSUME PromptWakeup, SlowConnect, OneStopper
    PROVE  EmulatorSpec => []AreaReleased
<1>1. EmulatorInit => MarksInv /\ ReleaseInv
  BY DEF EmulatorInit, Init, MarksInv, ReleaseInv
<1>2. TypeOK /\ Inv /\ AreaInv /\ MarksInv /\ ReleaseInv /\ [EmulatorNext]_bridgeVars
          => MarksInv' /\ ReleaseInv'
  <2> SUFFICES ASSUME TypeOK, Inv, AreaInv, MarksInv, ReleaseInv, [EmulatorNext]_bridgeVars
               PROVE  MarksInv' /\ ReleaseInv'
    OBVIOUS
  <2>1. CASE UNCHANGED <<attrs, startTask, clock, starts, actors, health, net, faults>>
    BY <2>1, ReleaseFrame DEF starts, actors, net
  <2>2. QED
    BY <2>1, EmulatorSteps, ReleaseStep, ReleaseInbound, ReleaseHalt
<1>3. ReleaseInv => AreaReleased
  BY DEF ReleaseInv, AreaReleased
<1>4. QED
  BY <1>1, <1>2, <1>3, EmulatorTypes, EngineSurvives, EmulatorRid, PTL DEF EmulatorSpec

\* With any number of DELETEs at a time, an area is only forgotten where a start task that is
\* closing its session is cancelled once more.
THEOREM EmulatorLeaks == EmulatorSpec => LeaksOnlyRecancelled
<1>1. TypeOK /\ [EmulatorNext]_bridgeVars =>
          [AreaReleased /\ ~AreaReleased' => \E i \in Slot : CancelClose(i) /\ i \in active]_vars
  <2> SUFFICES ASSUME TypeOK, [EmulatorNext]_bridgeVars, AreaReleased, ~AreaReleased'
               PROVE  \E i \in Slot : CancelClose(i) /\ i \in active
    OBVIOUS
  <2>1. ASSUME NEW tv \in TV, Inbound(Adopted(tv)) PROVE FALSE
    BY <2>1, LeakFrame DEF Inbound, net, config
  <2>2. ASSUME UNCHANGED <<attrs, startTask, clock, starts, actors, health, net, faults>>
        PROVE  FALSE
    BY <2>2, LeakFrame DEF net
  <2>3. QED
    BY <2>1, <2>2, EmulatorSteps, LeakStep, LeakHalt
<1>2. QED
  BY <1>1, EmulatorTypes, PTL DEF EmulatorSpec, LeaksOnlyRecancelled

=============================================================================

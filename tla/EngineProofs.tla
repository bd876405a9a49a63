---------------------------- MODULE EngineProofs ----------------------------
(***************************************************************************)
(* Proofs about Engine, for any number of TVs, areas, lights, slots and    *)
(* concurrent stops, and any number of faults and edits.                   *)
(***************************************************************************)
EXTENDS Engine, TLAPS

\* Every step keeps the types of the variables.
LEMMA TypeStep ==
    ASSUME TypeOK
    PROVE  [Next]_vars => TypeOK'
<1> USE DEF TypeOK, Actor, FailsToRecover, attrs, clock, starts, actors, health, net, config
<1>1. ASSUME NEW tv \in TV, SubmitColor(tv) PROVE TypeOK'
  BY <1>1 DEF SubmitColor, Inbound, Adopted
<1>2. ASSUME NEW tv \in TV, StartStream(tv) PROVE TypeOK'
  BY <1>2 DEF StartStream, Inbound
<1>3. ASSUME NEW tv \in TV, NEW l \in Light, Identify(tv, l) PROVE TypeOK'
  BY <1>3 DEF Identify, Inbound, Adopted
<1>4. ASSUME NEW l \in Light, StopIdentify(l) PROVE TypeOK'
  BY <1>4 DEF StopIdentify
<1>5. ASSUME NEW c \in Stopper, Stop(c) PROVE TypeOK'
  BY <1>5 DEF Stop, Halt, TeardownTicker, TeardownHealth, TeardownSession, TeardownFrame
<1>6. ASSUME NEW c \in Stopper, StopResume(c) PROVE TypeOK'
  BY <1>6 DEF StopResume, TeardownTicker, TeardownHealth, TeardownSession, TeardownFrame
<1>7. ASSUME NEW a \in Actor, HealthAwaited(a) PROVE TypeOK'
  BY <1>7 DEF HealthAwaited, TeardownSession, TeardownFrame
<1>8. ASSUME NEW a \in Actor, TickerAwaited(a) PROVE TypeOK'
  BY <1>8 DEF TickerAwaited, TeardownHealth, TeardownSession, TeardownFrame
<1>9. ASSUME NEW a \in Actor, SessionClosed(a) PROVE TypeOK'
  <2>1. /\ pc' = [pc EXCEPT ![a] = "idle"] /\ arg' = [arg EXCEPT ![a] = None]
        /\ lib' = [lib EXCEPT ![arg[a]] = "closed"]
        /\ area' = [area EXCEPT ![arg[a]] = NoArea]
        /\ UNCHANGED <<attrs, startTask, clock, starts, health, active, view, config>>
    BY <1>9 DEF SessionClosed
  <2>2. lib' \in [Slot -> {"closed", "opening", "activated", "streaming", "dropped", "closing"}]
    BY <2>1
  <2>3. area' \in [Slot -> Area \cup {NoArea}]
    BY <2>1
  <2>4. QED
    BY <2>1, <2>2, <2>3
<1>10. ASSUME NEW a \in Actor, CloseFails(a) PROVE TypeOK'
  <2>1. /\ faults < MaxFaults /\ faults' = faults + 1
        /\ lib' = [lib EXCEPT ![arg[a]] = "closed"]
        /\ UNCHANGED <<attrs, startTask, clock, starts, health, area, active, view,
                       assign, bridge, on, edits>>
    BY <1>10 DEF CloseFails
  <2>2. lib' \in [Slot -> {"closed", "opening", "activated", "streaming", "dropped", "closing"}]
    BY <2>1
  <2>3. /\ pc' \in [Actor -> {"idle", "new", "run", "cancelled", "start", "ticker", "health",
                              "close"}]
        /\ arg' \in [Actor -> Slot \cup {None}]
    BY <1>10 DEF CloseFails
  <2>4. faults' \in 0 .. MaxFaults
    BY <2>1, BoundAssumption
  <2>5. QED
    BY <2>1, <2>2, <2>3, <2>4
<1>11. ASSUME NEW i \in Slot, StartBegin(i) PROVE TypeOK'
  BY <1>11 DEF StartBegin, StartEnds, AreaOf
<1>12. ASSUME NEW i \in Slot, StartConnected(i) PROVE TypeOK'
  BY <1>12 DEF StartConnected, StartEnds
<1>13. ASSUME NEW i \in Slot, StartFails(i) PROVE TypeOK'
  BY <1>13 DEF StartFails
<1>14. ASSUME NEW i \in Slot, StartClosed(i) PROVE TypeOK'
  BY <1>14 DEF StartClosed, StartEnds
<1>15. ASSUME NEW i \in Slot, StartCloseFails(i) PROVE TypeOK'
  BY <1>15, BoundAssumption DEF StartCloseFails, StartEnds
<1>16. ASSUME NEW i \in Slot, CancelUnstarted(i) PROVE TypeOK'
  BY <1>16 DEF CancelUnstarted
<1>17. ASSUME NEW i \in Slot, CancelConnect(i) PROVE TypeOK'
  BY <1>17 DEF CancelConnect
<1>18. ASSUME NEW i \in Slot, CancelClose(i) PROVE TypeOK'
  BY <1>18 DEF CancelClose, StartEnds
<1>19. ASSUME NEW t \in Slot, TickerStep(t) PROVE TypeOK'
  BY <1>19 DEF TickerStep, TeardownTicker, TeardownHealth, TeardownSession, TeardownFrame
<1>20. ASSUME NEW t \in Slot, TickerCancelled(t) PROVE TypeOK'
  BY <1>20 DEF TickerCancelled, TeardownTicker, TeardownHealth, TeardownSession, TeardownFrame
<1>21. ASSUME NEW i \in Slot, HealthAsk(i) PROVE TypeOK'
  BY <1>21 DEF HealthAsk, HealthEnds
<1>22. ASSUME NEW i \in Slot, HealthAnswer(i) PROVE TypeOK'
  BY <1>22 DEF HealthAnswer, Rid, Lost
<1>23. ASSUME NEW i \in Slot, HealthError(i) PROVE TypeOK'
  BY <1>23, BoundAssumption DEF HealthError
<1>24. ASSUME NEW i \in Slot, BridgeActivates(i) \/ BridgeStops(i) \/ SessionDrops(i)
       PROVE TypeOK'
  BY <1>24, BoundAssumption DEF BridgeActivates, BridgeStops, SessionDrops
<1>25. ASSUME NEW a \in Area, BridgeNames(a) \/ ForeignLeaves(a)
                              \/ \E v \in {"idle", "cleared", "foreign"} : BridgeFault(a, v)
       PROVE TypeOK'
  BY <1>25, BoundAssumption DEF BridgeNames, ForeignLeaves, BridgeFault
<1>26. ASSUME TimeStep PROVE TypeOK'
  BY <1>26 DEF TimeStep, Silence, BackoffOver, IdentifyExpires, StopIdentify
<1>27. ASSUME (\E tv \in TV : PowerOff(tv)) \/ Reconfigure PROVE TypeOK'
  BY <1>27, BoundAssumption DEF PowerOff, Reconfigure, Reassign, ChangeBridge
<1>28. CASE UNCHANGED vars
  BY <1>28 DEF vars
<1> QED
  BY <1>1, <1>2, <1>3, <1>4, <1>5, <1>6, <1>7, <1>8, <1>9, <1>10, <1>11, <1>12, <1>13, <1>14,
     <1>15, <1>16, <1>17, <1>18, <1>19, <1>20, <1>21, <1>22, <1>23, <1>24, <1>25, <1>26, <1>27,
     <1>28 DEF Next, Internal, InboundStep, TeardownStep, StartStep, TickerTask, HealthStep,
               BridgeStep

\* The initial values have the types.
LEMMA TypeInit == Init => TypeOK
  BY SlotAssumption, BoundAssumption DEF Init, TypeOK, Actor, FailsToRecover

\* The variables keep their types.
THEOREM TypeCorrect == Spec => []TypeOK
<1>1. TypeOK /\ [Next]_vars => TypeOK'
  BY TypeStep
<1>2. QED
  BY <1>1, TypeInit, PTL DEF Spec

-----------------------------------------------------------------------------
(* The inductive invariant.                                                *)

\* Inv reads nothing but the task handles, the states of the tasks and of the sessions.
LEMMA InvFrame ==
    ASSUME Inv,
           UNCHANGED <<session, startTask, ticker, healthTask, spc, pc, arg, hpc, hsess, lib>>
    PROVE  Inv'
  BY DEF Inv, StartInv, TickerInv, WaitInv, HealthInv, KeeperInv, NoStrandedSession, SingleStart,
         IsStreaming, Taking

\* aclose() raising in a teardown: only tasks that close or await a closing one end, and the
\* one session that is dropped is closed (_teardown after _session = None).
LEMMA InvCloseFails ==
    ASSUME TypeOK, Inv, NEW a \in Actor, CloseFails(a)
    PROVE  Inv'
<1> DEFINE ended == {a} \cup {b \in Actor : pc[b] = "ticker" /\ arg[b] = a}
<1> USE DEF Actor, attrs, starts, health
<1>1. /\ pc[a] = "close" /\ arg[a] \in Slot
      /\ pc' = [b \in Actor |-> IF b \in ended THEN "idle" ELSE pc[b]]
      /\ arg' = [b \in Actor |-> IF b \in ended THEN None ELSE arg[b]]
      /\ lib' = [lib EXCEPT ![arg[a]] = "closed"]
      /\ UNCHANGED <<session, startTask, ticker, healthTask, spc, hpc, hsess>>
  BY DEF CloseFails, Inv, WaitInv
<1>2. /\ \A b \in Actor : b \in ended => pc'[b] = "idle"
      /\ \A b \in Actor : b \notin ended => pc'[b] = pc[b] /\ arg'[b] = arg[b]
      /\ \A b \in ended : pc[b] \in {"ticker", "close"}
      /\ lib'[arg[a]] = "closed" /\ \A i \in Slot : i # arg[a] => lib'[i] = lib[i]
  BY <1>1 DEF TypeOK
<1>3. IsStreaming' => IsStreaming
  BY <1>1, <1>2, SlotAssumption DEF IsStreaming, TypeOK
<1> HIDE DEF ended
<1>4. StartInv'
  BY <1>1, <1>2, <1>3, SlotAssumption DEF Inv, StartInv, SingleStart, TypeOK
<1>5. TickerInv'
  BY <1>1, <1>2, SlotAssumption DEF Inv, TickerInv, TypeOK
<1>6. WaitInv'
  BY <1>1, <1>2, SlotAssumption DEF Inv, WaitInv, TypeOK
<1>7. HealthInv'
  BY <1>1, <1>2, SlotAssumption DEF Inv, HealthInv, TypeOK
<1>8. KeeperInv'
  <2>1. ASSUME NEW b \in Actor, Taking(b) PROVE \E d \in Actor : Taking(d)'
    <3>1. CASE pc[b] = "ticker" /\ arg[b] = a
      BY <3>1, <2>1, <1>1 DEF Taking
    <3>2. CASE ~(pc[b] = "ticker" /\ arg[b] = a)
      BY <3>2, <2>1, <1>1, <1>2 DEF Taking, TypeOK, ended, Inv, WaitInv
    <3>3. QED
      BY <3>1, <3>2
  <2>2. QED
    BY <2>1, <1>1 DEF Inv, KeeperInv
<1>9. NoStrandedSession'
  <2>1. ASSUME NEW i \in Slot, lib'[i] # "closed"
        PROVE  \/ spc[i] # "idle"
               \/ session = i
               \/ \E b \in Actor : pc[b] = "close" /\ arg[b] = i /\ b \notin ended
    <3>1. i # arg[a] /\ lib[i] # "closed"
      BY <2>1, <1>2
    <3>2. ASSUME NEW b \in Actor, pc[b] = "close", arg[b] = i PROVE b \notin ended
      BY <3>1, <3>2, <1>1 DEF ended
    <3>3. QED
      BY <3>1, <3>2 DEF Inv, NoStrandedSession
  <2>2. QED
    BY <2>1, <1>1, <1>2 DEF NoStrandedSession
<1>10. QED
  BY <1>4, <1>5, <1>6, <1>7, <1>8, <1>9 DEF Inv

\* An inbound write leaves Inv alone, whoever owns the stream by it.
LEMMA InvInbound ==
    ASSUME PromptWakeup, TypeOK, Inv, NEW owner, Inbound(owner)
    PROVE  Inv'
  BY SlotAssumption, SMTT(30)
  DEF Inbound, Inv, StartInv, TickerInv, WaitInv, HealthInv, KeeperInv, NoStrandedSession,
      SingleStart, IsStreaming, Taking, AwaitOver, InboundAllowed, Free, MayStart, Actor, TypeOK,
      attrs, clock, starts, actors, health, net, config

\* The call of stop() keeps Inv, up to its first await.
LEMMA InvHalt ==
    ASSUME TypeOK, Inv, NEW c \in Stopper, Halt(c)
    PROVE  Inv'
  BY SlotAssumption, SMTT(30)
  DEF Halt, TeardownTicker, TeardownHealth, TeardownSession, Inv, StartInv, TickerInv, WaitInv,
      HealthInv, KeeperInv, NoStrandedSession, SingleStart, IsStreaming, Taking, Actor, TypeOK,
      attrs, starts

\* Every step preserves Inv, given prompt wake-ups and slow connects.
LEMMA InvStep ==
    ASSUME PromptWakeup, SlowConnect, TypeOK, Inv
    PROVE  [Next]_vars => Inv'
<1> USE DEF attrs, clock, starts, actors, health, net, config
<1>1. ASSUME NEW l \in Light, StopIdentify(l) PROVE Inv'
  BY <1>1, InvFrame DEF StopIdentify
<1>2. ASSUME NEW i \in Slot, BridgeStops(i) PROVE Inv'
  BY <1>2, InvFrame DEF BridgeStops
<1>3. ASSUME NEW a \in Area, BridgeNames(a) \/ ForeignLeaves(a) PROVE Inv'
  BY <1>3, InvFrame DEF BridgeNames, ForeignLeaves
<1>4. ASSUME NEW a \in Area, NEW v \in {"idle", "cleared", "foreign"}, BridgeFault(a, v) PROVE Inv'
  BY <1>4, InvFrame DEF BridgeFault
<1>5. ASSUME TimeStep PROVE Inv'
  BY <1>5, InvFrame DEF TimeStep, Silence, BackoffOver, IdentifyExpires, StopIdentify
<1>6. ASSUME (\E tv \in TV : PowerOff(tv)) \/ Reconfigure PROVE Inv'
  BY <1>6, InvFrame DEF PowerOff, Reconfigure, Reassign, ChangeBridge
<1>7. ASSUME UNCHANGED vars PROVE Inv'
  BY <1>7, InvFrame DEF vars
<1>8. ASSUME NEW a \in Actor, CloseFails(a) PROVE Inv'
  BY <1>8, InvCloseFails
<1> USE SlotAssumption
    DEF Inv, StartInv, TickerInv, WaitInv, HealthInv, KeeperInv, NoStrandedSession, SingleStart,
        IsStreaming, Taking, AwaitOver, InboundAllowed, Free, MayStart, Actor, TypeOK
<1>9. ASSUME NEW tv \in TV, SubmitColor(tv) PROVE Inv'
  BY <1>9, InvInbound DEF SubmitColor
<1>10. ASSUME NEW tv \in TV, StartStream(tv) PROVE Inv'
  BY <1>10, InvInbound DEF StartStream
<1>11. ASSUME NEW tv \in TV, NEW l \in Light, Identify(tv, l) PROVE Inv'
  BY <1>11, InvInbound DEF Identify
<1>12. ASSUME NEW c \in Stopper, Stop(c) PROVE Inv'
  BY <1>12, InvHalt DEF Stop
<1>13. ASSUME NEW c \in Stopper, StopResume(c) PROVE Inv'
  BY <1>13, SMTT(30) DEF StopResume, TeardownTicker, TeardownHealth, TeardownSession,
     TeardownFrame
<1>14. ASSUME NEW a \in Actor, HealthAwaited(a) PROVE Inv'
  BY <1>14, SMTT(30) DEF HealthAwaited, TeardownSession, TeardownFrame
<1>15. ASSUME NEW a \in Actor, TickerAwaited(a) PROVE Inv'
  BY <1>15, SMTT(30) DEF TickerAwaited, TeardownHealth, TeardownSession, TeardownFrame
<1>16. ASSUME NEW a \in Actor, SessionClosed(a) PROVE Inv'
  BY <1>16, SMTT(30) DEF SessionClosed
<1>17. ASSUME NEW i \in Slot, StartBegin(i) PROVE Inv'
  BY <1>17, SMTT(30) DEF StartBegin, StartEnds, AreaOf
<1>18. ASSUME NEW i \in Slot, StartConnected(i) PROVE Inv'
  BY <1>18, SMTT(30) DEF StartConnected, StartEnds, StepDue, TickerMustStop
<1>19. ASSUME NEW i \in Slot, StartFails(i) PROVE Inv'
  BY <1>19, SMTT(30) DEF StartFails
<1>20. ASSUME NEW i \in Slot, StartClosed(i) PROVE Inv'
  BY <1>20, SMTT(30) DEF StartClosed, StartEnds
<1>21. ASSUME NEW i \in Slot, StartCloseFails(i) PROVE Inv'
  BY <1>21, SMTT(30) DEF StartCloseFails, StartEnds
<1>22. ASSUME NEW i \in Slot, CancelUnstarted(i) PROVE Inv'
  BY <1>22, SMTT(30) DEF CancelUnstarted
<1>23. ASSUME NEW i \in Slot, CancelConnect(i) PROVE Inv'
  BY <1>23, SMTT(30) DEF CancelConnect
<1>24. ASSUME NEW i \in Slot, CancelClose(i) PROVE Inv'
  BY <1>24, SMTT(30) DEF CancelClose, StartEnds
<1>25. ASSUME NEW t \in Slot, TickerStep(t) PROVE Inv'
  BY <1>25, SMTT(30) DEF TickerStep, TickerMustStop, TeardownTicker, TeardownHealth,
     TeardownSession, TeardownFrame
<1>26. ASSUME NEW t \in Slot, TickerCancelled(t) PROVE Inv'
  BY <1>26, SMTT(30) DEF TickerCancelled, TeardownTicker, TeardownHealth, TeardownSession,
     TeardownFrame
<1>27. ASSUME NEW i \in Slot, HealthAsk(i) PROVE Inv'
  BY <1>27, SMTT(30) DEF HealthAsk, HealthEnds
<1>28. ASSUME NEW i \in Slot, HealthAnswer(i) PROVE Inv'
  BY <1>28, SMTT(30) DEF HealthAnswer
<1>29. ASSUME NEW i \in Slot, HealthError(i) PROVE Inv'
  BY <1>29, SMTT(30) DEF HealthError
<1>30. ASSUME NEW i \in Slot, BridgeActivates(i) PROVE Inv'
  BY <1>30, SMTT(30) DEF BridgeActivates
<1>31. ASSUME NEW i \in Slot, SessionDrops(i) PROVE Inv'
  BY <1>31, SMTT(30) DEF SessionDrops
<1> HIDE DEF Inv, TypeOK
<1> QED
  BY <1>1, <1>2, <1>3, <1>4, <1>5, <1>6, <1>7, <1>8, <1>9, <1>10, <1>11, <1>12, <1>13, <1>14,
     <1>15, <1>16, <1>17, <1>18, <1>19, <1>20, <1>21, <1>22, <1>23, <1>24, <1>25, <1>26, <1>27,
     <1>28, <1>29, <1>30, <1>31 DEF Next, Internal, InboundStep, TeardownStep, StartStep,
     TickerTask, HealthStep, BridgeStep

\* Before anything runs, Inv holds.
LEMMA InvInit == Init => Inv
  BY SlotAssumption DEF Init, Inv, StartInv, TickerInv, WaitInv, HealthInv, KeeperInv,
     NoStrandedSession, SingleStart, Actor

\* With prompt wake-ups and slow connects, Inv holds for ever.
THEOREM Invariance ==
    ASSUME PromptWakeup, SlowConnect
    PROVE  Spec => []Inv
<1>1. TypeOK /\ Inv /\ [Next]_vars => Inv'
  BY InvStep
<1>2. QED
  BY <1>1, InvInit, TypeCorrect, PTL DEF Spec

\* No path through start, stop, idle teardown and failure loses an open session.
THEOREM NothingStranded ==
    ASSUME PromptWakeup, SlowConnect
    PROVE  Spec => []NoStrandedSession
<1>1. TypeOK /\ Inv => NoStrandedSession
  BY SlotAssumption DEF Inv
<1>2. QED
  BY <1>1, TypeCorrect, Invariance, PTL

\* An installed session is always watched, or about to be taken by a teardown.
THEOREM KeeperAlways ==
    ASSUME PromptWakeup, SlowConnect
    PROVE  Spec => []SessionHasKeeper
<1>1. TypeOK /\ Inv => SessionHasKeeper
  BY SlotAssumption DEF Inv, KeeperInv, TickerInv, Taking, SessionHasKeeper
<1>2. QED
  BY <1>1, TypeCorrect, Invariance, PTL

\* A single start task, and the one stop() would cancel.
THEOREM OneStart ==
    ASSUME PromptWakeup, SlowConnect
    PROVE  Spec => []SingleStart
<1>1. TypeOK /\ Inv => SingleStart
  BY SlotAssumption DEF Inv, StartInv
<1>2. QED
  BY <1>1, TypeCorrect, Invariance, PTL

\* A single ticker streams.
THEOREM OneTicker ==
    ASSUME PromptWakeup, SlowConnect
    PROVE  Spec => []SingleTicker
<1>1. TypeOK /\ Inv => SingleTicker
  BY SlotAssumption DEF Inv, TickerInv, SingleTicker
<1>2. QED
  BY <1>1, TypeCorrect, Invariance, PTL

\* A health answer is always about the installed session.
THEOREM HealthCurrent ==
    ASSUME PromptWakeup, SlowConnect
    PROVE  Spec => []HealthWatchesSession
<1>1. TypeOK /\ Inv => HealthWatchesSession
  BY SlotAssumption DEF Inv, HealthInv, HealthWatchesSession
<1>2. QED
  BY <1>1, TypeCorrect, Invariance, PTL

-----------------------------------------------------------------------------
(* What the monitor has learned of the bridge is about the installed       *)
(* session: no other start can activate its area while it streams.         *)

\* An area that is activated or streamed to is one of the bridge.
AreaInv == \A i \in Slot : lib[i] \in {"activated", "streaming"} => area[i] \in Area

\* Nothing is learned before the bridge names our streamer, and only ours while it does.
RidInv ==
    IsStreaming => /\ view[area[session]] = "unnamed" => ourRid = "none"
                   /\ view[area[session]] = "ours" => ourRid # "other"

\* A step that opens no session and changes no view, learns nothing about one that streams on,
\* and leaves the area of that one alone, keeps both.
LEMMA RidFrame ==
    ASSUME TypeOK, AreaInv, RidInv, UNCHANGED view,
           \A i \in Slot : lib'[i] \in {"activated", "streaming"} =>
                               lib'[i] = lib[i] /\ area'[i] = area[i],
           IsStreaming' => session' = session /\ ourRid' = ourRid
    PROVE  AreaInv' /\ RidInv'
<1>1. AreaInv'
  BY DEF AreaInv
<1>2. IsStreaming' => IsStreaming /\ area'[session'] = area[session]
  BY DEF IsStreaming, TypeOK
<1>3. QED
  BY <1>1, <1>2 DEF RidInv

\* An inbound write keeps AreaInv and RidInv, whoever owns the stream by it.
LEMMA RidInbound ==
    ASSUME TypeOK, AreaInv, RidInv, NEW owner, Inbound(owner)
    PROVE  AreaInv' /\ RidInv'
  BY RidFrame DEF Inbound, net, config

\* So does the call of stop(), up to its first await.
LEMMA RidHalt ==
    ASSUME TypeOK, AreaInv, RidInv, NEW c \in Stopper, Halt(c)
    PROVE  AreaInv' /\ RidInv'
  BY RidFrame DEF Halt, TeardownTicker, TeardownHealth, TeardownSession, TypeOK, IsStreaming, attrs

\* Every step keeps AreaInv and RidInv.
LEMMA RidStep ==
    ASSUME SlowConnect, TypeOK, Inv, AreaInv, RidInv
    PROVE  [Next]_vars => AreaInv' /\ RidInv'
<1> USE DEF attrs, clock, starts, actors, health, net, config
<1>1. ASSUME UNCHANGED <<session, ourRid, lib, area, view>> PROVE AreaInv' /\ RidInv'
  BY <1>1, RidFrame
<1>2. ASSUME NEW tv, Inbound(tv) PROVE AreaInv' /\ RidInv'
  BY <1>2, RidInbound
<1>3. ASSUME NEW tv \in TV, SubmitColor(tv) \/ StartStream(tv) \/ \E l \in Light : Identify(tv, l)
      PROVE  AreaInv' /\ RidInv'
  BY <1>3, <1>2 DEF SubmitColor, StartStream, Identify
<1>4. ASSUME NEW c \in Stopper, Stop(c) PROVE AreaInv' /\ RidInv'
  BY <1>4, RidHalt DEF Stop
<1>5. ASSUME NEW c \in Stopper, StopResume(c) PROVE AreaInv' /\ RidInv'
  BY <1>5, RidFrame DEF StopResume, TeardownFrame, TeardownTicker, TeardownHealth,
     TeardownSession, TypeOK, IsStreaming
<1>6. ASSUME NEW a \in Actor, HealthAwaited(a) \/ TickerAwaited(a) PROVE AreaInv' /\ RidInv'
  BY <1>6, RidFrame DEF HealthAwaited, TickerAwaited, TeardownFrame, TeardownHealth,
     TeardownSession, TypeOK, IsStreaming
<1>7. ASSUME NEW a \in Actor, SessionClosed(a) \/ CloseFails(a) PROVE AreaInv' /\ RidInv'
  <2>1. /\ lib' = [lib EXCEPT ![arg[a]] = "closed"] /\ UNCHANGED <<session, ourRid, view>>
        /\ area' = [area EXCEPT ![arg[a]] = NoArea] \/ area' = area
        /\ arg[a] \in Slot
    BY <1>7 DEF SessionClosed, CloseFails, Inv, WaitInv
  <2>2. QED
    BY <2>1, RidFrame DEF TypeOK
<1>8. ASSUME NEW i \in Slot, StartBegin(i) PROVE AreaInv' /\ RidInv'
  BY <1>8, RidFrame DEF StartBegin, StartEnds, TypeOK
<1>9. ASSUME NEW i \in Slot, StartConnected(i) PROVE AreaInv' /\ RidInv'
  <2>1. CASE i \in stale
    BY <1>9, <2>1, RidFrame DEF StartConnected, TypeOK
  <2>2. CASE i \notin stale
    <3>1. /\ lib[i] = "activated" /\ lib' = [lib EXCEPT ![i] = "streaming"]
          /\ ourRid' = "none" /\ UNCHANGED <<area, view>>
      BY <1>9, <2>2 DEF StartConnected
    <3>2. AreaInv'
      BY <3>1 DEF AreaInv, TypeOK
    <3>3. QED
      BY <3>1, <3>2 DEF RidInv
  <2>3. QED
    BY <2>1, <2>2
<1>10. ASSUME NEW i \in Slot, StartFails(i) \/ StartClosed(i) \/ StartCloseFails(i)
                              \/ CancelUnstarted(i) \/ CancelConnect(i) \/ CancelClose(i)
       PROVE  AreaInv' /\ RidInv'
  <2>1. /\ \/ lib' = lib /\ area' = area
           \/ lib' = [lib EXCEPT ![i] = "closing"] /\ area' = area
           \/ /\ lib' = [lib EXCEPT ![i] = "closed"]
              /\ area' = area \/ area' = [area EXCEPT ![i] = NoArea]
        /\ UNCHANGED <<session, ourRid, view>>
    BY <1>10 DEF StartFails, StartClosed, StartCloseFails, CancelUnstarted, CancelConnect,
       CancelClose
  <2>2. QED
    BY <2>1, RidFrame DEF TypeOK
<1>11. ASSUME NEW t \in Slot, TickerTask(t) PROVE AreaInv' /\ RidInv'
  BY <1>11, RidFrame DEF TickerTask, TickerStep, TickerCancelled, TeardownFrame, TeardownTicker,
     TeardownHealth, TeardownSession, TypeOK, IsStreaming
<1>12. ASSUME NEW i \in Slot, HealthAsk(i) \/ HealthError(i) PROVE AreaInv' /\ RidInv'
  BY <1>12, <1>1 DEF HealthAsk, HealthError, HealthEnds
<1>13. ASSUME NEW i \in Slot, HealthAnswer(i) PROVE AreaInv' /\ RidInv'
  <2>1. /\ UNCHANGED <<session, lib, area, view>> /\ hsess[i] = session
        /\ ourRid' \in {ourRid, Rid(View(session))}
        /\ View(session) = "unnamed" /\ ourRid = "none" => ourRid' = "none"
    BY <1>13 DEF HealthAnswer, Rid, Inv, HealthInv
  <2>2. IsStreaming => area[session] \in Area
    BY DEF AreaInv, IsStreaming, TypeOK
  <2>3. IsStreaming => View(session) = view[area[session]]
    BY <2>2 DEF View
  <2>4. RidInv'
    BY <2>1, <2>3 DEF RidInv, Rid, IsStreaming
  <2>5. QED
    BY <2>1, <2>4 DEF AreaInv
<1>14. ASSUME NEW i \in Slot, BridgeActivates(i) PROVE AreaInv' /\ RidInv'
  <2>1. /\ spc[i] = "connect" /\ area[i] # NoArea /\ UNCHANGED <<session, area>>
        /\ lib' = [lib EXCEPT ![i] = "activated"] /\ lib[i] = "opening"
    BY <1>14 DEF BridgeActivates
  <2>2. AreaInv'
    BY <2>1 DEF AreaInv, TypeOK
  <2>3. ~IsStreaming
    BY <2>1 DEF Inv, StartInv
  <2>4. ~IsStreaming'
    BY <2>1, <2>3 DEF IsStreaming, TypeOK
  <2>5. QED
    BY <2>2, <2>4 DEF RidInv
<1>15. ASSUME NEW i \in Slot, SessionDrops(i) PROVE AreaInv' /\ RidInv'
  <2>1. lib' = [lib EXCEPT ![i] = "dropped"] /\ UNCHANGED <<session, ourRid, area, view>>
    BY <1>15 DEF SessionDrops
  <2>2. QED
    BY <2>1, RidFrame DEF TypeOK
<1>16. ASSUME \/ \E i \in Slot : BridgeStops(i)
              \/ \E a \in Area : \/ BridgeNames(a) \/ ForeignLeaves(a)
                                 \/ \E v \in {"idle", "cleared", "foreign"} : BridgeFault(a, v)
       PROVE  AreaInv' /\ RidInv'
  <2> DEFINE Marks(a, v) == /\ view' = [view EXCEPT ![a] = v]
                            /\ v = "ours" => view[a] = "unnamed"
  <2>1. /\ UNCHANGED <<session, ourRid, lib, area>>
        /\ \E a \in Area \cup {NoArea}, v \in {"idle", "cleared", "foreign", "ours"} : Marks(a, v)
    <3>1. CASE \E i \in Slot : BridgeStops(i)
      <4>1. PICK i \in Slot : BridgeStops(i)
        BY <3>1
      <4>2. Marks(area[i], IF view[area[i]] = "foreign" THEN "foreign" ELSE "idle")
        BY <4>1 DEF BridgeStops
      <4>3. QED
        BY <4>1, <4>2 DEF BridgeStops, TypeOK
    <3>2. CASE \E a \in Area : BridgeNames(a)
      BY <3>2 DEF BridgeNames
    <3>3. CASE \E a \in Area : ForeignLeaves(a)
      BY <3>3 DEF ForeignLeaves
    <3>4. CASE \E a \in Area, v \in {"idle", "cleared", "foreign"} : BridgeFault(a, v)
      BY <3>4 DEF BridgeFault
    <3>5. QED
      BY <1>16, <3>1, <3>2, <3>3, <3>4
  <2>2. AreaInv'
    BY <2>1 DEF AreaInv
  <2>3. RidInv'
    <3>1. IsStreaming => area[session] \in Area
      BY DEF AreaInv, IsStreaming, TypeOK
    <3>2. QED
      BY <2>1, <3>1 DEF RidInv, IsStreaming, TypeOK
  <2>4. QED
    BY <2>2, <2>3
<1>17. ASSUME \/ \E l \in Light : StopIdentify(l)
              \/ TimeStep \/ Reconfigure \/ UNCHANGED vars
              \/ \E tv \in TV : PowerOff(tv)
       PROVE  AreaInv' /\ RidInv'
  BY <1>17, <1>1 DEF StopIdentify, TimeStep, Silence, BackoffOver, IdentifyExpires, Reconfigure,
     Reassign, ChangeBridge, PowerOff, vars
<1> QED
  BY <1>3, <1>4, <1>5, <1>6, <1>7, <1>8, <1>9, <1>10, <1>11, <1>12, <1>13, <1>14, <1>15, <1>16,
     <1>17 DEF Next, Internal, InboundStep, TeardownStep, StartStep, TickerTask, HealthStep,
     BridgeStep

\* Only an answer of the bridge flags the stream dead, and not one that credits it to us.
LEMMA AlarmStep ==
    ASSUME TypeOK, Inv, AreaInv, RidInv, [Next]_vars,
           IsStreaming, remote = "alive", remote' = "dead"
    PROVE  view[area[session]] \notin {"unnamed", "ours"}
<1> USE DEF attrs, clock, starts, actors, health, net, config
<1>1. \E i \in Slot : HealthAnswer(i)
  <2>1. ASSUME NEW a \in Actor, HealthAwaited(a) \/ TickerAwaited(a) PROVE FALSE
    BY <2>1 DEF HealthAwaited, TickerAwaited, TeardownHealth, TeardownSession
  <2>2. ASSUME NEW a \in Actor, SessionClosed(a) \/ CloseFails(a) PROVE FALSE
    BY <2>2 DEF SessionClosed, CloseFails
  <2>3. ASSUME NEW t \in Slot, TickerTask(t) PROVE FALSE
    BY <2>3 DEF TickerTask, TickerStep, TickerCancelled, TeardownTicker, TeardownHealth,
       TeardownSession
  <2>4. ASSUME NEW c \in Stopper, Stop(c) \/ StopResume(c) PROVE FALSE
    BY <2>4 DEF Stop, Halt, StopResume, TeardownTicker, TeardownHealth, TeardownSession
  <2>5. ASSUME NEW i \in Slot, StartStep(i) PROVE FALSE
    BY <2>5 DEF StartStep, StartBegin, StartConnected, StartFails, StartClosed, StartCloseFails,
       CancelUnstarted, CancelConnect, CancelClose
  <2>6. ASSUME NEW i \in Slot, HealthAsk(i) \/ HealthError(i) PROVE FALSE
    BY <2>6 DEF HealthAsk, HealthError
  <2>7. ASSUME InboundStep \/ \E l \in Light : StopIdentify(l) PROVE FALSE
    BY <2>7 DEF InboundStep, SubmitColor, StartStream, Identify, Inbound, StopIdentify
  <2>8. ASSUME BridgeStep PROVE FALSE
    BY <2>8 DEF BridgeStep, BridgeActivates, BridgeStops, SessionDrops, BridgeNames,
       ForeignLeaves, BridgeFault
  <2>9. ASSUME TimeStep \/ Reconfigure \/ (\E tv \in TV : PowerOff(tv)) \/ UNCHANGED vars
        PROVE  FALSE
    BY <2>9 DEF TimeStep, Silence, BackoffOver, IdentifyExpires, StopIdentify, Reconfigure,
       Reassign, ChangeBridge, PowerOff, vars
  <2>10. QED
    BY <2>1, <2>2, <2>3, <2>4, <2>5, <2>6, <2>7, <2>8, <2>9
    DEF Next, Internal, TeardownStep, HealthStep
<1>2. PICK i \in Slot : HealthAnswer(i)
  BY <1>1
<1>3. View(session) = view[area[session]] /\ hsess[i] = session
  BY <1>2 DEF View, AreaInv, IsStreaming, TypeOK, HealthAnswer, Inv, HealthInv
<1>4. /\ View(session) # "idle" => Rid(View(session)) # ourRid'
      /\ ourRid' = IF View(session) # "idle" /\ ourRid = "none" THEN Rid(View(session)) ELSE ourRid
  BY <1>2, <1>3 DEF HealthAnswer
<1>5. QED
  BY <1>3, <1>4 DEF RidInv, Rid, TypeOK

\* The monitor never gives up a stream that the bridge credits to us or has yet to credit.
THEOREM FalseAlarms ==
    ASSUME PromptWakeup, SlowConnect
    PROVE  Spec => NoFalseAlarm
<1>1. Init => AreaInv /\ RidInv
  BY DEF Init, AreaInv, RidInv, IsStreaming
<1>2. TypeOK /\ Inv /\ AreaInv /\ RidInv /\ [Next]_vars => AreaInv' /\ RidInv'
  BY RidStep
<1>3. TypeOK /\ Inv /\ AreaInv /\ RidInv /\ [Next]_vars
          => [IsStreaming /\ remote = "alive" /\ remote' = "dead"
                  => view[area[session]] \notin {"unnamed", "ours"}]_vars
  BY AlarmStep
<1>4. QED
  BY <1>1, <1>2, <1>3, TypeCorrect, Invariance, PTL DEF Spec, NoFalseAlarm

-----------------------------------------------------------------------------
(* An area that was activated is released, with a single caller of stop(): *)
(* whoever cancels a start task waits for its end, so that nothing can     *)
(* cancel it again while it closes its session.                            *)

OneStopper == \A c, d \in Stopper : c = d

Awaited(i) == \E c \in Stopper : pc[c] = "start" /\ arg[c] = i

\* Only a start task that lives is cancelled or outdated.
MarksInv ==
    /\ \A i \in Slot : i \in cancels => spc[i] # "idle"
    /\ \A i \in Slot : i \in stale => spc[i] \in {"connect", "discard", "abort"}
    /\ \A i \in Slot : i \in active => area[i] # NoArea

\* A start task that may have to close an active area is awaited, and cancelled no more.
ReleaseInv ==
    faults = 0 =>
        /\ \A i \in Slot : i \in active => lib[i] # "closed"
        /\ \A i \in Slot : i \in cancels \cup stale => Awaited(i)
        /\ \A i \in Slot : spc[i] = "discard" => Awaited(i)
        /\ \A i \in Slot : spc[i] = "abort" /\ i \in active => Awaited(i) /\ i \notin cancels

\* A step that neither marks nor moves a start task, forgets no wait for one, and activates or
\* closes nothing, keeps both.
LEMMA ReleaseFrame ==
    ASSUME TypeOK, MarksInv, ReleaseInv,
           UNCHANGED <<spc, cancels, stale>>, active' \subseteq active, faults' = faults,
           \A i \in Slot : i \in active' => area'[i] = area[i],
           \A i \in Slot : lib'[i] = "closed" => lib[i] = "closed" \/ i \notin active',
           \A c \in Stopper : pc[c] = "start" => pc'[c] = "start" /\ arg'[c] = arg[c]
    PROVE  MarksInv' /\ ReleaseInv'
<1>1. MarksInv'
  BY DEF MarksInv
<1>2. ASSUME NEW i \in Slot, Awaited(i) PROVE Awaited(i)'
  BY <1>2 DEF Awaited
<1>3. ReleaseInv'
  BY <1>2 DEF ReleaseInv
<1>4. QED
  BY <1>1, <1>3

\* A start task in slot i moves on, by itself.
LEMMA ReleaseStart ==
    ASSUME TypeOK, Inv, AreaInv, MarksInv, ReleaseInv, NEW i \in Slot, StartStep(i)
    PROVE  MarksInv' /\ ReleaseInv'
<1> USE DEF attrs, clock, starts, actors, health, net, config
<1>1. StartInv /\ SingleStart
  BY DEF Inv, StartInv
<1>2. CASE StartBegin(i) \/ CancelUnstarted(i)
  BY <1>1, <1>2 DEF StartBegin, CancelUnstarted, StartEnds, MarksInv, ReleaseInv, Awaited, TypeOK,
     StartInv, SingleStart
<1>3. CASE StartConnected(i)
  BY <1>1, <1>3 DEF StartConnected, StartEnds, MarksInv, ReleaseInv, Awaited, TypeOK,
     StartInv, SingleStart
<1>4. CASE StartFails(i) \/ CancelConnect(i)
  BY <1>1, <1>4, BoundAssumption DEF StartFails, CancelConnect, MarksInv, ReleaseInv, Awaited,
     TypeOK, StartInv, SingleStart
<1>5. CASE StartClosed(i) \/ CancelClose(i)
  BY <1>1, <1>5 DEF StartClosed, CancelClose, StartEnds, MarksInv, ReleaseInv, Awaited, TypeOK,
     StartInv, SingleStart
<1>6. CASE StartCloseFails(i)
  BY <1>1, <1>6, BoundAssumption DEF StartCloseFails, StartEnds, MarksInv, ReleaseInv, TypeOK
<1>7. QED
  BY <1>2, <1>3, <1>4, <1>5, <1>6 DEF StartStep

\* An inbound write at most makes a start task.
LEMMA ReleaseInbound ==
    ASSUME TypeOK, MarksInv, ReleaseInv, NEW owner, Inbound(owner)
    PROVE  MarksInv' /\ ReleaseInv'
  BY DEF Inbound, Free, MarksInv, ReleaseInv, Awaited, TypeOK, actors, net, config

\* The call of stop() marks the start task and awaits it.
LEMMA ReleaseHalt ==
    ASSUME OneStopper, TypeOK, Inv, MarksInv, ReleaseInv,
           NEW c \in Stopper, Halt(c), faults' = faults
    PROVE  MarksInv' /\ ReleaseInv'
<1> USE DEF attrs, clock, starts, actors, health, net
<1>1. SingleStart /\ pc[c] = "idle" /\ \A i \in Slot : ~Awaited(i)
  BY DEF Inv, StartInv, Halt, OneStopper, Awaited
<1>2. CASE startTask # None /\ spc[startTask] # "idle"
  <2>1. /\ stale' \subseteq stale \cup {startTask} /\ cancels' = cancels \cup {startTask}
        /\ pc' = [pc EXCEPT ![c] = "start"] /\ arg' = [arg EXCEPT ![c] = startTask]
        /\ startTask \in Slot /\ stale' \subseteq stale \cup {i \in Slot : spc[i] = "connect"}
        /\ UNCHANGED <<spc, active, area, lib, faults, startTask>>
    BY <1>1, <1>2 DEF Halt, SingleStart, TypeOK
  <2>2. Awaited(startTask)'
    BY <2>1 DEF Awaited, TypeOK, Actor
  <2>3. faults = 0 => stale = {} /\ cancels = {}
    BY <1>1 DEF ReleaseInv, TypeOK
  <2>4. MarksInv'
    BY <1>2, <2>1 DEF MarksInv, TypeOK
  <2>5. /\ faults = 0 => \A i \in Slot : i \in cancels' \cup stale' => i = startTask
        /\ \A i \in Slot : spc[i] # "idle" => i = startTask
    BY <1>1, <2>1, <2>3 DEF SingleStart
  <2>6. faults = 0 => \A i \in Slot : /\ spc[i] # "discard"
                                      /\ ~(spc[i] = "abort" /\ i \in active)
    BY <1>1 DEF ReleaseInv
  <2>7. ReleaseInv'
    <3>1. startTask' = startTask
      BY <2>1
    <3>2. QED
      BY <2>1, <2>2, <2>5, <2>6, <3>1 DEF ReleaseInv
  <2>8. QED
    BY <2>4, <2>7
<1>3. CASE ~(startTask # None /\ spc[startTask] # "idle")
  <2>1. stale' = stale /\ UNCHANGED <<spc, cancels, active, area, faults>>
    BY <1>1, <1>3, SlotAssumption DEF Halt, SingleStart, TypeOK
  <2>2. \A i \in Slot : lib'[i] = "closed" => lib[i] = "closed"
    BY <1>3 DEF Halt, TeardownTicker, TeardownHealth, TeardownSession, TypeOK
  <2>3. \A d \in Stopper : pc[d] # "start"
    BY <1>1 DEF OneStopper
  <2>4. QED
    BY <2>1, <2>2, <2>3, ReleaseFrame
<1>4. QED
  BY <1>2, <1>3

\* Every step keeps MarksInv and ReleaseInv.
LEMMA ReleaseStep ==
    ASSUME OneStopper, TypeOK, Inv, AreaInv, MarksInv, ReleaseInv
    PROVE  [Next]_vars => MarksInv' /\ ReleaseInv'
<1> USE DEF attrs, clock, starts, actors, health, net, config
<1>1. ASSUME UNCHANGED <<spc, cancels, stale, active, area, lib, pc, arg, faults>>
      PROVE  MarksInv' /\ ReleaseInv'
  BY <1>1, ReleaseFrame
<1>2. ASSUME faults' = faults + 1, UNCHANGED <<spc, cancels, stale, active, area>>
      PROVE  MarksInv' /\ ReleaseInv'
  BY <1>2, BoundAssumption DEF MarksInv, ReleaseInv, TypeOK
<1>3. ASSUME NEW c \in Stopper, Stop(c) PROVE MarksInv' /\ ReleaseInv'
  BY <1>3, ReleaseHalt DEF Stop
<1>4. ASSUME InboundStep PROVE MarksInv' /\ ReleaseInv'
  BY <1>4, ReleaseInbound DEF InboundStep, SubmitColor, StartStream, Identify
<1>5. ASSUME NEW c \in Stopper, StopResume(c) PROVE MarksInv' /\ ReleaseInv'
  <2>1. /\ pc[c] = "start" /\ spc[arg[c]] = "idle"
        /\ UNCHANGED <<spc, cancels, stale, active, area, faults>>
    BY <1>5 DEF StopResume, TeardownFrame
  <2>2. \A i \in Slot : lib'[i] = "closed" => lib[i] = "closed"
    BY <1>5 DEF StopResume, TeardownTicker, TeardownHealth, TeardownSession, TypeOK
  <2>3. \A i \in Slot : Awaited(i) => spc[i] = "idle"
    BY <2>1 DEF OneStopper, Awaited
  <2>4. QED
    BY <2>1, <2>2, <2>3 DEF MarksInv, ReleaseInv
<1>6. ASSUME NEW a \in Actor, HealthAwaited(a) \/ TickerAwaited(a) PROVE MarksInv' /\ ReleaseInv'
  BY <1>6, ReleaseFrame DEF HealthAwaited, TickerAwaited, TeardownFrame, TeardownHealth,
     TeardownSession, TypeOK, Actor
<1>7. ASSUME NEW a \in Actor, SessionClosed(a) PROVE MarksInv' /\ ReleaseInv'
  <2>1. /\ arg[a] \notin active /\ UNCHANGED <<spc, cancels, stale, active, faults>>
        /\ area' = [area EXCEPT ![arg[a]] = NoArea] /\ lib' = [lib EXCEPT ![arg[a]] = "closed"]
        /\ pc[a] = "close"
        /\ pc' = [pc EXCEPT ![a] = "idle"] /\ arg' = [arg EXCEPT ![a] = None]
    BY <1>7 DEF SessionClosed
  <2>2. QED
    BY <2>1, ReleaseFrame DEF TypeOK, Actor
<1>8. ASSUME NEW a \in Actor, CloseFails(a) PROVE MarksInv' /\ ReleaseInv'
  BY <1>8, <1>2 DEF CloseFails
<1>9. ASSUME NEW t \in Slot, TickerTask(t) PROVE MarksInv' /\ ReleaseInv'
  <2>1. t \notin Stopper /\ (ticker \in Slot => ticker \notin Stopper)
    BY SlotAssumption
  <2>2. QED
    BY <1>9, <2>1, ReleaseFrame DEF TickerTask, TickerStep, TickerCancelled, TeardownFrame,
       TeardownTicker, TeardownHealth, TeardownSession, TypeOK, Actor
<1>10. ASSUME NEW i \in Slot, HealthStep(i) PROVE MarksInv' /\ ReleaseInv'
  BY <1>10, <1>1, <1>2 DEF HealthStep, HealthAsk, HealthAnswer, HealthError
<1>11. ASSUME NEW i \in Slot, BridgeActivates(i) PROVE MarksInv' /\ ReleaseInv'
  BY <1>11 DEF BridgeActivates, MarksInv, ReleaseInv, Awaited, TypeOK
<1>12. ASSUME NEW i \in Slot, BridgeStops(i) \/ SessionDrops(i) PROVE MarksInv' /\ ReleaseInv'
  BY <1>12, <1>2, ReleaseFrame DEF BridgeStops, SessionDrops, TypeOK
<1>13. ASSUME NEW a \in Area, BridgeNames(a) \/ ForeignLeaves(a)
                              \/ \E v \in {"idle", "cleared", "foreign"} : BridgeFault(a, v)
       PROVE  MarksInv' /\ ReleaseInv'
  BY <1>13, <1>1, <1>2 DEF BridgeNames, ForeignLeaves, BridgeFault
<1>14. ASSUME \/ \E l \in Light : StopIdentify(l)
              \/ TimeStep \/ Reconfigure \/ UNCHANGED vars
              \/ \E tv \in TV : PowerOff(tv)
       PROVE  MarksInv' /\ ReleaseInv'
  BY <1>14, <1>1 DEF StopIdentify, TimeStep, Silence, BackoffOver, IdentifyExpires, Reconfigure,
     Reassign, ChangeBridge, PowerOff, vars
<1> QED
  BY <1>3, <1>4, <1>5, <1>6, <1>7, <1>8, <1>9, <1>10, <1>11, <1>12, <1>13, <1>14, ReleaseStart
  DEF Next, Internal, TeardownStep, BridgeStep

\* Without faults and with one caller of stop(), an area we activated is never forgotten.
THEOREM AreasReleased ==
    ASSUME PromptWakeup, SlowConnect, OneStopper
    PROVE  Spec => []AreaReleased
<1>1. Init => AreaInv /\ RidInv /\ MarksInv /\ ReleaseInv
  BY DEF Init, AreaInv, RidInv, IsStreaming, MarksInv, ReleaseInv
<1>2. TypeOK /\ Inv /\ AreaInv /\ RidInv /\ [Next]_vars => AreaInv' /\ RidInv'
  BY RidStep
<1>3. TypeOK /\ Inv /\ AreaInv /\ MarksInv /\ ReleaseInv /\ [Next]_vars => MarksInv' /\ ReleaseInv'
  BY ReleaseStep
<1>4. ReleaseInv => AreaReleased
  BY DEF ReleaseInv, AreaReleased
<1>5. QED
  BY <1>1, <1>2, <1>3, <1>4, TypeCorrect, Invariance, PTL DEF Spec

-----------------------------------------------------------------------------
(* With any number of callers of stop() there is one way to forget an area. *)

\* The first step after which an area that is active on the bridge belongs to no session any
\* more, faults aside, is a second cancellation of a start task that is closing its session
\* (engine.py 308-314: the aclose() of the handler is itself awaited).
LeaksOnlyRecancelled ==
    [][AreaReleased /\ ~AreaReleased' => \E i \in Slot : CancelClose(i) /\ i \in active]_vars

\* A step that closes no session forgets no area.
LEMMA LeakFrame ==
    ASSUME AreaReleased, UNCHANGED <<active, faults>>,
           \A i \in Slot : lib'[i] = "closed" => lib[i] = "closed"
    PROVE  AreaReleased'
  BY DEF AreaReleased

\* The call of stop() closes no session before its first await.
LEMMA LeakHalt ==
    ASSUME TypeOK, AreaReleased, NEW c \in Stopper, Halt(c), faults' = faults
    PROVE  AreaReleased'
  BY LeakFrame DEF Halt, TeardownTicker, TeardownHealth, TeardownSession, TypeOK, attrs

\* A start task forgets an active area only where its handler is cancelled.
LEMMA LeakStart ==
    ASSUME TypeOK, AreaReleased, ~AreaReleased', NEW i \in Slot, StartStep(i)
    PROVE  CancelClose(i) /\ i \in active
<1> USE DEF AreaReleased, TypeOK, net, config
<1>1. PICK j \in Slot : j \in active' /\ lib'[j] = "closed" /\ faults' = 0
  OBVIOUS
<1>2. ASSUME lib' = [lib EXCEPT ![i] = "closed"], UNCHANGED <<active, faults>>, i \notin active
      PROVE  FALSE
  BY <1>1, <1>2
<1>3. ASSUME StartBegin(i) \/ StartConnected(i) \/ CancelUnstarted(i) \/ CancelConnect(i)
      PROVE  FALSE
  BY <1>1, <1>3 DEF StartBegin, StartConnected, CancelUnstarted, CancelConnect
<1>4. ASSUME StartFails(i) \/ StartCloseFails(i) PROVE FALSE
  BY <1>1, <1>4, BoundAssumption DEF StartFails, StartCloseFails
<1>5. ASSUME StartClosed(i) PROVE FALSE
  BY <1>2, <1>5 DEF StartClosed
<1>6. ASSUME CancelClose(i) PROVE i \in active
  BY <1>2, <1>6 DEF CancelClose
<1>7. QED
  BY <1>3, <1>4, <1>5, <1>6 DEF StartStep

\* No other task does.
LEMMA LeakStep ==
    ASSUME TypeOK, [Next]_vars, AreaReleased, ~AreaReleased'
    PROVE  \E i \in Slot : CancelClose(i) /\ i \in active
<1> USE DEF attrs, clock, starts, actors, health, net, config
<1>1. PICK i \in Slot : i \in active' /\ lib'[i] = "closed" /\ faults' = 0
  BY DEF AreaReleased
<1>2. faults' # faults + 1
  BY <1>1, BoundAssumption DEF TypeOK
<1>3. ASSUME NEW j \in Slot, StartStep(j) PROVE CancelClose(j) /\ j \in active
  BY <1>3, LeakStart
<1>4. ASSUME InboundStep PROVE FALSE
  BY <1>4, LeakFrame DEF InboundStep, SubmitColor, StartStream, Identify, Inbound
<1>5. ASSUME NEW c \in Stopper, Stop(c) PROVE FALSE
  BY <1>5, LeakHalt DEF Stop
<1>6. ASSUME NEW c \in Stopper, StopResume(c) PROVE FALSE
  BY <1>6, LeakFrame DEF StopResume, TeardownFrame, TeardownTicker, TeardownHealth,
     TeardownSession, TypeOK
<1>7. ASSUME NEW a \in Actor, HealthAwaited(a) \/ TickerAwaited(a) PROVE FALSE
  BY <1>7, LeakFrame DEF HealthAwaited, TickerAwaited, TeardownFrame, TeardownHealth,
     TeardownSession, TypeOK
<1>8. ASSUME NEW a \in Actor, SessionClosed(a) \/ CloseFails(a) PROVE FALSE
  BY <1>1, <1>2, <1>8 DEF SessionClosed, CloseFails, AreaReleased, TypeOK
<1>9. ASSUME NEW t \in Slot, TickerTask(t) PROVE FALSE
  BY <1>9, LeakFrame DEF TickerTask, TickerStep, TickerCancelled, TeardownFrame, TeardownTicker,
     TeardownHealth, TeardownSession, TypeOK
<1>10. ASSUME NEW t \in Slot, HealthStep(t) PROVE FALSE
  BY <1>2, <1>10, LeakFrame DEF HealthStep, HealthAsk, HealthAnswer, HealthError
<1>11. ASSUME NEW j \in Slot, BridgeActivates(j) \/ BridgeStops(j) \/ SessionDrops(j) PROVE FALSE
  BY <1>1, <1>2, <1>11 DEF AreaReleased, BridgeActivates, BridgeStops, SessionDrops, TypeOK
<1>12. ASSUME NEW a \in Area, BridgeNames(a) \/ ForeignLeaves(a)
                              \/ \E v \in {"idle", "cleared", "foreign"} : BridgeFault(a, v)
       PROVE  FALSE
  BY <1>2, <1>12, LeakFrame DEF BridgeNames, ForeignLeaves, BridgeFault
<1>13. ASSUME \/ \E l \in Light : StopIdentify(l)
              \/ TimeStep \/ Reconfigure \/ UNCHANGED vars
              \/ \E tv \in TV : PowerOff(tv)
       PROVE  FALSE
  BY <1>13, LeakFrame DEF StopIdentify, TimeStep, Silence, BackoffOver, IdentifyExpires,
     Reconfigure, Reassign, ChangeBridge, PowerOff, vars
<1>14. QED
  BY <1>3, <1>4, <1>5, <1>6, <1>7, <1>8, <1>9, <1>10, <1>11, <1>12, <1>13
  DEF Next, Internal, TeardownStep, BridgeStep

\* An area is forgotten in no other way, for any callers of stop(), slow wake-ups and quick
\* connects included.
THEOREM OneWayToLeak == Spec => LeaksOnlyRecancelled
<1>1. TypeOK /\ [Next]_vars =>
          [AreaReleased /\ ~AreaReleased' => \E i \in Slot : CancelClose(i) /\ i \in active]_vars
  BY LeakStep
<1>2. QED
  BY <1>1, TypeCorrect, PTL DEF Spec, LeaksOnlyRecancelled

=============================================================================

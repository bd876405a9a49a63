--------------------------- MODULE OutboundProofs ---------------------------
(***************************************************************************)
(* The engine implements the safe part of OutboundStream: what it promises *)
(* the real bridge, proved for any number of TVs, areas, slots, stops,     *)
(* faults and edits, given prompt wake-ups and slow connects.              *)
(***************************************************************************)
EXTENDS EngineProofs

\* SessionInv reads nothing but the installed session and the states of tasks and sessions.
LEMMA SessionFrame ==
    ASSUME SessionInv, UNCHANGED <<session, spc, pc, arg, lib>>
    PROVE  SessionInv'
  BY DEF SessionInv

\* The steps that run into a teardown: the session, if it is taken out, gets its one closer.
LEMMA SessionTeardown ==
    ASSUME TypeOK, Inv, SessionInv, NEW a \in Actor, pc[a] # "close",
           TeardownTicker(a) \/ TeardownHealth(a) \/ TeardownSession(a), UNCHANGED spc
    PROVE  SessionInv'
  BY SlotAssumption, SMTT(30)
  DEF TeardownTicker, TeardownHealth, TeardownSession, SessionInv, Inv, StartInv, TickerInv,
      WaitInv, IsStreaming, SingleStart, Actor, TypeOK

\* A session that comes up finds no other one installed: its keeper would be due to act, and a
\* connect takes longer.
LEMMA NoneInstalled ==
    ASSUME SlowConnect, TypeOK, Inv, NEW i \in Slot, StartConnected(i)
    PROVE  session = None
<1> SUFFICES ASSUME session # None PROVE FALSE
  OBVIOUS
<1>1. ~IsStreaming /\ \A a \in Actor : ~StepDue(a)
  BY DEF StartConnected, Inv, StartInv
<1>2. ticker = session \/ \E a \in Actor : Taking(a)
  BY DEF Inv, KeeperInv
<1>3. CASE ticker = session
  BY <1>1, <1>3, SlotAssumption DEF Inv, TickerInv, StepDue, TickerMustStop, TypeOK, Actor
<1>4. CASE \E a \in Actor : Taking(a)
  BY <1>1, <1>4 DEF Taking, StepDue, AwaitOver
<1>5. QED
  BY <1>2, <1>3, <1>4

\* An inbound write preserves SessionInv, whoever owns the stream by it.
LEMMA SessionInbound ==
    ASSUME TypeOK, Inv, SessionInv, NEW owner, Inbound(owner)
    PROVE  SessionInv'
  BY SlotAssumption, SMTT(30)
  DEF Inbound, Free, SessionInv, Inv, StartInv, TickerInv, WaitInv, NoStrandedSession, SingleStart,
      IsStreaming, Actor, TypeOK, attrs, clock, starts, actors, health, net, config

\* So does the call of stop(), up to its first await.
LEMMA SessionHalt ==
    ASSUME TypeOK, Inv, SessionInv, NEW c \in Stopper, Halt(c)
    PROVE  SessionInv'
<1>1. CASE TeardownTicker(c)
  BY <1>1, SessionTeardown DEF Halt, Actor
<1>2. CASE /\ pc' = [pc EXCEPT ![c] = "start"] /\ arg' = [arg EXCEPT ![c] = startTask]
           /\ UNCHANGED <<session, spc, lib>>
  BY <1>2 DEF Halt, SessionInv, TypeOK, Actor
<1>3. QED
  BY <1>1, <1>2 DEF Halt, attrs

\* Every step preserves SessionInv.
LEMMA SessionStep ==
    ASSUME PromptWakeup, SlowConnect, TypeOK, Inv, SessionInv
    PROVE  [Next]_vars => SessionInv'
<1> USE DEF attrs, clock, starts, actors, health, net, config
<1>1. ASSUME NEW l \in Light, StopIdentify(l) PROVE SessionInv'
  BY <1>1, SessionFrame DEF StopIdentify
<1>2. ASSUME NEW i \in Slot, BridgeStops(i) PROVE SessionInv'
  BY <1>2, SessionFrame DEF BridgeStops
<1>3. ASSUME NEW a \in Area, BridgeNames(a) \/ ForeignLeaves(a) PROVE SessionInv'
  BY <1>3, SessionFrame DEF BridgeNames, ForeignLeaves
<1>4. ASSUME NEW a \in Area, NEW v \in {"idle", "cleared", "foreign"}, BridgeFault(a, v)
      PROVE  SessionInv'
  BY <1>4, SessionFrame DEF BridgeFault
<1>5. ASSUME TimeStep PROVE SessionInv'
  BY <1>5, SessionFrame DEF TimeStep, Silence, BackoffOver, IdentifyExpires, StopIdentify
<1>6. ASSUME (\E tv \in TV : PowerOff(tv)) \/ Reconfigure PROVE SessionInv'
  BY <1>6, SessionFrame DEF PowerOff, Reconfigure, Reassign, ChangeBridge
<1>7. ASSUME UNCHANGED vars PROVE SessionInv'
  BY <1>7, SessionFrame DEF vars
<1>8. ASSUME NEW i \in Slot, HealthStep(i) PROVE SessionInv'
  BY <1>8, SessionFrame DEF HealthStep, HealthAsk, HealthAnswer, HealthError
<1>9. ASSUME NEW c \in Stopper, StopResume(c) PROVE SessionInv'
  BY <1>9, SessionTeardown DEF StopResume, Actor
<1>10. ASSUME NEW a \in Actor, HealthAwaited(a) PROVE SessionInv'
  BY <1>10, SessionTeardown DEF HealthAwaited
<1>11. ASSUME NEW a \in Actor, TickerAwaited(a) PROVE SessionInv'
  BY <1>11, SessionTeardown DEF TickerAwaited
<1>12. ASSUME NEW t \in Slot, TickerTask(t) PROVE SessionInv'
  <2>1. ASSUME TeardownTicker(t), pc[t] # "close", UNCHANGED spc PROVE SessionInv'
    BY <2>1, SessionTeardown DEF Actor
  <2>2. CASE pc[t] \in {"new", "run"} /\ pc' = [pc EXCEPT ![t] = "run"]
             /\ UNCHANGED <<session, spc, arg, lib>>
    BY <2>2 DEF SessionInv, TypeOK, Actor
  <2>3. QED
    BY <2>1, <2>2, <1>12 DEF TickerTask, TickerStep, TickerCancelled
<1>13. ASSUME NEW c \in Stopper, Stop(c) PROVE SessionInv'
  BY <1>13, SessionHalt DEF Stop
<1> USE SlotAssumption
    DEF SessionInv, Inv, StartInv, TickerInv, WaitInv, NoStrandedSession, SingleStart, IsStreaming,
        Actor, TypeOK
<1>14. ASSUME NEW owner, Inbound(owner) PROVE SessionInv'
  BY <1>14, SessionInbound
<1>15. ASSUME NEW a \in Actor, SessionClosed(a) PROVE SessionInv'
  BY <1>15, SMTT(30) DEF SessionClosed
<1>16. ASSUME NEW a \in Actor, CloseFails(a) PROVE SessionInv'
  BY <1>16, SMTT(30) DEF CloseFails
<1>17. ASSUME NEW i \in Slot, StartBegin(i) PROVE SessionInv'
  BY <1>17, SMTT(30) DEF StartBegin, StartEnds
<1>18. ASSUME NEW i \in Slot, StartConnected(i) PROVE SessionInv'
  <2>1. session = None
    BY <1>18, NoneInstalled
  <2>2. CASE i \in stale
    BY <1>18, <2>1, <2>2, SMTT(30) DEF StartConnected
  <2>3. CASE i \notin stale
    BY <1>18, <2>1, <2>3, SMTT(30) DEF StartConnected, StartEnds
  <2>4. QED
    BY <2>2, <2>3
<1>19. ASSUME NEW i \in Slot, StartFails(i) PROVE SessionInv'
  BY <1>19, SMTT(30) DEF StartFails
<1>20. ASSUME NEW i \in Slot, StartClosed(i) PROVE SessionInv'
  BY <1>20, SMTT(30) DEF StartClosed, StartEnds
<1>21. ASSUME NEW i \in Slot, StartCloseFails(i) PROVE SessionInv'
  BY <1>21, SMTT(30) DEF StartCloseFails, StartEnds
<1>22. ASSUME NEW i \in Slot, CancelUnstarted(i) PROVE SessionInv'
  BY <1>22, SMTT(30) DEF CancelUnstarted
<1>23. ASSUME NEW i \in Slot, CancelConnect(i) PROVE SessionInv'
  BY <1>23, SMTT(30) DEF CancelConnect
<1>24. ASSUME NEW i \in Slot, CancelClose(i) PROVE SessionInv'
  BY <1>24, SMTT(30) DEF CancelClose, StartEnds
<1>25. ASSUME NEW i \in Slot, BridgeActivates(i) PROVE SessionInv'
  BY <1>25, SMTT(30) DEF BridgeActivates
<1>26. ASSUME NEW i \in Slot, SessionDrops(i) PROVE SessionInv'
  BY <1>26, SMTT(30) DEF SessionDrops
<1> HIDE DEF Inv, SessionInv, TypeOK
<1> QED
  BY <1>1, <1>2, <1>3, <1>4, <1>5, <1>6, <1>7, <1>8, <1>9, <1>10, <1>11, <1>12, <1>13, <1>14,
     <1>15, <1>16, <1>17, <1>18, <1>19, <1>20, <1>21, <1>22, <1>23, <1>24, <1>25, <1>26
  DEF Next, Internal, InboundStep, SubmitColor, StartStream, Identify, TeardownStep, StartStep,
      BridgeStep

-----------------------------------------------------------------------------
(* Each step is one of the outbound stream, or leaves it alone.            *)

\* What the outbound stream shows of the engine depends on these only.
LEMMA OutboundFrame ==
    ASSUME UNCHANGED <<session, startTask, spc, lib>>
    PROVE  UNCHANGED Outbound!vars
  BY DEF Outbound!vars, IsStreaming

\* A teardown ends the live stream or shows nothing new.
LEMMA OutboundTeardown ==
    ASSUME TypeOK, Inv, SessionInv, NEW a \in Actor,
           TeardownTicker(a) \/ TeardownHealth(a) \/ TeardownSession(a), UNCHANGED spc,
           \/ startTask' = startTask
           \/ startTask' = None /\ (startTask # None => spc[startTask] # "connect")
    PROVE  [Outbound!Next]_Outbound!vars
<1> USE SlotAssumption DEF TypeOK, IsStreaming, Outbound!vars
<1>1. (IF startTask' # None /\ spc'[startTask'] = "connect" THEN startTask' ELSE None)
        = (IF startTask # None /\ spc[startTask] = "connect" THEN startTask ELSE None)
  OBVIOUS
<1>2. CASE UNCHANGED <<session, lib>>
  BY <1>1, <1>2
<1>3. CASE session' = None /\ session # None /\ lib' = [lib EXCEPT ![session] = "closing"]
  <2>1. CASE IsStreaming
    <3>1. Outbound!End
      BY <1>1, <1>3, <2>1 DEF Outbound!End
    <3>2. QED
      BY <3>1 DEF Outbound!Next
  <2>2. CASE ~IsStreaming
    BY <1>1, <1>3, <2>2 DEF SessionInv
  <2>3. QED
    BY <2>1, <2>2
<1>4. QED
  BY <1>2, <1>3 DEF TeardownTicker, TeardownHealth, TeardownSession

\* An inbound write shows nothing new: a start task opens its session later.
LEMMA OutboundInbound ==
    ASSUME TypeOK, Inv, NEW owner, Inbound(owner)
    PROVE  UNCHANGED Outbound!vars
  BY SlotAssumption, SMTT(30)
  DEF Inbound, MayStart, Inv, StartInv, SingleStart, IsStreaming, TypeOK, Outbound!vars, net

\* The call of stop() ends the live stream or shows nothing new.
LEMMA OutboundHalt ==
    ASSUME TypeOK, Inv, SessionInv, NEW c \in Stopper, Halt(c)
    PROVE  [Outbound!Next]_Outbound!vars
<1>1. CASE startTask # None /\ spc[startTask] # "idle"
  BY <1>1, OutboundFrame DEF Halt, attrs
<1>2. CASE ~(startTask # None /\ spc[startTask] # "idle")
  BY <1>2, OutboundTeardown DEF Halt, Actor
<1>3. QED
  BY <1>1, <1>2

\* Every step of the engine.
LEMMA OutboundStep ==
    ASSUME PromptWakeup, SlowConnect, TypeOK, Inv, SessionInv, [Next]_vars
    PROVE  [Outbound!Next]_Outbound!vars
<1> USE DEF attrs, clock, starts, actors, health, net, config
<1>1. CASE \/ BridgeStep /\ ~\E i \in Slot : BridgeActivates(i) \/ SessionDrops(i)
           \/ TimeStep \/ Reconfigure
           \/ \E tv \in TV : PowerOff(tv)
           \/ \E l \in Light : StopIdentify(l)
           \/ \E i \in Slot : HealthStep(i)
           \/ UNCHANGED vars
  <2>1. UNCHANGED <<session, startTask, spc, lib>>
    BY <1>1 DEF BridgeStep, BridgeStops, BridgeNames, ForeignLeaves, BridgeFault, TimeStep,
       Silence, BackoffOver, IdentifyExpires, StopIdentify, Reconfigure, Reassign,
       ChangeBridge, PowerOff, HealthStep, HealthAsk, HealthAnswer, HealthError, vars
  <2>2. QED
    BY <2>1, OutboundFrame
<1>2. ASSUME NEW c \in Stopper, StopResume(c) PROVE [Outbound!Next]_Outbound!vars
  BY <1>2, OutboundTeardown DEF StopResume, Inv, StartInv, TypeOK, Actor
<1>3. ASSUME NEW c \in Stopper, Stop(c) PROVE [Outbound!Next]_Outbound!vars
  BY <1>3, OutboundHalt DEF Stop
<1>4. ASSUME NEW a \in Actor, HealthAwaited(a) \/ TickerAwaited(a)
      PROVE  [Outbound!Next]_Outbound!vars
  <2>1. /\ TeardownTicker(a) \/ TeardownHealth(a) \/ TeardownSession(a)
        /\ UNCHANGED spc /\ startTask' = startTask
    BY <1>4 DEF HealthAwaited, TickerAwaited
  <2>2. QED
    BY <2>1, OutboundTeardown
<1>5. ASSUME NEW t \in Slot, TickerTask(t) PROVE [Outbound!Next]_Outbound!vars
  <2>1. CASE TeardownTicker(t)
    <3>1. UNCHANGED spc /\ startTask' = startTask /\ t \in Actor
      BY <1>5 DEF TickerTask, TickerStep, TickerCancelled, Actor
    <3>2. QED
      BY <2>1, <3>1, OutboundTeardown
  <2>2. CASE ~TeardownTicker(t)
    BY <1>5, <2>2, OutboundFrame DEF TickerTask, TickerStep, TickerCancelled
  <2>3. QED
    BY <2>1, <2>2
<1> USE SlotAssumption
    DEF SessionInv, Inv, StartInv, WaitInv, SingleStart, IsStreaming, Actor, TypeOK, Outbound!vars,
        Outbound!Next
<1>6. ASSUME NEW owner, Inbound(owner) PROVE UNCHANGED Outbound!vars
  BY <1>6, OutboundInbound
<1>7. ASSUME NEW a \in Actor, NEW i \in Slot, i = arg[a], SessionClosed(a) \/ CloseFails(a)
      PROVE  Outbound!Close(i)
  BY <1>7, SMTT(30) DEF SessionClosed, CloseFails, Outbound!Close
<1>8. ASSUME NEW i \in Slot, StartBegin(i), bridge = "paired" PROVE Outbound!Open(i)
  BY <1>8, SMTT(30) DEF StartBegin, Outbound!Open
<1>9. ASSUME NEW i \in Slot, CancelUnstarted(i) \/ (StartBegin(i) /\ bridge # "paired")
      PROVE UNCHANGED Outbound!vars
  BY <1>9, SMTT(30) DEF StartBegin, StartEnds, CancelUnstarted
<1>10. ASSUME NEW i \in Slot, StartConnected(i), i \notin stale PROVE Outbound!GoLive
  BY <1>10, SMTT(30) DEF StartConnected, StartEnds, Outbound!GoLive
<1>11. ASSUME NEW i \in Slot,
              \/ StartConnected(i) /\ i \in stale
              \/ StartFails(i)
              \/ CancelConnect(i) /\ spc[i] = "connect"
       PROVE  Outbound!Abandon
  BY <1>11, SMTT(30) DEF StartConnected, StartFails, CancelConnect, Outbound!Abandon
<1>12. ASSUME NEW i \in Slot, \/ CancelConnect(i) /\ spc[i] = "discard"
                              \/ StartCloseFails(i) /\ spc[i] = "discard"
       PROVE  UNCHANGED Outbound!vars
  BY <1>12, SMTT(30) DEF CancelConnect, StartCloseFails
<1>13. ASSUME NEW i \in Slot,
              StartClosed(i) \/ CancelClose(i) \/ (StartCloseFails(i) /\ spc[i] = "abort")
       PROVE  Outbound!Close(i)
  BY <1>13, SMTT(30) DEF StartClosed, CancelClose, StartCloseFails, StartEnds, Outbound!Close
<1>14. ASSUME NEW i \in Slot, BridgeActivates(i) PROVE UNCHANGED Outbound!vars
  BY <1>14, SMTT(30) DEF BridgeActivates
<1>15. ASSUME NEW i \in Slot, SessionDrops(i) PROVE Outbound!End
  BY <1>15, SMTT(30) DEF SessionDrops, Outbound!End
<1>16. ASSUME NEW a \in Actor, SessionClosed(a) \/ CloseFails(a) PROVE arg[a] \in Slot
  BY <1>16 DEF SessionClosed, CloseFails
<1> HIDE DEF Inv, SessionInv, TypeOK, Outbound!vars
<1>17. ASSUME NEW i \in Slot, Outbound!Open(i) \/ Outbound!Close(i) PROVE Outbound!Next
  BY <1>17 DEF Outbound!Next
<1> HIDE DEF Outbound!Next
<1>18. ASSUME NEW i \in Slot, StartStep(i) PROVE [Outbound!Next]_Outbound!vars
  <2>1. CASE StartBegin(i) \/ CancelUnstarted(i)
    BY <2>1, <1>8, <1>9, <1>17
  <2>2. CASE StartConnected(i) \/ StartFails(i)
    BY <2>2, <1>10, <1>11 DEF Outbound!Next
  <2>3. CASE CancelConnect(i)
    BY <2>3, <1>11, <1>12 DEF CancelConnect, Outbound!Next
  <2>4. CASE StartClosed(i) \/ StartCloseFails(i) \/ CancelClose(i)
    BY <2>4, <1>12, <1>13, <1>17 DEF StartCloseFails
  <2>5. QED
    BY <1>18, <2>1, <2>2, <2>3, <2>4 DEF StartStep
<1>19. ASSUME NEW a \in Actor, TeardownStep(a) PROVE [Outbound!Next]_Outbound!vars
  <2>1. CASE HealthAwaited(a) \/ TickerAwaited(a)
    BY <2>1, <1>4
  <2>2. CASE SessionClosed(a) \/ CloseFails(a)
    BY <2>2, <1>7, <1>16, <1>17
  <2>3. QED
    BY <1>19, <2>1, <2>2 DEF TeardownStep
<1>20. CASE InboundStep
  BY <1>20, <1>6 DEF InboundStep, SubmitColor, StartStream, Identify
<1>21. CASE Internal
  BY <1>21, <1>1, <1>2, <1>5, <1>14, <1>15, <1>18, <1>19 DEF Internal, Outbound!Next
<1> QED
  BY <1>1, <1>3, <1>20, <1>21 DEF Next

\* The detailed engine implements the safe part of the abstract one.
THEOREM Implements ==
    ASSUME PromptWakeup, SlowConnect
    PROVE  Spec => ImplementsOutbound
<1>1. Init => SessionInv /\ Outbound!Init
  BY SlotAssumption DEF Init, SessionInv, Outbound!Init, IsStreaming, Actor
<1>2. TypeOK /\ Inv /\ SessionInv /\ [Next]_vars => SessionInv' /\ [Outbound!Next]_Outbound!vars
  BY SessionStep, OutboundStep
<1>3. QED
  BY <1>1, <1>2, TypeCorrect, Invariance, PTL DEF Spec, ImplementsOutbound, Outbound!Safe

-----------------------------------------------------------------------------
(* What that promise amounts to at any time.                               *)

\* Who keeps the promise never connects next to a live stream, and never takes back a session
\* that was given up.
LEMMA PromiseExclusive == ImplementsOutbound => []Outbound!Exclusive
<1>1. Outbound!Init => Outbound!Exclusive
  BY DEF Outbound!Init, Outbound!Exclusive
<1>2. Outbound!Exclusive /\ [Outbound!Next]_Outbound!vars => Outbound!Exclusive'
  <2> SUFFICES ASSUME Outbound!Exclusive, [Outbound!Next]_Outbound!vars PROVE Outbound!Exclusive'
    OBVIOUS
  <2> USE DEF Outbound!Exclusive
  <2>1. ASSUME NEW s \in Slot, Outbound!Open(s) PROVE Outbound!Exclusive'
    BY <2>1 DEF Outbound!Open
  <2>2. ASSUME NEW s \in Slot, Outbound!Close(s) PROVE Outbound!Exclusive'
    BY <2>2 DEF Outbound!Close
  <2>3. CASE Outbound!GoLive
    BY <2>3 DEF Outbound!GoLive
  <2>4. CASE Outbound!Abandon
    BY <2>4 DEF Outbound!Abandon
  <2>5. CASE Outbound!End
    BY <2>5 DEF Outbound!End
  <2>6. CASE UNCHANGED Outbound!vars
    BY <2>6 DEF Outbound!vars
  <2>7. QED
    BY <2>1, <2>2, <2>3, <2>4, <2>5, <2>6 DEF Outbound!Next
<1>3. QED
  BY <1>1, <1>2, PTL DEF ImplementsOutbound, Outbound!Safe

\* The engine never connects next to its live stream.
THEOREM OneAtATime ==
    ASSUME PromptWakeup, SlowConnect
    PROVE  Spec => []Outbound!Exclusive
  BY Implements, PromiseExclusive, PTL
=============================================================================

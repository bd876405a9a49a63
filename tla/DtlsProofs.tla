----------------------------- MODULE DtlsProofs -----------------------------
(***************************************************************************)
(* What is proved about Dtls for every set of clients and every number of  *)
(* attempts, resends, losses and restarts: its types, and that a frame     *)
(* reaches the engine under the name of the TV that sent it.               *)
(***************************************************************************)
EXTENDS Dtls, TLAPS

-----------------------------------------------------------------------------
(* Types.                                                                  *)

\* A reply is addressed like the message it answers.
LEMMA ReplyType ==
    ASSUME NEW m \in Inbound, NEW kind, NEW random \in Nat, NEW seq, NEW epoch, NEW log,
           \A x \in toClient : x.who \in Client /\ x.n \in Nat /\ x.random \in Nat,
           Reply(kind, m, random, seq, epoch, log)
    PROVE  \A x \in toClient' : x.who \in Client /\ x.n \in Nat /\ x.random \in Nat
BY DEF Reply, Inbound

\* A handler keeps the types of the server, of the queue and of the replies.
LEMMA ReceiveType ==
    ASSUME TypeOK, NEW m \in toServer, Receive(m)
    PROVE  TypeOK'
<1>1. m \in Inbound
  BY DEF TypeOK
<1>2. toServer' \subseteq Inbound /\ duplicates' \in Nat /\ UNCHANGED <<heard, clients, losses>>
  BY DEF TypeOK, Receive
<1>3. CASE ClientHello(m)
  <2>1. \A x \in toClient' : x.who \in Client /\ x.n \in Nat /\ x.random \in Nat
    BY <1>1, <1>3, ReplyType DEF ClientHello, TypeOK
  <2> QED BY <1>2, <1>3, <2>1 DEF ClientHello, TypeOK, clients
<1>4. CASE ClientHelloCookie(m)
  <2>1. minted + 1 \in Nat
    BY DEF TypeOK
  <2>2. \A x \in toClient' : x.who \in Client /\ x.n \in Nat /\ x.random \in Nat
    BY <1>1, <1>4, <2>1, ReplyType DEF ClientHelloCookie, TypeOK
  <2>3. <<m.who, m.n>> \in Random
    BY <1>1 DEF Inbound, Random
  <2> QED BY <1>2, <1>4, <2>1, <2>2, <2>3 DEF ClientHelloCookie, TypeOK, clients
<1>5. CASE KeyExchange(m)
  <2>1. keys' \in Keys \cup {None} /\ identity' \in Client \cup {None}
    BY <1>1, <1>5 DEF KeyExchange, TypeOK, Keys, Inbound
  <2> QED BY <1>2, <1>5, <2>1 DEF KeyExchange, TypeOK, clients
<1>6. CASE ClientFinished(m)
  <2>1. \A x \in toClient' : x.who \in Client /\ x.n \in Nat /\ x.random \in Nat
    BY <1>1, <1>6, ReplyType DEF ClientFinished, TypeOK
  <2> QED BY <1>2, <1>6, <2>1 DEF ClientFinished, TypeOK, clients
<1>7. CASE ApplicationData(m)
  <2>1. [from |-> m.who, as |-> identity] \in Frame
    BY <1>1 DEF TypeOK, Frame, Inbound
  <2>2. queue' \in Seq(Frame)
    <3>1. Append(queue, [from |-> m.who, as |-> identity]) \in Seq(Frame)
      BY <2>1 DEF TypeOK
    <3> QED BY <1>7, <3>1 DEF ApplicationData, TypeOK
  <2>3. UNCHANGED <<server, toClient>>
    BY <1>7 DEF ApplicationData
  <2> QED BY <1>2, <2>2, <2>3 DEF TypeOK, clients, server
<1> QED BY <1>3, <1>4, <1>5, <1>6, <1>7 DEF Receive

\* So does a client.
LEMMA ClientType ==
    ASSUME TypeOK, NEW c \in Client, ClientStep(c)
    PROVE  TypeOK'
<1>0. attempt[c] \in Nat /\ resends[c] \in Nat /\ peerRandom[c] \in Nat
  BY DEF TypeOK
<1>1. ASSUME NEW kind \in {"hello", "cookie", "exchange", "finished", "frame"}, NEW r \in Nat
      PROVE  Message(kind, c, r) \in Inbound
  BY <1>0 DEF Message, Inbound
<1>2. CASE Begin(c)
  <2>1. [kind |-> "hello", who |-> c, n |-> attempt[c] + 1, random |-> 0] \in Inbound
    BY <1>0 DEF Inbound
  <2> QED BY <1>0, <1>2, <2>1 DEF Begin, TypeOK, server, frames
<1>3. CASE Resend(c)
  <2>1. Flight(c) \subseteq Inbound
    BY <1>0, <1>1 DEF Flight
  <2> QED BY <1>0, <1>3, <2>1 DEF Resend, TypeOK, server, frames
<1>4. CASE SendFrame(c)
  BY <1>0, <1>1, <1>4 DEF SendFrame, TypeOK, server, frames, clients
<1>5. ASSUME NEW m \in toClient, Answered(c, m)
      PROVE  TypeOK'
  <2>1. m.random \in Nat
    BY DEF TypeOK
  <2>2. /\ toServer' \subseteq Inbound
        /\ cpc' \in [Client -> {"off", "hello", "cookie", "finish", "done"}]
        /\ peerRandom' \in [Client -> Nat]
    <3>1. CASE m.kind = "verify" /\ Awaited(c, m)
      <4>1. Message("cookie", c, 0) \in Inbound
        BY <1>1
      <4> QED BY <1>5, <3>1, <4>1 DEF Answered, TypeOK
    <3>2. CASE m.kind = "flight" /\ Awaited(c, m)
      <4>1. Message("exchange", c, 0) \in Inbound /\ Message("finished", c, m.random) \in Inbound
        BY <1>1, <2>1
      <4> QED BY <1>5, <2>1, <3>2, <4>1 DEF Answered, TypeOK
    <3>3. CASE m.kind = "finished" /\ Awaited(c, m)
      BY <1>5, <3>3 DEF Answered, TypeOK
    <3>4. CASE ~Awaited(c, m)
      BY <1>5, <3>4 DEF Answered, TypeOK
    <3> QED BY <1>5, <3>1, <3>2, <3>3, <3>4 DEF Answered
  <2>3. /\ toClient' \subseteq toClient
        /\ UNCHANGED <<server, frames, attempt, resends, losses, duplicates>>
    BY <1>5 DEF Answered
  <2> QED BY <2>2, <2>3 DEF TypeOK, server, frames
<1> QED BY <1>2, <1>3, <1>4, <1>5 DEF ClientStep

\* Every variable keeps its type.
THEOREM TypeCorrect == Spec => []TypeOK
<1>1. Init => TypeOK
  BY ClientAssumption DEF Init, TypeOK, Frame, Inbound
<1>2. TypeOK /\ [Next]_vars => TypeOK'
  <2> SUFFICES ASSUME TypeOK, Next \/ UNCHANGED vars PROVE TypeOK'
    OBVIOUS
  <2>1. CASE OnFrame
    <3>1. Head(queue) \in Frame /\ Tail(queue) \in Seq(Frame)
      BY <2>1 DEF OnFrame, TypeOK
    <3> QED BY <2>1, <3>1 DEF OnFrame, TypeOK, server, clients
  <2>2. CASE Lose
    BY <2>2 DEF Lose, TypeOK, server, frames, clients
  <2>3. CASE Restart
    BY <2>3 DEF Restart, TypeOK, clients
  <2>4. CASE UNCHANGED vars
    BY <2>4 DEF TypeOK, vars, server, frames, clients
  <2> QED BY <2>1, <2>2, <2>3, <2>4, ReceiveType, ClientType DEF Next
<1> QED BY <1>1, <1>2, PTL DEF Spec

-----------------------------------------------------------------------------
(* Whose frame it is.                                                      *)

\* No client's keys are None, which is what a reset leaves.
LEMMA KeysNotNone ==
    ASSUME NEW m \in Inbound PROVE KeysOf(m) # None
<1>1. KeysOf(m) \in [psk : Client, client : Random \cup {None}, server : Nat]
  BY DEF KeysOf, Inbound, Random
<1> QED BY <1>1, ClientAssumption

\* A handler keeps keys and identity together, and hands over only what these keys decrypt.
LEMMA ReceiveInv ==
    ASSUME TypeOK, Inv, NEW m \in toServer, Receive(m)
    PROVE  Inv'
<1>1. m \in Inbound /\ queue \in Seq(Frame) /\ UNCHANGED heard
  BY DEF TypeOK, Receive
<1>2. FrameIdentity'
  BY <1>1 DEF Inv, FrameIdentity
<1>3. CASE ClientHello(m)
  BY <1>2, <1>3, KeysNotNone DEF ClientHello, Inv, KeysInv, QueueInv, KeysOf
<1>4. CASE ClientHelloCookie(m)
  BY <1>2, <1>4 DEF ClientHelloCookie, Inv, KeysInv, QueueInv, KeysOf
<1>5. CASE KeyExchange(m)
  <2>1. ASSUME NEW x \in Inbound, keys' = KeysOf(x) PROVE identity' = x.who
    <3>1. CASE m.who \in Paired
      <4>1. keys'.psk = m.who /\ KeysOf(x).psk = x.who
        BY <1>5, <3>1 DEF KeyExchange, KeysOf
      <4> QED BY <1>5, <2>1, <3>1, <4>1 DEF KeyExchange
    <3>2. CASE m.who \notin Paired
      BY <1>5, <2>1, <3>2 DEF KeyExchange, Inv, KeysInv, KeysOf
    <3> QED BY <3>1, <3>2
  <2>2. KeysInv'
    BY <2>1 DEF KeysInv, KeysOf
  <2> QED BY <1>2, <1>5, <2>2 DEF KeyExchange, Inv, QueueInv
<1>6. CASE ClientFinished(m)
  BY <1>2, <1>6 DEF ClientFinished, Inv, KeysInv, QueueInv, KeysOf
<1>7. CASE ApplicationData(m)
  <2>1. KeysInv'
    BY <1>7 DEF ApplicationData, server, Inv, KeysInv, KeysOf
  <2>2. CASE UNCHANGED queue
    BY <1>2, <2>1, <2>2 DEF Inv, QueueInv
  <2>3. CASE keys = KeysOf(m) /\ queue' = Append(queue, [from |-> m.who, as |-> identity])
    <3>1. identity = m.who
      BY <1>1, <2>3 DEF Inv, KeysInv
    <3>2. [from |-> m.who, as |-> identity] \in Frame
      BY <1>1 DEF TypeOK, Frame, Inbound
    <3>3. ASSUME NEW k \in 1 .. Len(queue') PROVE queue'[k].as = queue'[k].from
      BY <1>1, <2>3, <3>1, <3>2, <3>3 DEF Inv, QueueInv
    <3> QED BY <1>2, <2>1, <3>3 DEF Inv, QueueInv
  <2> QED BY <1>7, <2>2, <2>3 DEF ApplicationData
<1> QED BY <1>3, <1>4, <1>5, <1>6, <1>7 DEF Receive

\* Keys, queue and what the engine heard agree on who is who, always.
THEOREM Invariance == Spec => []Inv
<1>1. Init => Inv
  BY KeysNotNone DEF Init, Inv, KeysInv, QueueInv, FrameIdentity
<1>2. TypeOK /\ Inv /\ [Next]_vars => Inv'
  <2> SUFFICES ASSUME TypeOK, Inv, Next \/ UNCHANGED vars PROVE Inv'
    OBVIOUS
  <2>1. CASE OnFrame
    <3>1. queue \in Seq(Frame) /\ queue # <<>>
      BY <2>1 DEF OnFrame, TypeOK
    <3>2. Head(queue) = queue[1] /\ 1 \in 1 .. Len(queue)
      BY <3>1
    <3>3. FrameIdentity'
      BY <2>1, <3>2 DEF OnFrame, Inv, QueueInv, FrameIdentity
    <3>4. QueueInv'
      BY <2>1, <3>1 DEF OnFrame, Inv, QueueInv
    <3> QED BY <2>1, <3>3, <3>4 DEF OnFrame, server, Inv, KeysInv, KeysOf
  <2>2. ASSUME UNCHANGED <<server, frames>> PROVE Inv'
    BY <2>2 DEF server, frames, Inv, KeysInv, QueueInv, FrameIdentity, KeysOf
  <2>3. CASE \E c \in Client : ClientStep(c)
    BY <2>2, <2>3 DEF ClientStep, Begin, Resend, SendFrame, Answered
  <2>4. CASE Restart
    BY <2>4, KeysNotNone DEF Restart, Inv, KeysInv, QueueInv, FrameIdentity, KeysOf
  <2> QED BY <2>1, <2>2, <2>3, <2>4, ReceiveInv DEF Next, Lose, vars
<1> QED BY <1>1, <1>2, TypeCorrect, PTL DEF Spec

\* Every frame the engine hears carries the name of the TV that sent it (_handle_key_exchange
\* sets identity and keys together; _handle_application_data binds the identity to the call).
THEOREM FramesIdentified == Spec => []FrameIdentity
BY Invariance, PTL DEF Inv
=============================================================================

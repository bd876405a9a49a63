-------------------------------- MODULE Dtls --------------------------------
(***************************************************************************)
(* The inbound DTLS-PSK server (emulator/dtls_server.py) and the TVs that  *)
(* connect to it over UDP.                                                 *)
(*                                                                         *)
(* One HueDtlsServer keeps one set of handshake attributes for whoever     *)
(* sends it a datagram; its thread handles the records one after another   *)
(* and hands decrypted frames to the event loop.  Datagrams are lost,      *)
(* reordered and doubled.  Cryptography is symbolic: a record can be read  *)
(* with the very keys it was written with, and keys are made of the PSK    *)
(* and the two randoms; random values never repeat.  The ServerHello and   *)
(* the ServerHelloDone are one datagram, as are ChangeCipherSpec and the   *)
(* server's Finished.  The client is a DTLS 1.2 client (RFC 6347), outside *)
(* the repository: it numbers handshake messages, resends a flight that is *)
(* not answered, gives up and starts again, and each attempt has its own   *)
(* port.                                                                   *)
(***************************************************************************)
EXTENDS Naturals, Sequences

CONSTANTS
    Client,         \* whoever connects, by PSK identity
    Paired,         \* clients whose PSK the server knows
    None,           \* no client, no random, no keys
    MaxAttempts,    \* bound on handshakes a client starts
    MaxResends,     \* bound on flights a client resends in one attempt
    MaxLosses,      \* bound on datagrams lost and restarts of the service
    MaxDuplicates,  \* bound on datagrams the server receives again
    MaxQueue,       \* bound on frames the loop has yet to handle
    CalmNetwork     \* a flight arrives in order, no timer of a client fires while an answer
                    \* may still come, and no restart strikes an established session

Random == Client \X Nat

ASSUME ClientAssumption ==
    /\ Paired \subseteq Client /\ None \notin Client
    /\ None \notin [psk : Client, client : Random \cup {None}, server : Nat]

VARIABLES
    \* attributes of the server
    identity, clientRandom, serverRandom, keys, transcript, msgSeq, epochOut, link,
    minted,                 \* server randoms made so far
    \* frames handed to the loop, and frames it handled: who sent them, who they are said to be of
    queue, heard,
    \* clients: state, attempt, flights resent, and the server random they work with
    cpc, attempt, resends, peerRandom,
    \* datagrams under way
    toServer, toClient, losses, duplicates

server  == <<identity, clientRandom, serverRandom, keys, transcript, msgSeq, epochOut, link,
             minted>>
frames  == <<queue, heard>>
clients == <<cpc, attempt, resends, peerRandom>>
vars    == <<server, frames, clients, toServer, toClient, losses, duplicates>>

Keys == [psk : Paired, client : Random \cup {None}, server : Nat]
Inbound == [kind : {"hello", "cookie", "exchange", "finished", "frame"},
            who : Client, n : Nat, random : Nat]
Frame == [from : Client, as : Client \cup {None}]

TypeOK ==
    /\ identity \in Client \cup {None}
    /\ clientRandom \in Random \cup {None} /\ serverRandom \in Nat
    /\ keys \in Keys \cup {None}
    /\ msgSeq \in Nat /\ epochOut \in {0, 1} /\ link \in {"handshake", "established"}
    /\ minted \in Nat
    /\ queue \in Seq(Frame) /\ heard \subseteq Frame
    /\ cpc \in [Client -> {"off", "hello", "cookie", "finish", "done"}]
    /\ attempt \in [Client -> Nat] /\ resends \in [Client -> Nat]
    /\ peerRandom \in [Client -> Nat]
    /\ toServer \subseteq Inbound
    /\ \A m \in toClient : m.who \in Client /\ m.n \in Nat /\ m.random \in Nat
    /\ losses \in Nat /\ duplicates \in Nat

Init ==
    /\ identity = None /\ clientRandom = None /\ serverRandom = 0 /\ keys = None
    /\ transcript = <<>> /\ msgSeq = 0 /\ epochOut = 0 /\ link = "handshake" /\ minted = 0
    /\ queue = <<>> /\ heard = {}
    /\ cpc = [c \in Client |-> "off"] /\ attempt = [c \in Client |-> 0]
    /\ resends = [c \in Client |-> 0] /\ peerRandom = [c \in Client |-> 0]
    /\ toServer = {} /\ toClient = {} /\ losses = 0 /\ duplicates = 0

-----------------------------------------------------------------------------
(* Messages.                                                               *)

\* The bytes of a client's message, as the transcript holds them: a ClientKeyExchange carries
\* nothing but the identity.
Bytes(m) ==
    IF m.kind = "exchange" THEN <<m.kind, m.who>> ELSE <<m.kind, m.who, m.n, m.random>>

ServerFlight(random, seq) == <<"flight", random, seq>>

\* The keys of a client: its PSK and the randoms of its current attempt.
KeysOf(m) == [psk |-> m.who, client |-> <<m.who, m.n>>, server |-> m.random]

Reply(kind, m, random, seq, epoch, log) ==
    toClient' = toClient \cup {[kind |-> kind, who |-> m.who, n |-> m.n, random |-> random,
                                seq |-> seq, epoch |-> epoch, log |-> log]}

-----------------------------------------------------------------------------
(* The server: one action per handler.                                     *)

\* Mutant: the reset forgets the number of the next handshake message.
ClientHelloKeepsSeq(m) ==
    /\ m.kind = "hello"
    /\ identity' = None /\ clientRandom' = None /\ serverRandom' = 0 /\ keys' = None
    /\ transcript' = <<>> /\ epochOut' = 0 /\ link' = "handshake"
    /\ msgSeq' = msgSeq + 1
    /\ Reply("verify", m, 0, 0, 0, <<>>)
    /\ UNCHANGED <<minted, queue>>

\* A ClientHello without a cookie: reset everything, send a cookie.
ClientHello(m) ==
    /\ m.kind = "hello"
    /\ identity' = None /\ clientRandom' = None /\ serverRandom' = 0 /\ keys' = None
    /\ transcript' = <<>> /\ epochOut' = 0 /\ link' = "handshake"
    /\ msgSeq' = 1
    /\ Reply("verify", m, 0, 0, 0, <<>>)
    /\ UNCHANGED <<minted, queue>>

\* A ClientHello with a cookie, whichever: a new transcript and the server's flight.
ClientHelloCookie(m) ==
    /\ m.kind = "cookie"
    /\ minted' = minted + 1
    /\ clientRandom' = <<m.who, m.n>> /\ serverRandom' = minted + 1
    /\ transcript' = <<Bytes(m), ServerFlight(minted + 1, msgSeq)>>
    /\ msgSeq' = msgSeq + 2
    /\ Reply("flight", m, minted + 1, msgSeq, epochOut, <<>>)
    /\ UNCHANGED <<identity, keys, epochOut, link, queue>>

\* Mutant: an identity without a PSK gets keys like any other.
KeyExchangeUnchecked(m) ==
    /\ m.kind = "exchange"
    /\ identity' = m.who
    /\ transcript' = Append(transcript, Bytes(m))
    /\ keys' = [psk |-> m.who, client |-> clientRandom, server |-> serverRandom]
    /\ UNCHANGED <<clientRandom, serverRandom, msgSeq, epochOut, link, minted, queue, toClient>>

\* A ClientKeyExchange: ignored without a PSK, else the keys of this identity.
KeyExchange(m) ==
    /\ m.kind = "exchange"
    /\ IF m.who \in Paired
       THEN /\ identity' = m.who
            /\ transcript' = Append(transcript, Bytes(m))
            /\ keys' = [psk |-> m.who, client |-> clientRandom, server |-> serverRandom]
       ELSE UNCHANGED <<identity, transcript, keys>>
    /\ UNCHANGED <<clientRandom, serverRandom, msgSeq, epochOut, link, minted, queue, toClient>>

\* The client's Finished: its verify data are not looked at, but it must decrypt.
ClientFinished(m) ==
    /\ m.kind = "finished"
    /\ IF keys = KeysOf(m)
       THEN /\ transcript' = Append(transcript, Bytes(m))
            /\ epochOut' = 1 /\ msgSeq' = msgSeq + 1 /\ link' = "established"
            /\ Reply("finished", m, serverRandom, msgSeq, 1, transcript')
       ELSE UNCHANGED <<transcript, epochOut, msgSeq, link, toClient>>
    /\ UNCHANGED <<identity, clientRandom, serverRandom, keys, minted, queue>>

\* An application-data record: dropped before the handshake is over or if it does not decrypt,
\* else handed to the loop under the identity of the handshake.
ApplicationData(m) ==
    /\ m.kind = "frame"
    /\ IF link = "established" /\ keys = KeysOf(m)
       THEN /\ Len(queue) < MaxQueue
            /\ queue' = Append(queue, [from |-> m.who, as |-> identity])
       ELSE UNCHANGED queue
    /\ UNCHANGED <<server, toClient>>

\* Mutant: the callback asks the server for the identity when it runs.
OnFrameLate ==
    /\ queue # <<>>
    /\ heard' = heard \cup {[from |-> Head(queue).from, as |-> identity]}
    /\ queue' = Tail(queue)
    /\ UNCHANGED <<server, clients, toServer, toClient, losses, duplicates>>

\* The loop runs the callback of a frame.
OnFrame ==
    /\ queue # <<>>
    /\ heard' = heard \cup {Head(queue)}
    /\ queue' = Tail(queue)
    /\ UNCHANGED <<server, clients, toServer, toClient, losses, duplicates>>

\* A datagram that arrives is gone, unless the network delivers it again.
Receive(m) ==
    /\ CalmNetwork /\ m.kind = "finished" =>
           \A before \in toServer : before.kind # "exchange" \/ before.who # m.who
    /\ \/ toServer' = toServer \ {m} /\ UNCHANGED duplicates
       \/ duplicates < MaxDuplicates /\ duplicates' = duplicates + 1 /\ UNCHANGED toServer
    /\ \/ ClientHello(m) \/ ClientHelloCookie(m) \/ KeyExchange(m)
       \/ ClientFinished(m) \/ ApplicationData(m)
    /\ UNCHANGED <<heard, clients, losses>>

-----------------------------------------------------------------------------
(* The clients.                                                            *)

Message(kind, c, random) == [kind |-> kind, who |-> c, n |-> attempt[c], random |-> random]

\* What a client has sent last and would send again.
Flight(c) ==
    IF cpc[c] = "hello" THEN {Message("hello", c, 0)}
    ELSE IF cpc[c] = "cookie" THEN {Message("cookie", c, 0)}
    ELSE {Message("exchange", c, 0), Message("finished", c, peerRandom[c])}

\* The transcript of a client that has sent its Finished.
Expected(c) ==
    <<Bytes(Message("cookie", c, 0)), ServerFlight(peerRandom[c], 1),
      Bytes(Message("exchange", c, 0)), Bytes(Message("finished", c, peerRandom[c]))>>

Waiting(c) == cpc[c] \in {"hello", "cookie", "finish"}

TimerMayFire(c) ==
    CalmNetwork => \A m \in toServer \cup toClient : m.who # c \/ m.n # attempt[c]

\* A handshake begins; one that got no answer is given up for it.
Begin(c) ==
    /\ cpc[c] = "off" \/ (Waiting(c) /\ TimerMayFire(c))
    /\ attempt[c] < MaxAttempts
    /\ attempt' = [attempt EXCEPT ![c] = @ + 1]
    /\ cpc' = [cpc EXCEPT ![c] = "hello"] /\ resends' = [resends EXCEPT ![c] = 0]
    /\ toServer' = toServer \cup
                     {[kind |-> "hello", who |-> c, n |-> attempt[c] + 1, random |-> 0]}
    /\ UNCHANGED <<server, frames, peerRandom, toClient, losses, duplicates>>

Resend(c) ==
    /\ Waiting(c) /\ TimerMayFire(c) /\ resends[c] < MaxResends
    /\ resends' = [resends EXCEPT ![c] = @ + 1]
    /\ toServer' = toServer \cup Flight(c)
    /\ UNCHANGED <<server, frames, cpc, attempt, peerRandom, toClient, losses, duplicates>>

\* What a client waits for: the next handshake message, by its number, or a record it can read.
Awaited(c, m) ==
    /\ m.n = attempt[c]
    /\ \/ cpc[c] = "hello" /\ m.kind = "verify"
       \/ cpc[c] = "cookie" /\ m.kind = "flight" /\ m.seq = 1 /\ m.epoch = 0
       \/ cpc[c] = "finish" /\ m.kind = "finished" /\ m.random = peerRandom[c]

\* A client takes the answer it waits for, and drops any other.
Answered(c, m) ==
    /\ m.who = c /\ toClient' = toClient \ {m}
    /\ \/ /\ Awaited(c, m) /\ m.kind = "verify"
          /\ cpc' = [cpc EXCEPT ![c] = "cookie"]
          /\ toServer' = toServer \cup {Message("cookie", c, 0)}
          /\ UNCHANGED peerRandom
       \/ /\ Awaited(c, m) /\ m.kind = "flight"
          /\ cpc' = [cpc EXCEPT ![c] = "finish"]
          /\ peerRandom' = [peerRandom EXCEPT ![c] = m.random]
          /\ toServer' = toServer \cup
                           {Message("exchange", c, 0), Message("finished", c, m.random)}
       \/ /\ Awaited(c, m) /\ m.kind = "finished"
          /\ cpc' = [cpc EXCEPT ![c] = IF m.log = Expected(c) THEN "done" ELSE "off"]
          /\ UNCHANGED <<peerRandom, toServer>>
       \/ ~Awaited(c, m) /\ UNCHANGED <<cpc, peerRandom, toServer>>
    /\ UNCHANGED <<server, frames, attempt, resends, losses, duplicates>>

SendFrame(c) ==
    /\ cpc[c] = "done"
    /\ toServer' = toServer \cup {Message("frame", c, peerRandom[c])}
    /\ UNCHANGED <<server, frames, clients, toClient, losses, duplicates>>

-----------------------------------------------------------------------------
Lose ==
    /\ losses < MaxLosses /\ losses' = losses + 1
    /\ \/ \E m \in toServer : toServer' = toServer \ {m} /\ UNCHANGED toClient
       \/ \E m \in toClient : toClient' = toClient \ {m} /\ UNCHANGED toServer
    /\ UNCHANGED <<server, frames, clients, duplicates>>

\* The service restarts: a server in its initial state, and no frame waits any more.  The
\* clients are not told.
Restart ==
    /\ losses < MaxLosses /\ losses' = losses + 1
    /\ CalmNetwork => link = "handshake"
    /\ identity' = None /\ clientRandom' = None /\ serverRandom' = 0 /\ keys' = None
    /\ transcript' = <<>> /\ msgSeq' = 0 /\ epochOut' = 0 /\ link' = "handshake"
    /\ queue' = <<>>
    /\ UNCHANGED <<minted, heard, clients, toServer, toClient, duplicates>>

ClientStep(c) ==
    \/ Begin(c) \/ Resend(c) \/ SendFrame(c)
    \/ \E m \in toClient : Answered(c, m)

Next ==
    \/ \E m \in toServer : Receive(m)
    \/ \E c \in Client : ClientStep(c)
    \/ OnFrame \/ Lose \/ Restart

Spec == Init /\ [][Next]_vars

\* The thread reads its socket, the loop runs its callbacks, clients act on what they receive,
\* their timers fire, and a connected client keeps streaming.
Fairness ==
    /\ WF_vars(\E m \in toServer : Receive(m)) /\ WF_vars(OnFrame)
    /\ \A c \in Client :
          /\ WF_vars(Begin(c) \/ Resend(c)) /\ WF_vars(SendFrame(c))
          /\ WF_vars(\E m \in toClient : Answered(c, m))

FairSpec == Spec /\ Fairness

-----------------------------------------------------------------------------
\* A frame reaches the engine under the name of the TV that sent it, whatever handshakes of
\* others ran on the same attributes between its decryption and its callback.
FrameIdentity == \A f \in heard : f.as = f.from

\* Why: the server's keys are always those of the identity it names, and a frame in the queue
\* carries the identity it was decrypted under.
KeysInv == \A m \in Inbound : keys = KeysOf(m) => identity = m.who
QueueInv == \A k \in 1 .. Len(queue) : queue[k].as = queue[k].from
Inv == KeysInv /\ QueueInv /\ FrameIdentity

\* A paired TV that keeps trying gets a frame through, for all the datagrams that were lost.
Heard == \A c \in Paired : <>(\E f \in heard : f.as = c)
=============================================================================

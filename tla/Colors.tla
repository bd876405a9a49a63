------------------------------- MODULE Colors -------------------------------
(***************************************************************************)
(* The way of a colour through the bridge: from a TV's write (rest_v1.py,  *)
(* inbound.py) into the engine's buffers (engine.py, ingest.py), through   *)
(* the lights made from an entertainment area (controller.py, mapping.py), *)
(* to the frames the ticker sends.                                         *)
(*                                                                         *)
(* A colour is one component of it, a small number; the other two go the   *)
(* same way.  The stream's life is reduced to down, connecting and up (see *)
(* Engine for all of it).  Eased colours are fixed-point numbers with Unit *)
(* steps to a colour step, smoothing factors are parts of Parts; both      *)
(* stand for floats.  A channel's id is its place in the area: ids are     *)
(* unique there, and nothing else about them matters.                      *)
(***************************************************************************)
EXTENDS Integers, Sequences, FiniteSets, FiniteSetsExt, Functions

CONSTANTS
    TV, None,
    Area,           \* entertainment areas of the real bridge
    ChannelsOf,     \* area -> sequence of its channels, each the device it is part of
    Light,          \* bound on light ids
    MaxColor,       \* the brightest colour
    Frames,         \* HueStream frames a TV may send
    Bodies,         \* bodies a TV may write a light's state with
    Groups,         \* the lights of the groups a TV may make
    Factors,        \* what the file or a user may say stream_smoothing is
    Parts, MaxSmoothing,    \* 1.0 and MAX_STREAM_SMOOTHING
    Unit,
    MaxRequests,    \* bound on writes of the TVs and assignments in the web UI together
    MaxStreams      \* bound on streams opened

Color == 0 .. MaxColor

\* What a body may hold: some fields of a light's state.
Body ==
    [on : BOOLEAN] \cup [xy : Color] \cup [hs : Color] \cup [mode : {"hs"}, hs : Color]

ASSUME ColorsAssumption ==
    /\ None \notin TV \cup Area /\ Light \subseteq Nat \ {0}
    /\ ChannelsOf \in [Area -> Seq(Nat)] /\ \A a \in Area : DOMAIN ChannelsOf[a] \subseteq Light
    /\ Frames \subseteq [v2 : BOOLEAN, colors : Seq([target : Nat, color : Color])]
    /\ Bodies \subseteq Body /\ Groups \subseteq SUBSET Light
    /\ Factors \subseteq Int /\ MaxSmoothing < Parts /\ Unit > 0
    /\ {MaxColor, Parts, MaxSmoothing, Unit, MaxRequests, MaxStreams} \subseteq Nat

VARIABLES
    area, split, smoothing, lights,     \* of each TV, as the configuration has them
    assigning,                  \* assignments that wait for the bridge
    suspect,                    \* TVs whose last assignment overlapped another one or failed
    states,                     \* the emulator's light states, by TV and light
    buffer,                     \* target colours by light id, whoever wrote them
    smoothedFloat, smoothedBuffer, identify,
    streamOwner, live,          \* the stream: its owner, and how far it is
    streamArea, streamLights,   \* the area it is open on, and the lights it shows there
    streamSound,                \* the owner was not suspect then, nor being assigned
    frame,                      \* what the session sent last: commands, by light and channel
    requests, streams

config == <<area, split, smoothing, lights, assigning, suspect>>
inputs == <<states, buffer, requests>>
easing == <<smoothedFloat, smoothedBuffer, frame>>
stream == <<live, streamArea, streamLights, streamSound, streams>>
vars   == <<config, inputs, easing, identify, streamOwner, stream>>

State == [on : BOOLEAN, mode : {"xy", "hs"}, xy : Color, hs : Color]
VirtualLight == [id : Light, channels : SUBSET Nat]
Pending == [nr : 1 .. MaxRequests, tv : TV, area : Area]
Command == [light : Light, channel : Nat, color : Color]

TypeOK ==
    /\ area \in [TV -> Area \cup {None}] /\ split \in [TV -> BOOLEAN]
    /\ smoothing \in [TV -> Int] /\ lights \in [TV -> Seq(VirtualLight)]
    /\ assigning \subseteq Pending /\ suspect \subseteq TV
    /\ states \in [TV \X Light -> State]
    /\ buffer \in [Light -> Color]
    /\ smoothedFloat \in [Light -> (0 .. MaxColor * Unit) \cup {None}]
    /\ smoothedBuffer \in [Light -> Color] /\ identify \subseteq Light
    /\ streamOwner \in TV \cup {None} /\ live \in {"down", "connecting", "up"}
    /\ streamArea \in Area \cup {None} /\ streamLights \in Seq(VirtualLight)
    /\ streamSound \in BOOLEAN /\ frame \subseteq Command
    /\ requests \in 0 .. MaxRequests /\ streams \in 0 .. MaxStreams

-----------------------------------------------------------------------------
(* Lights and commands.                                                    *)

\* The devices that come up in the area no later than d, and so their number.
NoLater(channels, d) ==
    {channels[k] : k \in {j \in DOMAIN channels : \A i \in 1 .. (j - 1) : channels[i] # d}}

DeviceNumber(channels, d) == Cardinality(NoLater(channels, d))

\* Mutant: a device gets its first channel only.
LightsFromAreaFirst(a, splitGradients) ==
    LET channels == ChannelsOf[a]
    IN  [n \in 1 .. Cardinality(Range(channels)) |->
            [id |-> n,
             channels |-> {k \in DOMAIN channels :
                              /\ DeviceNumber(channels, channels[k]) = n
                              /\ \A j \in 1 .. (k - 1) : channels[j] # channels[k]}]]

\* One light per channel, or one per device with all its channels; numbered from 1.
LightsFromArea(a, splitGradients) ==
    LET channels == ChannelsOf[a]
    IN  IF splitGradients
        THEN [k \in DOMAIN channels |-> [id |-> k, channels |-> {k}]]
        ELSE [n \in 1 .. Cardinality(Range(channels)) |->
                 [id |-> n,
                  channels |-> {k \in DOMAIN channels :
                                   DeviceNumber(channels, channels[k]) = n}]]

Ids(ls) == {ls[k].id : k \in DOMAIN ls}

\* Every light paints all of its channels.
MapToCommands(ls, colors) ==
    UNION {{[light |-> ls[k].id, channel |-> c, color |-> colors[ls[k].id]] : c \in ls[k].channels}
              : k \in DOMAIN ls}

DefaultState == [on |-> TRUE, mode |-> "xy", xy |-> 0, hs |-> 0]

StateToRgb(s) == IF ~s.on THEN 0 ELSE IF s.mode = "hs" THEN s.hs ELSE s.xy

Init ==
    /\ area \in [TV -> Area \cup {None}] /\ split \in [TV -> BOOLEAN]
    /\ smoothing \in [TV -> Factors] /\ assigning = {} /\ suspect = {}
    /\ lights = [tv \in TV |-> IF area[tv] = None THEN <<>>
                               ELSE LightsFromArea(area[tv], split[tv])]
    /\ states = [k \in TV \X Light |-> DefaultState]
    /\ buffer = [l \in Light |-> 0]
    /\ smoothedFloat = [l \in Light |-> None] /\ smoothedBuffer = [l \in Light |-> 0]
    /\ identify = {} /\ streamOwner = None /\ live = "down"
    /\ streamArea = None /\ streamLights = <<>> /\ streamSound = FALSE /\ frame = {}
    /\ requests = 0 /\ streams = 0

-----------------------------------------------------------------------------
(* Writes.                                                                 *)

\* submit_color for each of some lights: they get new colours, and the sender is the owner from
\* then on if there is none.
Submit(tv, colors) ==
    /\ buffer' = [l \in Light |-> IF l \in DOMAIN colors THEN colors[l] ELSE buffer[l]]
    /\ streamOwner' = IF DOMAIN colors # {} /\ streamOwner = None THEN tv ELSE streamOwner
    /\ requests' = requests + 1

\* The fields of a body replace those of the state; nothing else changes.
Merged(s, body) == [f \in DOMAIN s |-> IF f \in DOMAIN body THEN body[f] ELSE s[f]]

\* PUT a light's state, with an alert or without.
LightState(tv, l, body, alert) ==
    /\ l \in Ids(lights[tv])
    /\ states' = [states EXCEPT ![<<tv, l>>] = Merged(@, body)]
    /\ identify' = IF alert = "select" THEN identify \cup {l}
                   ELSE IF alert = "none" THEN identify \ {l} ELSE identify
    /\ Submit(tv, [k \in {l} |-> StateToRgb(states'[<<tv, k>>])])
    /\ UNCHANGED <<config, easing, stream>>

\* PUT an action of a group: the same for each light in its list, the TV's own or not.
GroupAction(tv, ls, body) ==
    /\ states' = [k \in TV \X Light |->
                     IF k[1] = tv /\ k[2] \in ls THEN Merged(states[k], body) ELSE states[k]]
    /\ Submit(tv, [l \in ls |-> StateToRgb(states'[<<tv, l>>])])
    /\ UNCHANGED <<config, easing, identify, stream>>

\* The places of a frame that are read: in the old format up to a light id of 0.
Decoded(f) == {k \in DOMAIN f.colors : f.v2 \/ \A j \in 1 .. k : f.colors[j].target # 0}

\* Where its colours go: to the light with that id, or to the light with that index.
Resolved(tv, f) ==
    [k \in {j \in Decoded(f) : f.v2 => f.colors[j].target < Len(lights[tv])} |->
        [light |-> IF f.v2 THEN lights[tv][f.colors[k].target + 1].id ELSE f.colors[k].target,
         color |-> f.colors[k].color]]

\* Submitted in order: the last colour for a light stays.
OnFrame(tv, f) ==
    LET colors == Resolved(tv, f)
        places(l) == {k \in DOMAIN colors : colors[k].light = l}
    IN  /\ \A k \in DOMAIN colors : colors[k].light \in Light
        /\ Submit(tv, [l \in {colors[k].light : k \in DOMAIN colors} |->
                          colors[Max(places(l))].color])
        /\ UNCHANGED <<config, states, easing, identify, stream>>

-----------------------------------------------------------------------------
(* The web UI.                                                             *)

\* Mutant: the factor as the file has it.
CapRaw(s) == s

\* A factor of 1.0 would never let go of the old colour.
Cap(s) == IF s < 0 THEN 0 ELSE IF s > MaxSmoothing THEN MaxSmoothing ELSE s

Assigning(tv) == \E x \in assigning : x.tv = tv

\* Mutant: a new area alone does not ask for its lights.
AssignKeepsLights(tv, a, splitGradients, s) ==
    /\ requests' = requests + 1
    /\ area' = [area EXCEPT ![tv] = a] /\ split' = [split EXCEPT ![tv] = splitGradients]
    /\ smoothing' = IF s = None THEN smoothing ELSE [smoothing EXCEPT ![tv] = Cap(s)]
    /\ suspect' = IF Assigning(tv) THEN suspect \cup {tv} ELSE suspect \ {tv}
    /\ UNCHANGED <<lights, assigning, states, buffer, easing, identify, streamOwner, stream>>

\* An assignment: area and split change at once, and the smoothing if the body has one; then the
\* bridge is asked for the area.  Without one the lights are gone at once.
Assign(tv, a, splitGradients, s) ==
    /\ requests' = requests + 1
    /\ area' = [area EXCEPT ![tv] = a] /\ split' = [split EXCEPT ![tv] = splitGradients]
    /\ smoothing' = IF s = None THEN smoothing ELSE [smoothing EXCEPT ![tv] = Cap(s)]
    /\ suspect' = IF Assigning(tv) THEN suspect \cup {tv} ELSE suspect \ {tv}
    /\ IF a = None
       THEN lights' = [lights EXCEPT ![tv] = <<>>] /\ UNCHANGED assigning
       ELSE /\ assigning' = assigning \cup {[nr |-> requests', tv |-> tv, area |-> a]}
            /\ UNCHANGED lights
    /\ UNCHANGED <<states, buffer, easing, identify, streamOwner, stream>>

\* The smoothing in the body is no number: float() raises when area and split were changed, and
\* the lights are not made.
AssignRaises(tv, a, splitGradients) ==
    /\ requests' = requests + 1
    /\ <<a, splitGradients>> # <<area[tv], split[tv]>>
    /\ area' = [area EXCEPT ![tv] = a] /\ split' = [split EXCEPT ![tv] = splitGradients]
    /\ suspect' = suspect \cup {tv}
    /\ UNCHANGED <<smoothing, lights, assigning, states, buffer, easing, identify, streamOwner,
                   stream>>

\* The areas are known: the lights are those of the area it asked about, whatever the TV's is now,
\* split as the TV says now; and none if that area is not found.
Rebuild(x, found) ==
    /\ x \in assigning /\ assigning' = assigning \ {x}
    /\ lights' = [lights EXCEPT ![x.tv] = IF found THEN LightsFromArea(x.area, split[x.tv])
                                         ELSE <<>>]
    /\ UNCHANGED <<area, split, smoothing, suspect, inputs, easing, identify,
                   streamOwner, stream>>

\* Asking raised (not one of _PAIR_ERRORS), or saving the answer did: the request ends there.
RebuildFails(x) ==
    /\ x \in assigning /\ assigning' = assigning \ {x} /\ suspect' = suspect \cup {x.tv}
    /\ UNCHANGED <<area, split, smoothing, lights, inputs, easing, identify,
                   streamOwner, stream>>

\* An edit of nothing but the smoothing leaves the lights alone.  (One that raises changes
\* nothing.)
SetSmoothing(tv, s) ==
    /\ requests' = requests + 1
    /\ smoothing' = [smoothing EXCEPT ![tv] = Cap(s)]
    /\ UNCHANGED <<area, split, lights, assigning, suspect, states, buffer, easing, identify,
                   streamOwner, stream>>

-----------------------------------------------------------------------------
(* The stream.                                                             *)

\* The start task resolves the owner's area and lights; there is none without an area.
StartStream ==
    /\ live = "down" /\ streamOwner # None /\ streams < MaxStreams
    /\ area[streamOwner] # None
    /\ live' = "connecting" /\ streams' = streams + 1
    /\ streamArea' = area[streamOwner] /\ streamLights' = lights[streamOwner]
    /\ streamSound' = (streamOwner \notin suspect /\ ~Assigning(streamOwner))
    /\ UNCHANGED <<config, inputs, easing, identify, streamOwner>>

StartConnected ==
    /\ live = "connecting" /\ live' = "up"
    /\ UNCHANGED <<config, inputs, easing, identify, streamOwner, streamArea, streamLights,
                   streamSound, streams>>

\* The owner's smoothing, off without an owner.
ResolveSmoothing == IF streamOwner = None THEN 0 ELSE smoothing[streamOwner]

\* Mutant: past the next whole number, not to the nearest.
RoundUp(n, d) == n \div d + 1

\* To the nearest whole number, a half to the even one.
Nearest(n, d) ==
    LET q == n \div d
        r == 2 * (n % d)
    IN  IF r > d \/ (r = d /\ q % 2 = 1) THEN q + 1 ELSE q

Eased(l) ==
    LET s == Cap(ResolveSmoothing)
        goal == buffer[l] * Unit
    IN  IF smoothedFloat[l] = None \/ s = 0 THEN goal
        ELSE Nearest(s * smoothedFloat[l] + (Parts - s) * goal, Parts)

\* One tick: ease the stream's lights, lay the blinks over them, send a frame.
Tick(blink) ==
    /\ live = "up"
    /\ LET mine == Ids(streamLights)
       IN  /\ smoothedFloat' = [l \in Light |-> IF l \in mine THEN Eased(l) ELSE smoothedFloat[l]]
           /\ smoothedBuffer' = [l \in Light |->
                 IF l \in identify THEN blink
                 ELSE IF l \in mine THEN Nearest(Eased(l), Unit) ELSE smoothedBuffer[l]]
    /\ frame' = MapToCommands(streamLights, smoothedBuffer')
    /\ UNCHANGED <<config, inputs, identify, streamOwner, stream>>

\* A blink runs out.
IdentifyExpires(l) ==
    /\ l \in identify /\ identify' = identify \ {l}
    /\ UNCHANGED <<config, inputs, easing, streamOwner, stream>>

\* Mutant: what was eased for one stream is still there for the next.
TeardownKeeps ==
    /\ live \in {"connecting", "up"} /\ live' = "down"
    /\ streamOwner' = None
    /\ streamArea' = None /\ streamLights' = <<>> /\ streamSound' = FALSE
    /\ identify' = {} /\ frame' = {}
    /\ UNCHANGED <<config, inputs, smoothedFloat, smoothedBuffer, streams>>

\* The stream idled out, died or was stopped: the colours stay in the buffer.
Teardown ==
    /\ live \in {"connecting", "up"} /\ live' = "down"
    /\ streamOwner' = None
    /\ streamArea' = None /\ streamLights' = <<>> /\ streamSound' = FALSE
    /\ smoothedFloat' = [l \in Light |-> None] /\ identify' = {} /\ frame' = {}
    /\ UNCHANGED <<config, inputs, smoothedBuffer, streams>>

-----------------------------------------------------------------------------
Write(tv) ==
    \/ \E body \in Bodies :
          \/ \E ls \in Groups \cup {Ids(lights[tv])} : GroupAction(tv, ls, body)
          \/ \E l \in Light, alert \in {"absent", "select", "none"} : LightState(tv, l, body, alert)
    \/ \E f \in Frames : OnFrame(tv, f)

Edit(tv) ==
    \/ \E a \in Area \cup {None}, splitGradients \in BOOLEAN :
          \/ \E s \in Factors \cup {None} : Assign(tv, a, splitGradients, s)
          \/ AssignRaises(tv, a, splitGradients)
    \/ \E s \in Factors : SetSmoothing(tv, s)

Next ==
    \/ requests < MaxRequests /\ \E tv \in TV : Write(tv) \/ Edit(tv)
    \/ \E x \in assigning : RebuildFails(x) \/ \E found \in BOOLEAN : Rebuild(x, found)
    \/ StartStream \/ StartConnected \/ Teardown
    \/ \E blink \in {0, MaxColor} : Tick(blink)
    \/ \E l \in Light : IdentifyExpires(l)

Spec == Init /\ [][Next]_vars

\* The ticker ticks and blinks run out; nothing else has to happen.
Fairness ==
    /\ WF_vars(\E blink \in {0, MaxColor} : Tick(blink))
    /\ \A l \in Light : WF_vars(IdentifyExpires(l))

FairSpec == Spec /\ Fairness

-----------------------------------------------------------------------------
\* What a frame shows on channel c.
Shown(c) == {cmd.color : cmd \in {x \in frame : x.channel = c}}

\* Every frame drives each channel of the area the session is open on exactly once: the lights
\* the stream was opened with partition that area, split or merged, whatever was assigned since.
\* So it is unless the owner's last assignment was under way then, overlapped another one of the
\* TV or failed (web/server.py 118-147 has no lock, and no way back).
WholeArea ==
    frame # {} /\ streamSound =>
        /\ {cmd.channel : cmd \in frame} = DOMAIN ChannelsOf[streamArea]
        /\ \A x, y \in frame : x.channel = y.channel => x = y

\* The k-th light of the stream is shown as the buffer has it.
OnTarget(k) == \A c \in streamLights[k].channels : Shown(c) = {buffer[streamLights[k].id]}

\* The first frame of a stream shows the targets at once (no fade from what an earlier stream
\* last eased to, engine.py 230-232), blinking lights excepted.
FreshStart ==
    [][frame = {} /\ frame' # {} =>
          \A k \in DOMAIN streamLights : streamLights[k].id \notin identify => OnTarget(k)']_vars

Between(x, a, b) == (a <= x /\ x <= b) \/ (b <= x /\ x <= a)

\* Whatever factor the file or a user asks for, easing never overshoots: a frame shows each light
\* that does not blink somewhere between what it was eased to and its target (engine.py 226).
NoOvershoot ==
    [][\A k \in DOMAIN streamLights' :
          LET l == streamLights[k].id
          IN  frame' # frame /\ l \notin identify /\ smoothedFloat[l] # None =>
                 \A c \in streamLights[k].channels : \A x \in Shown(c)' :
                    Between(x, Nearest(smoothedFloat[l], Unit), buffer[l])]_vars

\* When the TVs stop writing, a stream that stays up comes to show the last colours, and only
\* them: easing converges and a blink leaves nothing behind (const.py 58-60).
Settles == <>[](live = "up") => <>[](\A k \in DOMAIN streamLights : OnTarget(k))

=============================================================================

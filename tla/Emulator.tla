------------------------------ MODULE Emulator ------------------------------
(***************************************************************************)
(* The Hue v1 REST emulator (emulator/rest_v1.py) and the inbound stream   *)
(* (emulator/inbound.py) on top of the engine they call.                   *)
(*                                                                         *)
(* A request body is read before its handler runs (log_requests), so a     *)
(* handler is atomic up to the await of stop_stream() in a DELETE, which   *)
(* goes on as a caller of the engine's stop().  A group is the state of    *)
(* its stream: no group at all, not an entertainment group, not streaming, *)
(* or streaming for the TV named as its owner.                             *)
(*                                                                         *)
(* The web UI may delete a TV (web/server.py).  Its requests are refused   *)
(* from then on, but its DTLS session goes on.                             *)
(***************************************************************************)
EXTENDS Engine

CONSTANTS
    GroupId,        \* ids a group may have; the counter of new ids starts at 1
    NoGroup         \* no group has the id

ASSUME GroupAssumption ==
    /\ GroupId \subseteq Nat \ {0}
    /\ NoGroup \notin {"plain", "off"} \cup TV

VARIABLES
    groups,         \* id -> NoGroup, "plain", "off", or the TV its stream is active for
    nextId,         \* id of the next group a POST creates
    known           \* the TVs that are paired

bridgeVars == <<vars, groups, nextId, known>>

MaxId == CHOOSE n \in GroupId : \A g \in GroupId : g <= n

EmulatorTypeOK ==
    /\ groups \in [GroupId -> {NoGroup, "plain", "off"} \cup TV]
    /\ nextId \in 1 .. MaxId + 1 /\ known \subseteq TV

EmulatorInit == Init /\ groups = [g \in GroupId |-> NoGroup] /\ nextId = 1 /\ known = TV

\* A request of a TV that is paired; any other one is answered with an error.
Authorized(tv) == tv \in on \cap known

-----------------------------------------------------------------------------
(* Groups.                                                                 *)

\* POST groups: a group of the requested type under the next id, whatever is stored there.
CreateGroup(tv, kind) ==
    /\ Authorized(tv) /\ nextId \in GroupId
    /\ groups' = [groups EXCEPT ![nextId] = kind]
    /\ nextId' = nextId + 1
    /\ UNCHANGED vars

\* Mutant: the guard looks at nobody.
DeniedNever(tv) == FALSE

\* The single-stream guard: another TV is streaming right now.
Denied(tv) == IsStreaming /\ streamOwner \notin {None, tv}

\* Mutant: the group names whoever owns the engine's stream, not the TV that asked.
ActivateForOwner(tv, g) ==
    /\ Authorized(tv)
    /\ IF Denied(tv)
       THEN UNCHANGED <<vars, groups>>
       ELSE groups' = [groups EXCEPT ![g] = streamOwner] /\ StartStream(tv)
    /\ UNCHANGED nextId

\* PUT stream.active = true: denied, or the group is found or made and the engine started.
Activate(tv, g) ==
    /\ Authorized(tv)
    /\ IF Denied(tv)
       THEN UNCHANGED <<vars, groups>>
       ELSE groups' = [groups EXCEPT ![g] = tv] /\ StartStream(tv)
    /\ UNCHANGED nextId

\* PUT stream.active = false: the group only; the engine is left to idle out.
Deactivate(tv, g) ==
    /\ Authorized(tv)
    /\ groups' = [groups EXCEPT ![g] = "off"]
    /\ UNCHANGED <<vars, nextId>>

\* DELETE: forget the group; if it existed and anything is streaming, await stop_stream().
DeleteGroup(tv, g, c) ==
    /\ Authorized(tv)
    /\ groups' = [groups EXCEPT ![g] = NoGroup]
    /\ IF groups[g] # NoGroup /\ IsStreaming THEN Stop(c) ELSE UNCHANGED vars
    /\ UNCHANGED nextId

-----------------------------------------------------------------------------
(* Colours.  Only their effect on the engine's life is modelled here.      *)

HasLights(tv) == assign[tv] # NoArea

\* PUT lights/<l>/state: an alert starts or cancels a blink; the colour follows either way.
LightState(tv, l, alert) ==
    /\ Authorized(tv) /\ HasLights(tv)
    /\ Inbound(Adopted(tv))
    /\ identify' = IF alert = "none" THEN identify \ {l}
                   ELSE IF alert = "select" THEN identify \cup {l} ELSE identify
    /\ UNCHANGED <<groups, nextId>>

\* PUT groups/<g>/action: one colour for each light of a group that has any; group 0
\* is the TV's lights.
GroupAction(tv, g) ==
    /\ Authorized(tv)
    /\ IF g = 0 THEN HasLights(tv) ELSE groups[g] # NoGroup
    /\ SubmitColor(tv)
    /\ UNCHANGED <<groups, nextId>>

\* A HueStream frame.  Light ids of the old format are taken as they come, so even a TV
\* without lights gets through; channel indices of the new one need lights.
Frame(tv, v2) ==
    /\ v2 => HasLights(tv)
    /\ SubmitColor(tv)
    /\ UNCHANGED <<groups, nextId>>

\* DELETE a TV in the web UI: it has no area any more; a stream it owns is stopped.
DeleteTV(tv, c) ==
    /\ tv \in known /\ known' = known \ {tv}
    /\ assign' = [assign EXCEPT ![tv] = NoArea]
    /\ IF streamOwner = tv
       THEN Halt(c)
       ELSE UNCHANGED <<attrs, startTask, clock, starts, actors, health, net>>
    /\ UNCHANGED <<bridge, on, faults, edits, groups, nextId>>

-----------------------------------------------------------------------------
GroupRequest(tv) ==
    \/ \E kind \in {"plain", "off"} : CreateGroup(tv, kind)
    \/ \E g \in GroupId : \/ Activate(tv, g) \/ Deactivate(tv, g)
                          \/ \E c \in Stopper : DeleteGroup(tv, g, c)

ColourRequest(tv) ==
    \/ \E l \in Light, alert \in {"absent", "none", "select"} : LightState(tv, l, alert)
    \/ \E g \in GroupId \cup {0} : GroupAction(tv, g)
    \/ \E v2 \in BOOLEAN : Frame(tv, v2)

EmulatorNext ==
    \/ \E tv \in TV : (GroupRequest(tv) \/ ColourRequest(tv)) /\ UNCHANGED known
    \/ \E tv \in TV, c \in Stopper : DeleteTV(tv, c)
    \/ Internal /\ UNCHANGED <<groups, nextId, known>>

EmulatorSpec == EmulatorInit /\ [][EmulatorNext]_bridgeVars

-----------------------------------------------------------------------------
\* While a TV owns the live stream, no request of another TV takes it over: the owner changes
\* only through a teardown, which leaves nobody (the guard of rest_v1.py 377-389 and the
\* adoption rule of engine.py 118-121, against every order of requests and teardowns).
NoTakeover ==
    [][IsStreaming /\ streamOwner # None /\ streamOwner' # streamOwner
          => streamOwner' = None]_bridgeVars

=============================================================================

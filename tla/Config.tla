------------------------------- MODULE Config -------------------------------
(***************************************************************************)
(* The persisted configuration (config/store.py), the operations of the    *)
(* web UI and of the pairing manager on it (web/server.py, pairing.py,     *)
(* outbound/controller.py), the identity that is locked into it (app.py),  *)
(* and the command line's pairing, a second process with its own copy      *)
(* (__main__.py).                                                          *)
(*                                                                         *)
(* Every operation works on one in-memory Config and writes all of it with *)
(* save().  Operations that ask a real bridge something, or stop a stream, *)
(* await in the middle, and others run meanwhile.  The service may be      *)
(* killed at any point and starts again from the file; a handler may raise *)
(* half-way, and so may any save().  The lights of a TV are what they were *)
(* built from: an area and the way its gradients were split.  Fields no    *)
(* property tells apart (names, keys' values, smoothing) are left out.     *)
(***************************************************************************)
EXTENDS Naturals, Sequences, SequencesExt

CONSTANTS
    User,           \* usernames that pairings may mint; none is minted twice
    Host,           \* real bridges; a bridge's id is made from its host
    ByWeb, ByCli,   \* those that the web UI pairs with, and those that the command line does
    Area,           \* entertainment areas
    AreasOf,        \* host -> sequence of the areas configured on it
    NoArea,         \* "": the area of an unassigned TV
    Mac,            \* addresses getnode() may make up
    None,           \* Python's None, and "" for the active bridge and the address
    Request,        \* bound on web requests in flight
    MaxMishaps,     \* bound on kills of the service and requests that raise, taken together
    MaxPairs        \* bound on uses of the command line's pairing

ASSUME ConfigAssumption ==
    /\ AreasOf \in [Host -> Seq(Area)]
    /\ ByWeb \subseteq Host /\ ByCli \subseteq Host
    /\ NoArea \notin Area /\ None \notin Host \cup User \cup Mac
    /\ MaxMishaps \in Nat /\ MaxPairs \in Nat

VARIABLES
    users, area, split, lights,     \* paired TVs, their assignment and their lights
    bridges, cached, active,        \* configured bridges, in order; cached areas; the active id
    mac,                            \* the bridge's address, which its identity is made from
    disk,                           \* the file: a record of the eight above
    up,                             \* whether the service runs
    snap, cliHost,                  \* the command line's own copy, and the bridge it pairs with
    cut,                            \* TVs whose assignment that copy may have cut in two
    pc, onUser, onArea, onHost,     \* requests in flight: where they wait, on what
    orphan,                         \* whether the bridge they wait for was deleted meanwhile
    minted,                         \* usernames given out
    removed, paired, told,          \* deletions and pairings that were reported and addresses
                                    \* that TVs saw, while nobody held a copy that differs
    suspect,                        \* TVs whose last assignment was overlapped, failed or cut
    ahead,                          \* whether a request failed, or the command line wrote the
                                    \* file, since the service's last save
    mishaps, pairs                  \* how many of them there were

memory  == <<users, area, split, lights, bridges, cached, active>>
service == <<mac, up>>
cli     == <<snap, cliHost, cut>>
request == <<pc, onUser, onArea, onHost, orphan>>
reports == <<minted, removed, paired>>
file    == <<disk, ahead, mishaps>>
own     == <<service, cli, told, pairs>>     \* what no request changes
vars    == <<memory, file, request, reports, suspect, own>>

Lights == [area : Area, split : {"zones", "devices"}] \cup {None}

Contents == [users |-> users, area |-> area, split |-> split, lights |-> lights,
             bridges |-> bridges, cached |-> cached, active |-> active, mac |-> mac]

\* A Config() with nothing in it.
Empty == [users |-> {}, area |-> [u \in User |-> NoArea], split |-> [u \in User |-> "zones"],
          lights |-> [u \in User |-> None], bridges |-> <<>>, cached |-> {}, active |-> None,
          mac |-> None]

Files == [users : SUBSET User, area : [User -> Area \cup {NoArea}],
          split : [User -> {"zones", "devices"}], lights : [User -> Lights],
          bridges : Seq(Host), cached : SUBSET Host, active : Host \cup {None},
          mac : Mac \cup {None}]

Mishap == mishaps < MaxMishaps /\ mishaps' = mishaps + 1

\* save(): the whole configuration, in one atomic replacement of the file; or an OSError, which
\* ends the request and leaves the memory ahead of the file.
Save(ok) ==
    IF ok THEN disk' = Contents' /\ ahead' = FALSE /\ UNCHANGED mishaps
    ELSE UNCHANGED disk /\ ahead' = TRUE /\ Mishap

TypeOK ==
    /\ users \subseteq User
    /\ area \in [User -> Area \cup {NoArea}]
    /\ split \in [User -> {"zones", "devices"}]
    /\ lights \in [User -> Lights]
    /\ bridges \in Seq(Host) /\ IsInjective(bridges)
    /\ cached \subseteq Host /\ active \in Host \cup {None}
    /\ mac \in Mac \cup {None} /\ disk \in Files /\ up \in BOOLEAN
    /\ snap \in Files \cup {None} /\ cliHost \in Host \cup {None} /\ cut \subseteq User
    /\ pc \in [Request -> {"idle", "assign", "rebuild", "areas", "pair", "stop"}]
    /\ onUser \in [Request -> User \cup {None}]
    /\ onArea \in [Request -> Area \cup {NoArea}]
    /\ onHost \in [Request -> Host \cup {None}]
    /\ orphan \in [Request -> {"no", "bare", "cached"}]
    /\ minted \subseteq User /\ removed \subseteq User
    /\ paired \subseteq Host /\ told \subseteq Mac /\ suspect \subseteq User /\ ahead \in BOOLEAN
    /\ mishaps \in 0 .. MaxMishaps /\ pairs \in 0 .. MaxPairs

NoRequests ==
    /\ pc = [r \in Request |-> "idle"] /\ onUser = [r \in Request |-> None]
    /\ onArea = [r \in Request |-> NoArea] /\ onHost = [r \in Request |-> None]
    /\ orphan = [r \in Request |-> "no"]

Init ==
    /\ users = Empty.users /\ area = Empty.area /\ split = Empty.split
    /\ lights = Empty.lights /\ bridges = Empty.bridges /\ cached = Empty.cached
    /\ active = Empty.active /\ mac = Empty.mac
    /\ disk = Empty /\ up = FALSE /\ snap = None /\ cliHost = None /\ cut = {} /\ ahead = FALSE
    /\ NoRequests
    /\ minted = {} /\ removed = {} /\ paired = {} /\ told = {} /\ suspect = {}
    /\ mishaps = 0 /\ pairs = 0

-----------------------------------------------------------------------------
Listed(h, s) == \E k \in 1 .. Len(s) : s[k] = h

Configured(h) == Listed(h, bridges)

\* The active bridge, or the first one if the active id names none of them.
ActiveBridge ==
    IF Configured(active) THEN active
    ELSE IF bridges = <<>> THEN None ELSE bridges[1]

Has(h, a) == Listed(a, AreasOf[h])

\* lights_from_area, and no lights for an area that was not found.
Built(found, a, s) == IF found THEN [area |-> a, split |-> s] ELSE None

\* The service runs.  A handler that has saved once and will save again without an await in
\* between: nothing else runs on the loop meanwhile, but the process can be killed there.
Quiet == up /\ \A r \in Request : pc[r] # "rebuild"

\* Whether an assignment of the TV is under way.
Assigning(u) == \E r \in Request : pc[r] \in {"assign", "rebuild"} /\ onUser[r] = u

Await(r, where, u, a, h) ==
    /\ pc' = [pc EXCEPT ![r] = where] /\ onUser' = [onUser EXCEPT ![r] = u]
    /\ onArea' = [onArea EXCEPT ![r] = a] /\ onHost' = [onHost EXCEPT ![r] = h]
    /\ orphan' = [orphan EXCEPT ![r] = IF where = "rebuild" THEN @ ELSE "no"]

Return(r) == Await(r, "idle", None, NoArea, None)

-----------------------------------------------------------------------------
(* TVs.                                                                    *)

\* POST /api: a new username, assigned to the first area the active bridge is known to have.
PairTV(u, ok) ==
    /\ Quiet /\ u \notin minted
    /\ minted' = minted \cup {u} /\ users' = users \cup {u}
    /\ split' = [split EXCEPT ![u] = "zones"]
    /\ IF ActiveBridge \in cached /\ AreasOf[ActiveBridge] # <<>>
       THEN LET a == AreasOf[ActiveBridge][1]
            IN  /\ area' = [area EXCEPT ![u] = a]
                /\ lights' = [lights EXCEPT ![u] = Built(TRUE, a, "zones")]
       ELSE UNCHANGED <<area, lights>>
    /\ UNCHANGED <<bridges, cached, active, request, removed, paired, suspect>>
    /\ Save(ok)

\* Mutant: a TV that loses its area keeps its lights.
AssignKeepsLights(r, u, a, s, ok) ==
    /\ Quiet /\ pc[r] = "idle" /\ u \in users
    /\ area' = [area EXCEPT ![u] = a] /\ split' = [split EXCEPT ![u] = s]
    /\ suspect' = IF Assigning(u) \/ ~ok THEN suspect \cup {u} ELSE suspect \ {u}
    /\ UNCHANGED <<users, lights, bridges, cached, active, reports>>
    /\ IF a # NoArea /\ ActiveBridge # None
       THEN ok /\ Await(r, "assign", u, a, ActiveBridge) /\ UNCHANGED file
       ELSE UNCHANGED request /\ Save(ok)

\* A new area or split: with an area, ask the active bridge for its areas before anything is
\* saved; without one, or without a bridge, the TV has no lights.
Assign(r, u, a, s, ok) ==
    /\ Quiet /\ pc[r] = "idle" /\ u \in users
    /\ area' = [area EXCEPT ![u] = a] /\ split' = [split EXCEPT ![u] = s]
    /\ suspect' = IF Assigning(u) \/ ~ok THEN suspect \cup {u} ELSE suspect \ {u}
    /\ UNCHANGED <<users, bridges, cached, active, reports>>
    /\ IF a # NoArea /\ ActiveBridge # None
       THEN ok /\ Await(r, "assign", u, a, ActiveBridge) /\ UNCHANGED <<lights, file>>
       ELSE lights' = [lights EXCEPT ![u] = None] /\ UNCHANGED request /\ Save(ok)

\* The smoothing in the body is no number: float() raises when area and split were changed, and
\* neither are the lights made nor is anything saved.
AssignRaises(u, a, s) ==
    /\ Quiet /\ u \in users /\ <<a, s>> # <<area[u], split[u]>>
    /\ area' = [area EXCEPT ![u] = a] /\ split' = [split EXCEPT ![u] = s]
    /\ suspect' = suspect \cup {u} /\ ahead' = TRUE /\ Mishap
    /\ UNCHANGED <<users, lights, bridges, cached, active, request, reports, disk>>

\* The TV whose assignment ends here, if it fails.
Doubt(r, failed) == suspect' = IF failed THEN suspect \cup {onUser[r]} ELSE suspect

\* The end of an assignment: the lights of the area it asked about, split as the TV says now.
\* A TV that was deleted meanwhile is in no list any more.
Rebuild(r, found, ok) ==
    /\ LET u == onUser[r]
       IN  lights' = IF u \in users
                     THEN [lights EXCEPT ![u] = Built(found, onArea[r], split[u])]
                     ELSE lights
    /\ Return(r) /\ Doubt(r, ~ok)
    /\ UNCHANGED <<users, area, split, bridges, cached, active, reports>>
    /\ Save(ok)

AssignRebuilds(r, ok) ==
    /\ pc[r] = "rebuild" /\ Rebuild(r, Has(onHost[r], onArea[r]), ok)

\* A change of the smoothing alone: nothing that is modelled, but everything is saved.  (One that
\* raises changes nothing at all.)
Smooth(u, ok) ==
    /\ Quiet /\ u \in users
    /\ UNCHANGED <<memory, request, reports, suspect>> /\ Save(ok)

\* A deletion is answered with success, and the command line's copy does not know the TV either.
Deleted(u, ok) ==
    removed' = IF ok /\ (snap # None => u \notin snap.users) THEN removed \cup {u} ELSE removed

\* DELETE a TV: out of the list, its stream stopped if it is the owner, then saved.
DeleteTV(r, u, owner, ok) ==
    /\ Quiet /\ pc[r] = "idle" /\ u \in users
    /\ users' = users \ {u}
    /\ area' = [area EXCEPT ![u] = NoArea] /\ split' = [split EXCEPT ![u] = "zones"]
    /\ lights' = [lights EXCEPT ![u] = None]
    /\ UNCHANGED <<bridges, cached, active, minted, paired, suspect>>
    /\ IF owner
       THEN ok /\ Await(r, "stop", u, NoArea, None) /\ UNCHANGED <<file, removed>>
       ELSE Deleted(u, ok) /\ UNCHANGED request /\ Save(ok)

\* Mutant: saved before the list was changed, not after.
DeleteStoppedUnsaved(r, ok) ==
    /\ Quiet /\ pc[r] = "stop"
    /\ Deleted(onUser[r], ok) /\ Return(r)
    /\ UNCHANGED <<memory, file, minted, paired, suspect>>

\* stop_stream() returned: save and answer.  Or it raised, as the save may: the request fails
\* half-way.
DeleteStopped(r, ok) ==
    /\ Quiet /\ pc[r] = "stop"
    /\ Deleted(onUser[r], ok) /\ Return(r)
    /\ UNCHANGED <<memory, minted, paired, suspect>>
    /\ Save(ok)

-----------------------------------------------------------------------------
(* Areas and bridges.                                                      *)

ListAreas(r) ==
    /\ Quiet /\ pc[r] = "idle" /\ ActiveBridge # None
    /\ Await(r, "areas", None, NoArea, ActiveBridge)
    /\ UNCHANGED <<memory, file, reports, suspect>>

\* The bridge answered: cache its areas and save; an assignment then rebuilds the lights.  The
\* cache of a bridge that was deleted meanwhile is in no list any more.
AreasAnswered(r, ok) ==
    /\ Quiet /\ pc[r] \in {"assign", "areas"}
    /\ cached' = IF orphan[r] = "no" THEN cached \cup {onHost[r]} ELSE cached
    /\ IF pc[r] = "assign" /\ ok THEN Await(r, "rebuild", onUser[r], onArea[r], onHost[r])
       ELSE Return(r)
    /\ Doubt(r, pc[r] = "assign" /\ ~ok)
    /\ UNCHANGED <<users, area, split, lights, bridges, active, reports>>
    /\ Save(ok)

\* The bridge did not answer: go by the cache of the bridge that was asked.
AreasFailed(r, ok) ==
    /\ Quiet /\ pc[r] \in {"assign", "areas"}
    /\ LET known == orphan[r] = "cached" \/ (orphan[r] = "no" /\ onHost[r] \in cached)
       IN  IF pc[r] = "assign"
           THEN Rebuild(r, known /\ Has(onHost[r], onArea[r]), ok)
           ELSE ok /\ Return(r) /\ UNCHANGED <<memory, file, reports, suspect>>

\* Asking raised something else (not one of _PAIR_ERRORS): the request ends there.
AreasRaise(r) ==
    /\ Quiet /\ pc[r] \in {"assign", "areas"}
    /\ ahead' = (ahead \/ pc[r] = "assign")
    /\ Return(r) /\ Doubt(r, pc[r] = "assign") /\ Mishap
    /\ UNCHANGED <<memory, reports, disk>>

PairBridge(r, h) ==
    /\ Quiet /\ pc[r] = "idle"
    /\ Await(r, "pair", None, NoArea, h)
    /\ UNCHANGED <<memory, file, reports, suspect>>

\* A pairing is reported, and the command line's copy has the bridge too.
Reported(h, ok) ==
    paired' = IF ok /\ (snap # None => Listed(h, snap.bridges)) THEN paired \cup {h} ELSE paired

\* Mutant: a bridge that is paired again is listed again.
BridgePairedTwice(r, ok) ==
    /\ Quiet /\ pc[r] = "pair"
    /\ bridges' = IF Len(bridges) < 3 THEN Append(bridges, onHost[r]) ELSE bridges
    /\ active' = onHost[r] /\ Reported(onHost[r], ok) /\ Return(r)
    /\ UNCHANGED <<users, area, split, lights, cached, minted, removed, suspect>>
    /\ Save(ok)

\* The link button was pressed: update or append the bridge, make it the active one, save.
BridgePaired(r, ok) ==
    /\ Quiet /\ pc[r] = "pair"
    /\ bridges' = IF Configured(onHost[r]) THEN bridges ELSE Append(bridges, onHost[r])
    /\ active' = onHost[r] /\ Reported(onHost[r], ok)
    /\ Return(r)
    /\ UNCHANGED <<users, area, split, lights, cached, minted, removed, suspect>>
    /\ Save(ok)

PairFails(r) ==
    /\ Quiet /\ pc[r] = "pair" /\ Return(r)
    /\ UNCHANGED <<memory, file, reports, suspect>>

\* Mutant: switched in memory only.
ActivateUnsaved(h, ok) ==
    /\ Quiet /\ Configured(h) /\ active' = h
    /\ UNCHANGED <<users, area, split, lights, bridges, cached, file, request, reports, suspect>>

\* PUT a bridge: make it the active one.
Activate(h, ok) ==
    /\ Quiet /\ Configured(h) /\ active' = h
    /\ UNCHANGED <<users, area, split, lights, bridges, cached, request, reports, suspect>>
    /\ Save(ok)

\* Requests that wait for the deleted bridge go on with the object they hold.
Orphans(h) ==
    orphan' = [r \in Request |->
                  IF pc[r] \in {"assign", "areas"} /\ onHost[r] = h /\ orphan[r] = "no"
                  THEN IF h \in cached THEN "cached" ELSE "bare"
                  ELSE orphan[r]]

\* Mutant: the active id is left alone.
DeleteBridgeKeeps(h, ok) ==
    /\ Quiet /\ Configured(h)
    /\ bridges' = RemoveFirst(bridges, h) /\ cached' = cached \ {h} /\ Orphans(h)
    /\ paired' = paired \ {h}
    /\ UNCHANGED <<active, users, area, split, lights, pc, onUser, onArea, onHost, minted,
                   removed, suspect>>
    /\ Save(ok)

\* DELETE a bridge; its cache goes with it, and the active id if it was this one's.
DeleteBridge(h, ok) ==
    /\ Quiet /\ Configured(h)
    /\ bridges' = RemoveFirst(bridges, h) /\ cached' = cached \ {h}
    /\ active' = IF active = h THEN None ELSE active
    /\ Orphans(h)
    /\ paired' = paired \ {h}
    /\ UNCHANGED <<users, area, split, lights, pc, onUser, onArea, onHost, minted, removed,
                   suspect>>
    /\ Save(ok)

-----------------------------------------------------------------------------
(* The life of the service, and the command line.                          *)

Loaded(c) ==
    /\ users' = c.users /\ area' = c.area /\ split' = c.split /\ lights' = c.lights
    /\ bridges' = c.bridges /\ cached' = c.cached /\ active' = c.active

Doubtful == suspect \cup {u \in User : Assigning(u)}

\* The service is killed, or ends with its tasks cancelled: what was not saved is gone.
Kill ==
    /\ up /\ Mishap
    /\ up' = FALSE /\ Loaded(Empty) /\ mac' = None
    /\ pc' = [r \in Request |-> "idle"] /\ onUser' = [r \in Request |-> None]
    /\ onArea' = [r \in Request |-> NoArea] /\ onHost' = [r \in Request |-> None]
    /\ orphan' = [r \in Request |-> "no"]
    /\ suspect' = Doubtful /\ ahead' = FALSE
    /\ UNCHANGED <<disk, reports, cli, told, pairs>>

\* The address is seen from here on; by the command line's copy too, or it is not counted.
Boot(m) ==
    /\ ~up /\ up' = TRUE /\ Loaded(disk) /\ mac' = m
    /\ m \in IF disk.mac = None THEN Mac ELSE {disk.mac}
    /\ told' = IF snap # None => snap.mac = m THEN told \cup {m} ELSE told
    /\ UNCHANGED <<request, reports, suspect, ahead, mishaps, cli, pairs>>

\* Mutant: a made-up address is used but not saved.
StartUnlocked(m) == Boot(m) /\ UNCHANGED disk

\* load() and resolve_mac(): an address is made up and saved if the file has none.  (A start whose
\* save raises ends there.)
Start(m) == Boot(m) /\ disk' = [disk EXCEPT !.mac = m]

\* Mutant: the command line begins with defaults.
CliPairsUnloaded(h) ==
    /\ snap = None /\ pairs < MaxPairs /\ pairs' = pairs + 1
    /\ snap' = Empty /\ cliHost' = h /\ cut' = Doubtful
    /\ UNCHANGED <<memory, file, request, reports, suspect, service, told>>

\* `pair <host>`: a second process loads the file, then waits for the link button.
CliPairs(h) ==
    /\ snap = None /\ pairs < MaxPairs /\ pairs' = pairs + 1
    /\ snap' = disk /\ cliHost' = h /\ cut' = Doubtful
    /\ UNCHANGED <<memory, file, request, reports, suspect, service, told>>

CliDone ==
    /\ snap' = None /\ cliHost' = None /\ cut' = {}
    /\ UNCHANGED <<memory, request, mishaps, minted, removed, service, told, pairs>>

\* The button was pressed: its copy, with the bridge, replaces the file.  Of a pairing that a
\* running service does not know the next save of the service leaves nothing: it is not counted.
CliPaired ==
    /\ snap # None
    /\ disk' = [snap EXCEPT !.bridges = IF Listed(cliHost, @) THEN @ ELSE Append(@, cliHost),
                            !.active = cliHost]
    /\ paired' = IF up => Configured(cliHost) THEN paired \cup {cliHost} ELSE paired
    /\ suspect' = suspect \cup cut /\ ahead' = (ahead \/ up)
    /\ CliDone

CliFails == snap # None /\ CliDone /\ UNCHANGED <<disk, ahead, paired, suspect>>

-----------------------------------------------------------------------------
TVStep(r, ok) ==
    \/ \E u \in User, a \in Area \cup {NoArea}, s \in {"zones", "devices"} : Assign(r, u, a, s, ok)
    \/ AssignRebuilds(r, ok)
    \/ \E u \in User, owner \in BOOLEAN : DeleteTV(r, u, owner, ok)
    \/ DeleteStopped(r, ok)

BridgeStep(r, ok) ==
    \/ ListAreas(r) \/ AreasAnswered(r, ok) \/ AreasFailed(r, ok) \/ AreasRaise(r)
    \/ \E h \in ByWeb : PairBridge(r, h)
    \/ BridgePaired(r, ok) \/ PairFails(r)

Serve ==
    \/ \E u \in User, a \in Area \cup {NoArea}, s \in {"zones", "devices"} : AssignRaises(u, a, s)
    \/ \E ok \in BOOLEAN :
           \/ \E u \in User : PairTV(u, ok) \/ Smooth(u, ok)
           \/ \E r \in Request : TVStep(r, ok) \/ BridgeStep(r, ok)
           \/ \E h \in Host : Activate(h, ok) \/ DeleteBridge(h, ok)

Next ==
    \/ UNCHANGED own /\ Serve
    \/ Kill
    \/ \E m \in Mac : Start(m)
    \/ \E h \in ByCli : CliPairs(h)
    \/ CliPaired \/ CliFails

Spec == Init /\ [][Next]_vars

-----------------------------------------------------------------------------
\* The lights a TV sees are those of its area and its split, once no assignment of the TV is
\* under way (_handle_assign_tv sets the area before its await and the lights after it).  Of an
\* assignment that another one overlapped, that failed after it had begun (a bad value, a bridge's
\* answer, a save) or that was cut in two by a kill or by the command line's copy of the file,
\* this does not hold, but the next one that runs alone and to its end puts the TV right.
LightsMatch ==
    \A u \in users \ suspect :
        ~Assigning(u) => lights[u] \in {None, [area |-> area[u], split |-> split[u]]}

\* A deletion that was answered with success is for good: no request that was under way, no save
\* of another handler, no restart and no later use of the command line brings the TV back.  Only a
\* `pair` that read the file before it does (_pair): of those TVs nothing is said.
DeletedForGood == removed \cap (users \cup disk.users) = {}

\* A bridge whose pairing was reported, by the web UI or the command line, is in the file until
\* somebody deletes it: no request that waited meanwhile, failed save or restart drops it, nor do
\* the service and a later `pair` beside it.  Excepted is a pairing that the other process's copy,
\* read earlier, does not have: what is written last wins (_pair, pair_and_store).
PairedForGood == \A h \in paired : Listed(h, disk.bridges)

\* Between requests the file holds the configuration, so that a kill loses nothing, unless a
\* request failed half-way or the command line wrote the file since the last save; and whichever
\* save is the next puts that right.
Durable == up /\ ~ahead /\ (\A r \in Request : pc[r] = "idle") => disk = Contents

\* The active id never dangles, whatever is paired, activated and deleted during whichever
\* await, and after a restart.
ActiveConfigured ==
    /\ active # None => Configured(active)
    /\ disk.active # None => Listed(disk.active, disk.bridges)

\* TVs see one identity of the bridge for good (app.py 38-45), although the address it is made
\* from may be another one at each start.  Excepted is an address made up while a `pair` waits
\* with a copy that has none: it writes that one back.
StableIdentity == \A m1, m2 \in told : m1 = m2
=============================================================================

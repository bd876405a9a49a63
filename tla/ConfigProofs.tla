---------------------------- MODULE ConfigProofs ----------------------------
(***************************************************************************)
(* Proofs about Config, for any TVs, bridges, areas and requests in        *)
(* flight, and any number of kills, of requests that raise and of pairings *)
(* by the command line, beside a running service or not.                   *)
(***************************************************************************)
EXTENDS Config, SequenceTheorems, TLAPS

\* A bridge is listed after an append if it was before or is the new one.
LEMMA AppendListed ==
    ASSUME NEW S, NEW s \in Seq(S), NEW h \in S, NEW x
    PROVE  Listed(x, Append(s, h)) <=> Listed(x, s) \/ x = h
  BY DEF Listed

\* And bridges that are listed once still are after one more.
LEMMA AppendKeepsInjective ==
    ASSUME NEW S, NEW s \in Seq(S), IsInjective(s), NEW h \in S, ~Listed(h, s)
    PROVE  Append(s, h) \in Seq(S) /\ IsInjective(Append(s, h))
<1> DEFINE t == Append(s, h)
<1>1. t \in Seq(S) /\ Len(t) = Len(s) + 1 /\ DOMAIN t = 1 .. Len(s) + 1
  OBVIOUS
<1>2. \A i \in 1 .. Len(s) : t[i] = s[i] /\ t[i] # h
  BY DEF Listed
<1>3. t[Len(s) + 1] = h
  OBVIOUS
<1>4. ASSUME NEW i \in 1 .. Len(s) + 1, NEW j \in 1 .. Len(s) + 1, t[i] = t[j] PROVE i = j
  <2>1. CASE i \in 1 .. Len(s) /\ j \in 1 .. Len(s)
    BY <1>2, <1>4, <2>1 DEF IsInjective
  <2>2. CASE i = Len(s) + 1 \/ j = Len(s) + 1
    BY <1>2, <1>3, <1>4, <2>2
  <2>3. QED
    BY <2>1, <2>2
<1>5. IsInjective(t)
  BY <1>1, <1>4 DEF IsInjective
<1>6. QED
  BY <1>1, <1>5

\* And after a removal (every bridge is listed once) if it was before and is not that one.
LEMMA RemoveListed ==
    ASSUME NEW S, NEW s \in Seq(S), IsInjective(s), NEW h, Listed(h, s)
    PROVE  /\ RemoveFirst(s, h) \in Seq(S) /\ IsInjective(RemoveFirst(s, h))
           /\ \A x : Listed(x, RemoveFirst(s, h)) <=> Listed(x, s) /\ x # h
<1>1. PICK k \in 1 .. Len(s) : s[k] = h
  BY DEF Listed
<1>2. {i \in 1 .. Len(s) : s[i] = h} = {k}
  BY <1>1 DEF IsInjective
<1> DEFINE t == RemoveFirst(s, h)
           left == SubSeq(s, 1, k - 1)
           right == SubSeq(s, k + 1, Len(s))
           from(i) == IF i < k THEN i ELSE i + 1
<1>3. t = left \o right
  <2>1. SelectInSeq(s, LAMBDA v : v = h) = k
    BY <1>2 DEF SelectInSeq, Min
  <2>2. QED
    BY <1>1, <2>1 DEF RemoveFirst, RemoveAt
<1>4. left \in Seq(S) /\ Len(left) = k - 1 /\ \A i \in 1 .. k - 1 : left[i] = s[i]
  BY <1>1
<1>5. right \in Seq(S) /\ Len(right) = Len(s) - k /\ \A i \in 1 .. Len(s) - k : right[i] = s[i + k]
  BY <1>1
<1> HIDE DEF t, left, right, from
<1>6. /\ t \in Seq(S) /\ Len(t) = Len(left) + Len(right)
      /\ \A i \in 1 .. Len(left) + Len(right) :
             t[i] = IF i <= Len(left) THEN left[i] ELSE right[i - Len(left)]
  BY <1>3, <1>4, <1>5, ConcatProperties
<1>len. k \in 1 .. Len(s) /\ Len(s) \in Nat /\ Len(t) = Len(s) - 1
  BY <1>1, <1>4, <1>5, <1>6
<1>7. \A i \in 1 .. Len(t) : from(i) \in 1 .. Len(s) \ {k} /\ t[i] = s[from(i)]
  <2> SUFFICES ASSUME NEW i \in 1 .. Len(t)
               PROVE  from(i) \in 1 .. Len(s) \ {k} /\ t[i] = s[from(i)]
    OBVIOUS
  <2>1. CASE i < k
    <3>0. i \in 1 .. k - 1 /\ i <= Len(left) /\ i \in 1 .. Len(left) + Len(right)
      BY <1>4, <1>5, <1>6, <1>len, <2>1
    <3>1. t[i] = left[i] /\ i \in 1 .. k - 1
      BY <1>6, <3>0
    <3>2. QED
      BY <1>4, <1>len, <2>1, <3>1 DEF from
  <2>2. CASE i >= k
    <3>1. t[i] = right[i - (k - 1)] /\ i - (k - 1) \in 1 .. Len(s) - k
      BY <1>4, <1>5, <1>6, <1>len, <2>2
    <3>2. t[i] = s[(i - (k - 1)) + k]
      BY <1>5, <3>1
    <3>3. (i - (k - 1)) + k = i + 1
      BY <1>len
    <3>4. QED
      BY <1>len, <2>2, <3>2, <3>3 DEF from
  <2>3. QED
    BY <1>len, <2>1, <2>2
<1>8. \A j \in 1 .. Len(s) \ {k} : \E i \in 1 .. Len(t) : from(i) = j
  <2> SUFFICES ASSUME NEW j \in 1 .. Len(s) \ {k} PROVE \E i \in 1 .. Len(t) : from(i) = j
    OBVIOUS
  <2>1. CASE j < k
    BY <1>len, <2>1 DEF from
  <2>2. CASE j > k
    <3>1. j - 1 \in 1 .. Len(t) /\ from(j - 1) = j
      BY <1>len, <2>2 DEF from
    <3>2. QED
      BY <3>1
  <2>3. QED
    BY <1>len, <2>1, <2>2
<1>9. IsInjective(t)
  <2>1. ASSUME NEW i \in 1 .. Len(t), NEW j \in 1 .. Len(t), t[i] = t[j] PROVE i = j
    <3>1. from(i) = from(j)
      BY <1>7, <2>1 DEF IsInjective
    <3>2. QED
      BY <1>len, <3>1 DEF from
  <2>2. DOMAIN t = 1 .. Len(t)
    BY <1>6
  <2>3. QED
    BY <2>1, <2>2 DEF IsInjective
<1>10. ASSUME NEW x PROVE Listed(x, t) <=> Listed(x, s) /\ x # h
  <2>1. ASSUME Listed(x, t) PROVE Listed(x, s) /\ x # h
    <3>1. PICK i \in 1 .. Len(t) : t[i] = x
      BY <2>1 DEF Listed
    <3>2. from(i) \in 1 .. Len(s) \ {k} /\ x = s[from(i)]
      BY <1>7, <3>1
    <3>3. QED
      BY <1>2, <3>2 DEF Listed
  <2>2. ASSUME Listed(x, s), x # h PROVE Listed(x, t)
    <3>1. PICK j \in 1 .. Len(s) : s[j] = x
      BY <2>2 DEF Listed
    <3>2. j # k
      BY <1>1, <2>2, <3>1
    <3>3. PICK i \in 1 .. Len(t) : from(i) = j
      BY <1>8, <3>2
    <3>4. t[i] = x
      BY <1>7, <3>1, <3>3
    <3>5. QED
      BY <3>4 DEF Listed
  <2>3. QED
    BY <2>1, <2>2
<1>11. QED
  BY <1>6, <1>9, <1>10 DEF t

-----------------------------------------------------------------------------
(* Types.                                                                  *)

\* What the service holds, and what its requests wait for.
MemoryTypes ==
    /\ users \subseteq User /\ area \in [User -> Area \cup {NoArea}]
    /\ split \in [User -> {"zones", "devices"}] /\ lights \in [User -> Lights]
    /\ bridges \in Seq(Host) /\ IsInjective(bridges)
    /\ cached \subseteq Host /\ active \in Host \cup {None} /\ mac \in Mac \cup {None}

RequestTypes ==
    /\ pc \in [Request -> {"idle", "assign", "rebuild", "areas", "pair", "stop"}]
    /\ onUser \in [Request -> User \cup {None}]
    /\ onArea \in [Request -> Area \cup {NoArea}]
    /\ onHost \in [Request -> Host \cup {None}]
    /\ orphan \in [Request -> {"no", "bare", "cached"}]

\* Of what a request waits for; and a service that does not run has no requests.
Waits ==
    /\ \A r \in Request : pc[r] \in {"assign", "areas", "pair", "rebuild"} => onHost[r] \in Host
    /\ \A r \in Request : pc[r] \in {"assign", "rebuild", "stop"} => onUser[r] \in User
    /\ \A r \in Request : pc[r] \in {"assign", "rebuild"} => onArea[r] \in Area
    /\ up \/ \A r \in Request : pc[r] = "idle"

GhostTypes ==
    /\ minted \subseteq User /\ removed \subseteq User
    /\ paired \subseteq Host /\ suspect \subseteq User /\ ahead \in BOOLEAN
    /\ mishaps \in 0 .. MaxMishaps

OwnTypes ==
    /\ mac \in Mac \cup {None} /\ up \in BOOLEAN /\ told \subseteq Mac
    /\ snap \in Files \cup {None} /\ cliHost \in Host \cup {None}
    /\ snap # None => IsInjective(snap.bridges) /\ cliHost \in Host
    /\ cut \subseteq User /\ pairs \in 0 .. MaxPairs

Filed == disk \in Files /\ IsInjective(disk.bridges)

Types == MemoryTypes /\ RequestTypes /\ Waits /\ GhostTypes /\ OwnTypes /\ Filed

\* The parts make up the type invariant.
LEMMA TypesSuffice == Types => TypeOK
  BY DEF Types, MemoryTypes, RequestTypes, GhostTypes, OwnTypes, Filed, TypeOK

\* The file after a step of a request: what the memory holds, or what it was.
Written == disk' = Contents' \/ disk' = disk

\* What is written is well formed.
LEMMA WrittenFiles ==
    ASSUME MemoryTypes', Filed, Written
    PROVE  Filed'
<1>1. CASE disk' = Contents'
  BY <1>1 DEF MemoryTypes, Contents, Files, Filed
<1>2. QED
  BY <1>1 DEF Filed, Written

\* save() writes everything, or raises and counts as a mishap.
LEMMA Saves ==
    ASSUME GhostTypes, NEW ok \in BOOLEAN, Save(ok)
    PROVE  /\ disk' = Contents' \/ (disk' = disk /\ ~ok /\ ahead')
           /\ Written /\ ahead' \in BOOLEAN /\ mishaps' \in 0 .. MaxMishaps
<1>1. CASE ok
  <2>1. disk' = Contents' /\ ahead' = FALSE /\ mishaps' = mishaps
    BY <1>1 DEF Save
  <2>2. ahead' \in BOOLEAN
    BY <2>1, Zenon
  <2>3. disk' = Contents' /\ mishaps' \in 0 .. MaxMishaps
    BY <2>1 DEF GhostTypes
  <2>4. QED
    BY <2>2, <2>3 DEF Written
<1>2. CASE ~ok
  <2>1. disk' = disk /\ ahead' = TRUE /\ mishaps' = mishaps + 1 /\ mishaps < MaxMishaps
    BY <1>2 DEF Save, Mishap
  <2>2. ahead' \in BOOLEAN
    BY <2>1, Zenon
  <2>3. mishaps' \in 0 .. MaxMishaps
    BY <2>1, ConfigAssumption DEF GhostTypes
  <2>4. disk' = disk /\ ahead'
    BY <2>1
  <2>5. QED
    BY <1>2, <2>2, <2>3, <2>4 DEF Written
<1>3. QED
  BY <1>1, <1>2

\* A request that goes on to wait, or returns, has the types of what it waits for.
LEMMA AwaitTypes ==
    ASSUME RequestTypes, Waits, up, up', NEW r \in Request,
           NEW where \in {"idle", "assign", "rebuild", "areas", "pair", "stop"},
           NEW u \in User \cup {None}, NEW a \in Area \cup {NoArea},
           NEW h \in Host \cup {None}, Await(r, where, u, a, h),
           where \in {"assign", "areas", "pair", "rebuild"} => h \in Host,
           where \in {"assign", "rebuild", "stop"} => u \in User,
           where \in {"assign", "rebuild"} => a \in Area
    PROVE  RequestTypes' /\ Waits'
<1>1. RequestTypes'
  BY DEF RequestTypes, Await
<1>2. Waits'
  BY DEF RequestTypes, Waits, Await
<1>3. QED
  BY <1>1, <1>2

\* The bridge that is asked is one of the configured ones, or there is none.
LEMMA ActiveBridgeType ==
    ASSUME MemoryTypes PROVE ActiveBridge \in Host \cup {None}
<1>1. bridges # <<>> => bridges[1] \in Host
  BY DEF MemoryTypes
<1>2. QED
  BY <1>1 DEF ActiveBridge, Configured, MemoryTypes

\* One request of the web UI or of a TV keeps the types.
LEMMA ServeTypes ==
    ASSUME Types, Serve, UNCHANGED own
    PROVE  Types'
<1> DEFINE Kept == /\ MemoryTypes' /\ RequestTypes' /\ Waits' /\ GhostTypes' /\ Written
<1> USE DEF own, service, cli, memory, request, reports, file
<1>0. up \in BOOLEAN /\ up' = up /\ GhostTypes
  BY DEF Types, OwnTypes
<1>a. None \notin Host \cup User \cup Mac /\ AreasOf \in [Host -> Seq(Area)] /\ NoArea \notin Area
  BY ConfigAssumption
<1>b. ActiveBridge \in Host \cup {None}
  BY ActiveBridgeType DEF Types
<1>c. ASSUME NEW found \in BOOLEAN, NEW a \in Area, NEW w \in {"zones", "devices"}
      PROVE  Built(found, a, w) \in Lights
  BY <1>c DEF Built, Lights
<1>d. None \in Lights
  BY DEF Lights
<1>e. ASSUME UNCHANGED file PROVE Written /\ ahead' \in BOOLEAN /\ mishaps' \in 0 .. MaxMishaps
  BY <1>0, <1>e DEF Written, GhostTypes
<1>f. ASSUME NEW ok \in BOOLEAN, Save(ok)
      PROVE  Written /\ ahead' \in BOOLEAN /\ mishaps' \in 0 .. MaxMishaps
  BY <1>0, <1>f, Saves
<1>g. ASSUME UNCHANGED <<users, area, split, lights, bridges, cached, active>> PROVE MemoryTypes'
  BY <1>g DEF Types, MemoryTypes
<1>1. ASSUME NEW u \in User, NEW ok \in BOOLEAN, PairTV(u, ok) PROVE Kept
  <2>1. RequestTypes' /\ Waits' /\ Save(ok)
    BY <1>0, <1>1 DEF Types, RequestTypes, Waits, PairTV
  <2>2. GhostTypes'
    BY <1>0, <1>1, <1>f, <2>1 DEF GhostTypes, PairTV
  <2>3. MemoryTypes'
    <3>1. CASE ActiveBridge \in cached /\ AreasOf[ActiveBridge] # <<>>
      <4>1. AreasOf[ActiveBridge][1] \in Area
        BY <1>a, <1>b, <3>1 DEF Types, MemoryTypes
      <4>2. Built(TRUE, AreasOf[ActiveBridge][1], "zones") \in Lights
        BY <4>1, <1>c
      <4>3. QED
        BY <1>1, <3>1, <4>1, <4>2 DEF Types, MemoryTypes, PairTV
    <3>2. CASE ~(ActiveBridge \in cached /\ AreasOf[ActiveBridge] # <<>>)
      BY <1>1, <3>2 DEF Types, MemoryTypes, PairTV
    <3>3. QED
      BY <3>1, <3>2
  <2>4. QED
    BY <1>f, <2>1, <2>2, <2>3
<1>2. ASSUME NEW u \in User, NEW ok \in BOOLEAN, Smooth(u, ok) PROVE Kept
  BY <1>0, <1>2, <1>f, <1>g DEF Types, RequestTypes, Waits, GhostTypes, Smooth
<1>3. ASSUME NEW r \in Request, NEW u \in User, NEW a \in Area \cup {NoArea},
             NEW w \in {"zones", "devices"}, NEW ok \in BOOLEAN, Assign(r, u, a, w, ok)
      PROVE  Kept
  <2>1. MemoryTypes'
    BY <1>3, <1>d DEF Types, MemoryTypes, Assign
  <2>2. Written /\ ahead' \in BOOLEAN /\ mishaps' \in 0 .. MaxMishaps
    BY <1>3, <1>e, <1>f DEF Assign
  <2>3. GhostTypes'
    BY <1>0, <1>3, <2>2 DEF GhostTypes, Assign
  <2>4. CASE a # NoArea /\ ActiveBridge # None
    <3>1. Await(r, "assign", u, a, ActiveBridge) /\ up /\ ActiveBridge \in Host
      BY <1>3, <1>b, <2>4 DEF Assign, Quiet
    <3>2. a \in Area
      BY <2>4
    <3>3. RequestTypes' /\ Waits'
      BY <1>0, <3>1, <3>2, AwaitTypes DEF Types
    <3>4. QED
      BY <2>1, <2>2, <2>3, <3>3
  <2>5. CASE ~(a # NoArea /\ ActiveBridge # None)
    <3>1. UNCHANGED request
      BY <1>3, <2>5 DEF Assign
    <3>2. RequestTypes' /\ Waits'
      BY <1>0, <3>1 DEF Types, RequestTypes, Waits
    <3>3. QED
      BY <2>1, <2>2, <2>3, <3>2
  <2>6. QED
    BY <2>4, <2>5
<1>4. ASSUME NEW u \in User, NEW a \in Area \cup {NoArea}, NEW w \in {"zones", "devices"},
             AssignRaises(u, a, w)
      PROVE  Kept
  <2>1. MemoryTypes'
    BY <1>4 DEF Types, MemoryTypes, AssignRaises
  <2>2. GhostTypes'
    BY <1>0, <1>4, ConfigAssumption DEF GhostTypes, AssignRaises, Mishap
  <2>3. RequestTypes' /\ Waits' /\ Written
    BY <1>0, <1>4 DEF Types, RequestTypes, Waits, AssignRaises, Written
  <2>4. QED
    BY <2>1, <2>2, <2>3
<1>5. ASSUME NEW r \in Request, NEW found \in BOOLEAN, NEW ok \in BOOLEAN, Rebuild(r, found, ok),
             up, pc[r] \in {"assign", "rebuild"}
      PROVE  Kept
  <2>1. MemoryTypes'
    <3>1. onArea[r] \in Area
      BY <1>5 DEF Types, Waits
    <3>2. ASSUME onUser[r] \in User PROVE Built(found, onArea[r], split[onUser[r]]) \in Lights
      BY <1>c, <3>1, <3>2 DEF Types, MemoryTypes
    <3>3. QED
      BY <1>5, <3>2 DEF Types, MemoryTypes, Rebuild
  <2>2. RequestTypes' /\ Waits'
    BY <1>0, <1>5, AwaitTypes DEF Types, Rebuild, Return
  <2>3. GhostTypes'
    BY <1>0, <1>5, <1>f DEF Types, Waits, GhostTypes, Rebuild, Doubt
  <2>4. QED
    BY <1>5, <1>f, <2>1, <2>2, <2>3 DEF Rebuild
<1>6. ASSUME NEW r \in Request, NEW ok \in BOOLEAN, AssignRebuilds(r, ok) PROVE Kept
  <2>1. up /\ pc[r] = "rebuild" /\ Has(onHost[r], onArea[r]) \in BOOLEAN
    BY <1>6 DEF Types, Waits, AssignRebuilds, Has, Listed
  <2>2. QED
    BY <1>5, <1>6, <2>1 DEF AssignRebuilds
<1>7. ASSUME NEW r \in Request, NEW u \in User, NEW owner \in BOOLEAN, NEW ok \in BOOLEAN,
             DeleteTV(r, u, owner, ok)
      PROVE  Kept
  <2>1. MemoryTypes'
    BY <1>7, <1>d DEF Types, MemoryTypes, DeleteTV
  <2>2. Written /\ ahead' \in BOOLEAN /\ mishaps' \in 0 .. MaxMishaps
    BY <1>7, <1>e, <1>f DEF DeleteTV
  <2>3. GhostTypes'
    BY <1>0, <1>7, <2>2 DEF GhostTypes, DeleteTV, Deleted
  <2>4. CASE owner
    <3>1. RequestTypes' /\ Waits'
      BY <1>0, <1>7, <2>4, AwaitTypes DEF Types, DeleteTV, Quiet
    <3>2. QED
      BY <2>1, <2>2, <2>3, <3>1
  <2>5. CASE ~owner
    <3>1. RequestTypes' /\ Waits'
      BY <1>0, <1>7, <2>5 DEF Types, RequestTypes, Waits, DeleteTV
    <3>2. QED
      BY <2>1, <2>2, <2>3, <3>1
  <2>6. QED
    BY <2>4, <2>5
<1>8. ASSUME NEW r \in Request, Return(r), up PROVE RequestTypes' /\ Waits'
  BY <1>0, <1>8, AwaitTypes DEF Types, Return
<1>9. ASSUME NEW r \in Request, NEW ok \in BOOLEAN, DeleteStopped(r, ok) PROVE Kept
  <2>1. Save(ok) /\ UNCHANGED memory /\ RequestTypes' /\ Waits'
    BY <1>8, <1>9 DEF DeleteStopped, Quiet
  <2>2. GhostTypes'
    BY <1>0, <1>9, <1>f, <2>1 DEF Types, Waits, GhostTypes, DeleteStopped, Deleted
  <2>3. QED
    BY <1>f, <1>g, <2>1, <2>2
<1>10. ASSUME NEW r \in Request, ListAreas(r) PROVE Kept
  <2>1. RequestTypes' /\ Waits'
    BY <1>0, <1>10, <1>b, AwaitTypes DEF Types, ListAreas, Quiet
  <2>2. GhostTypes' /\ Written /\ MemoryTypes'
    BY <1>0, <1>10, <1>e, <1>g DEF GhostTypes, ListAreas
  <2>3. QED
    BY <2>1, <2>2
<1>11. ASSUME NEW r \in Request, NEW ok \in BOOLEAN, AreasFailed(r, ok) PROVE Kept
  <2>1. CASE pc[r] = "assign"
    <3> DEFINE known == orphan[r] = "cached" \/ (orphan[r] = "no" /\ onHost[r] \in cached)
    <3>1. (known /\ Has(onHost[r], onArea[r])) \in BOOLEAN
      BY DEF Has, Listed
    <3>2. Rebuild(r, known /\ Has(onHost[r], onArea[r]), ok) /\ up
      BY <1>11, <2>1 DEF AreasFailed, Quiet
    <3>3. QED
      BY <1>5, <2>1, <3>1, <3>2
  <2>2. CASE pc[r] # "assign"
    <3>1. UNCHANGED <<memory, file, reports, suspect>> /\ RequestTypes' /\ Waits'
      BY <1>8, <1>11, <2>2 DEF AreasFailed, Quiet
    <3>2. QED
      BY <1>0, <1>e, <1>g, <3>1 DEF GhostTypes
  <2>3. QED
    BY <2>1, <2>2
<1>12. ASSUME NEW r \in Request, NEW ok \in BOOLEAN, AreasAnswered(r, ok) PROVE Kept
  <2>1. MemoryTypes' /\ GhostTypes'
    <3>1. MemoryTypes'
      BY <1>0, <1>12 DEF Types, MemoryTypes, Waits, AreasAnswered
    <3>2. GhostTypes'
      BY <1>0, <1>12, <1>f DEF Types, Waits, GhostTypes, AreasAnswered, Doubt
    <3>3. QED
      BY <3>1, <3>2
  <2>2. CASE pc[r] = "assign" /\ ok
    <3>1. onUser[r] \in User /\ onArea[r] \in Area /\ onHost[r] \in Host
      BY <2>2 DEF Types, Waits
    <3>2. Await(r, "rebuild", onUser[r], onArea[r], onHost[r]) /\ up
      BY <1>12, <2>2 DEF AreasAnswered, Quiet
    <3>3. RequestTypes' /\ Waits'
      BY <1>0, <3>1, <3>2, AwaitTypes DEF Types
    <3>4. QED
      BY <1>12, <1>f, <2>1, <3>3 DEF AreasAnswered
  <2>3. CASE ~(pc[r] = "assign" /\ ok)
    <3>1. RequestTypes' /\ Waits'
      BY <1>8, <1>12, <2>3 DEF AreasAnswered, Quiet
    <3>2. QED
      BY <1>12, <1>f, <2>1, <3>1 DEF AreasAnswered
  <2>4. QED
    BY <2>2, <2>3
<1>13. ASSUME NEW r \in Request, AreasRaise(r) PROVE Kept
  <2>1. UNCHANGED memory /\ RequestTypes' /\ Waits' /\ Written
    BY <1>8, <1>13 DEF AreasRaise, Quiet, Written
  <2>2. GhostTypes'
    BY <1>0, <1>13, ConfigAssumption DEF Types, Waits, GhostTypes, AreasRaise, Doubt, Mishap
  <2>3. QED
    BY <1>g, <2>1, <2>2
<1>14. ASSUME NEW r \in Request, NEW h \in Host, PairBridge(r, h) PROVE Kept
  <2>1. RequestTypes' /\ Waits'
    BY <1>0, <1>14, AwaitTypes DEF Types, PairBridge, Quiet
  <2>2. GhostTypes' /\ Written /\ MemoryTypes'
    BY <1>0, <1>14, <1>e, <1>g DEF GhostTypes, PairBridge
  <2>3. QED
    BY <2>1, <2>2
<1>15. ASSUME NEW r \in Request, NEW ok \in BOOLEAN, BridgePaired(r, ok) PROVE Kept
  <2>1. RequestTypes' /\ Waits' /\ Save(ok)
    BY <1>8, <1>15 DEF BridgePaired, Quiet
  <2>2. onHost[r] \in Host
    BY <1>15 DEF Types, Waits, BridgePaired
  <2>3. bridges' \in Seq(Host) /\ IsInjective(bridges')
    <3>1. bridges \in Seq(Host) /\ IsInjective(bridges)
      BY DEF Types, MemoryTypes
    <3>2. CASE Listed(onHost[r], bridges)
      BY <1>15, <3>1, <3>2 DEF BridgePaired, Configured
    <3>3. CASE ~Listed(onHost[r], bridges)
      <4>1. bridges' = Append(bridges, onHost[r])
        BY <1>15, <3>3 DEF BridgePaired, Configured
      <4>2. QED
        BY <2>2, <3>1, <3>3, <4>1, AppendKeepsInjective
    <3>4. QED
      BY <3>2, <3>3
  <2>4. GhostTypes'
    BY <1>0, <1>15, <1>f, <2>1, <2>2 DEF GhostTypes, BridgePaired, Reported
  <2>5. MemoryTypes'
    BY <1>0, <1>15, <2>2, <2>3 DEF Types, MemoryTypes, BridgePaired
  <2>6. QED
    BY <1>f, <2>1, <2>4, <2>5
<1>16. ASSUME NEW r \in Request, PairFails(r) PROVE Kept
  <2>1. UNCHANGED <<memory, file, reports, suspect>> /\ RequestTypes' /\ Waits'
    BY <1>8, <1>16 DEF PairFails, Quiet
  <2>2. QED
    BY <1>0, <1>e, <1>g, <2>1 DEF GhostTypes
<1>17. ASSUME NEW h \in Host, NEW ok \in BOOLEAN, Activate(h, ok) PROVE Kept
  <2>1. GhostTypes' /\ Written
    BY <1>0, <1>17, <1>f DEF GhostTypes, Activate
  <2>2. MemoryTypes' /\ RequestTypes' /\ Waits'
    BY <1>0, <1>17 DEF Types, MemoryTypes, RequestTypes, Waits, Activate
  <2>3. QED
    BY <2>1, <2>2
<1>18. ASSUME NEW h \in Host, NEW ok \in BOOLEAN, DeleteBridge(h, ok) PROVE Kept
  <2>1. RequestTypes' /\ Waits'
    BY <1>0, <1>18 DEF Types, RequestTypes, Waits, DeleteBridge, Orphans
  <2>2. bridges' \in Seq(Host) /\ IsInjective(bridges')
    BY <1>18, RemoveListed DEF Types, MemoryTypes, DeleteBridge, Configured
  <2>3. GhostTypes' /\ Written
    BY <1>0, <1>18, <1>f DEF GhostTypes, DeleteBridge
  <2>4. MemoryTypes'
    BY <1>0, <1>18, <2>2 DEF Types, MemoryTypes, DeleteBridge
  <2>5. QED
    BY <2>1, <2>3, <2>4
<1>19. Kept
  <2>1. CASE \E ok \in BOOLEAN, u \in User : PairTV(u, ok) \/ Smooth(u, ok)
    BY <1>1, <1>2, <2>1
  <2>2. ASSUME NEW r \in Request, NEW ok \in BOOLEAN, TVStep(r, ok) PROVE Kept
    BY <1>3, <1>6, <1>7, <1>9, <2>2 DEF TVStep
  <2>3. ASSUME NEW r \in Request, NEW ok \in BOOLEAN, BridgeStep(r, ok) PROVE Kept
    BY <1>10, <1>11, <1>12, <1>13, <1>14, <1>15, <1>16, ConfigAssumption, <2>3 DEF BridgeStep
  <2>4. CASE \E ok \in BOOLEAN, h \in Host : Activate(h, ok) \/ DeleteBridge(h, ok)
    BY <1>17, <1>18, <2>4
  <2>5. QED
    BY <1>4, <2>1, <2>2, <2>3, <2>4 DEF Serve
<1>20. Filed'
  BY <1>19, WrittenFiles DEF Types
<1>21. OwnTypes'
  BY DEF Types, OwnTypes
<1>22. QED
  BY <1>19, <1>20, <1>21 DEF Types

\* What the service makes of the file when it starts, and of nothing when it is killed.
LEMMA LoadedTypes ==
    ASSUME NEW c \in Files, IsInjective(c.bridges), Loaded(c), mac' \in Mac \cup {None}
    PROVE  MemoryTypes'
  BY DEF Files, Loaded, MemoryTypes

\* A configuration with nothing in it is well formed.
LEMMA EmptyFile == Empty \in Files /\ IsInjective(Empty.bridges)
  BY DEF Empty, Files, Lights, IsInjective

\* So is everything before the first start.
LEMMA TypesInit == Init => Types
<1> SUFFICES ASSUME Init PROVE Types
  OBVIOUS
<1> USE DEF Init, NoRequests
<1>1. MemoryTypes
  BY EmptyFile DEF MemoryTypes, Files, Empty
<1>2. RequestTypes /\ Waits
  BY DEF RequestTypes, Waits
<1>3. GhostTypes /\ OwnTypes
  <2>1. 0 \in 0 .. MaxMishaps /\ 0 \in 0 .. MaxPairs
    BY ConfigAssumption
  <2>2. up \in BOOLEAN /\ ahead \in BOOLEAN
    BY Zenon
  <2>3. GhostTypes
    BY <2>1, <2>2 DEF GhostTypes
  <2>4. /\ mac \in Mac \cup {None} /\ told \subseteq Mac /\ snap = None
        /\ cliHost \in Host \cup {None} /\ pairs \in 0 .. MaxPairs /\ cut \subseteq User
    BY <2>1 DEF Empty
  <2>5. QED
    BY <2>2, <2>3, <2>4 DEF OwnTypes
<1>4. Filed
  BY EmptyFile DEF Filed
<1>5. QED
  BY <1>1, <1>2, <1>3, <1>4 DEF Types

\* Every step keeps the types, the command line's included.
LEMMA TypesStep ==
    ASSUME Types, [Next]_vars
    PROVE  Types'
<1> USE DEF own, service, cli, memory, request, reports, file
<1>1. CASE UNCHANGED own /\ Serve
  BY <1>1, ServeTypes DEF own
<1>2. CASE Kill
  <2>1. MemoryTypes'
    BY <1>2, EmptyFile, LoadedTypes DEF Kill
  <2>2. RequestTypes' /\ Waits'
    BY <1>2 DEF Kill, Types, RequestTypes, Waits
  <2>3. GhostTypes'
    <3>1. ahead' = FALSE /\ mishaps' = mishaps + 1 /\ mishaps < MaxMishaps
      BY <1>2 DEF Kill, Mishap
    <3>2. ahead' \in BOOLEAN
      BY <3>1, Zenon
    <3>3. mishaps' \in 0 .. MaxMishaps
      BY <3>1, ConfigAssumption DEF Types, GhostTypes
    <3>4. suspect' \subseteq User /\ UNCHANGED reports
      BY <1>2 DEF Kill, Types, GhostTypes, Doubtful
    <3>5. QED
      BY <3>2, <3>3, <3>4 DEF Types, GhostTypes
  <2>4. OwnTypes' /\ Filed'
    BY <1>2 DEF Kill, Types, OwnTypes, Filed
  <2>5. QED
    BY <2>1, <2>2, <2>3, <2>4 DEF Types
<1>3. ASSUME NEW m \in Mac, Start(m) PROVE Types'
  <2>1. MemoryTypes'
    BY <1>3, LoadedTypes DEF Start, Boot, Types, Filed
  <2>2. RequestTypes' /\ Waits' /\ GhostTypes'
    BY <1>3 DEF Start, Boot, Types, RequestTypes, Waits, GhostTypes
  <2>3. OwnTypes'
    BY <1>3 DEF Start, Boot, Types, OwnTypes
  <2>4. Filed'
    BY <1>3 DEF Start, Boot, Types, Filed, Files
  <2>5. QED
    BY <2>1, <2>2, <2>3, <2>4 DEF Types
<1>4. ASSUME NEW h \in Host, CliPairs(h) PROVE Types'
  <2>1. OwnTypes'
    BY <1>4, ConfigAssumption
    DEF CliPairs, Doubtful, Types, OwnTypes, GhostTypes, Filed
  <2>2. QED
    BY <1>4, <2>1
    DEF CliPairs, Types, MemoryTypes, RequestTypes, Waits, GhostTypes, Filed
<1>5. CASE CliPaired
  <2>1. snap \in Files /\ IsInjective(snap.bridges) /\ cliHost \in Host
    BY <1>5 DEF CliPaired, Types, OwnTypes
  <2>2. snap.bridges \in Seq(Host)
    BY <2>1 DEF Files
  <2>3. disk' \in Files /\ IsInjective(disk'.bridges)
    <3>1. CASE Listed(cliHost, snap.bridges)
      BY <1>5, <2>1, <3>1 DEF CliPaired, Files
    <3>2. CASE ~Listed(cliHost, snap.bridges)
      <4>1. /\ Append(snap.bridges, cliHost) \in Seq(Host)
            /\ IsInjective(Append(snap.bridges, cliHost))
        BY <2>1, <2>2, <3>2, AppendKeepsInjective
      <4>2. QED
        BY <1>5, <2>1, <3>2, <4>1 DEF CliPaired, Files
    <3>3. QED
      BY <3>1, <3>2
  <2>4. Filed'
    BY <2>3 DEF Filed
  <2>5. OwnTypes' /\ GhostTypes'
    BY <1>5, <2>1 DEF CliPaired, CliDone, Types, OwnTypes, GhostTypes
  <2>6. QED
    BY <1>5, <2>4, <2>5 DEF CliPaired, CliDone, Types, MemoryTypes, RequestTypes, Waits
<1>6. CASE CliFails
  BY <1>6 DEF CliFails, CliDone, Types, MemoryTypes, RequestTypes, Waits, GhostTypes,
              OwnTypes, Filed
<1>7. CASE UNCHANGED vars
  BY <1>7 DEF vars, Types, MemoryTypes, RequestTypes, Waits, GhostTypes, OwnTypes, Filed
<1>8. QED
  BY <1>1, <1>2, <1>3, <1>4, <1>5, <1>6, <1>7, ConfigAssumption DEF Next

\* The configuration, the file and the command line's copy of it stay well formed, and no bridge
\* is listed twice, whichever requests overlap and whatever the command line writes.
THEOREM ConfigTypes == Spec => []TypeOK
<1>1. Init => Types
  BY TypesInit
<1>2. Types /\ [Next]_vars => Types'
  BY TypesStep
<1>3. QED
  BY <1>1, <1>2, TypesSuffice, PTL DEF Spec

-----------------------------------------------------------------------------
(* The active bridge.                                                      *)

\* What a request does to the bridges: nothing, or it is one of the three that change them.
LEMMA BridgeFrame ==
    ASSUME Serve
    PROVE  \/ UNCHANGED <<bridges, active, paired>> /\ Written
           \/ \E r \in Request, ok \in BOOLEAN : BridgePaired(r, ok)
           \/ \E h \in Host, ok \in BOOLEAN : Activate(h, ok) \/ DeleteBridge(h, ok)
<1> DEFINE Framed == UNCHANGED <<bridges, active, paired>> /\ Written
<1> USE DEF memory, reports, file
<1>0. ASSUME NEW ok \in BOOLEAN, Save(ok) PROVE Written
  BY <1>0 DEF Save, Written
<1>1. ASSUME UNCHANGED disk PROVE Written
  BY <1>1 DEF Written
<1>2. ASSUME NEW ok \in BOOLEAN, NEW u \in User, PairTV(u, ok) \/ Smooth(u, ok) PROVE Framed
  BY <1>0, <1>2 DEF PairTV, Smooth
<1>3. ASSUME NEW u \in User, NEW a \in Area \cup {NoArea}, NEW s \in {"zones", "devices"},
             AssignRaises(u, a, s)
      PROVE  Framed
  BY <1>1, <1>3 DEF AssignRaises
<1>4. ASSUME NEW ok \in BOOLEAN, NEW r \in Request, TVStep(r, ok) PROVE Framed
  BY <1>0, <1>1, <1>4 DEF TVStep, Assign, AssignRebuilds, Rebuild, DeleteTV, DeleteStopped
<1>5. ASSUME NEW ok \in BOOLEAN, NEW r \in Request, BridgeStep(r, ok), ~BridgePaired(r, ok)
      PROVE  Framed
  BY <1>0, <1>1, <1>5 DEF BridgeStep, ListAreas, AreasFailed, Rebuild, PairFails, AreasAnswered,
                          AreasRaise, PairBridge
<1>6. QED
  BY <1>2, <1>3, <1>4, <1>5 DEF Serve

ActiveOK(c) == c.active # None => Listed(c.active, c.bridges)

\* The command line's copy has to be in order as well: it becomes the file.
ActiveInv == ActiveOK(Contents) /\ ActiveOK(disk) /\ (snap # None => ActiveOK(snap))

\* What the command line puts in place is its copy, but for the list of bridges.
LEMMA CliFile ==
    ASSUME Types, CliPaired
    PROVE  /\ snap \in Files /\ snap # None /\ snap.bridges \in Seq(Host) /\ cliHost \in Host
           /\ disk'.users = snap.users /\ disk'.area = snap.area /\ disk'.split = snap.split
           /\ disk'.lights = snap.lights /\ disk'.mac = snap.mac /\ disk'.active = cliHost
           /\ \A h : Listed(h, disk'.bridges) <=> Listed(h, snap.bridges) \/ h = cliHost
           /\ snap' = None /\ UNCHANGED <<memory, request, minted, removed, service, told>>
<1>1. snap \in Files /\ snap # None /\ snap.bridges \in Seq(Host) /\ cliHost \in Host
  BY DEF CliPaired, Types, OwnTypes, Files
<1>2. disk'.bridges = IF Listed(cliHost, snap.bridges) THEN snap.bridges
                      ELSE Append(snap.bridges, cliHost)
  BY <1>1 DEF CliPaired, Files
<1>3. \A h : Listed(h, disk'.bridges) <=> Listed(h, snap.bridges) \/ h = cliHost
  BY <1>1, <1>2, AppendListed
<1>4. /\ disk'.users = snap.users /\ disk'.area = snap.area /\ disk'.split = snap.split
      /\ disk'.lights = snap.lights /\ disk'.mac = snap.mac /\ disk'.active = cliHost
  BY <1>1 DEF CliPaired, Files
<1>5. QED
  BY <1>1, <1>3, <1>4 DEF CliPaired, CliDone

\* And what starting the service changes is the address.
LEMMA StartFile ==
    ASSUME Types, NEW m \in Mac, Start(m)
    PROVE  /\ Loaded(disk) /\ mac' = m /\ ~up
           /\ disk'.users = disk.users /\ disk'.area = disk.area /\ disk'.split = disk.split
           /\ disk'.lights = disk.lights /\ disk'.bridges = disk.bridges
           /\ disk'.active = disk.active
           /\ disk'.mac = m /\ (disk.mac = None \/ disk.mac = m) /\ disk' = Contents'
<1>1. disk \in Files /\ Loaded(disk) /\ mac' = m /\ disk' = [disk EXCEPT !.mac = m]
  BY DEF Start, Boot, Types, Filed
<1>2. disk' = Contents'
  BY <1>1 DEF Loaded, Contents, Files
<1>3. QED
  BY <1>1, <1>2 DEF Start, Boot, Files

\* A service that is down serves nothing.
LEMMA ServesUp ==
    ASSUME Types, Serve
    PROVE  up
<1>1. \A r \in Request : pc[r] # "idle" => up
  BY DEF Types, Waits
<1>2. ASSUME NEW ok \in BOOLEAN, NEW r \in Request, TVStep(r, ok) PROVE up
  BY <1>1, <1>2 DEF TVStep, Assign, AssignRebuilds, DeleteTV, DeleteStopped, Quiet
<1>3. ASSUME NEW ok \in BOOLEAN, NEW r \in Request, BridgeStep(r, ok) PROVE up
  BY <1>3 DEF BridgeStep, ListAreas, AreasFailed, AreasRaise, BridgePaired, PairFails,
              AreasAnswered, PairBridge, Quiet
<1>4. ASSUME NEW ok \in BOOLEAN, NEW u \in User, PairTV(u, ok) \/ Smooth(u, ok) PROVE up
  BY <1>4 DEF PairTV, Smooth, Quiet
<1>5. ASSUME NEW ok \in BOOLEAN, NEW h \in Host, Activate(h, ok) \/ DeleteBridge(h, ok) PROVE up
  BY <1>5 DEF Activate, DeleteBridge, Quiet
<1>6. ASSUME NEW u \in User, NEW a \in Area \cup {NoArea}, NEW s \in {"zones", "devices"},
             AssignRaises(u, a, s)
      PROVE  up
  BY <1>6 DEF AssignRaises, Quiet
<1>7. QED
  BY <1>2, <1>3, <1>4, <1>5, <1>6 DEF Serve

\* Whoever changes the bridges or the active one keeps the two together.
LEMMA ActiveStep ==
    ASSUME Types, ActiveInv, [Next]_vars
    PROVE  ActiveInv'
<1> USE DEF own, service, cli, memory, reports, file
<1>1. CASE UNCHANGED own /\ Serve
  <2>1. ASSUME ActiveOK(Contents)', Written PROVE ActiveInv'
    BY <1>1, <2>1 DEF ActiveInv, ActiveOK, Written
  <2>2. CASE UNCHANGED <<bridges, active, paired>> /\ Written
    <3>1. ActiveOK(Contents)'
      BY <2>2 DEF ActiveInv, ActiveOK, Contents
    <3>2. QED
      BY <2>1, <2>2, <3>1
  <2>3. ASSUME NEW ok \in BOOLEAN, Save(ok) PROVE Written
    BY <2>3 DEF Save, Written
  <2>4. ASSUME NEW r \in Request, NEW ok \in BOOLEAN, BridgePaired(r, ok) PROVE ActiveInv'
    <3>1. bridges \in Seq(Host) /\ onHost[r] \in Host
      BY <2>4 DEF Types, MemoryTypes, Waits, BridgePaired
    <3>2. Listed(onHost[r], bridges')
      BY <2>4, <3>1, AppendListed DEF BridgePaired, Configured
    <3>3. ActiveOK(Contents)' /\ Save(ok)
      BY <2>4, <3>2 DEF ActiveOK, Contents, BridgePaired
    <3>4. QED
      BY <2>1, <2>3, <3>3
  <2>5. ASSUME NEW h \in Host, NEW ok \in BOOLEAN, Activate(h, ok) PROVE ActiveInv'
    <3>1. ActiveOK(Contents)' /\ Save(ok)
      BY <2>5 DEF ActiveOK, Contents, Activate, Configured
    <3>2. QED
      BY <2>1, <2>3, <3>1
  <2>6. ASSUME NEW h \in Host, NEW ok \in BOOLEAN, DeleteBridge(h, ok) PROVE ActiveInv'
    <3>1. bridges \in Seq(Host) /\ IsInjective(bridges) /\ Listed(h, bridges)
      BY <2>6 DEF Types, MemoryTypes, DeleteBridge, Configured
    <3>2. \A x : Listed(x, bridges') <=> Listed(x, bridges) /\ x # h
      BY <2>6, <3>1, RemoveListed DEF DeleteBridge
    <3>3. ActiveOK(Contents)' /\ Save(ok)
      BY <2>6, <3>2 DEF ActiveInv, ActiveOK, Contents, DeleteBridge
    <3>4. QED
      BY <2>1, <2>3, <3>3
  <2>7. QED
    BY <1>1, <2>2, <2>4, <2>5, <2>6, BridgeFrame
<1>2. CASE Kill
  BY <1>2 DEF Kill, Loaded, Empty, ActiveInv, ActiveOK, Contents
<1>3. ASSUME NEW m \in Mac, Start(m) PROVE ActiveInv'
  BY <1>3, StartFile DEF Start, Boot, Loaded, ActiveInv, ActiveOK, Contents
<1>4. ASSUME NEW h \in Host, CliPairs(h) PROVE ActiveInv'
  BY <1>4 DEF CliPairs, ActiveInv, ActiveOK, Contents
<1>5. CASE CliPaired
  BY <1>5, CliFile DEF ActiveInv, ActiveOK, Contents
<1>6. CASE CliFails
  BY <1>6 DEF CliFails, CliDone, ActiveInv, ActiveOK, Contents
<1>7. CASE UNCHANGED vars
  BY <1>7 DEF vars, ActiveInv, ActiveOK, Contents
<1>8. QED
  BY <1>1, <1>2, <1>3, <1>4, <1>5, <1>6, <1>7, ConfigAssumption DEF Next

\* The active id names a bridge that is configured, in the service and in the file, also when the
\* command line puts a copy in place that it read before the last requests.
THEOREM ActiveNeverDangles == Spec => []ActiveConfigured
<1>1. Init => Types /\ ActiveInv
  BY TypesInit DEF Init, ActiveInv, ActiveOK, Contents, Empty
<1>2. Types /\ ActiveInv /\ [Next]_vars => (Types /\ ActiveInv)'
  BY TypesStep, ActiveStep
<1>3. ActiveInv => ActiveConfigured
  BY DEF ActiveInv, ActiveOK, Contents, ActiveConfigured, Configured
<1>4. QED
  BY <1>1, <1>2, <1>3, PTL DEF Spec

-----------------------------------------------------------------------------
(* Bridges.                                                                *)

\* The pairings that count are in the file, in the service and in the command line's copy: in
\* whatever may be written next.
PairedInv ==
    \A h \in paired : /\ Listed(h, disk.bridges) /\ (up => Configured(h))
                      /\ snap # None => Listed(h, snap.bridges)

\* A request, a kill, a start and the command line keep reported pairings.
LEMMA PairedStep ==
    ASSUME Types, PairedInv, [Next]_vars
    PROVE  PairedInv'
<1> USE DEF own, service, cli, reports, memory, file
<1>1. CASE UNCHANGED own /\ Serve /\ up
  <2>1. ASSUME paired' \subseteq paired, Written, \A h \in paired' : Listed(h, bridges')
        PROVE  PairedInv'
    BY <1>1, <2>1 DEF PairedInv, Configured, Written, Contents
  <2>2. CASE UNCHANGED <<bridges, active, paired>> /\ Written
    BY <1>1, <2>1, <2>2 DEF PairedInv, Configured
  <2>3. ASSUME NEW ok \in BOOLEAN, Save(ok) PROVE Written
    BY <2>3 DEF Save, Written
  <2>4. ASSUME NEW r \in Request, NEW ok \in BOOLEAN, BridgePaired(r, ok) PROVE PairedInv'
    <3>1. bridges \in Seq(Host) /\ onHost[r] \in Host
      BY <2>4 DEF Types, MemoryTypes, Waits, BridgePaired
    <3>2. \A h : Listed(h, bridges') <=> Listed(h, bridges) \/ h = onHost[r]
      BY <2>4, <3>1, AppendListed DEF BridgePaired, Configured
    <3>3. CASE ok /\ (snap # None => Listed(onHost[r], snap.bridges))
      <4>1. disk' = Contents' /\ paired' = paired \cup {onHost[r]}
        BY <2>4, <3>3 DEF BridgePaired, Save, Reported
      <4>2. QED
        BY <1>1, <3>2, <3>3, <4>1 DEF PairedInv, Configured, Contents
    <3>4. CASE ~(ok /\ (snap # None => Listed(onHost[r], snap.bridges)))
      <4>1. paired' = paired /\ Written
        BY <2>3, <2>4, <3>4 DEF BridgePaired, Reported
      <4>2. QED
        BY <1>1, <2>1, <3>2, <4>1 DEF PairedInv, Configured
    <3>5. QED
      BY <3>3, <3>4
  <2>5. ASSUME NEW h \in Host, NEW ok \in BOOLEAN, Activate(h, ok) PROVE PairedInv'
    BY <1>1, <2>1, <2>3, <2>5 DEF PairedInv, Configured, Activate
  <2>6. ASSUME NEW h \in Host, NEW ok \in BOOLEAN, DeleteBridge(h, ok) PROVE PairedInv'
    <3>1. bridges \in Seq(Host) /\ IsInjective(bridges) /\ Listed(h, bridges)
      BY <2>6 DEF Types, MemoryTypes, DeleteBridge, Configured
    <3>2. \A x : Listed(x, bridges') <=> Listed(x, bridges) /\ x # h
      BY <2>6, <3>1, RemoveListed DEF DeleteBridge
    <3>3. paired' = paired \ {h} /\ Written
      BY <2>3, <2>6 DEF DeleteBridge
    <3>4. QED
      BY <1>1, <2>1, <3>2, <3>3 DEF PairedInv, Configured
  <2>7. QED
    BY <1>1, <2>2, <2>4, <2>5, <2>6, BridgeFrame
<1>2. CASE Kill
  BY <1>2 DEF Kill, PairedInv
<1>3. ASSUME NEW m \in Mac, Start(m) PROVE PairedInv'
  BY <1>3, StartFile DEF Start, Boot, Loaded, PairedInv, Configured
<1>4. ASSUME NEW h \in Host, CliPairs(h) PROVE PairedInv'
  BY <1>4 DEF CliPairs, PairedInv, Configured
<1>5. CASE CliPaired
  <2>1. paired' = paired \/ (paired' = paired \cup {cliHost} /\ (up => Configured(cliHost)))
    BY <1>5 DEF CliPaired
  <2>2. QED
    BY <1>5, <2>1, CliFile DEF PairedInv, Configured
<1>6. CASE CliFails
  BY <1>6 DEF CliFails, CliDone, PairedInv, Configured
<1>7. CASE UNCHANGED vars
  BY <1>7 DEF vars, PairedInv, Configured
<1>8. Serve => up
  BY ServesUp
<1>9. QED
  BY <1>1, <1>2, <1>3, <1>4, <1>5, <1>6, <1>7, <1>8, ConfigAssumption DEF Next

-----------------------------------------------------------------------------
(* The identity.                                                           *)

\* An address that counts is the one in the file, in the service and in the command line's copy.
IdentityInv ==
    \A m \in told : disk.mac = m /\ (up => mac = m) /\ (snap # None => snap.mac = m)

\* The address in the file is never another one than a TV has seen.
LEMMA IdentityStep ==
    ASSUME Types, IdentityInv, [Next]_vars
    PROVE  IdentityInv'
<1> USE DEF own, service, cli, reports, memory, file
<1>1. CASE UNCHANGED own /\ Serve
  <2>1. Written
    <3>1. ASSUME NEW ok \in BOOLEAN, Save(ok) PROVE Written
      BY <3>1 DEF Save, Written
    <3>2. QED
      BY <1>1, <3>1, BridgeFrame DEF BridgePaired, Activate, DeleteBridge
  <2>2. up
    BY <1>1, ServesUp
  <2>3. QED
    BY <1>1, <2>1, <2>2 DEF Written, Contents, IdentityInv
<1>2. CASE Kill
  BY <1>2 DEF Kill, IdentityInv
<1>3. ASSUME NEW m \in Mac, Start(m) PROVE IdentityInv'
  <2>1. None \notin Mac /\ told \subseteq Mac
    BY ConfigAssumption DEF Types, OwnTypes
  <2>2. /\ told' = IF snap # None => snap.mac = m THEN told \cup {m} ELSE told
        /\ mac' = m /\ disk'.mac = m /\ (disk.mac = None \/ disk.mac = m) /\ snap' = snap
    BY <1>3, StartFile DEF Start, Boot
  <2>3. \A k \in told : k = m /\ (snap # None => snap.mac = k)
    BY <2>1, <2>2 DEF IdentityInv
  <2>4. QED
    BY <2>2, <2>3 DEF IdentityInv
<1>4. ASSUME NEW h \in Host, CliPairs(h) PROVE IdentityInv'
  BY <1>4 DEF CliPairs, IdentityInv
<1>5. CASE CliPaired
  BY <1>5, CliFile DEF IdentityInv
<1>6. CASE CliFails
  BY <1>6 DEF CliFails, CliDone, IdentityInv
<1>7. CASE UNCHANGED vars
  BY <1>7 DEF vars, IdentityInv
<1>8. QED
  BY <1>1, <1>2, <1>3, <1>4, <1>5, <1>6, <1>7, ConfigAssumption DEF Next

-----------------------------------------------------------------------------
(* Deletions.                                                              *)

\* The TVs that may come back: those of the service, the file and the command line's copy.
Known == users \cup disk.users \cup (IF snap = None THEN {} ELSE snap.users)

\* A username is minted once; a deletion that still waits is of a TV that is off the list.
DeletedInv ==
    /\ removed \cup Known \subseteq minted
    /\ removed \cap Known = {}
    /\ \A r \in Request : pc[r] = "stop" => onUser[r] \in minted \ users

\* What a request does to the TVs: nothing, or it pairs or deletes one.
LEMMA TVFrame ==
    ASSUME Types, Serve
    PROVE  \/ /\ UNCHANGED <<users, minted, removed>> /\ Written
              /\ \A r \in Request : pc'[r] = "stop" => pc[r] = "stop" /\ onUser'[r] = onUser[r]
           \/ \E u \in User, ok \in BOOLEAN : PairTV(u, ok)
           \/ \E r \in Request, ok \in BOOLEAN : DeleteStopped(r, ok)
           \/ \E r \in Request, u \in User, owner, ok \in BOOLEAN : DeleteTV(r, u, owner, ok)
<1> DEFINE Framed == /\ UNCHANGED <<users, minted, removed>> /\ Written
                     /\ \A r \in Request :
                            pc'[r] = "stop" => pc[r] = "stop" /\ onUser'[r] = onUser[r]
<1> USE DEF memory, request, reports, file, Await, Return
<1>0. /\ pc \in [Request -> {"idle", "assign", "rebuild", "areas", "pair", "stop"}]
      /\ onUser \in [Request -> User \cup {None}]
  BY DEF Types, RequestTypes
<1>a. ASSUME NEW ok \in BOOLEAN, Save(ok) PROVE Written
  BY <1>a DEF Save, Written
<1>b. ASSUME UNCHANGED disk PROVE Written
  BY <1>b DEF Written
<1>1. ASSUME NEW ok \in BOOLEAN, NEW u \in User, Smooth(u, ok) PROVE Framed
  BY <1>1, <1>a DEF Smooth
<1>2. ASSUME NEW ok \in BOOLEAN, NEW r \in Request, NEW u \in User, NEW a \in Area \cup {NoArea},
             NEW w \in {"zones", "devices"}, Assign(r, u, a, w, ok)
      PROVE  Framed
  BY <1>0, <1>2, <1>a, <1>b DEF Assign
<1>3. ASSUME NEW u \in User, NEW a \in Area \cup {NoArea}, NEW w \in {"zones", "devices"},
             AssignRaises(u, a, w)
      PROVE  Framed
  BY <1>3, <1>b DEF AssignRaises
<1>4. ASSUME NEW ok \in BOOLEAN, NEW r \in Request, NEW found, Rebuild(r, found, ok) PROVE Framed
  BY <1>0, <1>4, <1>a DEF Rebuild
<1>5. ASSUME NEW ok \in BOOLEAN, NEW r \in Request, AssignRebuilds(r, ok) PROVE Framed
  BY <1>4, <1>5 DEF AssignRebuilds
<1>6. ASSUME NEW ok \in BOOLEAN, NEW r \in Request, AreasFailed(r, ok) PROVE Framed
  BY <1>0, <1>4, <1>6, <1>b DEF AreasFailed
<1>7. ASSUME NEW r \in Request, ListAreas(r) \/ PairFails(r) \/ AreasRaise(r) PROVE Framed
  BY <1>0, <1>7, <1>b DEF ListAreas, PairFails, AreasRaise
<1>8. ASSUME NEW r \in Request, NEW h \in Host, PairBridge(r, h) PROVE Framed
  BY <1>0, <1>8, <1>b DEF PairBridge
<1>9. ASSUME NEW ok \in BOOLEAN, NEW r \in Request, BridgePaired(r, ok) PROVE Framed
  BY <1>0, <1>9, <1>a DEF BridgePaired
<1>10. ASSUME NEW ok \in BOOLEAN, NEW r \in Request, AreasAnswered(r, ok) PROVE Framed
  BY <1>0, <1>10, <1>a DEF AreasAnswered
<1>11. ASSUME NEW ok \in BOOLEAN, NEW h \in Host, Activate(h, ok) \/ DeleteBridge(h, ok)
       PROVE  Framed
  BY <1>11, <1>a DEF Activate, DeleteBridge
<1>12. ASSUME NEW ok \in BOOLEAN, NEW r \in Request, BridgeStep(r, ok) PROVE Framed
  BY <1>6, <1>7, <1>8, <1>9, <1>10, <1>12, ConfigAssumption DEF BridgeStep
<1>13. ASSUME NEW ok \in BOOLEAN, NEW r \in Request, TVStep(r, ok)
       PROVE  \/ Framed \/ DeleteStopped(r, ok)
              \/ \E u \in User, owner \in BOOLEAN : DeleteTV(r, u, owner, ok)
  BY <1>2, <1>5, <1>13 DEF TVStep
<1>14. QED
  BY <1>1, <1>3, <1>11, <1>12, <1>13 DEF Serve

\* No step brings back what was deleted.
LEMMA DeletedStep ==
    ASSUME Types, DeletedInv, [Next]_vars
    PROVE  DeletedInv'
<1> USE DEF own, service, cli, request, reports, file, memory
<1>0. /\ pc \in [Request -> {"idle", "assign", "rebuild", "areas", "pair", "stop"}]
      /\ onUser \in [Request -> User \cup {None}] /\ minted \subseteq User
  BY DEF Types, RequestTypes, GhostTypes
<1>1. CASE UNCHANGED own /\ Serve
  <2>a. ASSUME NEW ok \in BOOLEAN, Save(ok) PROVE disk'.users = users' \/ (~ok /\ disk' = disk)
    BY <2>a DEF Save, Contents
  <2>1. CASE /\ UNCHANGED <<users, minted, removed>> /\ Written
             /\ \A r \in Request : pc'[r] = "stop" => pc[r] = "stop" /\ onUser'[r] = onUser[r]
    BY <1>1, <2>1 DEF DeletedInv, Known, Written, Contents
  <2>2. ASSUME NEW u \in User, NEW ok \in BOOLEAN, PairTV(u, ok) PROVE DeletedInv'
    <3>1. /\ u \notin minted /\ minted' = minted \cup {u} /\ users' = users \cup {u}
          /\ UNCHANGED <<request, removed, snap>> /\ (disk'.users = users' \/ disk' = disk)
      BY <1>1, <2>2, <2>a DEF PairTV
    <3>2. QED
      BY <3>1 DEF DeletedInv, Known
  <2>3. ASSUME NEW r \in Request, NEW u \in User, NEW owner \in BOOLEAN, NEW ok \in BOOLEAN,
               DeleteTV(r, u, owner, ok)
        PROVE  DeletedInv'
    <3>1. u \in users /\ users' = users \ {u} /\ UNCHANGED <<minted, snap>>
      BY <1>1, <2>3 DEF DeleteTV
    <3>2. CASE owner
      BY <1>0, <2>3, <3>1, <3>2 DEF DeletedInv, Known, DeleteTV, Await
    <3>3. CASE ~owner
      <4>1. UNCHANGED request /\ (disk'.users = users' \/ (~ok /\ disk' = disk))
        BY <2>3, <2>a, <3>3 DEF DeleteTV
      <4>2. \/ removed' = removed
            \/ ok /\ removed' = removed \cup {u} /\ (snap # None => u \notin snap.users)
        BY <2>3, <3>3 DEF DeleteTV, Deleted
      <4>3. QED
        BY <3>1, <4>1, <4>2 DEF DeletedInv, Known
    <3>4. QED
      BY <3>2, <3>3
  <2>4. ASSUME NEW r \in Request, NEW ok \in BOOLEAN, DeleteStopped(r, ok) PROVE DeletedInv'
    <3>1. /\ UNCHANGED <<users, minted, snap>> /\ onUser[r] \in minted \ users
          /\ disk'.users = users' \/ (~ok /\ disk' = disk)
      BY <1>1, <2>4, <2>a DEF DeleteStopped, DeletedInv
    <3>2. \/ removed' = removed
          \/ /\ ok /\ removed' = removed \cup {onUser[r]}
             /\ snap # None => onUser[r] \notin snap.users
      BY <2>4 DEF DeleteStopped, Deleted
    <3>3. \A q \in Request : pc'[q] = "stop" => pc[q] = "stop" /\ onUser'[q] = onUser[q]
      BY <1>0, <2>4 DEF DeleteStopped, Return, Await
    <3>4. QED
      BY <3>1, <3>2, <3>3 DEF DeletedInv, Known
  <2>5. QED
    BY <1>1, <2>1, <2>2, <2>3, <2>4, TVFrame
<1>2. CASE Kill
  BY <1>2 DEF Kill, Loaded, Empty, DeletedInv, Known
<1>3. ASSUME NEW m \in Mac, Start(m) PROVE DeletedInv'
  <2>1. ~up /\ users' = disk.users /\ disk'.users = disk.users
    BY <1>3, StartFile DEF Loaded
  <2>2. \A r \in Request : pc'[r] # "stop"
    BY <1>3, <2>1 DEF Start, Boot, Types, Waits
  <2>3. QED
    BY <1>3, <2>1, <2>2 DEF Start, Boot, DeletedInv, Known
<1>4. ASSUME NEW h \in Host, CliPairs(h) PROVE DeletedInv'
  BY <1>4 DEF CliPairs, DeletedInv, Known
<1>5. CASE CliPaired
  BY <1>5, CliFile DEF DeletedInv, Known
<1>6. CASE CliFails
  BY <1>6 DEF CliFails, CliDone, DeletedInv, Known
<1>7. CASE UNCHANGED vars
  BY <1>7 DEF vars, DeletedInv, Known
<1>8. QED
  BY <1>1, <1>2, <1>3, <1>4, <1>5, <1>6, <1>7, ConfigAssumption DEF Next

-----------------------------------------------------------------------------
(* What a kill can lose.                                                   *)

\* Only an assignment and a deletion that wait leave the file behind, or a request that raised.
DurableInv ==
    up /\ ~ahead /\ (\A r \in Request : pc[r] \notin {"assign", "rebuild", "stop"})
        => disk = Contents

\* Every other step saves, or changes nothing that is saved.
LEMMA DurableStep ==
    ASSUME Types, DurableInv, [Next]_vars
    PROVE  DurableInv'
<1> USE DEF own, service, cli, request, reports, file, memory, Await, Return
<1>0. pc \in [Request -> {"idle", "assign", "rebuild", "areas", "pair", "stop"}]
  BY DEF Types, RequestTypes
<1>a. ASSUME NEW ok \in BOOLEAN, Save(ok) PROVE DurableInv'
  BY <1>a DEF Save, DurableInv
<1>b. ASSUME UNCHANGED <<disk, memory, mac, up, ahead>>,
             \A r \in Request : pc[r] \in {"assign", "rebuild", "stop"} => pc'[r] = pc[r]
      PROVE  DurableInv'
  BY <1>b DEF DurableInv, Contents
<1>c. ASSUME NEW r \in Request, pc'[r] \in {"assign", "rebuild", "stop"} PROVE DurableInv'
  BY <1>c DEF DurableInv
<1>1. CASE UNCHANGED own /\ Serve
  <2>1. ASSUME NEW ok \in BOOLEAN, NEW u \in User, PairTV(u, ok) \/ Smooth(u, ok)
        PROVE  DurableInv'
    BY <1>a, <2>1 DEF PairTV, Smooth
  <2>2. ASSUME NEW ok \in BOOLEAN, NEW r \in Request, NEW u \in User,
               NEW a \in Area \cup {NoArea}, NEW w \in {"zones", "devices"}, Assign(r, u, a, w, ok)
        PROVE  DurableInv'
    BY <1>0, <1>a, <1>c, <2>2 DEF Assign
  <2>3. ASSUME NEW u \in User, NEW a \in Area \cup {NoArea}, NEW w \in {"zones", "devices"},
               AssignRaises(u, a, w)
        PROVE  DurableInv'
    BY <2>3 DEF AssignRaises, DurableInv
  <2>4. ASSUME NEW ok \in BOOLEAN, NEW r \in Request,
               AssignRebuilds(r, ok) \/ DeleteStopped(r, ok)
        PROVE  DurableInv'
    BY <1>a, <2>4 DEF AssignRebuilds, Rebuild, DeleteStopped
  <2>5. ASSUME NEW ok \in BOOLEAN, NEW r \in Request, NEW u \in User, NEW owner \in BOOLEAN,
               DeleteTV(r, u, owner, ok)
        PROVE  DurableInv'
    BY <1>0, <1>a, <1>c, <2>5 DEF DeleteTV
  <2>6. ASSUME NEW r \in Request, ListAreas(r) \/ PairFails(r) PROVE DurableInv'
    BY <1>0, <1>1, <1>b, <2>6 DEF ListAreas, PairFails
  <2>7. ASSUME NEW r \in Request, NEW h \in Host, PairBridge(r, h) PROVE DurableInv'
    BY <1>0, <1>1, <1>b, <2>7 DEF PairBridge
  <2>8. ASSUME NEW ok \in BOOLEAN, NEW r \in Request, BridgePaired(r, ok) \/ AreasAnswered(r, ok)
        PROVE  DurableInv'
    BY <1>a, <2>8 DEF BridgePaired, AreasAnswered
  <2>9. ASSUME NEW ok \in BOOLEAN, NEW r \in Request, AreasFailed(r, ok) PROVE DurableInv'
    <3>1. CASE pc[r] = "assign"
      BY <1>a, <2>9, <3>1 DEF AreasFailed, Rebuild
    <3>2. CASE pc[r] # "assign"
      BY <1>0, <1>1, <1>b, <2>9, <3>2 DEF AreasFailed
    <3>3. QED
      BY <3>1, <3>2
  <2>10. ASSUME NEW r \in Request, AreasRaise(r) PROVE DurableInv'
    <3>1. CASE pc[r] = "assign"
      BY <2>10, <3>1 DEF AreasRaise, DurableInv
    <3>2. CASE pc[r] = "areas"
      <4>1. UNCHANGED <<disk, memory, mac, up>> /\ (ahead' <=> ahead)
        BY <1>1, <2>10, <3>2 DEF AreasRaise
      <4>2. \A q \in Request : pc[q] \in {"assign", "rebuild", "stop"} => pc'[q] = pc[q]
        BY <1>0, <2>10, <3>2 DEF AreasRaise
      <4>3. QED
        BY <4>1, <4>2 DEF DurableInv, Contents
    <3>3. QED
      BY <2>10, <3>1, <3>2 DEF AreasRaise
  <2>11. ASSUME NEW ok \in BOOLEAN, NEW h \in Host, Activate(h, ok) \/ DeleteBridge(h, ok)
         PROVE  DurableInv'
    BY <1>a, <2>11 DEF Activate, DeleteBridge
  <2>12. ASSUME NEW ok \in BOOLEAN, NEW r \in Request, BridgeStep(r, ok) PROVE DurableInv'
    BY <2>6, <2>7, <2>8, <2>9, <2>10, <2>12, ConfigAssumption DEF BridgeStep
  <2>13. ASSUME NEW ok \in BOOLEAN, NEW r \in Request, TVStep(r, ok) PROVE DurableInv'
    BY <2>2, <2>4, <2>5, <2>13 DEF TVStep
  <2>14. QED
    BY <1>1, <2>1, <2>3, <2>11, <2>12, <2>13 DEF Serve
<1>2. CASE Kill
  BY <1>2 DEF Kill, DurableInv
<1>3. ASSUME NEW m \in Mac, Start(m) PROVE DurableInv'
  BY <1>3, StartFile DEF DurableInv
<1>4. ASSUME NEW h \in Host, CliPairs(h) PROVE DurableInv'
  BY <1>4, <1>b DEF CliPairs
<1>5. CASE CliPaired
  <2>1. up' = up /\ (ahead' <=> ahead \/ up)
    BY <1>5 DEF CliPaired, CliDone
  <2>2. QED
    BY <2>1 DEF DurableInv
<1>6. CASE CliFails
  BY <1>6, <1>b DEF CliFails, CliDone
<1>7. CASE UNCHANGED vars
  BY <1>7, <1>b DEF vars
<1>8. QED
  BY <1>1, <1>2, <1>3, <1>4, <1>5, <1>6, <1>7, ConfigAssumption DEF Next

-----------------------------------------------------------------------------
(* Lights.                                                                 *)

\* The lights of every TV nobody doubts are those of its area and split.
Matching(c, doubt) ==
    \A u \in c.users \ doubt : c.lights[u] \in {None, [area |-> c.area[u], split |-> c.split[u]]}

\* A TV that is not in the list has no lights to come back with.
Clean(c) == \A u \in User \ c.users : c.lights[u] = None

\* An assignment that nothing overlapped asks about the area its TV has.
Waiting ==
    \A r \in Request : pc[r] \in {"assign", "rebuild"} =>
        /\ onUser[r] \in minted
        /\ onUser[r] \in users \ suspect => onArea[r] = area[onUser[r]]

\* The file has to match as well, since a kill puts it in the memory's place, and so has the
\* command line's copy, but for the TVs it may have cut.
LightsInv ==
    /\ Matching(Contents, Doubtful) /\ Clean(Contents) /\ users \subseteq minted
    /\ Matching(disk, Doubtful) /\ Clean(disk) /\ disk.users \subseteq minted
    /\ snap # None => Matching(snap, cut) /\ Clean(snap) /\ snap.users \subseteq minted
    /\ Waiting

\* What a request has to show of the memory it leaves behind, whether its save succeeds or not.
LEMMA LightsSaved ==
    ASSUME Types, LightsInv, UNCHANGED <<snap, cut>>, minted \subseteq minted',
           Matching(Contents, Doubtful)', Clean(Contents)', users' \subseteq minted', Waiting',
           disk' = Contents' \/ (disk' = disk /\ Doubtful \subseteq Doubtful')
    PROVE  LightsInv'
<1>1. disk'.users \subseteq minted' /\ Clean(disk')
  <2>1. CASE disk' = Contents'
    BY <2>1 DEF Contents, Clean
  <2>2. CASE disk' = disk
    BY <2>2 DEF LightsInv, Clean
  <2>3. QED
    BY <2>1, <2>2
<1>2. Matching(disk', Doubtful')
  <2>1. CASE disk' = Contents'
    BY <2>1 DEF Matching
  <2>2. CASE disk' = disk /\ Doubtful \subseteq Doubtful'
    BY <2>2 DEF LightsInv, Matching
  <2>3. QED
    BY <2>1, <2>2
<1>3. (snap # None => Matching(snap, cut) /\ Clean(snap) /\ snap.users \subseteq minted)'
  BY DEF LightsInv, Matching, Clean
<1>4. QED
  BY <1>1, <1>2, <1>3 DEF LightsInv, Matching, Clean

\* Every step leaves the lights of the TVs that nothing overlaps as they should be.
LEMMA LightsStep ==
    ASSUME Types, LightsInv, [Next]_vars
    PROVE  LightsInv'
<1> USE DEF own, service, cli, request, reports, file, memory, Await, Return
<1>0. /\ pc \in [Request -> {"idle", "assign", "rebuild", "areas", "pair", "stop"}]
      /\ onUser \in [Request -> User \cup {None}] /\ onArea \in [Request -> Area \cup {NoArea}]
      /\ users \subseteq User /\ lights \in [User -> Lights]
      /\ area \in [User -> Area \cup {NoArea}] /\ split \in [User -> {"zones", "devices"}]
      /\ suspect \subseteq User /\ minted \subseteq User
  BY DEF Types, RequestTypes, MemoryTypes, GhostTypes
<1>a. ASSUME NEW ok \in BOOLEAN, Save(ok) PROVE disk' = Contents' \/ (disk' = disk /\ ~ok)
  BY <1>a DEF Save
<1>b. ASSUME UNCHANGED <<users, area, split, lights, minted, snap, cut>>, Written,
             Doubtful \subseteq Doubtful', suspect \subseteq suspect',
             \A r \in Request : pc'[r] \in {"assign", "rebuild"} =>
                 /\ pc[r] \in {"assign", "rebuild"}
                 /\ onUser'[r] = onUser[r] /\ onArea'[r] = onArea[r]
      PROVE  LightsInv'
  <2>1. Matching(Contents, Doubtful)' /\ Clean(Contents)' /\ users' \subseteq minted'
    BY <1>0, <1>b DEF LightsInv, Matching, Clean, Contents
  <2>2. Waiting'
    BY <1>0, <1>b DEF LightsInv, Waiting
  <2>3. QED
    <3>1. disk'.users \subseteq minted' /\ Clean(disk') /\ Matching(disk', Doubtful')
      <4>1. CASE disk' = Contents'
        BY <2>1, <4>1 DEF Contents, Clean, Matching
      <4>2. CASE disk' = disk
        BY <1>b, <4>2 DEF LightsInv, Clean, Matching
      <4>3. QED
        BY <1>b, <4>1, <4>2 DEF Written
    <3>2. (snap # None => Matching(snap, cut) /\ Clean(snap) /\ snap.users \subseteq minted)'
      BY <1>b DEF LightsInv, Matching, Clean
    <3>3. QED
      BY <2>1, <2>2, <3>1, <3>2 DEF LightsInv, Matching, Clean
<1>c. ASSUME NEW ok \in BOOLEAN, Save(ok) PROVE Written
  BY <1>c DEF Save, Written
<1>d. ASSUME UNCHANGED disk PROVE Written
  BY <1>d DEF Written
<1>e. ASSUME NEW r \in Request, Return(r), pc[r] \in {"assign", "rebuild"},
             onUser[r] \in suspect', suspect \subseteq suspect'
      PROVE  Doubtful \subseteq Doubtful'
  BY <1>0, <1>e DEF Doubtful, Assigning
<1>f. ASSUME NEW r \in Request, Return(r), pc[r] \notin {"assign", "rebuild"},
             suspect \subseteq suspect'
      PROVE  Doubtful \subseteq Doubtful'
  BY <1>0, <1>f DEF Doubtful, Assigning
<1>g. ASSUME NEW r \in Request, Return(r)
      PROVE  \A q \in Request : pc'[q] \in {"assign", "rebuild"} =>
                 /\ pc[q] \in {"assign", "rebuild"}
                 /\ onUser'[q] = onUser[q] /\ onArea'[q] = onArea[q]
  BY <1>0, <1>g
<1>1. ASSUME NEW u \in User, NEW ok \in BOOLEAN, PairTV(u, ok), UNCHANGED own PROVE LightsInv'
  <2>1. u \notin users /\ u \notin minted /\ lights[u] = None
    BY <1>0, <1>1 DEF PairTV, LightsInv, Clean, Contents
  <2>2. UNCHANGED <<request, suspect>> /\ Save(ok) /\ users' = users \cup {u}
    BY <1>1 DEF PairTV
  <2>3. lights'[u] \in {None, [area |-> area'[u], split |-> split'[u]]}
    <3>1. split'[u] = "zones"
      BY <1>0, <1>1 DEF PairTV
    <3>2. CASE ActiveBridge \in cached /\ AreasOf[ActiveBridge] # <<>>
      BY <1>0, <1>1, <3>1, <3>2 DEF PairTV, Built
    <3>3. CASE ~(ActiveBridge \in cached /\ AreasOf[ActiveBridge] # <<>>)
      BY <1>1, <2>1, <3>3 DEF PairTV
    <3>4. QED
      BY <3>2, <3>3
  <2>4. \A v \in User \ {u} : lights'[v] = lights[v] /\ area'[v] = area[v] /\ split'[v] = split[v]
    BY <1>0, <1>1 DEF PairTV
  <2>5. Doubtful' = Doubtful
    BY <2>2 DEF Doubtful, Assigning
  <2>6. Matching(Contents, Doubtful)'
    BY <1>0, <2>2, <2>3, <2>4, <2>5 DEF LightsInv, Matching, Contents
  <2>7. Clean(Contents)' /\ users' \subseteq minted'
    BY <1>0, <1>1, <2>2, <2>4 DEF LightsInv, Clean, Contents, PairTV
  <2>8. Waiting'
    BY <1>0, <1>1, <2>1, <2>2, <2>4 DEF LightsInv, Waiting, PairTV
  <2>9. minted \subseteq minted'
    BY <1>1 DEF PairTV
  <2>10. disk' = Contents' \/ disk' = disk
    BY <1>a, <2>2
  <2>11. QED
    BY <1>1, <2>5, <2>6, <2>7, <2>8, <2>9, <2>10, LightsSaved
<1>2. ASSUME NEW r \in Request, NEW u \in User, NEW a \in Area \cup {NoArea},
             NEW w \in {"zones", "devices"}, NEW ok \in BOOLEAN, Assign(r, u, a, w, ok),
             UNCHANGED own
      PROVE  LightsInv'
  <2>1. u \in users /\ pc[r] = "idle" /\ UNCHANGED <<users, minted>>
    BY <1>2 DEF Assign
  <2>2. \A v \in User \ {u} : /\ area'[v] = area[v] /\ split'[v] = split[v]
                            /\ lights'[v] = lights[v] /\ (v \in suspect' <=> v \in suspect)
    BY <1>0, <1>2 DEF Assign
  <2>3. \A q \in Request : q # r /\ pc[q] \in {"assign", "rebuild"}
                               /\ onUser[q] \in users \ suspect'
                           => onUser[q] # u /\ onArea[q] = area'[onUser[q]]
    <3>1. ASSUME NEW q \in Request, pc[q] \in {"assign", "rebuild"}, onUser[q] \in users \ suspect'
          PROVE  onUser[q] # u /\ onArea[q] = area'[onUser[q]]
      <4>1. CASE onUser[q] = u
        BY <1>2, <3>1, <4>1 DEF Assign, Assigning
      <4>2. CASE onUser[q] # u
        BY <1>0, <2>2, <3>1, <4>2 DEF LightsInv, Waiting
      <4>3. QED
        BY <4>1, <4>2
    <3>2. QED
      BY <3>1
  <2>4. CASE a # NoArea /\ ActiveBridge # None
    <3>1. pc' = [pc EXCEPT ![r] = "assign"] /\ onUser' = [onUser EXCEPT ![r] = u]
          /\ onArea' = [onArea EXCEPT ![r] = a] /\ UNCHANGED <<lights, disk>>
      BY <1>2, <2>4 DEF Assign
    <3>2. Doubtful' = Doubtful \cup {u}
      <4>1. Assigning(u)' /\ \A v \in User \ {u} : Assigning(v)' <=> Assigning(v)
        BY <1>0, <2>1, <3>1 DEF Assigning
      <4>2. suspect' \subseteq User
        BY <1>0, <1>2 DEF Assign
      <4>3. QED
        BY <1>0, <2>2, <4>1, <4>2 DEF Doubtful
    <3>3. Matching(Contents, Doubtful)'
      BY <1>0, <2>1, <2>2, <3>1, <3>2 DEF LightsInv, Matching, Contents
    <3>4. Clean(Contents)'
      BY <1>0, <2>1, <2>2, <3>1 DEF LightsInv, Clean, Contents
    <3>5. area'[u] = a
      BY <1>0, <1>2 DEF Assign
    <3>6. Waiting'
      BY <1>0, <2>1, <2>3, <3>1, <3>5 DEF LightsInv, Waiting
    <3>7. users' \subseteq minted'
      BY <2>1 DEF LightsInv
    <3>8. QED
      BY <1>2, <2>1, <3>1, <3>2, <3>3, <3>4, <3>6, <3>7, LightsSaved
  <2>5. CASE ~(a # NoArea /\ ActiveBridge # None)
    <3>1. lights' = [lights EXCEPT ![u] = None] /\ UNCHANGED request /\ Save(ok)
      BY <1>2, <2>5 DEF Assign
    <3>2. Doubtful \ {u} = Doubtful' \ {u}
      <4>1. \A v \in User : Assigning(v)' <=> Assigning(v)
        BY <3>1 DEF Assigning
      <4>2. suspect' \subseteq User
        BY <1>0, <1>2 DEF Assign
      <4>3. QED
        BY <1>0, <2>2, <4>1, <4>2 DEF Doubtful
    <3>3. ~ok => u \in Doubtful'
      BY <1>2 DEF Assign, Doubtful
    <3>4. Matching(Contents, Doubtful)'
      BY <1>0, <2>1, <2>2, <3>1, <3>2 DEF LightsInv, Matching, Contents
    <3>5. Clean(Contents)'
      BY <1>0, <2>1, <2>2, <3>1 DEF LightsInv, Clean, Contents
    <3>6. Waiting'
      <4>1. \A q \in Request : pc[q] \in {"assign", "rebuild"} => q # r
        BY <2>1
      <4>2. QED
        BY <1>0, <2>1, <2>3, <3>1, <4>1 DEF LightsInv, Waiting
    <3>7. users' \subseteq minted'
      BY <2>1 DEF LightsInv
    <3>8. disk' = Contents' \/ (disk' = disk /\ Doubtful \subseteq Doubtful')
      BY <1>a, <3>1, <3>2, <3>3
    <3>9. QED
      BY <1>2, <2>1, <3>4, <3>5, <3>6, <3>7, <3>8, LightsSaved
  <2>6. QED
    BY <2>4, <2>5
<1>3. ASSUME NEW u \in User, NEW a \in Area \cup {NoArea}, NEW w \in {"zones", "devices"},
             AssignRaises(u, a, w), UNCHANGED own
      PROVE  LightsInv'
  <2>1. /\ u \in users /\ UNCHANGED <<users, lights, minted, request, disk>>
        /\ suspect' = suspect \cup {u}
    BY <1>3 DEF AssignRaises
  <2>2. \A v \in User \ {u} : area'[v] = area[v] /\ split'[v] = split[v]
    BY <1>0, <1>3 DEF AssignRaises
  <2>3. Doubtful' = Doubtful \cup {u}
    BY <2>1 DEF Doubtful, Assigning
  <2>4. Matching(Contents, Doubtful)' /\ Clean(Contents)' /\ users' \subseteq minted'
    BY <1>0, <2>1, <2>2, <2>3 DEF LightsInv, Matching, Clean, Contents
  <2>5. Waiting'
    BY <1>0, <2>1, <2>2 DEF LightsInv, Waiting
  <2>6. QED
    BY <1>3, <2>1, <2>3, <2>4, <2>5, LightsSaved
<1>4. ASSUME NEW r \in Request, NEW found \in BOOLEAN, NEW ok \in BOOLEAN, Rebuild(r, found, ok),
             pc[r] \in {"assign", "rebuild"}, UNCHANGED own
      PROVE  LightsInv'
  <2> DEFINE u == onUser[r]
  <2>1. UNCHANGED <<users, area, split, minted>> /\ Save(ok)
        /\ suspect' = IF ok THEN suspect ELSE suspect \cup {u}
    BY <1>4 DEF Rebuild, Doubt
  <2>2. pc' = [pc EXCEPT ![r] = "idle"] /\ onUser' = [onUser EXCEPT ![r] = None]
        /\ onArea' = [onArea EXCEPT ![r] = NoArea]
    BY <1>4 DEF Rebuild
  <2>3. \A v \in User : v # u => lights'[v] = lights[v] /\ (v \in Doubtful => v \in Doubtful')
    <3>1. \A v \in User : v # u => lights'[v] = lights[v]
      BY <1>0, <1>4 DEF Rebuild
    <3>2. \A v \in User : v # u => (Assigning(v)' <=> Assigning(v))
      BY <1>0, <2>2 DEF Assigning
    <3>3. QED
      BY <2>1, <3>1, <3>2 DEF Doubtful
  <2>4. u \in users \ suspect => lights'[u] \in {None, [area |-> area[u], split |-> split[u]]}
    BY <1>0, <1>4 DEF Rebuild, Built, LightsInv, Waiting
  <2>5. /\ u \notin users => lights' = lights
        /\ ~ok => u \in Doubtful'
        /\ suspect \subseteq Doubtful'
    BY <1>4, <2>1 DEF Rebuild, Doubtful
  <2>6. Waiting'
    BY <1>0, <2>1, <2>2 DEF LightsInv, Waiting
  <2> HIDE DEF u
  <2>7. Matching(Contents, Doubtful)'
    BY <1>0, <2>1, <2>3, <2>4, <2>5 DEF LightsInv, Matching, Contents
  <2>8. Clean(Contents)' /\ users' \subseteq minted'
    BY <1>0, <2>1, <2>3, <2>5 DEF LightsInv, Clean, Contents
  <2>9. disk' = Contents' \/ (disk' = disk /\ Doubtful \subseteq Doubtful')
    <3>1. Doubtful \subseteq User
      BY <1>0 DEF Doubtful
    <3>2. QED
      BY <1>a, <2>1, <2>3, <2>5, <3>1
  <2>10. QED
    BY <1>4, <2>1, <2>6, <2>7, <2>8, <2>9, LightsSaved
<1>5. ASSUME NEW r \in Request, NEW ok \in BOOLEAN, AssignRebuilds(r, ok), UNCHANGED own
      PROVE  LightsInv'
  <2>1. Has(onHost[r], onArea[r]) \in BOOLEAN
    BY DEF Has, Listed
  <2>2. QED
    BY <1>4, <1>5, <2>1 DEF AssignRebuilds
<1>6. ASSUME NEW r \in Request, NEW u \in User, NEW owner \in BOOLEAN, NEW ok \in BOOLEAN,
             DeleteTV(r, u, owner, ok), UNCHANGED own
      PROVE  LightsInv'
  <2>1. u \in users /\ users' = users \ {u} /\ lights'[u] = None /\ UNCHANGED <<minted, suspect>>
    BY <1>0, <1>6 DEF DeleteTV
  <2>2. \A v \in User \ {u} : lights'[v] = lights[v] /\ area'[v] = area[v] /\ split'[v] = split[v]
    BY <1>0, <1>6 DEF DeleteTV
  <2>3. \A q \in Request : /\ pc'[q] \in {"assign", "rebuild"} <=> pc[q] \in {"assign", "rebuild"}
                           /\ pc[q] \in {"assign", "rebuild"} =>
                                 onUser'[q] = onUser[q] /\ onArea'[q] = onArea[q]
    BY <1>0, <1>6 DEF DeleteTV
  <2>4. Doubtful' = Doubtful
    <3>1. \A v \in User : Assigning(v)' <=> Assigning(v)
      BY <2>3 DEF Assigning
    <3>2. QED
      BY <2>1, <3>1 DEF Doubtful
  <2>5. Matching(Contents, Doubtful)'
    BY <1>0, <2>1, <2>2, <2>4 DEF LightsInv, Matching, Contents
  <2>6. Clean(Contents)' /\ users' \subseteq minted'
    BY <1>0, <2>1, <2>2 DEF LightsInv, Clean, Contents
  <2>7. Waiting'
    BY <1>0, <2>1, <2>2, <2>3 DEF LightsInv, Waiting
  <2>8. disk' = Contents' \/ disk' = disk
    BY <1>a, <1>6 DEF DeleteTV
  <2>9. QED
    BY <1>6, <2>1, <2>4, <2>5, <2>6, <2>7, <2>8, LightsSaved
<1>7. ASSUME NEW r \in Request, Return(r), pc[r] \notin {"assign", "rebuild"},
             UNCHANGED <<users, area, split, lights, minted, suspect, own>>, Written
      PROVE  LightsInv'
  BY <1>7, <1>b, <1>f, <1>g
<1>8. ASSUME NEW r \in Request, Return(r), pc[r] \in {"assign", "rebuild"},
             onUser[r] \in suspect', suspect \subseteq suspect',
             UNCHANGED <<users, area, split, lights, minted, own>>, Written
      PROVE  LightsInv'
  BY <1>8, <1>b, <1>e, <1>g
<1>9. ASSUME NEW r \in Request, NEW ok \in BOOLEAN, UNCHANGED own,
             DeleteStopped(r, ok) \/ BridgePaired(r, ok)
      PROVE  LightsInv'
  BY <1>7, <1>9, <1>c DEF DeleteStopped, BridgePaired
<1>10. ASSUME NEW r \in Request, UNCHANGED own, PairFails(r) PROVE LightsInv'
  BY <1>7, <1>10, <1>d DEF PairFails
<1>11. ASSUME NEW r \in Request, NEW ok \in BOOLEAN, AreasFailed(r, ok), UNCHANGED own
       PROVE  LightsInv'
  <2>1. CASE pc[r] = "assign"
    <3> DEFINE known == orphan[r] = "cached" \/ (orphan[r] = "no" /\ onHost[r] \in cached)
    <3>1. (known /\ Has(onHost[r], onArea[r])) \in BOOLEAN
      BY DEF Has, Listed
    <3>2. Rebuild(r, known /\ Has(onHost[r], onArea[r]), ok)
      BY <1>11, <2>1 DEF AreasFailed
    <3>3. QED
      BY <1>4, <1>11, <2>1, <3>1, <3>2
  <2>2. CASE pc[r] # "assign"
    BY <1>7, <1>11, <1>d, <2>2 DEF AreasFailed
  <2>3. QED
    BY <2>1, <2>2
<1>12. ASSUME NEW r \in Request, NEW ok \in BOOLEAN, AreasAnswered(r, ok), UNCHANGED own
       PROVE  LightsInv'
  <2>1. UNCHANGED <<users, area, split, lights, minted>> /\ Written
    BY <1>12, <1>c DEF AreasAnswered
  <2>2. CASE pc[r] = "assign" /\ ok
    <3>1. pc' = [pc EXCEPT ![r] = "rebuild"] /\ suspect' = suspect
      BY <1>12, <2>2 DEF AreasAnswered, Doubt
    <3>2. UNCHANGED <<onUser, onArea>>
      BY <1>0, <1>12, <2>2 DEF AreasAnswered
    <3>3. Doubtful' = Doubtful
      BY <1>0, <2>2, <3>1, <3>2 DEF Doubtful, Assigning
    <3>4. QED
      BY <1>0, <1>b, <1>12, <2>1, <2>2, <3>1, <3>2, <3>3
  <2>3. CASE pc[r] = "assign" /\ ~ok
    <3>1. Return(r) /\ suspect' = suspect \cup {onUser[r]}
      BY <1>12, <2>3 DEF AreasAnswered, Doubt
    <3>2. QED
      BY <1>8, <1>12, <2>1, <2>3, <3>1
  <2>4. CASE pc[r] # "assign"
    <3>1. Return(r) /\ suspect' = suspect /\ pc[r] = "areas"
      BY <1>12, <2>4 DEF AreasAnswered, Doubt
    <3>2. QED
      BY <1>7, <1>12, <2>1, <3>1
  <2>5. QED
    BY <2>2, <2>3, <2>4
<1>13. ASSUME NEW r \in Request, AreasRaise(r), UNCHANGED own PROVE LightsInv'
  <2>1. UNCHANGED <<users, area, split, lights, minted>> /\ Written /\ Return(r)
    BY <1>13, <1>d DEF AreasRaise
  <2>2. CASE pc[r] = "assign"
    <3>1. suspect' = suspect \cup {onUser[r]}
      BY <1>13, <2>2 DEF AreasRaise, Doubt
    <3>2. QED
      BY <1>8, <1>13, <2>1, <2>2, <3>1
  <2>3. CASE pc[r] = "areas"
    <3>1. suspect' = suspect
      BY <1>13, <2>3 DEF AreasRaise, Doubt
    <3>2. QED
      BY <1>7, <1>13, <2>1, <2>3, <3>1
  <2>4. QED
    BY <1>13, <2>2, <2>3 DEF AreasRaise
<1>14. ASSUME NEW r \in Request, NEW h \in Host, ListAreas(r) \/ PairBridge(r, h), UNCHANGED own
       PROVE  LightsInv'
  <2>1. pc[r] = "idle" /\ UNCHANGED <<users, area, split, lights, minted, suspect, disk>>
    BY <1>14 DEF ListAreas, PairBridge
  <2>2. Doubtful' = Doubtful
    BY <1>0, <1>14, <2>1 DEF ListAreas, PairBridge, Doubtful, Assigning
  <2>3. \A q \in Request : pc'[q] \in {"assign", "rebuild"} =>
                 /\ pc[q] \in {"assign", "rebuild"}
                 /\ onUser'[q] = onUser[q] /\ onArea'[q] = onArea[q]
    BY <1>0, <1>14 DEF ListAreas, PairBridge
  <2>4. QED
    BY <1>b, <1>d, <1>14, <2>1, <2>2, <2>3
<1>15. ASSUME UNCHANGED <<users, area, split, lights, minted, pc, onUser, onArea, snap, cut>>,
              suspect \subseteq suspect', Written
       PROVE  LightsInv'
  <2>1. Doubtful \subseteq Doubtful'
    BY <1>15 DEF Doubtful, Assigning
  <2>2. QED
    BY <1>15, <1>b, <2>1
<1>16. CASE UNCHANGED own /\ Serve
  <2>1. ASSUME NEW u \in User, NEW ok \in BOOLEAN, Smooth(u, ok) PROVE LightsInv'
    BY <1>15, <1>16, <1>c, <2>1 DEF Smooth
  <2>2. ASSUME NEW h \in Host, NEW ok \in BOOLEAN, Activate(h, ok) \/ DeleteBridge(h, ok)
        PROVE  LightsInv'
    BY <1>15, <1>16, <1>c, <2>2 DEF Activate, DeleteBridge
  <2>3. ASSUME NEW r \in Request, ListAreas(r) PROVE LightsInv'
    <3>1. ActiveBridge \in Host
      BY <2>3, ActiveBridgeType DEF ListAreas, Types
    <3>2. QED
      BY <1>14, <1>16, <2>3, <3>1
  <2>4. ASSUME NEW r \in Request, NEW ok \in BOOLEAN, TVStep(r, ok) PROVE LightsInv'
    BY <1>2, <1>5, <1>6, <1>9, <1>16, <2>4 DEF TVStep
  <2>5. ASSUME NEW r \in Request, NEW ok \in BOOLEAN, BridgeStep(r, ok) PROVE LightsInv'
    BY <1>9, <1>10, <1>11, <1>12, <1>13, <1>14, <1>16, <2>3, <2>5, ConfigAssumption
    DEF BridgeStep
  <2>6. QED
    BY <1>1, <1>3, <1>16, <2>1, <2>2, <2>4, <2>5 DEF Serve
<1>17. CASE Kill
  <2>1. /\ users' = {} /\ lights' = [u \in User |-> None] /\ UNCHANGED <<disk, minted, snap, cut>>
        /\ \A r \in Request : pc'[r] = "idle"
        /\ suspect' = Doubtful
    BY <1>17 DEF Kill, Loaded, Empty
  <2>2. Doubtful' = Doubtful
    BY <2>1 DEF Doubtful, Assigning
  <2>3. Matching(Contents, Doubtful)' /\ Clean(Contents)' /\ users' \subseteq minted'
    BY <2>1 DEF Matching, Clean, Contents
  <2>4. Waiting'
    BY <2>1 DEF Waiting
  <2>5. QED
    BY <2>1, <2>2, <2>3, <2>4, LightsSaved
<1>18. ASSUME NEW m \in Mac, Start(m) PROVE LightsInv'
  <2>1. /\ users' = disk.users /\ area' = disk.area /\ split' = disk.split
        /\ lights' = disk.lights /\ disk' = Contents' /\ ~up
    BY <1>18, StartFile DEF Loaded
  <2>2. UNCHANGED <<request, suspect, minted, snap, cut>> /\ \A r \in Request : pc[r] = "idle"
    BY <1>18, <2>1 DEF Start, Boot, Types, Waits
  <2>3. Doubtful' = Doubtful
    BY <2>2 DEF Doubtful, Assigning
  <2>4. Matching(Contents, Doubtful)' /\ Clean(Contents)' /\ users' \subseteq minted'
    BY <2>1, <2>2, <2>3 DEF LightsInv, Matching, Clean, Contents
  <2>5. Waiting'
    BY <2>2 DEF Waiting
  <2>6. QED
    BY <2>1, <2>2, <2>4, <2>5, LightsSaved
<1>19. ASSUME NEW h \in Host, CliPairs(h) PROVE LightsInv'
  <2>1. UNCHANGED <<memory, disk, request, suspect, minted>> /\ snap' = disk /\ cut' = Doubtful
    BY <1>19 DEF CliPairs
  <2>2. Doubtful' = Doubtful
    BY <2>1 DEF Doubtful, Assigning
  <2>3. QED
    BY <2>1, <2>2 DEF LightsInv, Matching, Clean, Contents, Waiting
<1>20. CASE CliPaired
  <2>1. suspect' = suspect \cup cut /\ cut \subseteq User
    BY <1>20 DEF CliPaired, Types, OwnTypes
  <2>2. UNCHANGED <<users, area, split, lights, pc, onUser, onArea, minted>> /\ snap' = None
    BY <1>20, CliFile
  <2>3. Doubtful' = Doubtful \cup cut
    BY <2>1, <2>2 DEF Doubtful, Assigning
  <2>4. Matching(Contents, Doubtful)' /\ Clean(Contents)' /\ users' \subseteq minted'
    BY <2>2, <2>3 DEF LightsInv, Matching, Clean, Contents
  <2>5. /\ disk'.users = snap.users /\ disk'.area = snap.area /\ disk'.split = snap.split
        /\ disk'.lights = snap.lights /\ Matching(snap, cut) /\ Clean(snap)
        /\ snap.users \subseteq minted
    BY <1>20, CliFile DEF LightsInv
  <2>6. Matching(disk, Doubtful)' /\ Clean(disk)' /\ disk'.users \subseteq minted'
    BY <2>2, <2>3, <2>5 DEF Matching, Clean
  <2>7. Waiting'
    BY <2>1, <2>2 DEF LightsInv, Waiting
  <2>8. QED
    BY <2>2, <2>4, <2>6, <2>7 DEF LightsInv
<1>21. CASE CliFails
  <2>1. UNCHANGED <<memory, disk, request, suspect, minted>> /\ snap' = None
    BY <1>21 DEF CliFails, CliDone
  <2>2. Doubtful' = Doubtful
    BY <2>1 DEF Doubtful, Assigning
  <2>3. QED
    BY <2>1, <2>2 DEF LightsInv, Matching, Clean, Contents, Waiting
<1>22. CASE UNCHANGED vars
  BY <1>15, <1>22, <1>d DEF vars
<1>23. QED
  BY <1>16, <1>17, <1>18, <1>19, <1>20, <1>21, <1>22, ConfigAssumption DEF Next

-----------------------------------------------------------------------------
(* The theorems.                                                           *)

IInv == Types /\ PairedInv /\ IdentityInv /\ DeletedInv /\ DurableInv /\ LightsInv

\* Together they are inductive.
LEMMA Inductive == Spec => []IInv
<1>1. Init => IInv
  <2> SUFFICES ASSUME Init PROVE IInv
    OBVIOUS
  <2>1. Types
    BY TypesInit
  <2>2. PairedInv /\ IdentityInv /\ DurableInv
    BY DEF Init, PairedInv, IdentityInv, DurableInv
  <2>3. DeletedInv
    BY DEF Init, NoRequests, Empty, DeletedInv, Known
  <2>4. LightsInv
    BY DEF Init, NoRequests, Empty, LightsInv, Matching, Clean, Contents, Waiting
  <2>5. QED
    BY <2>1, <2>2, <2>3, <2>4 DEF IInv
<1>2. IInv /\ [Next]_vars => IInv'
  BY TypesStep, PairedStep, IdentityStep, DeletedStep, DurableStep, LightsStep DEF IInv
<1>3. QED
  BY <1>1, <1>2, PTL DEF Spec

\* A bridge whose pairing was reported stays in the file until it is deleted, over any number of
\* requests that wait meanwhile or raise, kills, starts, and pairings by the command line beside
\* the running service, unless the copy that was read before the pairing is written after it.
THEOREM PairingsLast == Spec => []PairedForGood
<1>1. IInv => PairedForGood
  BY DEF IInv, PairedInv, PairedForGood
<1>2. QED
  BY <1>1, Inductive, PTL

\* No TV ever sees a second identity of the bridge, also if the command line writes the file of a
\* running service, unless its copy is older than the address.
THEOREM IdentityIsLocked == Spec => []StableIdentity
<1>1. IInv => StableIdentity
  BY DEF IInv, IdentityInv, StableIdentity
<1>2. QED
  BY <1>1, Inductive, PTL

\* A deletion that was answered with success is for good, whatever requests, kills and the command
\* line do afterwards, unless the command line's copy is older than the deletion.
THEOREM DeletionsLast == Spec => []DeletedForGood
<1>1. IInv => DeletedForGood
  BY DEF IInv, DeletedInv, DeletedForGood, Known
<1>2. QED
  BY <1>1, Inductive, PTL

\* Between requests a kill loses nothing, unless a request raised or the command line wrote since
\* the last save.
THEOREM NothingUnsaved == Spec => []Durable
<1>1. IInv => Durable
  BY DEF IInv, DurableInv, Durable
<1>2. QED
  BY <1>1, Inductive, PTL

\* The lights of a TV are those of its area and split, after any history of overlapping, raising
\* and killed requests in which the TV's last assignment ran alone and to its end.
THEOREM LightsFollowAreas == Spec => []LightsMatch
<1>1. IInv => LightsMatch
  BY DEF IInv, LightsInv, Matching, Contents, LightsMatch, Doubtful, Types, MemoryTypes
<1>2. QED
  BY <1>1, Inductive, PTL
=============================================================================

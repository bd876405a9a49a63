---------------------------- MODULE ColorsProofs ----------------------------
(***************************************************************************)
(* Theorems about Colors, for areas of any size, lights of any number and  *)
(* whatever the file or a user says the smoothing is: the types, the whole *)
(* area in every frame, the fresh start of a stream and easing without     *)
(* overshoot.                                                              *)
(***************************************************************************)
EXTENDS Colors, FiniteSetTheorems, WellFoundedInduction, TLAPS

-----------------------------------------------------------------------------
(* Rounding and weighted means.                                            *)

\* What div and mod are.
LEMMA DivMod ==
    ASSUME NEW n \in Int, NEW d \in Nat, d > 0
    PROVE  /\ n \div d \in Int /\ n % d \in 0 .. d - 1
           /\ n = d * (n \div d) + (n % d)
  OBVIOUS

\* The nearest whole number to n/d lies between any whole numbers n/d lies between.
LEMMA NearestBetween ==
    ASSUME NEW n \in Int, NEW d \in Nat, d > 0, NEW a \in Int, NEW b \in Int, a * d <= n, n <= b * d
    PROVE  Nearest(n, d) \in a .. b
<1> DEFINE q == n \div d
           r == n % d
<1>1. q \in Int /\ r \in 0 .. d - 1 /\ n = d * q + r
  BY DivMod
<1>2. a <= q
  <2>1. SUFFICES ASSUME q + 1 <= a PROVE FALSE
    BY <1>1
  <2>2. d * (q + 1) <= d * a
    BY <2>1, <1>1
  <2> QED BY <2>2, <1>1
<1>3. q <= b /\ (q = b => r = 0)
  <2>1. ASSUME b + 1 <= q PROVE FALSE
    <3>1. d * (b + 1) <= d * q
      BY <2>1, <1>1
    <3> QED BY <3>1, <1>1
  <2>2. q = b => r = 0
    BY <1>1
  <2> QED BY <2>1, <2>2, <1>1
<1>4. Nearest(n, d) = IF 2 * r > d \/ (2 * r = d /\ q % 2 = 1) THEN q + 1 ELSE q
  BY DEF Nearest
<1>5. r = 0 => Nearest(n, d) = q
  BY <1>4
<1> HIDE DEF q, r
<1> QED BY <1>1, <1>2, <1>3, <1>4, <1>5

\* A weighted mean of two numbers, with weights that add up to d, lies between them.
LEMMA MeanBetween ==
    ASSUME NEW d \in Nat, NEW s \in 0 .. d, NEW x \in Int, NEW y \in Int, NEW a \in Int,
           NEW b \in Int, a <= x, x <= b, a <= y, y <= b
    PROVE  /\ s * x + (d - s) * y \in Int
           /\ a * d <= s * x + (d - s) * y
           /\ s * x + (d - s) * y <= b * d
<1>1. s * a <= s * x /\ (d - s) * a <= (d - s) * y
  OBVIOUS
<1>2. s * x <= s * b /\ (d - s) * y <= (d - s) * b
  OBVIOUS
<1>3. s * a + (d - s) * a = a * d /\ s * b + (d - s) * b = b * d
  OBVIOUS
<1> QED BY <1>1, <1>2, <1>3

\* Rounding keeps the order.
LEMMA NearestMonotone ==
    ASSUME NEW n \in Int, NEW m \in Int, NEW d \in Nat, d > 0, n <= m
    PROVE  Nearest(n, d) <= Nearest(m, d)
<1> DEFINE q(x) == x \div d
           r(x) == x % d
<1>1. ASSUME NEW x \in Int
      PROVE  /\ q(x) \in Int /\ r(x) \in 0 .. d - 1 /\ x = d * q(x) + r(x)
             /\ Nearest(x, d) = IF 2 * r(x) > d \/ (2 * r(x) = d /\ q(x) % 2 = 1)
                                THEN q(x) + 1 ELSE q(x)
  BY DivMod DEF Nearest
<1>2. q(n) <= q(m)
  <2>1. SUFFICES ASSUME q(m) + 1 <= q(n) PROVE FALSE
    BY <1>1
  <2>2. d * (q(m) + 1) <= d * q(n)
    BY <2>1, <1>1
  <2> QED BY <2>2, <1>1
<1>3. q(n) = q(m) => r(n) <= r(m)
  BY <1>1
<1>4. /\ q(n) \in Int /\ r(n) \in 0 .. d - 1
      /\ Nearest(n, d) = IF 2 * r(n) > d \/ (2 * r(n) = d /\ q(n) % 2 = 1) THEN q(n) + 1 ELSE q(n)
  BY <1>1
<1>5. /\ q(m) \in Int /\ r(m) \in 0 .. d - 1
      /\ Nearest(m, d) = IF 2 * r(m) > d \/ (2 * r(m) = d /\ q(m) % 2 = 1) THEN q(m) + 1 ELSE q(m)
  BY <1>1
<1> HIDE DEF q, r
<1>6. CASE q(n) = q(m)
  BY <1>3, <1>4, <1>5, <1>6
<1>7. CASE q(n) < q(m)
  BY <1>4, <1>5, <1>7
<1> QED BY <1>2, <1>4, <1>5, <1>6, <1>7

\* A whole number of whole steps is itself.
LEMMA NearestExact ==
    ASSUME NEW n \in Int, NEW d \in Nat, d > 0
    PROVE  Nearest(n * d, d) = n
<1>1. n * d \in Int
  OBVIOUS
<1>2. Nearest(n * d, d) \in n .. n
  <2>1. n * d <= n * d
    BY <1>1
  <2> QED BY <1>1, <2>1, NearestBetween
<1> QED BY <1>2

-----------------------------------------------------------------------------
(* The lights of an area.                                                  *)

\* Where a device has its channels.
Appears(channels, d) == {k \in DOMAIN channels : channels[k] = d}

\* A set of natural numbers that is not empty has a least element.
LEMMA LeastNatural ==
    ASSUME NEW T, T \subseteq Nat, T # {}
    PROVE  \E x \in T : \A y \in T : x <= y
<1>1. IsWellFoundedOn(OpToRel(<, Nat), Nat)
  BY NatLessThanWellFounded
<1>2. PICK x \in T : \A y \in T : ~(<<y, x>> \in OpToRel(<, Nat))
  BY <1>1, WFMin
<1>3. \A y \in T : ~(y < x)
  BY <1>2 DEF OpToRel
<1> QED BY <1>3

\* An interval from 1 on is finite.
LEMMA OneTo ==
    ASSUME NEW n \in Nat
    PROVE  IsFiniteSet(1 .. n) /\ Cardinality(1 .. n) = n
<1>1. IsFiniteSet(1 .. n) /\ Cardinality(1 .. n) = IF 1 > n THEN 0 ELSE n - 1 + 1
  BY FS_Interval
<1> QED BY <1>1

\* The channels of an area, and so its devices, are finitely many.
LEMMA DevicesFinite ==
    ASSUME NEW channels \in Seq(Nat)
    PROVE  /\ IsFiniteSet(Range(channels))
           /\ Cardinality(Range(channels)) \in 0 .. Len(channels)
           /\ DOMAIN channels = 1 .. Len(channels) /\ Len(channels) \in Nat
<1>1. Len(channels) \in Nat /\ DOMAIN channels = 1 .. Len(channels)
  OBVIOUS
<1>2. IsFiniteSet(DOMAIN channels) /\ Cardinality(DOMAIN channels) = Len(channels)
  BY <1>1, OneTo
<1>3. channels \in Surjection(DOMAIN channels, Range(channels))
  BY DEF Surjection, Range
<1>4. IsFiniteSet(Range(channels)) /\ Cardinality(Range(channels)) <= Len(channels)
  BY <1>2, <1>3, FS_Surjection
<1>5. Cardinality(Range(channels)) \in Nat
  BY <1>4, FS_CardinalityType
<1> QED BY <1>1, <1>4, <1>5

\* The number of a device counts a set of devices: itself, and those with a channel before its own.
LEMMA DeviceNumberBounds ==
    ASSUME NEW channels \in Seq(Nat), NEW d \in Range(channels)
    PROVE  /\ d \in NoLater(channels, d) /\ NoLater(channels, d) \subseteq Range(channels)
           /\ IsFiniteSet(NoLater(channels, d))
           /\ DeviceNumber(channels, d) = Cardinality(NoLater(channels, d))
           /\ DeviceNumber(channels, d) \in 1 .. Cardinality(Range(channels))
<1>1. NoLater(channels, d) \subseteq Range(channels)
  BY DEF NoLater, Range
<1>2. IsFiniteSet(NoLater(channels, d)) /\ Cardinality(NoLater(channels, d)) \in Nat
      /\ Cardinality(NoLater(channels, d)) <= Cardinality(Range(channels))
  BY <1>1, DevicesFinite, FS_Subset, FS_CardinalityType
<1>3. d \in NoLater(channels, d)
  <2>1. Appears(channels, d) \subseteq Nat /\ Appears(channels, d) # {}
    BY DevicesFinite DEF Appears, Range
  <2>2. PICK k \in Appears(channels, d) : \A j \in Appears(channels, d) : k <= j
    BY <2>1, LeastNatural
  <2>3. k \in DOMAIN channels /\ channels[k] = d /\ \A i \in 1 .. (k - 1) : channels[i] # d
    BY <2>2, DevicesFinite DEF Appears
  <2> QED BY <2>3 DEF NoLater
<1>4. Cardinality(NoLater(channels, d)) # 0
  BY <1>2, <1>3, FS_EmptySet
<1>5. DeviceNumber(channels, d) = Cardinality(NoLater(channels, d))
  BY DEF DeviceNumber
<1>6. Cardinality(Range(channels)) \in Nat
  BY DevicesFinite
<1> QED BY <1>1, <1>2, <1>3, <1>4, <1>5, <1>6

\* Devices have different numbers: the one that comes up first is not preceded by the other.
LEMMA DeviceNumberInjective ==
    ASSUME NEW channels \in Seq(Nat), NEW d \in Range(channels), NEW e \in Range(channels),
           DeviceNumber(channels, d) = DeviceNumber(channels, e)
    PROVE  d = e
<1>1. ASSUME NEW x \in Range(channels), NEW y \in Range(channels), x \notin NoLater(channels, y)
      PROVE  DeviceNumber(channels, x) > DeviceNumber(channels, y)
  <2>1. NoLater(channels, y) \subseteq NoLater(channels, x)
    <3>1. SUFFICES ASSUME NEW k \in DOMAIN channels,
                          \A i \in 1 .. (k - 1) : channels[i] # y,
                          NEW i \in 1 .. (k - 1), channels[i] = x
                   PROVE  FALSE
      BY DEF NoLater
    <3>2. i \in DOMAIN channels /\ \A j \in 1 .. (i - 1) : channels[j] # y
      BY <3>1, DevicesFinite
    <3> QED BY <3>1, <3>2, <1>1 DEF NoLater
  <2>2. NoLater(channels, y) # NoLater(channels, x)
    BY <1>1, DeviceNumberBounds
  <2>3. /\ IsFiniteSet(NoLater(channels, x)) /\ IsFiniteSet(NoLater(channels, y))
        /\ DeviceNumber(channels, x) = Cardinality(NoLater(channels, x))
        /\ DeviceNumber(channels, y) = Cardinality(NoLater(channels, y))
        /\ DeviceNumber(channels, x) \in Nat /\ DeviceNumber(channels, y) \in Nat
    BY DeviceNumberBounds, FS_CardinalityType
  <2>4. /\ Cardinality(NoLater(channels, y)) <= Cardinality(NoLater(channels, x))
        /\ Cardinality(NoLater(channels, x)) # Cardinality(NoLater(channels, y))
    BY <2>1, <2>2, <2>3, FS_Subset
  <2> QED BY <2>3, <2>4
<1>2. /\ DeviceNumber(channels, d) \in Nat /\ DeviceNumber(channels, e) \in Nat
      /\ d \in NoLater(channels, e) /\ e \in NoLater(channels, d)
  <2>1. DeviceNumber(channels, d) \in Nat /\ DeviceNumber(channels, e) \in Nat
    BY DeviceNumberBounds, DevicesFinite
  <2> QED BY <2>1, <1>1
<1>3. PICK k \in DOMAIN channels : channels[k] = d /\ \A i \in 1 .. (k - 1) : channels[i] # e
  BY <1>2 DEF NoLater
<1>4. PICK j \in DOMAIN channels : channels[j] = e /\ \A i \in 1 .. (j - 1) : channels[i] # d
  BY <1>2 DEF NoLater
<1>5. k <= j /\ j <= k
  BY <1>3, <1>4, DevicesFinite
<1> QED BY <1>3, <1>4, <1>5, DevicesFinite

\* What lights_from_area promises of the lights of an area, split or merged.
Partition(ls, a) ==
    /\ \A k \in DOMAIN ls : ls[k].id = k /\ ls[k].channels # {}
                             /\ ls[k].channels \subseteq DOMAIN ChannelsOf[a]
    /\ \A c \in DOMAIN ChannelsOf[a] : \E k \in DOMAIN ls : c \in ls[k].channels
    /\ \A k, j \in DOMAIN ls : ls[k].channels \cap ls[j].channels # {} => k = j

\* Split lights: one per channel.
LEMMA SplitLights ==
    ASSUME NEW a \in Area
    PROVE  /\ LightsFromArea(a, TRUE) \in Seq(VirtualLight)
           /\ Partition(LightsFromArea(a, TRUE), a)
<1> DEFINE channels == ChannelsOf[a]
           ls == LightsFromArea(a, TRUE)
<1>1. channels \in Seq(Nat) /\ DOMAIN channels \subseteq Light /\ Light \subseteq Nat
  BY ColorsAssumption
<1>2. DOMAIN channels = 1 .. Len(channels) /\ Len(channels) \in Nat
  BY <1>1, DevicesFinite
<1>3. ls = [k \in 1 .. Len(channels) |-> [id |-> k, channels |-> {k}]]
  BY <1>2 DEF LightsFromArea
<1>4. \A k \in 1 .. Len(channels) : [id |-> k, channels |-> {k}] \in VirtualLight
  BY <1>1, <1>2 DEF VirtualLight
<1> HIDE DEF ls
<1>5. ls \in Seq(VirtualLight)
  BY <1>2, <1>3, <1>4
<1>6. Partition(ls, a)
  BY <1>2, <1>3 DEF Partition
<1> QED BY <1>5, <1>6 DEF ls

\* Merged lights: one per device, with all of its channels.
LEMMA MergedLights ==
    ASSUME NEW a \in Area
    PROVE  /\ LightsFromArea(a, FALSE) \in Seq(VirtualLight)
           /\ Partition(LightsFromArea(a, FALSE), a)
           /\ \A k \in DOMAIN LightsFromArea(a, FALSE), c, d \in DOMAIN ChannelsOf[a] :
                 c \in LightsFromArea(a, FALSE)[k].channels =>
                    (d \in LightsFromArea(a, FALSE)[k].channels <=>
                     ChannelsOf[a][c] = ChannelsOf[a][d])
<1> DEFINE channels == ChannelsOf[a]
           ls == LightsFromArea(a, FALSE)
           n == Cardinality(Range(channels))
           Of(k) == {c \in DOMAIN channels : DeviceNumber(channels, channels[c]) = k}
<1>1. channels \in Seq(Nat) /\ DOMAIN channels \subseteq Light /\ Light \subseteq Nat
  BY ColorsAssumption
<1>2. /\ DOMAIN channels = 1 .. Len(channels) /\ Len(channels) \in Nat
      /\ n \in 0 .. Len(channels) /\ IsFiniteSet(Range(channels))
  BY <1>1, DevicesFinite
<1>3. ls = [k \in 1 .. n |-> [id |-> k, channels |-> Of(k)]]
  BY DEF LightsFromArea
<1>4. \A c \in DOMAIN channels : /\ channels[c] \in Range(channels)
                                 /\ DeviceNumber(channels, channels[c]) \in 1 .. n
  <2>1. \A c \in DOMAIN channels : channels[c] \in Range(channels)
    BY DEF Range
  <2> QED BY <2>1, <1>1, DeviceNumberBounds
<1>5. \A c, d \in DOMAIN channels :
         DeviceNumber(channels, channels[c]) = DeviceNumber(channels, channels[d]) =>
            channels[c] = channels[d]
  BY <1>1, <1>4, DeviceNumberInjective
<1>6. \A k \in 1 .. n : Of(k) # {}
  <2> DEFINE f == [d \in Range(channels) |-> DeviceNumber(channels, d)]
  <2>1. f \in [Range(channels) -> 1 .. n]
    BY <1>1, DeviceNumberBounds
  <2>2. f \in Injection(Range(channels), 1 .. n)
    BY <2>1, <1>1, DeviceNumberInjective DEF Injection, IsInjective
  <2>3. IsFiniteSet(1 .. n) /\ Cardinality(1 .. n) = n
    BY <1>2, OneTo
  <2>4. f \in Surjection(Range(channels), 1 .. n)
    BY <2>2, <2>3, FS_Injection
  <2>5. \A k \in 1 .. n : \E d \in Range(channels) : DeviceNumber(channels, d) = k
    BY <2>4 DEF Surjection
  <2> QED BY <2>5 DEF Range
<1>7. \A k \in 1 .. n : k \in Light
  BY <1>1, <1>2
<1>8. \A k \in 1 .. n : [id |-> k, channels |-> Of(k)] \in VirtualLight
  BY <1>1, <1>2, <1>7 DEF VirtualLight
<1>9. \A k \in 1 .. n : Of(k) \subseteq DOMAIN channels
  OBVIOUS
<1>10. \A c \in DOMAIN channels : \E k \in 1 .. n : c \in Of(k)
  BY <1>4
<1>11. \A k, j \in 1 .. n : Of(k) \cap Of(j) # {} => k = j
  OBVIOUS
<1>12. \A k \in 1 .. n, c, d \in DOMAIN channels :
          c \in Of(k) => (d \in Of(k) <=> channels[c] = channels[d])
  BY <1>5
<1> HIDE DEF Of, n, ls
<1>13. ls \in Seq(VirtualLight)
  BY <1>2, <1>3, <1>8
<1>14. DOMAIN ls = 1 .. n /\ \A k \in DOMAIN ls : ls[k].id = k /\ ls[k].channels = Of(k)
  BY <1>3
<1>15. Partition(ls, a)
  BY <1>14, <1>6, <1>9, <1>10, <1>11 DEF Partition
<1>16. \A k \in DOMAIN ls, c, d \in DOMAIN channels :
          c \in ls[k].channels => (d \in ls[k].channels <=> channels[c] = channels[d])
  BY <1>12, <1>14
<1> QED BY <1>13, <1>15, <1>16 DEF ls

-----------------------------------------------------------------------------
(* Colours and states.                                                     *)

\* A set of natural numbers with a bound and an element has a greatest element.
LEMMA MaxIn ==
    ASSUME NEW n \in Nat, NEW T, T \subseteq 0 .. n, T # {}
    PROVE  Max(T) \in T
<1> DEFINE U == {n - x : x \in T}
<1>1. U \subseteq Nat /\ U # {}
  <2>1. \A x \in T : x \in Nat /\ n - x \in Nat
    OBVIOUS
  <2> QED BY <2>1
<1>2. PICK u \in U : \A v \in U : u <= v
  BY <1>1, LeastNatural
<1>3. PICK x \in T : u = n - x
  BY <1>2
<1>4. \A y \in T : x >= y
  <2>1. SUFFICES ASSUME NEW y \in T PROVE x >= y
    OBVIOUS
  <2>2. n - y \in U
    OBVIOUS
  <2>3. x \in 0 .. n /\ y \in 0 .. n
    OBVIOUS
  <2> HIDE DEF U
  <2> QED BY <1>2, <1>3, <2>2, <2>3
<1> QED BY <1>4 DEF Max

\* Lights made from an area partition it.
LEMMA BuiltLights ==
    ASSUME NEW a \in Area, NEW s \in BOOLEAN
    PROVE  /\ LightsFromArea(a, s) \in Seq(VirtualLight)
           /\ Partition(LightsFromArea(a, s), a)
<1>1. CASE s = TRUE
  BY <1>1, SplitLights
<1>2. CASE s = FALSE
  BY <1>2, MergedLights
<1> QED BY <1>1, <1>2

\* A state stays one whichever fields a body brings.
LEMMA MergedType ==
    ASSUME NEW s \in State, NEW body \in Body
    PROVE  Merged(s, body) \in State
<1> USE DEF State, Merged
<1>1. CASE body \in [on : BOOLEAN]
  BY <1>1
<1>2. CASE body \in [xy : Color]
  BY <1>2
<1>3. CASE body \in [hs : Color]
  BY <1>3
<1>4. CASE body \in [mode : {"hs"}, hs : Color]
  BY <1>4
<1> QED BY <1>1, <1>2, <1>3, <1>4 DEF Body

\* What is off is black.
LEMMA BlackIsColor == 0 \in Color
  BY ColorsAssumption DEF Color

\* The colour of a state is one.
LEMMA ShownType ==
    ASSUME NEW s \in State
    PROVE  StateToRgb(s) \in Color
  BY BlackIsColor DEF State, StateToRgb

\* What a write does to the buffer, the owner and the count of requests.
LEMMA SubmitTypes ==
    ASSUME TypeOK, NEW tv \in TV, NEW colors, \A l \in DOMAIN colors : colors[l] \in Color,
           requests < MaxRequests, Submit(tv, colors)
    PROVE  /\ buffer' \in [Light -> Color] /\ streamOwner' \in TV \cup {None}
           /\ requests' \in 0 .. MaxRequests
<1>1. buffer' \in [Light -> Color]
  BY DEF Submit, TypeOK
<1>2. streamOwner' \in TV \cup {None} /\ requests' \in 0 .. MaxRequests
  BY ColorsAssumption DEF Submit, TypeOK
<1> QED BY <1>1, <1>2

\* Whatever the file or a user says, the factor is one.
LEMMA CapRange ==
    ASSUME NEW s \in Int
    PROVE  Cap(s) \in 0 .. Parts
  BY ColorsAssumption DEF Cap

\* Eased colours.
Scale == 0 .. MaxColor * Unit

\* An eased colour lies between the old one and the target, and is the target where there is no
\* old one.
LEMMA EasedBetween ==
    ASSUME TypeOK, NEW l \in Light
    PROVE  /\ Eased(l) \in Scale
           /\ smoothedFloat[l] = None => Eased(l) = buffer[l] * Unit
           /\ smoothedFloat[l] # None => Between(Eased(l), smoothedFloat[l], buffer[l] * Unit)
<1> DEFINE s == Cap(ResolveSmoothing)
           goal == buffer[l] * Unit
           old == smoothedFloat[l]
<1>1. s \in 0 .. Parts
  <2>1. ResolveSmoothing \in Int
    BY DEF ResolveSmoothing, TypeOK
  <2> QED BY <2>1, CapRange
<1>2. goal \in Scale /\ old \in Scale \cup {None} /\ Scale \subseteq Nat
      /\ MaxColor * Unit \in Nat
  <2>1. buffer[l] \in 0 .. MaxColor /\ MaxColor \in Nat /\ Unit \in Nat
    BY ColorsAssumption DEF TypeOK, Color
  <2>2. buffer[l] * Unit <= MaxColor * Unit /\ buffer[l] * Unit >= 0 /\ MaxColor * Unit \in Nat
    BY <2>1
  <2> QED BY <2>1, <2>2 DEF TypeOK, Scale
<1>3. Eased(l) = IF old = None \/ s = 0 THEN goal ELSE Nearest(s * old + (Parts - s) * goal, Parts)
  BY DEF Eased
<1>4. Parts \in Nat /\ Parts > 0
  BY ColorsAssumption
<1> HIDE DEF s, goal, old
<1>5. CASE old = None \/ s = 0
  BY <1>2, <1>3, <1>5 DEF Between, Scale, goal, old
<1>6. CASE ~(old = None \/ s = 0)
  <2>1. old \in Scale /\ old \in Int /\ goal \in Int /\ Parts \in Nat /\ s \in 0 .. Parts
    BY <1>1, <1>2, <1>4, <1>6
  <2>2. ASSUME NEW a \in Int, NEW b \in Int, a <= old, old <= b, a <= goal, goal <= b
        PROVE  Eased(l) \in a .. b
    <3>1. /\ s * old + (Parts - s) * goal \in Int
          /\ a * Parts <= s * old + (Parts - s) * goal
          /\ s * old + (Parts - s) * goal <= b * Parts
      BY <2>1, <2>2, MeanBetween
    <3>2. Nearest(s * old + (Parts - s) * goal, Parts) \in a .. b
      BY <3>1, <1>4, NearestBetween
    <3> QED BY <3>2, <1>3, <1>6
  <2>3. Eased(l) \in Scale
    BY <2>1, <2>2, <1>2 DEF Scale
  <2>4. CASE old <= goal
    BY <2>1, <2>2, <2>3, <2>4, <1>6 DEF Between, old, goal
  <2>5. CASE goal <= old
    BY <2>1, <2>2, <2>3, <2>5, <1>6 DEF Between, old, goal
  <2> QED BY <2>1, <2>3, <2>4, <2>5
<1> QED BY <1>5, <1>6

-----------------------------------------------------------------------------
(* Types.                                                                  *)

\* Lights with colours give commands.
LEMMA CommandsType ==
    ASSUME NEW ls \in Seq(VirtualLight), NEW colors \in [Light -> Color]
    PROVE  MapToCommands(ls, colors) \subseteq Command
<1>1. SUFFICES ASSUME NEW k \in DOMAIN ls, NEW c \in ls[k].channels
               PROVE  [light |-> ls[k].id, channel |-> c, color |-> colors[ls[k].id]] \in Command
  BY DEF MapToCommands
<1>2. ls[k] \in VirtualLight
  OBVIOUS
<1> QED BY <1>2 DEF VirtualLight, Command

\* The types hold at the start, and the writes, the tick and every step keep them.
LEMMA InitTypes == Init => TypeOK
<1> SUFFICES ASSUME Init PROVE TypeOK
  OBVIOUS
<1>1. /\ area \in [TV -> Area \cup {None}] /\ split \in [TV -> BOOLEAN]
      /\ smoothing \in [TV -> Int]
  BY ColorsAssumption DEF Init
<1>2. lights \in [TV -> Seq(VirtualLight)]
  <2>1. ASSUME NEW tv \in TV
        PROVE  (IF area[tv] = None THEN <<>> ELSE LightsFromArea(area[tv], split[tv])) \in
                  Seq(VirtualLight)
    BY <1>1, BuiltLights
  <2> QED BY <2>1 DEF Init
<1>3. DefaultState \in State
  BY BlackIsColor DEF DefaultState, State
<1>4. states \in [TV \X Light -> State]
  BY <1>3 DEF Init
<1>5. streamLights \in Seq(VirtualLight)
  BY DEF Init
<1>6. 0 \in 0 .. MaxRequests /\ 0 \in 0 .. MaxStreams
  BY ColorsAssumption
<1> QED BY <1>1, <1>2, <1>4, <1>5, <1>6, BlackIsColor DEF Init, TypeOK

\* A light's state written.
LEMMA LightStateTypes ==
    ASSUME TypeOK, NEW tv \in TV, NEW l \in Light, NEW body \in Body, NEW alert,
           requests < MaxRequests, LightState(tv, l, body, alert)
    PROVE  TypeOK'
<1>1. states' \in [TV \X Light -> State]
  <2>1. <<tv, l>> \in TV \X Light /\ states \in [TV \X Light -> State]
    BY DEF TypeOK
  <2>2. Merged(states[<<tv, l>>], body) \in State
    BY <2>1, MergedType
  <2>3. states' = [states EXCEPT ![<<tv, l>>] = Merged(states[<<tv, l>>], body)]
    BY DEF LightState
  <2> QED BY <2>1, <2>2, <2>3
<1>2. identify' \subseteq Light
  BY DEF LightState, TypeOK
<1>3. /\ buffer' \in [Light -> Color] /\ streamOwner' \in TV \cup {None}
      /\ requests' \in 0 .. MaxRequests
  <2> DEFINE colors == [k \in {l} |-> StateToRgb(states'[<<tv, k>>])]
  <2>1. states'[<<tv, l>>] \in State
    BY <1>1
  <2>2. \A k \in DOMAIN colors : colors[k] \in Color
    BY <2>1, ShownType
  <2>3. Submit(tv, colors)
    BY DEF LightState
  <2> HIDE DEF colors
  <2> QED BY <2>2, <2>3, SubmitTypes
<1> QED BY <1>1, <1>2, <1>3 DEF TypeOK, LightState, config, easing, stream

\* The lights of a group written.
LEMMA GroupActionTypes ==
    ASSUME TypeOK, NEW tv \in TV, NEW ls \in SUBSET Light, NEW body \in Body,
           requests < MaxRequests, GroupAction(tv, ls, body)
    PROVE  TypeOK'
<1>1. states' \in [TV \X Light -> State]
  <2>1. \A k \in TV \X Light : states[k] \in State /\ Merged(states[k], body) \in State
    BY MergedType DEF TypeOK
  <2>2. states' = [k \in TV \X Light |->
                     IF k[1] = tv /\ k[2] \in ls THEN Merged(states[k], body) ELSE states[k]]
    BY DEF GroupAction
  <2> QED BY <2>1, <2>2
<1>2. /\ buffer' \in [Light -> Color] /\ streamOwner' \in TV \cup {None}
      /\ requests' \in 0 .. MaxRequests
  <2> DEFINE colors == [l \in ls |-> StateToRgb(states'[<<tv, l>>])]
  <2>1. \A l \in ls : states'[<<tv, l>>] \in State
    BY <1>1
  <2>2. \A l \in DOMAIN colors : colors[l] \in Color
    BY <2>1, ShownType
  <2>3. Submit(tv, colors)
    BY DEF GroupAction
  <2> HIDE DEF colors
  <2> QED BY <2>2, <2>3, SubmitTypes
<1> QED BY <1>1, <1>2 DEF TypeOK, GroupAction, config, easing, stream

\* A frame submitted.
LEMMA OnFrameTypes ==
    ASSUME TypeOK, NEW tv \in TV, NEW f \in Frames, requests < MaxRequests, OnFrame(tv, f)
    PROVE  TypeOK'
<1> DEFINE colors == Resolved(tv, f)
           places(l) == {k \in DOMAIN colors : colors[k].light = l}
           new == [l \in {colors[k].light : k \in DOMAIN colors} |->
                     colors[Max(places(l))].color]
<1>1. /\ f.colors \in Seq([target : Nat, color : Color]) /\ Len(f.colors) \in Nat
      /\ DOMAIN f.colors = 1 .. Len(f.colors)
  <2>1. f \in [v2 : BOOLEAN, colors : Seq([target : Nat, color : Color])]
    BY ColorsAssumption
  <2>2. f.colors \in Seq([target : Nat, color : Color])
    BY <2>1
  <2> QED BY <2>2
<1>2. /\ DOMAIN colors \subseteq DOMAIN f.colors
      /\ \A k \in DOMAIN colors : colors[k].color = f.colors[k].color
  BY DEF Resolved, Decoded
<1>3. \A k \in DOMAIN f.colors : f.colors[k].color \in Color
  <2> DEFINE cs == f.colors
             FrameColor == [target : Nat, color : Color]
  <2>1. cs \in Seq(FrameColor)
    BY <1>1
  <2> HIDE DEF cs, FrameColor
  <2>2. \A k \in DOMAIN cs : cs[k] \in FrameColor
    BY <2>1
  <2> QED BY <2>2 DEF cs, FrameColor
<1>4. /\ DOMAIN colors \subseteq 0 .. Len(f.colors)
      /\ \A k \in DOMAIN colors : colors[k].color \in Color
  BY <1>1, <1>2, <1>3
<1>5. Submit(tv, new)
  BY DEF OnFrame
<1> HIDE DEF colors
<1>6. \A l \in DOMAIN new : new[l] \in Color
  <2>1. SUFFICES ASSUME NEW l \in DOMAIN new PROVE colors[Max(places(l))].color \in Color
    OBVIOUS
  <2>2. PICK k \in DOMAIN colors : l = colors[k].light
    OBVIOUS
  <2>3. places(l) # {} /\ places(l) \subseteq 0 .. Len(f.colors)
    BY <2>2, <1>4
  <2>4. Max(places(l)) \in places(l)
    BY <2>3, <1>1, MaxIn
  <2> QED BY <2>4, <1>4
<1> HIDE DEF new
<1>7. /\ buffer' \in [Light -> Color] /\ streamOwner' \in TV \cup {None}
      /\ requests' \in 0 .. MaxRequests
  BY <1>5, <1>6, SubmitTypes
<1> QED BY <1>7 DEF TypeOK, OnFrame, config, easing, stream

\* A tick: eased and rounded colours are in range.
LEMMA TickTypes ==
    ASSUME TypeOK, NEW blink \in {0, MaxColor}, Tick(blink)
    PROVE  TypeOK'
<1>1. \A l \in Light : Eased(l) \in Scale /\ Nearest(Eased(l), Unit) \in Color
  <2>1. SUFFICES ASSUME NEW l \in Light
                 PROVE  Eased(l) \in Scale /\ Nearest(Eased(l), Unit) \in Color
    OBVIOUS
  <2>2. Unit \in Nat /\ Unit > 0 /\ MaxColor \in Nat
    BY ColorsAssumption
  <2>3. Eased(l) \in Scale
    BY EasedBetween
  <2>4. Eased(l) \in Int /\ 0 * Unit <= Eased(l) /\ Eased(l) <= MaxColor * Unit
    BY <2>2, <2>3 DEF Scale
  <2>5. Nearest(Eased(l), Unit) \in 0 .. MaxColor
    BY <2>2, <2>4, NearestBetween
  <2> QED BY <2>3, <2>5 DEF Color
<1>2. blink \in Color
  BY ColorsAssumption DEF Color
<1>3. smoothedFloat' \in [Light -> (0 .. MaxColor * Unit) \cup {None}]
  BY <1>1 DEF Tick, TypeOK, Scale
<1>4. smoothedBuffer' \in [Light -> Color]
  BY <1>1, <1>2 DEF Tick, TypeOK
<1>5. frame' \subseteq Command
  <2>1. frame' = MapToCommands(streamLights, smoothedBuffer') /\ streamLights \in Seq(VirtualLight)
    BY DEF Tick, TypeOK
  <2> QED BY <2>1, <1>4, CommandsType
<1> QED BY <1>3, <1>4, <1>5 DEF TypeOK, Tick, config, inputs, stream

\* Any step.
LEMMA NextTypes ==
    ASSUME TypeOK, [Next]_vars
    PROVE  TypeOK'
<1> USE DEF config, inputs, easing, stream
<1> DEFINE Counted == requests < MaxRequests /\ requests' = requests + 1
<1>0. Counted => requests' \in 0 .. MaxRequests
  BY ColorsAssumption DEF TypeOK
<1>1. ASSUME requests < MaxRequests, NEW tv \in TV, Write(tv) PROVE TypeOK'
  <2>1. Ids(lights[tv]) \in SUBSET Light
    <3>1. lights[tv] \in Seq(VirtualLight)
      BY DEF TypeOK
    <3>2. \A k \in DOMAIN lights[tv] : lights[tv][k] \in VirtualLight
      BY <3>1
    <3> QED BY <3>2 DEF Ids, VirtualLight
  <2>2. \A ls \in Groups \cup {Ids(lights[tv])} : ls \in SUBSET Light
    BY <2>1, ColorsAssumption
  <2>3. \A body \in Bodies : body \in Body
    BY ColorsAssumption
  <2> QED BY <1>1, <2>2, <2>3, LightStateTypes, GroupActionTypes, OnFrameTypes DEF Write
<1>2. ASSUME NEW s \in Factors \cup {None}, NEW tv \in TV
      PROVE  (IF s = None THEN smoothing ELSE [smoothing EXCEPT ![tv] = Cap(s)]) \in [TV -> Int]
  <2>1. CASE s = None
    BY <2>1 DEF TypeOK
  <2>2. CASE s \in Factors /\ s # None
    <3>1. Cap(s) \in Int
      BY <2>2, ColorsAssumption DEF Cap
    <3> QED BY <2>2, <3>1 DEF TypeOK
  <2> QED BY <2>1, <2>2
<1>3. ASSUME requests < MaxRequests, NEW tv \in TV, NEW a \in Area \cup {None}, NEW t \in BOOLEAN,
             NEW s \in Factors \cup {None}, Assign(tv, a, t, s)
      PROVE  TypeOK'
  <2>1. requests' \in 0 .. MaxRequests /\ requests' \in 1 .. MaxRequests
    BY <1>3, ColorsAssumption DEF Assign, TypeOK
  <2>2. smoothing' \in [TV -> Int]
    BY <1>2, <1>3 DEF Assign
  <2>3. /\ area' \in [TV -> Area \cup {None}] /\ split' \in [TV -> BOOLEAN]
        /\ suspect' \subseteq TV
    BY <1>3 DEF Assign, TypeOK
  <2>4. lights' \in [TV -> Seq(VirtualLight)] /\ assigning' \subseteq Pending
    <3>1. CASE a = None
      <4>1. << >> \in Seq(VirtualLight)
        OBVIOUS
      <4> QED BY <1>3, <3>1, <4>1 DEF Assign, TypeOK
    <3>2. CASE a # None
      <4>1. [nr |-> requests', tv |-> tv, area |-> a] \in Pending
        BY <1>3, <2>1, <3>2 DEF Pending
      <4> QED BY <1>3, <3>2, <4>1 DEF Assign, TypeOK
    <3> QED BY <3>1, <3>2
  <2> QED BY <1>3, <2>1, <2>2, <2>3, <2>4 DEF Assign, TypeOK
<1>4. ASSUME requests < MaxRequests, NEW tv \in TV, NEW a \in Area \cup {None}, NEW t \in BOOLEAN,
             AssignRaises(tv, a, t)
      PROVE  TypeOK'
  BY <1>0, <1>4 DEF AssignRaises, TypeOK
<1>11. ASSUME requests < MaxRequests, NEW tv \in TV, NEW s \in Factors, SetSmoothing(tv, s)
       PROVE  TypeOK'
  <2>1. smoothing' \in [TV -> Int]
    <3>1. Cap(s) \in Int
      BY ColorsAssumption DEF Cap
    <3> QED BY <1>11, <3>1 DEF SetSmoothing, TypeOK
  <2> QED BY <1>0, <1>11, <2>1 DEF SetSmoothing, TypeOK
<1>12. ASSUME NEW x \in assigning, NEW found \in BOOLEAN, Rebuild(x, found) PROVE TypeOK'
  <2>1. x.tv \in TV /\ x.area \in Area /\ split[x.tv] \in BOOLEAN
    BY DEF TypeOK, Pending
  <2>2. /\ LightsFromArea(x.area, split[x.tv]) \in Seq(VirtualLight)
        /\ << >> \in Seq(VirtualLight)
    BY <2>1, BuiltLights
  <2>3. lights' \in [TV -> Seq(VirtualLight)]
    BY <1>12, <2>1, <2>2 DEF Rebuild, TypeOK
  <2> QED BY <1>12, <2>3 DEF Rebuild, TypeOK
<1>13. ASSUME NEW x \in assigning, RebuildFails(x) PROVE TypeOK'
  <2>1. x.tv \in TV
    BY DEF TypeOK, Pending
  <2> QED BY <1>13, <2>1 DEF RebuildFails, TypeOK
<1>5. ASSUME StartStream PROVE TypeOK'
  <2>1. streams' \in 0 .. MaxStreams
    BY <1>5, ColorsAssumption DEF StartStream, TypeOK
  <2>2. streamSound' \in BOOLEAN
    BY <1>5, Zenon DEF StartStream
  <2>3. streamOwner \in TV /\ streamArea' \in Area /\ streamLights' \in Seq(VirtualLight)
    BY <1>5 DEF StartStream, TypeOK
  <2> QED BY <1>5, <2>1, <2>2, <2>3 DEF StartStream, TypeOK
<1>6. ASSUME StartConnected PROVE TypeOK'
  BY <1>6 DEF StartConnected, TypeOK
<1>7. ASSUME Teardown PROVE TypeOK'
  <2>1. streamLights' \in Seq(VirtualLight)
    BY <1>7 DEF Teardown
  <2> QED BY <1>7, <2>1 DEF Teardown, TypeOK
<1>8. ASSUME NEW blink \in {0, MaxColor}, Tick(blink) PROVE TypeOK'
  BY <1>8, TickTypes
<1>9. ASSUME NEW l \in Light, IdentifyExpires(l) PROVE TypeOK'
  BY <1>9 DEF IdentifyExpires, TypeOK
<1>10. ASSUME UNCHANGED vars PROVE TypeOK'
  BY <1>10 DEF vars, TypeOK
<1>14. ASSUME requests < MaxRequests, NEW tv \in TV, Edit(tv) PROVE TypeOK'
  BY <1>3, <1>4, <1>11, <1>14 DEF Edit
<1> QED
  BY <1>1, <1>5, <1>6, <1>7, <1>8, <1>9, <1>10, <1>12, <1>13, <1>14 DEF Next

\* Every variable has its type; eased and sent colours stay in range (engine.py 226-242).
THEOREM TypeCorrect == Spec => []TypeOK
<1> QED BY InitTypes, NextTypes, PTL DEF Spec

-----------------------------------------------------------------------------
(* The invariant.                                                          *)

\* Made by lights_from_area.
Built(ls) == \E a \in Area, s \in BOOLEAN : ls = LightsFromArea(a, s)

\* None, or made by lights_from_area.
MadeLights(ls) == ls = <<>> \/ Built(ls)

\* None, or those of this area as it is split.
LightsOf(ls, a, s) == ls = <<>> \/ (a # None /\ ls = LightsFromArea(a, s))

\* A TV's lights are those of some area, and of its own unless it is being assigned or suspect.
\* What is pending for a TV that is not suspect asks about its area: nothing else is pending.
LightsInv ==
    /\ \A tv \in TV :
          /\ MadeLights(lights[tv])
          /\ tv \notin suspect /\ ~Assigning(tv) => LightsOf(lights[tv], area[tv], split[tv])
    /\ \A x \in assigning : x.tv \notin suspect => x.area = area[x.tv]

\* So are those of a stream, and of the area it is open on if all was sound when it started.
StreamInv ==
    /\ live = "down" => streamLights = <<>>
    /\ live # "down" =>
          /\ streamArea \in Area /\ MadeLights(streamLights)
          /\ streamSound => \E s \in BOOLEAN : LightsOf(streamLights, streamArea, s)

\* Only a live stream has sent a frame, and what it shows is what is in the smoothed buffer.
FrameInv ==
    frame # {} => live = "up" /\ frame = MapToCommands(streamLights, smoothedBuffer)

\* Nothing has been eased before the first frame.
FreshInv == frame = {} => \A l \in Light : smoothedFloat[l] = None

\* The inductive invariant.
IInv == TypeOK /\ LightsInv /\ StreamInv /\ FrameInv /\ FreshInv

\* The lights of a stream: its channels are those of an area, each of one light.
LEMMA StreamPartition ==
    ASSUME TypeOK, StreamInv
    PROVE  /\ \A k \in DOMAIN streamLights : /\ streamLights[k].id = k /\ k \in Light
                                             /\ streamLights[k].channels # {}
           /\ \A k, j \in DOMAIN streamLights :
                 streamLights[k].channels \cap streamLights[j].channels # {} => k = j
<1>1. CASE streamLights = <<>>
  <2>1. DOMAIN streamLights = {}
    BY <1>1
  <2> QED BY <2>1
<1>2. CASE streamLights # <<>>
  <2>1. PICK a \in Area, s \in BOOLEAN : streamLights = LightsFromArea(a, s)
    BY <1>2 DEF StreamInv, MadeLights, Built
  <2>2. Partition(streamLights, a)
    BY <2>1, BuiltLights
  <2>3. \A k \in DOMAIN streamLights : streamLights[k] \in VirtualLight
    BY DEF TypeOK
  <2> QED BY <2>2, <2>3 DEF Partition, VirtualLight
<1> QED BY <1>1, <1>2

\* The commands made from lights.
LEMMA CommandsOf ==
    ASSUME NEW ls, NEW colors, NEW cmd
    PROVE  cmd \in MapToCommands(ls, colors) <=>
              \E k \in DOMAIN ls : \E c \in ls[k].channels :
                 cmd = [light |-> ls[k].id, channel |-> c, color |-> colors[ls[k].id]]
  BY DEF MapToCommands

\* Lights that share no channel: a channel gets the colour of its light, and no other.
LEMMA CommandsShow ==
    ASSUME NEW ls, NEW colors, NEW k \in DOMAIN ls, NEW c \in ls[k].channels,
           \A j \in DOMAIN ls : c \in ls[j].channels => j = k
    PROVE  {cmd.color : cmd \in {x \in MapToCommands(ls, colors) : x.channel = c}} =
              {colors[ls[k].id]}
<1> DEFINE own == [light |-> ls[k].id, channel |-> c, color |-> colors[ls[k].id]]
           mine == {x \in MapToCommands(ls, colors) : x.channel = c}
<1>1. own \in mine /\ own.color = colors[ls[k].id]
  BY CommandsOf
<1>2. ASSUME NEW cmd \in mine
      PROVE  cmd.color = colors[ls[k].id]
  <2>1. PICK j \in DOMAIN ls : \E d \in ls[j].channels :
            cmd = [light |-> ls[j].id, channel |-> d, color |-> colors[ls[j].id]]
    BY CommandsOf
  <2>2. c \in ls[j].channels
    BY <2>1
  <2> QED BY <2>1, <2>2
<1> HIDE DEF own, mine
<1>3. {cmd.color : cmd \in mine} = {colors[ls[k].id]}
  BY <1>1, <1>2
<1> QED BY <1>3 DEF mine

\* The invariant holds at the start.
LEMMA InitInv == Init => IInv
<1> SUFFICES ASSUME Init PROVE IInv
  OBVIOUS
<1>1. TypeOK
  BY InitTypes
<1>2. LightsInv
  <2>1. \A tv \in TV : LightsOf(lights[tv], area[tv], split[tv])
    BY DEF Init, LightsOf
  <2>2. ASSUME NEW tv \in TV PROVE MadeLights(lights[tv])
    BY <1>1, <2>1 DEF LightsOf, MadeLights, Built, TypeOK
  <2> QED BY <2>1, <2>2 DEF Init, LightsInv
<1>3. StreamInv /\ FrameInv /\ FreshInv
  BY DEF Init, StreamInv, FrameInv, FreshInv
<1> QED BY <1>1, <1>2, <1>3 DEF IInv

\* A write changes nothing but the states, the buffer, the blinks and the owner.
LEMMA WriteFrame ==
    ASSUME NEW tv \in TV, Write(tv)
    PROVE  UNCHANGED <<config, easing, stream>>
  BY DEF Write, LightState, GroupAction, OnFrame

\* A tick keeps it.
LEMMA TickInv ==
    ASSUME IInv, NEW blink \in {0, MaxColor}, Tick(blink)
    PROVE  LightsInv' /\ StreamInv' /\ FrameInv' /\ FreshInv'
<1>1. LightsInv' /\ StreamInv'
  BY DEF IInv, LightsInv, Assigning, StreamInv, Tick, config, stream
<1>2. FrameInv'
  BY DEF FrameInv, Tick, stream, MapToCommands
<1>3. FreshInv'
  <2>1. SUFFICES ASSUME frame' = {} PROVE \A l \in Light : smoothedFloat'[l] = None
    BY DEF FreshInv
  <2>2. DOMAIN streamLights = {}
    <3>1. SUFFICES ASSUME NEW k \in DOMAIN streamLights PROVE FALSE
      OBVIOUS
    <3>2. PICK c \in streamLights[k].channels : TRUE
      BY StreamPartition DEF IInv
    <3>3. frame' = MapToCommands(streamLights, smoothedBuffer')
      BY DEF Tick
    <3>4. [light |-> streamLights[k].id, channel |-> c,
           color |-> smoothedBuffer'[streamLights[k].id]] \in
              MapToCommands(streamLights, smoothedBuffer')
      BY <3>2, CommandsOf
    <3> QED BY <2>1, <3>3, <3>4
  <2>3. frame = {}
    <3>1. MapToCommands(streamLights, smoothedBuffer) = {}
      BY <2>2, CommandsOf
    <3> QED BY <3>1 DEF IInv, FrameInv
  <2>4. Ids(streamLights) = {}
    BY <2>2 DEF Ids
  <2> QED BY <2>3, <2>4 DEF IInv, FreshInv, Tick
<1> QED BY <1>1, <1>2, <1>3

\* An assignment of a TV: nothing was pending for it, or it is suspect from now on.
LEMMA AssignInv ==
    ASSUME TypeOK, LightsInv, NEW tv \in TV, NEW a \in Area \cup {None}, NEW t \in BOOLEAN, NEW s,
           Assign(tv, a, t, s)
    PROVE  LightsInv'
<1> DEFINE new == [nr |-> requests', tv |-> tv, area |-> a]
<1>1. /\ area' = [area EXCEPT ![tv] = a] /\ split' = [split EXCEPT ![tv] = t]
      /\ suspect' = IF Assigning(tv) THEN suspect \cup {tv} ELSE suspect \ {tv}
      /\ a = None => lights' = [lights EXCEPT ![tv] = <<>>] /\ assigning' = assigning
      /\ a # None => assigning' = assigning \cup {new} /\ lights' = lights
      /\ assigning \subseteq assigning'
  BY DEF Assign
<1>2. /\ area \in [TV -> Area \cup {None}] /\ split \in [TV -> BOOLEAN]
      /\ lights \in [TV -> Seq(VirtualLight)] /\ assigning \subseteq Pending
  BY DEF TypeOK
<1>3. new.tv = tv /\ new.area = a
  OBVIOUS
<1> HIDE DEF new
<1>4. ASSUME NEW u \in TV
      PROVE  /\ MadeLights(lights'[u])
             /\ u \notin suspect' /\ ~Assigning(u)' => LightsOf(lights'[u], area'[u], split'[u])
  <2>1. MadeLights(lights'[u])
    BY <1>1, <1>2 DEF LightsInv, MadeLights
  <2>2. CASE u # tv
    <3>1. /\ lights'[u] = lights[u] /\ area'[u] = area[u] /\ split'[u] = split[u]
          /\ u \in suspect => u \in suspect'
      BY <1>1, <1>2, <2>2
    <3>2. Assigning(u) => Assigning(u)'
      BY <1>1 DEF Assigning
    <3> QED BY <2>1, <3>1, <3>2 DEF LightsInv
  <2>3. CASE u = tv /\ a = None
    BY <1>1, <1>2, <2>1, <2>3 DEF LightsOf
  <2>4. CASE u = tv /\ a # None
    <3>1. Assigning(u)'
      BY <1>1, <1>3, <2>4 DEF Assigning
    <3> QED BY <2>1, <3>1
  <2> QED BY <2>2, <2>3, <2>4
<1>5. ASSUME NEW x \in assigning', x.tv \notin suspect'
      PROVE  x.area = area'[x.tv]
  <2>1. CASE x \in assigning
    <3>1. x.tv # tv
      BY <1>1, <1>5, <2>1 DEF Assigning
    <3>2. x.tv \in TV /\ x.tv \notin suspect
      BY <1>1, <1>2, <1>5, <2>1, <3>1 DEF Pending
    <3> QED BY <1>1, <1>2, <2>1, <3>1, <3>2 DEF LightsInv
  <2>2. CASE x \notin assigning
    <3>1. x = new
      BY <1>1, <1>5, <2>2
    <3> QED BY <1>1, <1>2, <1>3, <3>1
  <2> QED BY <2>1, <2>2
<1> QED BY <1>4, <1>5 DEF LightsInv

\* Any edit.
LEMMA EditInv ==
    ASSUME TypeOK, LightsInv, NEW tv \in TV, Edit(tv)
    PROVE  LightsInv'
<1>1. ASSUME NEW a \in Area \cup {None}, NEW t \in BOOLEAN, AssignRaises(tv, a, t)
      PROVE  LightsInv'
  <2>1. /\ assigning' = assigning /\ lights' = lights /\ suspect' = suspect \cup {tv}
        /\ area' = [area EXCEPT ![tv] = a] /\ split' = [split EXCEPT ![tv] = t]
    BY <1>1 DEF AssignRaises
  <2>2. \A x \in assigning : x.tv \in TV
    BY DEF TypeOK, Pending
  <2> QED BY <2>1, <2>2 DEF LightsInv, Assigning, TypeOK
<1>2. ASSUME NEW s \in Factors, SetSmoothing(tv, s) PROVE LightsInv'
  BY <1>2 DEF SetSmoothing, LightsInv, Assigning
<1> QED BY <1>1, <1>2, AssignInv DEF Edit

\* The end of an assignment: unless its TV is suspect, it asked about the area the TV has.
LEMMA AnswerInv ==
    ASSUME TypeOK, LightsInv, NEW x \in assigning, NEW found \in BOOLEAN,
           Rebuild(x, found) \/ RebuildFails(x)
    PROVE  LightsInv'
<1>1. /\ assigning' = assigning \ {x} /\ area' = area /\ split' = split
      /\ suspect \subseteq suspect' /\ x.tv \in TV /\ x.area \in Area
      /\ split \in [TV -> BOOLEAN] /\ lights \in [TV -> Seq(VirtualLight)]
  BY DEF Rebuild, RebuildFails, TypeOK, Pending
<1>2. \A u \in TV : Assigning(u) /\ u # x.tv => Assigning(u)'
  BY <1>1 DEF Assigning
<1>3. CASE RebuildFails(x)
  <2>1. lights' = lights /\ x.tv \in suspect'
    BY <1>3 DEF RebuildFails
  <2> QED BY <1>1, <1>2, <2>1 DEF LightsInv
<1>4. CASE Rebuild(x, found)
  <2> DEFINE made == IF found THEN LightsFromArea(x.area, split[x.tv]) ELSE <<>>
  <2>1. lights' = [lights EXCEPT ![x.tv] = made] /\ suspect' = suspect
    BY <1>4 DEF Rebuild
  <2>2. MadeLights(made) /\ LightsOf(made, x.area, split[x.tv])
    BY <1>1, ColorsAssumption DEF MadeLights, Built, LightsOf
  <2>3. x.tv \notin suspect => x.area = area[x.tv]
    BY DEF LightsInv
  <2> HIDE DEF made
  <2>4. ASSUME NEW u \in TV
        PROVE  /\ MadeLights(lights'[u])
               /\ u \notin suspect' /\ ~Assigning(u)' => LightsOf(lights'[u], area'[u], split'[u])
    <3>1. CASE u = x.tv
      BY <1>1, <2>1, <2>2, <2>3, <3>1
    <3>2. CASE u # x.tv
      BY <1>1, <1>2, <2>1, <3>2 DEF LightsInv
    <3> QED BY <3>1, <3>2
  <2> QED BY <1>1, <2>1, <2>4 DEF LightsInv
<1> QED BY <1>3, <1>4

\* Every step keeps it.
LEMMA NextInv ==
    ASSUME IInv, [Next]_vars
    PROVE  IInv'
<1> USE DEF config, inputs, easing, stream
<1> DEFINE Rest == LightsInv /\ StreamInv /\ FrameInv /\ FreshInv
<1>0. TypeOK /\ TypeOK'
  BY NextTypes DEF IInv
<1>1. ASSUME NEW tv \in TV, Write(tv) PROVE Rest'
  BY <1>1, WriteFrame
  DEF IInv, LightsInv, Assigning, StreamInv, FrameInv, FreshInv, MapToCommands
<1>2. ASSUME LightsInv', UNCHANGED <<easing, stream>> PROVE Rest'
  BY <1>2 DEF IInv, StreamInv, FrameInv, FreshInv
<1>3. ASSUME NEW tv \in TV, Edit(tv) PROVE Rest'
  BY <1>0, <1>2, <1>3, EditInv DEF IInv, Edit, Assign, AssignRaises, SetSmoothing
<1>4. ASSUME NEW x \in assigning, NEW found \in BOOLEAN, Rebuild(x, found) \/ RebuildFails(x)
      PROVE  Rest'
  BY <1>0, <1>2, <1>4, AnswerInv DEF IInv, Rebuild, RebuildFails
<1>5. ASSUME StartStream PROVE Rest'
  <2>1. streamOwner \in TV /\ area[streamOwner] \in Area /\ split[streamOwner] \in BOOLEAN
    BY <1>0, <1>5 DEF StartStream, TypeOK
  <2>2. /\ MadeLights(lights[streamOwner])
        /\ streamSound' => LightsOf(lights[streamOwner], area[streamOwner], split[streamOwner])
    BY <1>5, <2>1 DEF IInv, LightsInv, StartStream
  <2>3. StreamInv'
    BY <1>5, <2>1, <2>2 DEF StartStream, StreamInv
  <2>4. frame = {}
    BY <1>5 DEF IInv, FrameInv, StartStream
  <2> QED BY <1>5, <2>3, <2>4 DEF StartStream, IInv, LightsInv, Assigning, FrameInv, FreshInv
<1>6. ASSUME StartConnected PROVE Rest'
  BY <1>6 DEF StartConnected, IInv, LightsInv, Assigning, StreamInv, FrameInv, FreshInv
<1>7. ASSUME Teardown PROVE Rest'
  BY <1>7 DEF Teardown, IInv, LightsInv, Assigning, StreamInv, FrameInv, FreshInv
<1>8. ASSUME NEW blink \in {0, MaxColor}, Tick(blink) PROVE Rest'
  BY <1>8, TickInv
<1>9. ASSUME NEW l \in Light, IdentifyExpires(l) PROVE Rest'
  BY <1>9 DEF IdentifyExpires, IInv, LightsInv, Assigning, StreamInv, FrameInv, FreshInv
<1>10. ASSUME UNCHANGED vars PROVE Rest'
  BY <1>10 DEF vars, IInv, LightsInv, Assigning, StreamInv, FrameInv, FreshInv
<1>11. Rest'
  BY <1>1, <1>2, <1>3, <1>4, <1>5, <1>6, <1>7, <1>8, <1>9, <1>10 DEF Next
<1> QED BY <1>0, <1>11 DEF IInv

\* A frame has a command for every channel of the lights, and these are the area's.
LEMMA WholeAreaFromInv == IInv => WholeArea
<1> SUFFICES ASSUME IInv, frame # {}, streamSound
             PROVE  /\ {cmd.channel : cmd \in frame} = DOMAIN ChannelsOf[streamArea]
                    /\ \A x, y \in frame : x.channel = y.channel => x = y
  BY DEF WholeArea
<1>1. frame = MapToCommands(streamLights, smoothedBuffer) /\ live = "up"
  BY DEF IInv, FrameInv
<1>2. PICK s \in BOOLEAN : streamLights = LightsFromArea(streamArea, s)
  <2>1. streamLights # <<>>
    BY <1>1, CommandsOf
  <2> QED BY <1>1, <2>1 DEF IInv, StreamInv, LightsOf
<1>3. Partition(streamLights, streamArea)
  BY <1>1, <1>2, BuiltLights DEF IInv, StreamInv
<1>4. \A cmd : cmd \in frame <=>
        \E k \in DOMAIN streamLights : \E c \in streamLights[k].channels :
           cmd = [light |-> streamLights[k].id, channel |-> c,
                  color |-> smoothedBuffer[streamLights[k].id]]
  BY <1>1, CommandsOf
<1>5. \A cmd \in frame : cmd.channel \in DOMAIN ChannelsOf[streamArea]
  BY <1>3, <1>4 DEF Partition
<1>6. ASSUME NEW c \in DOMAIN ChannelsOf[streamArea]
      PROVE  \E cmd \in frame : cmd.channel = c
  <2>1. PICK k \in DOMAIN streamLights : c \in streamLights[k].channels
    BY <1>3 DEF Partition
  <2> DEFINE cmd == [light |-> streamLights[k].id, channel |-> c,
                     color |-> smoothedBuffer[streamLights[k].id]]
  <2>2. cmd \in frame /\ cmd.channel = c
    BY <1>4, <2>1
  <2> QED BY <2>2
<1>7. ASSUME NEW x \in frame, NEW y \in frame, x.channel = y.channel
      PROVE  x = y
  <2>1. PICK k \in DOMAIN streamLights : \E c \in streamLights[k].channels :
           x = [light |-> streamLights[k].id, channel |-> c,
                color |-> smoothedBuffer[streamLights[k].id]]
    BY <1>4
  <2>2. PICK j \in DOMAIN streamLights : \E c \in streamLights[j].channels :
           y = [light |-> streamLights[j].id, channel |-> c,
                color |-> smoothedBuffer[streamLights[j].id]]
    BY <1>4
  <2>3. x.channel \in streamLights[k].channels /\ x.channel \in streamLights[j].channels
    BY <2>1, <2>2, <1>7
  <2>4. k = j
    BY <2>3, <1>3 DEF Partition
  <2> QED BY <2>1, <2>2, <2>4, <1>7
<1> QED BY <1>5, <1>6, <1>7

\* What the properties lean on is invariant.
THEOREM Invariance == Spec => []IInv
<1> QED BY InitInv, NextInv, PTL DEF Spec

\* Every frame drives each channel of the session's area once (controller.py 112-169, mapping.py),
\* if the owner's last assignment had ended, alone and without a failure, when the stream started.
THEOREM AreaWhole == Spec => []WholeArea
<1> QED BY WholeAreaFromInv, Invariance, PTL

\* Only a tick sends a frame; a teardown forgets it, with the lights.
LEMMA OnlyTickSends ==
    ASSUME [Next]_vars, frame' # frame, DOMAIN streamLights' # {}
    PROVE  \E blink \in {0, MaxColor} : Tick(blink)
<1> USE DEF easing, stream
<1>1. Next
  BY DEF vars
<1>2. ~Teardown
  <2>1. Teardown => DOMAIN streamLights' = {}
    BY DEF Teardown
  <2> QED BY <2>1
<1>3. \A tv \in TV : ~Write(tv)
  BY WriteFrame
<1>4. /\ \A x : ~RebuildFails(x) /\ \A found \in BOOLEAN : ~Rebuild(x, found)
      /\ ~StartStream /\ ~StartConnected
  BY DEF Rebuild, RebuildFails, StartStream, StartConnected
<1>5. /\ \A tv \in TV : ~Edit(tv)
      /\ ~(\E l \in Light : IdentifyExpires(l))
  BY DEF Edit, Assign, AssignRaises, SetSmoothing, IdentifyExpires
<1> QED BY <1>1, <1>2, <1>3, <1>4, <1>5 DEF Next

\* Colours are numbers.
LEMMA ColorNumbers ==
    ASSUME TypeOK, NEW l \in Light
    PROVE  /\ buffer[l] \in Int /\ buffer[l] * Unit \in Int /\ Unit \in Nat /\ Unit > 0
           /\ smoothedFloat[l] # None => smoothedFloat[l] \in Int
<1>1. MaxColor \in Nat /\ Unit \in Nat /\ Unit > 0
  BY ColorsAssumption
<1>2. MaxColor * Unit \in Nat
  BY <1>1
<1>3. buffer[l] \in 0 .. MaxColor
  BY DEF TypeOK, Color
<1>4. smoothedFloat[l] \in (0 .. MaxColor * Unit) \cup {None}
  BY DEF TypeOK
<1> QED BY <1>1, <1>2, <1>3, <1>4

\* What a tick shows of a light that does not blink: its eased colour, rounded.
LEMMA TickShows ==
    ASSUME IInv, NEW blink \in {0, MaxColor}, Tick(blink), IInv',
           NEW k \in DOMAIN streamLights, streamLights[k].id \notin identify,
           NEW c \in streamLights[k].channels
    PROVE  /\ streamLights' = streamLights /\ buffer' = buffer /\ streamLights[k].id \in Light
           /\ Shown(c)' = {Nearest(Eased(streamLights[k].id), Unit)}
<1> DEFINE l == streamLights[k].id
<1>1. streamLights' = streamLights /\ buffer' = buffer
  BY DEF Tick, stream, inputs
<1>2. l \in Light /\ l \in Ids(streamLights)
  <2>1. l \in Light
    BY StreamPartition DEF IInv
  <2> QED BY <2>1 DEF Ids
<1>3. smoothedBuffer'[l] = Nearest(Eased(l), Unit)
  BY <1>2 DEF Tick
<1>4. frame' = MapToCommands(streamLights, smoothedBuffer')
  BY DEF Tick
<1>5. Shown(c)' = {smoothedBuffer'[l]}
  <2>1. \A j \in DOMAIN streamLights : c \in streamLights[j].channels => j = k
    BY StreamPartition DEF IInv
  <2>2. Shown(c)' = {cmd.color : cmd \in {x \in frame' : x.channel = c}}
    BY DEF Shown
  <2> QED BY <2>1, <2>2, <1>4, CommandsShow
<1> QED BY <1>1, <1>2, <1>3, <1>5

\* A frame that comes after none is a tick's, and nothing had been eased before.
LEMMA FreshStep ==
    ASSUME IInv, [Next]_vars, IInv', frame = {}, frame' # {},
           NEW k \in DOMAIN streamLights, streamLights[k].id \notin identify
    PROVE  OnTarget(k)'
<1>1. DOMAIN streamLights' # {}
  <2>1. frame' = MapToCommands(streamLights', smoothedBuffer')
    BY DEF IInv, FrameInv
  <2> QED BY <2>1, CommandsOf
<1>2. PICK blink \in {0, MaxColor} : Tick(blink)
  BY <1>1, OnlyTickSends
<1>3. SUFFICES ASSUME NEW c \in streamLights[k].channels
               PROVE  Shown(c)' = {buffer[streamLights[k].id]}
  <2>1. streamLights' = streamLights /\ buffer' = buffer
    BY <1>2 DEF Tick, stream, inputs
  <2> QED BY <2>1 DEF OnTarget
<1>4. streamLights[k].id \in Light /\ Shown(c)' = {Nearest(Eased(streamLights[k].id), Unit)}
  BY <1>2, TickShows
<1>5. Eased(streamLights[k].id) = buffer[streamLights[k].id] * Unit
  BY <1>4, EasedBetween DEF IInv, FreshInv
<1>6. buffer[streamLights[k].id] \in Int /\ Unit \in Nat /\ Unit > 0
  BY <1>4, ColorNumbers DEF IInv
<1> QED BY <1>4, <1>5, <1>6, NearestExact

\* The first frame of a stream shows the targets (engine.py 230-232).
THEOREM StartsFresh == Spec => FreshStart
<1>1. IInv /\ IInv' /\ [Next]_vars =>
        [frame = {} /\ frame' # {} =>
            \A k \in DOMAIN streamLights : streamLights[k].id \notin identify => OnTarget(k)']_vars
  BY FreshStep
<1> QED BY <1>1, Invariance, PTL DEF Spec, FreshStart

\* A tick moves a colour towards its target, and rounding keeps it in between.
LEMMA OvershootStep ==
    ASSUME IInv, [Next]_vars, IInv', NEW k \in DOMAIN streamLights', frame' # frame,
           streamLights[k].id \notin identify, smoothedFloat[streamLights[k].id] # None,
           NEW c \in streamLights[k].channels, NEW x \in Shown(c)'
    PROVE  Between(x, Nearest(smoothedFloat[streamLights[k].id], Unit), buffer[streamLights[k].id])
<1> DEFINE l == streamLights[k].id
<1>1. PICK blink \in {0, MaxColor} : Tick(blink)
  BY OnlyTickSends
<1>2. k \in DOMAIN streamLights
  BY <1>1 DEF Tick, stream
<1>3. l \in Light /\ x = Nearest(Eased(l), Unit)
  BY <1>1, <1>2, TickShows
<1>4. Between(Eased(l), smoothedFloat[l], buffer[l] * Unit) /\ Eased(l) \in Int
  BY <1>3, EasedBetween DEF IInv, Scale
<1>5. /\ smoothedFloat[l] \in Int /\ buffer[l] \in Int /\ buffer[l] * Unit \in Int
      /\ Unit \in Nat /\ Unit > 0
  BY <1>3, ColorNumbers DEF IInv
<1>6. Nearest(buffer[l] * Unit, Unit) = buffer[l]
  BY <1>5, NearestExact
<1> HIDE DEF l
<1>7. CASE smoothedFloat[l] <= Eased(l) /\ Eased(l) <= buffer[l] * Unit
  BY <1>3, <1>4, <1>5, <1>6, <1>7, NearestMonotone DEF Between, l
<1>8. CASE buffer[l] * Unit <= Eased(l) /\ Eased(l) <= smoothedFloat[l]
  BY <1>3, <1>4, <1>5, <1>6, <1>8, NearestMonotone DEF Between, l
<1> QED BY <1>4, <1>7, <1>8 DEF Between

\* Easing never overshoots (engine.py 226-242).
THEOREM EasesWithin == Spec => NoOvershoot
<1>1. IInv /\ IInv' /\ [Next]_vars =>
        [\A k \in DOMAIN streamLights' :
           LET l == streamLights[k].id
           IN  frame' # frame /\ l \notin identify /\ smoothedFloat[l] # None =>
                  \A c \in streamLights[k].channels : \A x \in Shown(c)' :
                     Between(x, Nearest(smoothedFloat[l], Unit), buffer[l])]_vars
  BY OvershootStep
<1> QED BY <1>1, Invariance, PTL DEF Spec, NoOvershoot

\* lights_from_area as its docstring has it (controller.py 116-119): every channel in one light,
\* alone when split; merged, two channels share a light exactly if they share a device.
THEOREM LightsOfArea ==
    ASSUME NEW a \in Area
    PROVE  /\ \A s \in BOOLEAN : Partition(LightsFromArea(a, s), a)
           /\ \A k \in DOMAIN LightsFromArea(a, TRUE) :
                 LightsFromArea(a, TRUE)[k].channels = {k}
           /\ \A k \in DOMAIN LightsFromArea(a, FALSE), c, d \in DOMAIN ChannelsOf[a] :
                 c \in LightsFromArea(a, FALSE)[k].channels =>
                    (d \in LightsFromArea(a, FALSE)[k].channels <=>
                     ChannelsOf[a][c] = ChannelsOf[a][d])
<1>1. \A k \in DOMAIN LightsFromArea(a, TRUE) : LightsFromArea(a, TRUE)[k].channels = {k}
  BY DEF LightsFromArea
<1> QED BY <1>1, BuiltLights, MergedLights

=============================================================================

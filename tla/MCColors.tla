------------------------------ MODULE MCColors ------------------------------
(* Areas, frames and smoothing factors for checking Colors. *)
EXTENDS Colors, SequencesExt, TLC

CONSTANTS tv1, tv2, a1, a2

OneTV == {tv1}
TwoTVs == {tv1, tv2}

\* A gradient strip of two channels; and an area of one.
Areas == [a \in Area |-> IF a = a1 THEN <<1, 1>> ELSE <<2>>]

To(t, c) == [target |-> t, color |-> c]

\* By channel, one of them out of range; by light id, with a terminator in the middle.
SomeFrames == {[v2 |-> TRUE, colors |-> <<To(0, MaxColor), To(9, MaxColor)>>],
               [v2 |-> TRUE, colors |-> <<To(1, 1)>>],
               [v2 |-> FALSE, colors |-> <<To(1, MaxColor), To(0, 0), To(2, MaxColor)>>]}

\* Off; and a hue with its mode, where a light begins with the other one.
SomeBodies == {[on |-> FALSE], [mode |-> "hs", hs |-> MaxColor]}

\* A hue without its mode (LatestWins).
HueOnly == {[hs |-> MaxColor]}

\* A group of a light that the TV may lack.
OneGroup == {{2}}

\* All of the old colour, and less than none.
SomeFactors == {Parts, -Parts}

\* lights_from_area as the code goes about it, channel by channel: a new device gets a new light.
MergedInOrder(channels) ==
    FoldLeftDomain(
        LAMBDA ls, k : IF \E n \in DOMAIN ls : \E c \in ls[n].channels : channels[c] = channels[k]
                       THEN [n \in DOMAIN ls |->
                                IF \E c \in ls[n].channels : channels[c] = channels[k]
                                THEN [ls[n] EXCEPT !.channels = @ \cup {k}] ELSE ls[n]]
                       ELSE Append(ls, [id |-> Len(ls) + 1, channels |-> {k}]),
        <<>>, channels)

\* DeviceNumber gives the same lights.
ASSUME MergedAsCoded ==
    \A channels \in UNION {[1 .. n -> 1 .. 4] : n \in 0 .. 4} :
        MergedInOrder(channels) =
            [n \in 1 .. Cardinality(Range(channels)) |->
                [id |-> n, channels |-> {k \in DOMAIN channels :
                                            DeviceNumber(channels, channels[k]) = n}]]
-----------------------------------------------------------------------------
(* What ARCHITECTURE.md says and TLC refutes: the README names the bounds. *)
(* No run of the project checks this.                                      *)

\* A colour a TV writes becomes the target of the light, in whichever form it is written.
LatestWins ==
    [][\A tv \in TV, l \in Light, body \in [hs : Color] :
          LightState(tv, l, body, "absent") /\ states[tv, l].on => buffer'[l] = body.hs]_vars
=============================================================================

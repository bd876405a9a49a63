----------------------------- MODULE MCEmulator -----------------------------
(* Model values and initial configurations for checking Emulator.          *)
EXTENDS Emulator, TLC

CONSTANTS tv1, tv2, a1, a2, l1, s1, s2, s3, c1, c2

OneGroup == {1}
TwoGroups == {1, 2}

SharedArea == {[tv \in TV |-> a1]}
OneUnassigned == {[tv \in TV |-> IF tv = tv1 THEN a1 ELSE NoArea]}

Symmetric == Permutations(Slot) \cup Permutations(Stopper) \cup Permutations(TV)
-----------------------------------------------------------------------------
(* What comments of rest_v1.py say and TLC refutes: the README names the   *)
(* bounds.  No run of the project checks these.                            *)

\* A DELETE stops the stream only of a TV that was streaming the group (rest_v1.py 424): not
\* when one TV deletes a group and another one streams, to something else.
OwnDeleteOnly ==
    [][\A tv \in TV, g \in GroupId, c \in Stopper :
          /\ DeleteGroup(tv, g, c) /\ IsStreaming
          /\ streamOwner \notin {tv, groups[g], None}
          => pc'[c] = "idle"]_bridgeVars

\* A group a TV streams to stays resolvable until somebody deactivates or deletes it
\* (rest_v1.py 390-391): no POST wipes it.
GroupResolvable ==
    [][\A tv \in TV, kind \in {"plain", "off"} :
          CreateGroup(tv, kind) => \A g \in GroupId : groups[g] \in TV => groups'[g] = groups[g]
      ]_bridgeVars

\* Once a TV is deleted and the stop that goes with it is over, no stream is its own or shows
\* its area (web/server.py 151-152).
DeletedDark ==
    IsStreaming /\ (\A c \in Stopper : pc[c] = "idle")
        => {streamOwner, streamLights} \subseteq known \cup {None}
=============================================================================

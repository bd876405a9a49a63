------------------------------ MODULE MCEngine ------------------------------
(* Model values and initial configurations for checking Engine.            *)
EXTENDS Engine, TLC

CONSTANTS tv1, tv2, a1, a2, l1, s1, s2, s3, c1, c2

OneTV == {tv1}
TwoTVs == {tv1, tv2}

\* Both TVs share one area; one each; the second TV is not assigned.
SharedArea == {[tv \in TV |-> a1]}
OwnAreas == {[tv \in TV |-> IF tv = tv1 THEN a1 ELSE a2]}
OneUnassigned == {[tv \in TV |-> IF tv = tv1 THEN a1 ELSE NoArea]}

Symmetric == Permutations(Slot) \cup Permutations(Stopper)
-----------------------------------------------------------------------------
(* What comments and ARCHITECTURE.md say of the engine and TLC refutes: the *)
(* README names the bounds.  No run of the project checks these.           *)

\* A live stream has an owner (engine.py 78-80); the single-stream guard of the emulator lets
\* any TV in when there is none.
OwnedStream == IsStreaming => streamOwner # None

\* The streamer id learned as ours is ours (engine.py 377-381).
RidIsOurs == ourRid # "other"

\* While we back off from another controller, no start of ours is under way (engine.py 32-34).
NoRegrab ==
    regrab = "blocked" => \A i \in Slot : spc[i] \notin {"ready", "connect"}

\* When stop() returns, no area is left active on the bridge.
StopReleases ==
    [][\A c \in Stopper : (Stop(c) \/ StopResume(c) \/ TeardownStep(c)) /\ pc'[c] = "idle"
            => active' = {}]_vars

\* An assigned TV that keeps writing gets a stream.
Serves == \A tv \in TV : [](tv \in on /\ assign[tv] # NoArea) => <>IsStreaming

\* Once a TV stops sending, its stream runs into the idle timeout (rest_v1.py 398-403): the
\* engine does not keep a stream whose owner is silent.
IdlesOut == \A tv \in TV : tv \notin on ~> ~(IsStreaming /\ streamOwner = tv)
=============================================================================

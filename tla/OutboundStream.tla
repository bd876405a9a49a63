--------------------------- MODULE OutboundStream ---------------------------
(***************************************************************************)
(* What the engine promises to the real bridge: at most one connection     *)
(* attempt at a time, at most one live stream, nothing opened next to a    *)
(* live stream, and every session that was opened is closed in the end     *)
(* once it is no longer live.                                              *)
(***************************************************************************)
CONSTANTS Session, NoSession

VARIABLES
    opening,    \* the session being connected
    live,       \* the session that streams
    closing     \* sessions given up but not yet closed

vars == <<opening, live, closing>>

Init == opening = NoSession /\ live = NoSession /\ closing = {}

Open(s) ==
    /\ opening = NoSession /\ live = NoSession /\ s \notin closing
    /\ opening' = s /\ UNCHANGED <<live, closing>>

\* The connection stands.
GoLive ==
    /\ opening # NoSession /\ live = NoSession
    /\ live' = opening /\ opening' = NoSession /\ UNCHANGED closing

\* The connection failed, or its stream was stopped meanwhile.
Abandon ==
    /\ opening # NoSession
    /\ closing' = closing \cup {opening} /\ opening' = NoSession /\ UNCHANGED live

End ==
    /\ live # NoSession
    /\ closing' = closing \cup {live} /\ live' = NoSession /\ UNCHANGED opening

Close(s) ==
    /\ s \in closing /\ closing' = closing \ {s} /\ UNCHANGED <<opening, live>>

Next == GoLive \/ Abandon \/ End \/ \E s \in Session : Open(s) \/ Close(s)

Safe == Init /\ [][Next]_vars

\* No connection attempt hangs forever and no session given up stays open.
Spec == Safe /\ WF_vars(GoLive \/ Abandon) /\ \A s \in Session : WF_vars(Close(s))

\* What Safe amounts to for the bridge at any time: no connection attempt next to a live stream,
\* and a session that was given up is neither connecting nor live again.
Exclusive ==
    /\ opening = NoSession \/ live = NoSession
    /\ NoSession \notin closing /\ {opening, live} \cap closing = {}
=============================================================================

------------------------------ MODULE MCConfig ------------------------------
(* Model values and bridge contents for checking Config.                   *)
EXTENDS Config, TLC

CONSTANTS u1, h1, h2, a1, r1, r2, m1, m2

\* The bridge of the web UI has an area, the other one has none.
OneArea == [h \in Host |-> IF h = h1 THEN <<a1>> ELSE <<>>]

Symmetric == Permutations(Request) \cup Permutations(Mac)

\* A bound: while the command line waits, one request at a time is in flight.
OneBeside == snap = None \/ \E r \in Request : pc[r] = "idle"
=============================================================================

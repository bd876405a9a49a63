---------------------------- MODULE MCLifecycle ----------------------------
(* Model values for checking Lifecycle.                                    *)
EXTENDS Lifecycle, TLC

CONSTANTS tv1, a1, s1, s2, app, c1

SharedArea == {[tv \in TV |-> a1]}
=============================================================================

------------------------------- MODULE MCDtls -------------------------------
(* Model values for checking Dtls. *)
EXTENDS Dtls, TLC

CONSTANTS tv1, tv2, guest

Symmetric == Permutations(Paired)
=============================================================================

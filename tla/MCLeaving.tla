----------------------------- MODULE MCLeaving -----------------------------
(* Two calls of leave() of one session, two chains, one of them without a   *)
(* session of its own.                                                      *)
EXTENDS Leaving
=============================================================================

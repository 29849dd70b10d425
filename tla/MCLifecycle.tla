----------------------------- MODULE MCLifecycle -----------------------------
(* Two calls of initialize(), two chains, two versions of the config, three *)
(* connections: one for each call and one retry.                            *)
EXTENDS Lifecycle
=============================================================================

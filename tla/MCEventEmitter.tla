--------------------------- MODULE MCEventEmitter ---------------------------
(* One emitter with three handlers, nested emissions and a few uses of on,  *)
(* once, off and removeAllListeners, before and inside the handlers.        *)
EXTENDS EventEmitter, TLC

Symmetry == Permutations(Handlers)
=============================================================================

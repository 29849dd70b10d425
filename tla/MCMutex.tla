------------------------------- MODULE MCMutex -------------------------------
(* The signing mutex with a handful of callers that use it again and again. *)
EXTENDS Mutex
=============================================================================

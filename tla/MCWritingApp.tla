---------------------------- MODULE MCWritingApp ----------------------------
(* The L2 session on small instances: three calls at once.                 *)
EXTENDS WritingApp
=============================================================================

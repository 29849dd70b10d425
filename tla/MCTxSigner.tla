----------------------------- MODULE MCTxSigner -----------------------------
(* The L1 signer on small instances: three jobs, batches of two or three.   *)
EXTENDS TxSigner, TLC

JobSymmetry == Permutations(Jobs)
=============================================================================

------------------------------ MODULE MCEnclave ------------------------------
(* The enclave connection on small instances: a few sockets, one address    *)
(* and everyone.                                                            *)
EXTENDS Enclave
=============================================================================

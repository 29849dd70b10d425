---------------------------- MODULE AtomicSigning ----------------------------
(***************************************************************************)
(* What signing promises about nonces, without sessions, wallets or nodes: *)
(* in one step a job gets the next run of consecutive nonces, or such a    *)
(* run is wasted on a failure.  The next nonce is learned from the node    *)
(* before the first use and again on a reset.                              *)
(***************************************************************************)
EXTENDS Integers, Sequences

CONSTANTS Jobs, Runs, Unset
VARIABLES next,   \* the first nonce that is free, or Unset
          book    \* the nonces of the transactions each job has signed

Init == next = Unset /\ book = [j \in Jobs |-> <<>>]

Learn == /\ next' \in Nat
         /\ UNCHANGED book

Sign(j, k) == /\ next # Unset
              /\ book' = [book EXCEPT ![j] = [i \in 1..k |-> next + i - 1]]
              /\ next' = next + k

Waste(k) == /\ next # Unset
            /\ next' = next + k
            /\ UNCHANGED book

Next == \/ Learn
        \/ \E k \in Runs : Waste(k) \/ \E j \in Jobs : Sign(j, k)

Spec == Init /\ [][Next]_<<next, book>>
=============================================================================

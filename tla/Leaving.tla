------------------------------- MODULE Leaving -------------------------------
(***************************************************************************)
(* Leaving the L2: Session.leave() and the exit() and withdraw() it calls  *)
(* (session.ts, connection.ts), for the account of one session.            *)
(*                                                                         *)
(* leave() counts epochs with a handler of its own on the phaseshift       *)
(* event, which it registers first; meanwhile exit() signs a request, and  *)
(* takes the next balance proof that arrives for the exit proof.  When     *)
(* both have come, the withdrawals are prepared, one chain after another.  *)
(* The connection keeps the order of messages in each direction.  The      *)
(* enclave is external: at the end of each epoch it issues the balance     *)
(* proofs of that epoch, exit proofs among them, and announces the shift;  *)
(* in which order is not documented.                                       *)
(***************************************************************************)
EXTENDS Naturals, Sequences, FiniteSets, SequencesExt

CONSTANTS Leavers,      \* calls of leave()
          Chains,       \* the chains that the account's balance proofs cover
          FreeEpochs,   \* epochs that end whatever the calls are doing
          MaxEpochs,    \* epochs at all: more than the calls ever wait for
          MaxInTransit  \* results and events on their way when an epoch ends

ASSUME ChainsAssumption == Chains # {}
ASSUME BoundsAssumption == {FreeEpochs, MaxEpochs} \subseteq Nat /\ MaxInTransit \in Nat

VARIABLES
  stage,       \* where each call is
  phaseshift,  \* the calls' handlers in the #always of the phaseshift emitter
  seen,        \* the epochs whose ends each handler was called for
  sealed,      \* the calls whose promise `sealed' is resolved
  once,        \* the calls in the #once of the proof emitter
  sent,        \* the epoch in which each request was sent, 0 if a proof was
               \* on its way to the application already
  proof,       \* the balance proof each call has taken, or NoProof
  batches,     \* the chains with a batch of withdrawals, for each call
  toEnclave,   \* exit requests on their way
  toApp,       \* results and events on their way
  epoch,       \* enclave: the current epoch
  accepted,    \* enclave: the epoch in which it took each request, 0 if none
  everyone     \* enclave: is the session subscribed to everyone's proofs

app == <<stage, phaseshift, seen, sealed, once, sent, proof, batches>>
enclave == <<epoch, accepted, everyone>>
vars == <<app, toEnclave, toApp, enclave>>

Stages == {"idle", "signing", "exiting", "sealing", "withdrawing", "done", "failed"}

NoProof == [own |-> FALSE, exit |-> FALSE, epoch |-> 0]
Proofs == [own : BOOLEAN, exit : BOOLEAN, epoch : Nat]
ProofEvent(p) == [type |-> "proof", proof |-> p]
ShiftEvent(e) == [type |-> "phaseshift", epoch |-> e]
ErrorResult(l) == [type |-> "error", call |-> l]

Init == /\ stage = [l \in Leavers |-> "idle"]
        /\ phaseshift = <<>>
        /\ seen = [l \in Leavers |-> {}]
        /\ sealed = {}
        /\ once = {}
        /\ sent = [l \in Leavers |-> 0]
        /\ proof = [l \in Leavers |-> NoProof]
        /\ batches = [l \in Leavers |-> {}]
        /\ toEnclave = <<>> /\ toApp = <<>>
        /\ epoch = 1
        /\ accepted = [l \in Leavers |-> 0]
        /\ everyone \in BOOLEAN
-----------------------------------------------------------------------------
(* leave() registers its handler and calls exit(), which awaits the nonce  *)
(* and the signer.                                                         *)
Leave(l) ==
  /\ stage[l] = "idle" /\ epoch <= FreeEpochs
  /\ stage' = [stage EXCEPT ![l] = "signing"]
  /\ phaseshift' = Append(phaseshift, l)
  /\ UNCHANGED <<seen, sealed, once, sent, proof, batches, toEnclave, toApp, enclave>>

Send(l) ==
  /\ toEnclave' = Append(toEnclave, l)
  /\ sent' = [sent EXCEPT ![l] =
                IF \E i \in DOMAIN toApp : toApp[i].type = "proof" THEN 0 ELSE epoch]

(* Mutant: the handler that counts is registered once more.                *)
ExitCountingAgain(l) ==
  /\ stage[l] = "signing"
  /\ stage' = [stage EXCEPT ![l] = "exiting"]
  /\ phaseshift' = Append(phaseshift, l)
  /\ once' = once \union {l}
  /\ Send(l)
  /\ UNCHANGED <<seen, sealed, proof, batches, toApp, enclave>>

(* Enclave.exit() registers for the next proof and sends the request.      *)
Exit(l) ==
  /\ stage[l] = "signing"
  /\ stage' = [stage EXCEPT ![l] = "exiting"]
  /\ once' = once \union {l}
  /\ Send(l)
  /\ UNCHANGED <<phaseshift, seen, sealed, proof, batches, toApp, enclave>>

(* The session is not initialized, the nonce query fails or the user       *)
(* declines; the handler stays behind.                                     *)
ExitDeclined(l) ==
  /\ stage[l] = "signing"
  /\ stage' = [stage EXCEPT ![l] = "failed"]
  /\ UNCHANGED <<phaseshift, seen, sealed, once, sent, proof, batches, toEnclave, toApp,
                 enclave>>

(* Every call that waits for a proof takes this one.  The account's own    *)
(* entry is picked from it only after the epochs have passed.              *)
ProofArrives ==
  /\ toApp # <<>> /\ Head(toApp).type = "proof"
  /\ toApp' = Tail(toApp)
  /\ once' = {}
  /\ LET p == Head(toApp).proof
         takes == {l \in once : stage[l] = "exiting"}
     IN  /\ proof' = [l \in Leavers |-> IF l \in takes THEN p ELSE proof[l]]
         /\ stage' = [l \in Leavers |->
                        IF l \notin takes THEN stage[l]
                        ELSE IF l \in sealed THEN "withdrawing" ELSE "sealing"]
  /\ UNCHANGED <<phaseshift, seen, sealed, sent, batches, toEnclave, enclave>>

(* Mutant: the handler lets two shifts pass before the one it accepts.     *)
IsDueEarly(l) == Cardinality(seen[l]) = 2
(* `skipped' has reached 3 when the handler is called.                     *)
IsDue(l) == Cardinality(seen[l]) = 3

(* emit() walks along the array; a handler that takes itself off moves     *)
(* the next one into the place that was just served.                       *)
Called ==
  LET served[i \in 1..Len(phaseshift)] ==
        i = 1 \/ ~(served[i-1] /\ IsDue(phaseshift[i-1]))
  IN  {phaseshift[i] : i \in {j \in DOMAIN phaseshift : served[j]}}

(* The array s with the elements of S taken out.                           *)
Without(s, S) ==
  LET kept == {i \in DOMAIN s : s[i] \notin S}
      place(i) == Cardinality({j \in kept : j <= i})
  IN  [n \in 1..Cardinality(kept) |-> s[CHOOSE i \in kept : place(i) = n]]

ShiftArrives ==
  /\ toApp # <<>> /\ Head(toApp).type = "phaseshift"
  /\ toApp' = Tail(toApp)
  /\ LET over == {l \in Called : IsDue(l)} IN
       /\ seen' = [l \in Leavers |->
                     IF l \in Called THEN seen[l] \union {Head(toApp).epoch} ELSE seen[l]]
       /\ phaseshift' = Without(phaseshift, over)
       /\ sealed' = sealed \union over
       /\ stage' = [l \in Leavers |->
                      IF l \in over /\ stage[l] = "sealing" THEN "withdrawing" ELSE stage[l]]
  /\ UNCHANGED <<once, sent, proof, batches, toEnclave, enclave>>

(* Mutant: exit() does not catch the error of its request.                 *)
ErrorArrivesUncaught(l) ==
  /\ toApp # <<>> /\ Head(toApp) = ErrorResult(l)
  /\ toApp' = Tail(toApp)
  /\ UNCHANGED <<stage, phaseshift, seen, sealed, once, sent, proof, batches, toEnclave,
                 enclave>>

(* The request was refused: exit() fails, unless a proof has come before.  *)
ErrorArrives(l) ==
  /\ toApp # <<>> /\ Head(toApp) = ErrorResult(l)
  /\ toApp' = Tail(toApp)
  /\ stage' = [stage EXCEPT ![l] = IF @ = "exiting" THEN "failed" ELSE @]
  /\ UNCHANGED <<phaseshift, seen, sealed, once, sent, proof, batches, toEnclave, enclave>>
-----------------------------------------------------------------------------
(* Mutant: leave() returns with the first chain's withdrawals.             *)
WithdrawFirst(l, c) ==
  /\ stage[l] = "withdrawing" /\ c \notin batches[l] /\ proof[l].own
  /\ \/ /\ proof[l].exit
        /\ batches' = [batches EXCEPT ![l] = @ \union {c}]
        /\ stage' = [stage EXCEPT ![l] = "done"]
     \/ /\ stage' = [stage EXCEPT ![l] = "failed"]
        /\ UNCHANGED batches
  /\ UNCHANGED <<phaseshift, seen, sealed, once, sent, proof, toEnclave, toApp, enclave>>

(* withdraw() for the next chain.  It fails if the session has no client   *)
(* for the chain, if the chain's node does not answer, or if the proof has *)
(* no exit chunks, of which no batch can be made.                          *)
Withdraw(l, c) ==
  /\ stage[l] = "withdrawing" /\ c \notin batches[l] /\ proof[l].own
  /\ \/ /\ proof[l].exit
        /\ batches' = [batches EXCEPT ![l] = @ \union {c}]
        /\ stage' = [stage EXCEPT ![l] = IF batches'[l] = Chains THEN "done" ELSE @]
     \/ /\ stage' = [stage EXCEPT ![l] = "failed"]
        /\ UNCHANGED batches
  /\ UNCHANGED <<phaseshift, seen, sealed, once, sent, proof, toEnclave, toApp, enclave>>

(* accounts.get(...)! has found nothing: a TypeError, when the proofs are  *)
(* used, after the epochs.                                                 *)
NoOwnProof(l) ==
  /\ stage[l] = "withdrawing" /\ ~proof[l].own
  /\ stage' = [stage EXCEPT ![l] = "failed"]
  /\ UNCHANGED <<phaseshift, seen, sealed, once, sent, proof, batches, toEnclave, toApp,
                 enclave>>
-----------------------------------------------------------------------------
EnclaveServes ==
  /\ toEnclave # <<>>
  /\ toEnclave' = Tail(toEnclave)
  /\ LET l == Head(toEnclave) IN
       \/ accepted' = [accepted EXCEPT ![l] = epoch] /\ toApp' = toApp
       \/ toApp' = Append(toApp, ErrorResult(l)) /\ accepted' = accepted
  /\ UNCHANGED <<app, epoch, everyone>>

(* The proofs that the end of an epoch brings: the account's own, which may *)
(* be missing if it holds nothing, after somebody else's if those are sent. *)
Issued ==
  LET exit == \E l \in Leavers : accepted[l] = epoch
      own == <<ProofEvent([own |-> TRUE, exit |-> exit, epoch |-> epoch])>>
      other == <<ProofEvent([own |-> FALSE, exit |-> FALSE, epoch |-> epoch])>>
      owns == {own} \union (IF exit THEN {} ELSE {<<>>})
  IN  IF everyone THEN {other \o ps : ps \in owns} ELSE owns

(* Epochs end by themselves.  After the first few, they wait for requests  *)
(* to arrive, and end only as long as a call is waiting for them.          *)
EpochEnds ==
  /\ epoch < MaxEpochs /\ Len(toApp) < MaxInTransit
  /\ \/ epoch <= FreeEpochs
     \/ /\ toEnclave = <<>> /\ \A l \in Leavers : stage[l] # "signing"
        /\ \E l \in Leavers : stage[l] \in {"exiting", "sealing"}
  /\ epoch' = epoch + 1
  /\ \E ps \in Issued : \/ toApp' = toApp \o ps \o <<ShiftEvent(epoch)>>
                        \/ toApp' = toApp \o <<ShiftEvent(epoch)>> \o ps
  /\ UNCHANGED <<app, toEnclave, accepted, everyone>>

Delivery == ProofArrives \/ ShiftArrives \/ \E l \in Leavers : ErrorArrives(l)
Progress(l) == \/ Exit(l) \/ ExitDeclined(l) \/ NoOwnProof(l)
               \/ \E c \in Chains : Withdraw(l, c)

Next == \/ \E l \in Leavers : Leave(l) \/ Progress(l)
        \/ Delivery
        \/ EnclaveServes
        \/ EpochEnds

Spec == Init /\ [][Next]_vars

(* The signer, the chains' nodes and the enclave answer, the connection    *)
(* delivers, and epochs have a fixed duration.                             *)
FairSpec == /\ Spec
            /\ \A l \in Leavers : WF_vars(Progress(l))
            /\ WF_vars(Delivery)
            /\ WF_vars(EnclaveServes)
            /\ WF_vars(EpochEnds)
-----------------------------------------------------------------------------
TypeOK ==
  /\ stage \in [Leavers -> Stages]
  /\ phaseshift \in Seq(Leavers) /\ IsInjective(phaseshift)
  /\ seen \in [Leavers -> SUBSET Nat] /\ sealed \subseteq Leavers
  /\ once \subseteq Leavers
  /\ proof \in [Leavers -> Proofs]
  /\ batches \in [Leavers -> SUBSET Chains]
  /\ toEnclave \in Seq(Leavers)
  /\ epoch \in Nat /\ accepted \in [Leavers -> Nat] /\ everyone \in BOOLEAN

(* The README: once the epoch has ended and the exit proof is there, "it   *)
(* now has wait for another two epochs" before withdrawals can be sent.    *)
(* This holds as long as no more than one of the shifts that leave()       *)
(* counted was of an epoch before the one that took the request.           *)
Ready(l) == l \in sealed /\ accepted[l] # 0
Early(l) == {e \in seen[l] : e < accepted[l]}
NotTooEarly ==
  \A l \in Leavers : Ready(l) /\ Cardinality(Early(l)) <= 1 => epoch >= accepted[l] + 3

(* Without that condition it does not: a slow signer is enough.            *)
NeverTooEarly == \A l \in Leavers : Ready(l) => epoch >= accepted[l] + 3

(* If no epoch ends while the request is on its way and only proofs of the *)
(* own account arrive, leave() waits with the exit proof that its request  *)
(* led to, and what it returns has withdrawals for every chain of it.      *)
Undisturbed(l) == sent[l] # 0 /\ sent[l] = accepted[l] /\ ~everyone
OwnProof ==
  \A l \in Leavers : Undisturbed(l) /\ stage[l] \in {"sealing", "withdrawing", "done"} =>
    /\ proof[l].own /\ proof[l].exit /\ proof[l].epoch = accepted[l]
    /\ stage[l] = "done" => batches[l] = Chains

(* exit() "is not triggered by normal balanceproofs", as a test has it.    *)
OnlyExitProofs ==
  \A l \in Leavers : stage[l] \in {"sealing", "withdrawing"} => proof[l].exit

(* leave() returns or fails.                                               *)
LeaveEnds == \A l \in Leavers : stage[l] = "signing" ~> stage[l] \in {"done", "failed"}
=============================================================================

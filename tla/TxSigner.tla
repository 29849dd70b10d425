------------------------------ MODULE TxSigner ------------------------------
(***************************************************************************)
(* Signing and sending L1 transactions: TxSigner, UnsignedTxBatch and      *)
(* SignedTxBatch of ledger/backend/transaction/index.ts, as the sessions   *)
(* of the two ledger backends use them.                                    *)
(*                                                                         *)
(* A job is one use of the signer by the application: it signs one         *)
(* transaction or a batch inside a signing session and sends the result    *)
(* later, or it resets the nonce.  Jobs interleave wherever they await:    *)
(* the mutex (the fair lock that module Mutex implements: holder, queue),  *)
(* the node's pending nonce, the wallet, the node's answer to a broadcast. *)
(* The node and the wallet are external: the node accepts at most one      *)
(* transaction per nonce and reports the first nonce it has no transaction *)
(* for; the wallet signs or refuses.                                       *)
(***************************************************************************)
EXTENDS Integers, Sequences, FiniteSets, Functions

CONSTANTS Jobs, NoJob,
          Ops,          \* the operations that jobs perform
          BatchSize,    \* transactions in a batch
          Refusals,     \* may the wallet or the node refuse
          MaxForeign    \* transactions that other software sends from the account

AllOps == {"signTx", "signAndSend", "signBatch", "signTxBatch", "reset"}

ASSUME JobsAssumption == NoJob \notin Jobs
ASSUME OpsAssumption == Ops \subseteq AllOps
ASSUME BatchSizeAssumption == BatchSize \in Nat \ {0}
ASSUME RefusalsAssumption == Refusals \in BOOLEAN
ASSUME MaxForeignAssumption == MaxForeign \in Nat

VARIABLES
  nonce,      \* this.#nonce, or Unset
  holder,     \* the job whose signing session is open, or NoJob
  queue,      \* the jobs waiting for the mutex
  stage,      \* where each job is
  op,         \* what each job does
  current,    \* the nonce of the transaction in a job's wallet, or Unset
  signed,     \* the nonces of a job's signed transactions, in order
  inflight,   \* the nonces of a job's unanswered broadcasts
  accepted,   \* node: the nonces for which it has a transaction
  foreign,    \* node: how many of them came from elsewhere
  burnt,      \* the nonces taken for transactions that were never delivered
  outdated    \* the jobs whose signed transactions a reset overtook

vars == <<nonce, holder, queue, stage, op, current, signed, inflight,
          accepted, foreign, burnt, outdated>>
lock == <<holder, queue>>
node == <<accepted, foreign>>

Unset == -1
Stages == {"idle", "awaitSign", "awaitNested", "nonce", "wallet", "signed",
           "awaitSend", "sending", "resetting", "done", "failed"}

BatchOps == {"signBatch", "signTxBatch"}
SizeOf(o) == IF o \in BatchOps THEN BatchSize ELSE 1

Init == /\ nonce = Unset
        /\ holder = NoJob
        /\ queue = <<>>
        /\ stage = [j \in Jobs |-> "idle"]
        /\ op = [j \in Jobs |-> "signTx"]
        /\ current = [j \in Jobs |-> Unset]
        /\ signed = [j \in Jobs |-> <<>>]
        /\ inflight = [j \in Jobs |-> {}]
        /\ accepted = {}
        /\ foreign = 0
        /\ burnt = {}
        /\ outdated = {}

(* What the node answers to getNonce("pending").                           *)
PendingNonces ==
  {n \in 0..Cardinality(accepted) : n \notin accepted /\ 0..(n-1) \subseteq accepted}

(* Mutant: the mutex lets the next caller in while a session is open.      *)
IsNextRegardless(j) == queue # <<>> /\ j = Head(queue)
IsNextInLine(j) == holder = NoJob /\ queue # <<>> /\ j = Head(queue)
(* Mutant: a session is not closed.                                        *)
ReleaseForgotten(j) == holder' = holder
Release(j) == holder' = IF holder = j THEN NoJob ELSE holder
-----------------------------------------------------------------------------
(* The application asks for an operation, which first awaits the mutex.    *)
Call(j, o) ==
  /\ stage[j] = "idle"
  /\ stage' = [stage EXCEPT ![j] = "awaitSign"]
  /\ op' = [op EXCEPT ![j] = o]
  /\ queue' = Append(queue, j)
  /\ UNCHANGED <<nonce, holder, current, signed, inflight, node, burnt, outdated>>

(* Mutant: incNonce() increments before it returns.                        *)
BeginTxWithIncremented(j) ==
  IF nonce = Unset
  THEN /\ stage' = [stage EXCEPT ![j] = "nonce"]
       /\ UNCHANGED <<nonce, current>>
  ELSE /\ stage' = [stage EXCEPT ![j] = "wallet"]
       /\ current' = [current EXCEPT ![j] = nonce + 1]
       /\ nonce' = nonce + 1

(* signTransaction() takes the next nonce, if it is known, and hands the   *)
(* transaction to the wallet; otherwise it asks the node first.            *)
BeginTx(j) ==
  IF nonce = Unset
  THEN /\ stage' = [stage EXCEPT ![j] = "nonce"]
       /\ UNCHANGED <<nonce, current>>
  ELSE /\ stage' = [stage EXCEPT ![j] = "wallet"]
       /\ current' = [current EXCEPT ![j] = nonce]
       /\ nonce' = nonce + 1

(* The session opens.  EthereumSession.signTxBatch calls the batch's own   *)
(* sign() inside it, which asks for the mutex once more.                   *)
Enter(j) ==
  /\ stage[j] \in {"awaitSign", "awaitNested"} /\ IsNextInLine(j)
  /\ holder' = j
  /\ \/ /\ op[j] \in {"signTx", "signAndSend", "signBatch"} \/ stage[j] = "awaitNested"
        /\ queue' = Tail(queue)
        /\ BeginTx(j)
     \/ /\ op[j] = "signTxBatch" /\ stage[j] = "awaitSign"
        /\ queue' = Append(Tail(queue), j)
        /\ stage' = [stage EXCEPT ![j] = "awaitNested"]
        /\ UNCHANGED <<nonce, current>>
     \/ /\ op[j] = "reset"
        /\ queue' = Tail(queue)
        /\ stage' = [stage EXCEPT ![j] = "resetting"]
        /\ UNCHANGED <<nonce, current>>
  /\ UNCHANGED <<op, signed, inflight, node, burnt, outdated>>

(* Mutant: without the finally block an error leaves the session open.     *)
AbortLocked(j) ==
  /\ stage' = [stage EXCEPT ![j] = "failed"]
  /\ burnt' = burnt \union Range(signed[j]) \union ({current[j]} \ {Unset})
  /\ signed' = [signed EXCEPT ![j] = <<>>]
  /\ current' = [current EXCEPT ![j] = Unset]
  /\ UNCHANGED <<nonce, lock, op, inflight, node, outdated>>

(* An error inside the session leaves it through the finally block; what   *)
(* the batch has signed so far is dropped, the nonces stay taken.          *)
Abort(j) ==
  /\ stage' = [stage EXCEPT ![j] = "failed"]
  /\ Release(j)
  /\ burnt' = burnt \union Range(signed[j]) \union ({current[j]} \ {Unset})
  /\ signed' = [signed EXCEPT ![j] = <<>>]
  /\ current' = [current EXCEPT ![j] = Unset]
  /\ UNCHANGED <<nonce, queue, op, inflight, node, outdated>>

(* Mutant: the transaction gets the last nonce used, not the pending one.  *)
NonceAnsweredLastUsed(j) ==
  /\ stage[j] = "nonce"
  /\ \E n \in PendingNonces :
        /\ nonce' = n
        /\ current' = [current EXCEPT ![j] = n - 1]
  /\ stage' = [stage EXCEPT ![j] = "wallet"]
  /\ UNCHANGED <<lock, op, signed, inflight, node, burnt, outdated>>

NonceAnswered(j) ==
  /\ stage[j] = "nonce"
  /\ \E n \in PendingNonces :
        /\ nonce' = n + 1
        /\ current' = [current EXCEPT ![j] = n]
  /\ stage' = [stage EXCEPT ![j] = "wallet"]
  /\ UNCHANGED <<lock, op, signed, inflight, node, burnt, outdated>>

NonceRefused(j) == Refusals /\ stage[j] = "nonce" /\ Abort(j)
WalletRefused(j) == Refusals /\ stage[j] = "wallet" /\ Abort(j)

(* The wallet signed.  The batch goes on with its next transaction, or the *)
(* session ends; sign_and_send broadcasts after it has left the session.   *)
WalletSigned(j) ==
  LET txs == Append(signed[j], current[j]) IN
  /\ stage[j] = "wallet"
  /\ signed' = [signed EXCEPT ![j] = txs]
  /\ IF Len(txs) < SizeOf(op[j])
     THEN /\ BeginTx(j)
          /\ UNCHANGED <<lock, inflight>>
     ELSE /\ current' = [current EXCEPT ![j] = Unset]
          /\ Release(j)
          /\ \/ /\ op[j] = "signAndSend"
                /\ stage' = [stage EXCEPT ![j] = "sending"]
                /\ inflight' = [inflight EXCEPT ![j] = Range(txs)]
             \/ /\ op[j] # "signAndSend"
                /\ stage' = [stage EXCEPT ![j] = "signed"]
                /\ UNCHANGED inflight
          /\ UNCHANGED <<nonce, queue>>
  /\ UNCHANGED <<op, node, burnt, outdated>>
-----------------------------------------------------------------------------
(* sendTx() broadcasts at once, a batch inside a session of its own.       *)
SendTx(j) ==
  /\ stage[j] = "signed" /\ op[j] = "signTx"
  /\ stage' = [stage EXCEPT ![j] = "sending"]
  /\ inflight' = [inflight EXCEPT ![j] = Range(signed[j])]
  /\ UNCHANGED <<nonce, lock, op, current, signed, node, burnt, outdated>>

SendBatch(j) ==
  /\ stage[j] = "signed" /\ op[j] \in BatchOps
  /\ stage' = [stage EXCEPT ![j] = "awaitSend"]
  /\ queue' = Append(queue, j)
  /\ UNCHANGED <<nonce, holder, op, current, signed, inflight, node, burnt, outdated>>

EnterSend(j) ==
  /\ stage[j] = "awaitSend" /\ IsNextInLine(j)
  /\ holder' = j
  /\ queue' = Tail(queue)
  /\ stage' = [stage EXCEPT ![j] = "sending"]
  /\ inflight' = [inflight EXCEPT ![j] = Range(signed[j])]
  /\ UNCHANGED <<nonce, op, current, signed, node, burnt, outdated>>

(* Promise.all: the last answer completes the send, the first error fails  *)
(* it and ends the session while other broadcasts are still unanswered.    *)
Broadcast(j, n) ==
  /\ n \in inflight[j] /\ n \notin accepted
  /\ accepted' = accepted \union {n}
  /\ inflight' = [inflight EXCEPT ![j] = @ \ {n}]
  /\ IF stage[j] = "sending" /\ inflight[j] = {n}
     THEN stage' = [stage EXCEPT ![j] = "done"] /\ Release(j)
     ELSE UNCHANGED <<stage, holder>>
  /\ UNCHANGED <<nonce, queue, op, current, signed, foreign, burnt, outdated>>

BroadcastRefused(j, n) ==
  /\ n \in inflight[j]
  /\ Refusals \/ n \in accepted
  /\ inflight' = [inflight EXCEPT ![j] = @ \ {n}]
  /\ IF stage[j] = "sending"
     THEN stage' = [stage EXCEPT ![j] = "failed"] /\ Release(j)
     ELSE UNCHANGED <<stage, holder>>
  /\ UNCHANGED <<nonce, queue, op, current, signed, node, burnt, outdated>>

(* resetNonce() inside a session of its own.  The reset handlers of the    *)
(* signed batches call SignedTxBatch.invalidate(), which does nothing.     *)
ResetAnswered(j) ==
  /\ stage[j] = "resetting"
  /\ nonce' \in PendingNonces
  /\ stage' = [stage EXCEPT ![j] = "done"]
  /\ Release(j)
  /\ outdated' = outdated \union {k \in Jobs : \E n \in Range(signed[k]) : n >= nonce'}
  /\ UNCHANGED <<queue, op, current, signed, inflight, node, burnt>>

ResetRefused(j) == Refusals /\ stage[j] = "resetting" /\ Abort(j)

(* The user sends a transaction from the same account with other software. *)
ForeignTx ==
  /\ foreign < MaxForeign
  /\ foreign' = foreign + 1
  /\ accepted' \in {accepted \union {n} : n \in PendingNonces}
  /\ UNCHANGED <<nonce, lock, stage, op, current, signed, inflight, burnt, outdated>>

Progress(j) == \/ Enter(j) \/ EnterSend(j)
               \/ NonceAnswered(j) \/ NonceRefused(j)
               \/ WalletSigned(j) \/ WalletRefused(j)
               \/ ResetAnswered(j) \/ ResetRefused(j)
               \/ \E n \in inflight[j] : Broadcast(j, n) \/ BroadcastRefused(j, n)

Next == \/ \E j \in Jobs : \/ \E o \in Ops : Call(j, o)
                           \/ SendTx(j)
                           \/ SendBatch(j)
                           \/ Progress(j)
        \/ ForeignTx

Spec == Init /\ [][Next]_vars

(* The mutex is served; the wallet, the node and the network answer.       *)
FairSpec == Spec /\ \A j \in Jobs : WF_vars(Progress(j))
-----------------------------------------------------------------------------
TypeOK ==
  /\ nonce \in Nat \union {Unset}
  /\ holder \in Jobs \union {NoJob}
  /\ queue \in Seq(Jobs)
  /\ stage \in [Jobs -> Stages]
  /\ op \in [Jobs -> AllOps]
  /\ current \in [Jobs -> Nat \union {Unset}]
  /\ signed \in [Jobs -> Seq(Nat)]
  /\ inflight \in [Jobs -> SUBSET Nat]
  /\ accepted \subseteq Nat
  /\ foreign \in Nat
  /\ burnt \subseteq Nat
  /\ outdated \subseteq Jobs

InSession(j) == \/ stage[j] \in {"nonce", "wallet", "resetting", "awaitNested"}
                \/ stage[j] = "sending" /\ op[j] \in BatchOps

(* Nonces are taken, batches are signed and sent, and the nonce is reset   *)
(* only by the job whose session is open; a failure, wherever it happens,  *)
(* leaves no session open behind it.                                       *)
SessionExclusive == \A j \in Jobs : InSession(j) <=> holder = j

Taken(j) == Range(signed[j]) \union ({current[j]} \ {Unset})

(* No nonce is used for two transactions, except that after a reset the    *)
(* nonces of transactions signed before it are handed out again.           *)
DistinctNonces ==
  \A j, k \in Jobs \ outdated : j # k => Taken(j) \intersect Taken(k) = {}

(* incNonce() skips no nonce: each one below the cached nonce belongs to a *)
(* transaction that is signed or in the wallet, was given up with a failed *)
(* signature, or is already taken at the node.                             *)
NoSkippedNonce ==
  nonce # Unset =>
    0..(nonce-1) \subseteq accepted \union burnt \union UNION {Taken(j) : j \in Jobs}

(* When every job has been delivered, the cached nonce is again the one    *)
(* the node expects, so that the next transaction will not be stuck (but   *)
(* for transactions from elsewhere and what a reset has overtaken).        *)
DeliveredMeansCurrent ==
  /\ \A j \in Jobs : stage[j] \in {"idle", "done"}
  /\ nonce # Unset /\ foreign = 0 /\ outdated = {}
  => nonce \in PendingNonces

(* A job that waits for the mutex, signs or sends, and so any job in the   *)
(* line before it, gets a result or an error, whatever the wallet and the  *)
(* node say, unless the mutex is lost to a call of signTxBatch().          *)
Pending(j) == stage[j] \in {"awaitSign", "nonce", "wallet", "resetting", "awaitSend", "sending"}
MutexLost == \E j \in Jobs : stage[j] = "awaitNested"
JobsEnd == \A j \in Jobs : Pending(j) ~> (~Pending(j) \/ MutexLost)

(* Signing a batch is atomic with respect to the nonces, although it       *)
(* awaits the node and the wallet many times.                              *)
Signing(j) == stage[j] = "wallet" /\ holder = j
Atomic == INSTANCE AtomicSigning WITH
            Runs <- 1..BatchSize,
            next <- IF \E j \in Jobs : Signing(j)
                    THEN LET j == CHOOSE k \in Jobs : Signing(k)
                         IN  current[j] - Len(signed[j])
                    ELSE nonce,
            book <- [j \in Jobs |-> IF stage[j] = "wallet" THEN <<>> ELSE signed[j]]
AtomicSigningSpec == Atomic!Spec

(* The application's batch call of the README (`signTxBatch()', then       *)
(* `sendTxBatch()') gives a signed batch, or an error.                     *)
Resolved(j) == stage[j] \in {"signed", "sending", "done", "failed"}
BatchCallEnds ==
  \A j \in Jobs : stage[j] = "awaitSign" /\ op[j] = "signTxBatch" ~> Resolved(j)

(* A comment of TxSigner says that a reset invalidates the transactions    *)
(* signed before it, which have to be signed again: they are not sent.     *)
OutdatedNotSent ==
  \A j \in outdated : op[j] = "signBatch" => stage[j] # "sending"

(* A signer that is robust against refusals: once nothing is in progress,  *)
(* every transaction the node accepted can be executed.                    *)
NothingStuck ==
  (\A j \in Jobs : stage[j] \in {"idle", "done", "failed"} /\ inflight[j] = {})
     => \A n \in accepted : 0..n \subseteq accepted
=============================================================================

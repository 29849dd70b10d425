----------------------------- MODULE WritingApp -----------------------------
(***************************************************************************)
(* The L2 side of a session (class WritingApp of session.ts): how calls of *)
(* transferTo, mint, burn and acceptTrade get their nonces, are signed and *)
(* sent, and how receipts find the call they belong to.                    *)
(*                                                                         *)
(* Calls interleave where they await: the shared nonce query, the L2       *)
(* signer, the enclave's answer.  The continuations that one answer wakes  *)
(* run in the order in which they began to wait, before anything else, and *)
(* are part of the action that delivers the answer.  The connection is an  *)
(* ordered channel in each direction (module Enclave has what may happen   *)
(* to it); the enclave is external and accepts a transaction iff its nonce *)
(* is the one after the account's.                                         *)
(***************************************************************************)
EXTENDS Naturals, FiniteSets, SequencesExt

CONSTANTS Calls, NoCall,
          Payloads,        \* what transactions may say, apart from their nonce
          EnclaveRejects,  \* may the enclave reject for reasons of its own
          QueryFails,      \* may a nonce query fail
          MaxErrors,       \* error events that concern no call
          MaxUpdates       \* calls of updateNonce() by the application

ASSUME CallsAssumption == NoCall \notin Calls
ASSUME FlagsAssumption == {EnclaveRejects, QueryFails} \subseteq BOOLEAN
ASSUME BoundsAssumption == MaxErrors \in Nat /\ MaxUpdates \in Nat

VARIABLES
  nonce,        \* #nonce; 0 when it is invalid
  query,        \* #updatingNonce: "none", "pending" or "rejected"
  waiting,      \* the calls in nextNonce() that await the query, in order
  signing,      \* the calls whose transaction is with the signer, in order
  signer,       \* what the signer has done so far: "overtake", "decline"
  stage,        \* where each call is
  payload,      \* what each call's transaction says
  txnonce,      \* the nonce each call has taken; 0 before
  era,          \* how often the nonce had been reset when the call took it
  dispatchers,  \* ReceiptDispatcher: from transaction hashes to calls
  resolved,     \* the calls whose receipt promise is resolved
  toEnclave,    \* messages on their way to the enclave
  toApp,        \* results on their way to the application
  receipts,     \* receipt events on their way to the application
  account,      \* enclave: the account's nonce
  executed,     \* enclave: the calls whose transaction was accepted
  errors,       \* error events so far
  updates,      \* uses of updateNonce() so far
  resets        \* resets of the nonce so far

local == <<nonce, query, waiting>>
promises == <<dispatchers, resolved>>
enclave == <<receipts, account, executed>>
bounds == <<errors, updates>>
vars == <<local, signing, signer, stage, payload, txnonce, era, promises,
          toEnclave, toApp, enclave, bounds, resets>>

Stages == {"idle", "waiting", "signing", "sent", "accepted", "rejected", "failed"}

Hashes == Payloads \X Nat
(* Mutant: the hash does not cover the nonce.                              *)
HashOfPayload(c) == <<payload[c], 0>>
(* The hash covers payload, nonce and signature; the Ethereum signer's     *)
(* signature is a function of the first two.                               *)
Hash(c) == <<payload[c], txnonce[c]>>
GetAccount == [type |-> "getAccount", call |-> NoCall]
Tx(c) == [type |-> "tx", call |-> c]
Result(t, c, n) == [type |-> t, call |-> c, nonce |-> n]

Init == /\ nonce = 0 /\ query = "none" /\ waiting = <<>>
        /\ signing = <<>> /\ signer = {}
        /\ stage = [c \in Calls |-> "idle"]
        /\ payload \in [Calls -> Payloads]
        /\ txnonce = [c \in Calls |-> 0]
        /\ era = [c \in Calls |-> 0]
        /\ dispatchers = [h \in {} |-> NoCall]
        /\ resolved = {}
        /\ toEnclave = <<>> /\ toApp = <<>>
        /\ receipts = {} /\ account = 0 /\ executed = {}
        /\ errors = 0 /\ updates = 0 /\ resets = 0
-----------------------------------------------------------------------------
(* The callers cs, in this order, take nonces from n on and ask the signer. *)
TakeNonces(cs, n) ==
  LET taken == {cs[i] : i \in DOMAIN cs}
      rank(c) == CHOOSE i \in DOMAIN cs : cs[i] = c
  IN  /\ nonce' = n + Len(cs)
      /\ txnonce' = [c \in Calls |-> IF c \in taken THEN n + rank(c) - 1 ELSE txnonce[c]]
      /\ era' = [c \in Calls |-> IF c \in taken THEN resets ELSE era[c]]
      /\ stage' = [c \in Calls |-> IF c \in taken THEN "signing" ELSE stage[c]]
      /\ signing' = signing \o cs

(* Mutant: every caller that finds an invalid nonce asks.                  *)
AskAlways == query' = "pending" /\ toEnclave' = Append(toEnclave, GetAccount)

(* updateNonce() asks the enclave unless a query is there already.         *)
AskUnlessAsked ==
  IF query = "none"
  THEN query' = "pending" /\ toEnclave' = Append(toEnclave, GetAccount)
  ELSE UNCHANGED <<query, toEnclave>>

(* A call up to the signer: with a valid nonce it takes it, otherwise it   *)
(* awaits #updatingNonce.  A query that has failed stays where it is.      *)
Begin(c) ==
  /\ stage[c] = "idle"
  /\ \/ /\ nonce # 0
        /\ TakeNonces(<<c>>, nonce)
        /\ UNCHANGED <<query, waiting, toEnclave>>
     \/ /\ nonce = 0 /\ query # "rejected"
        /\ AskUnlessAsked
        /\ waiting' = Append(waiting, c)
        /\ stage' = [stage EXCEPT ![c] = "waiting"]
        /\ UNCHANGED <<nonce, signing, txnonce, era>>
     \/ /\ nonce = 0 /\ query = "rejected"
        /\ stage' = [stage EXCEPT ![c] = "failed"]
        /\ UNCHANGED <<local, signing, txnonce, era, toEnclave>>
  /\ UNCHANGED <<signer, payload, promises, toApp, enclave, bounds, resets>>

(* The application calls updateNonce() itself.                             *)
UpdateNonce ==
  /\ updates < MaxUpdates
  /\ updates' = updates + 1
  /\ AskUnlessAsked
  /\ UNCHANGED <<signer, nonce, waiting, signing, stage, payload, txnonce, era, promises,
                 toApp, enclave, errors, resets>>

(* The signer may finish in any order.                                     *)
Finishes(c) == \E i \in DOMAIN signing : signing[i] = c /\ signing' = RemoveAt(signing, i)

(* The transaction is signed: its receipt is registered, then it is sent.  *)
Signed(c) ==
  /\ Finishes(c)
  /\ signer' = signer \union (IF c = Head(signing) THEN {} ELSE {"overtake"})
  /\ stage' = [stage EXCEPT ![c] = "sent"]
  /\ dispatchers' = [h \in DOMAIN dispatchers \union {Hash(c)} |->
                       IF h = Hash(c) THEN c ELSE dispatchers[h]]
  /\ toEnclave' = Append(toEnclave, Tx(c))
  /\ UNCHANGED <<local, payload, txnonce, era, resolved, toApp, enclave, bounds, resets>>

SignerRefused(c) ==
  /\ Finishes(c)
  /\ signer' = signer \union {"decline"}
  /\ stage' = [stage EXCEPT ![c] = "failed"]
  /\ UNCHANGED <<local, payload, txnonce, era, promises, toEnclave, toApp, enclave,
                 bounds, resets>>
-----------------------------------------------------------------------------
(* The enclave serves its messages in order.                               *)
EnclaveAnswersQuery ==
  /\ toEnclave # <<>> /\ Head(toEnclave) = GetAccount
  /\ toEnclave' = Tail(toEnclave)
  /\ \/ toApp' = Append(toApp, Result("account", NoCall, account))
     \/ QueryFails /\ toApp' = Append(toApp, Result("queryError", NoCall, 0))
  /\ UNCHANGED <<signer, local, signing, stage, payload, txnonce, era, promises, enclave,
                 bounds, resets>>

EnclaveServesTx(c) ==
  /\ toEnclave # <<>> /\ Head(toEnclave) = Tx(c)
  /\ toEnclave' = Tail(toEnclave)
  /\ \/ /\ txnonce[c] = account + 1
        /\ account' = account + 1
        /\ executed' = executed \union {c}
        /\ receipts' = receipts \union {Hash(c)}
        /\ toApp' = Append(toApp, Result("accepted", c, 0))
     \/ /\ txnonce[c] # account + 1 \/ EnclaveRejects
        /\ toApp' = Append(toApp, Result("error", c, 0))
        /\ UNCHANGED enclave
  /\ UNCHANGED <<signer, local, signing, stage, payload, txnonce, era, promises, bounds, resets>>

ResetNonce == nonce' = 0 /\ resets' = resets + 1

IsNextResult(t) == toApp # <<>> /\ Head(toApp).type = t

(* Mutant: #updatingNonce is not cleared on success either.                *)
QueryAnsweredUncleared ==
  /\ IsNextResult("account")
  /\ toApp' = Tail(toApp)
  /\ TakeNonces(waiting, IF nonce = 0 THEN Head(toApp).nonce + 1 ELSE nonce)
  /\ waiting' = <<>>
  /\ query' = "resolved"
  /\ UNCHANGED <<signer, payload, promises, toEnclave, enclave, bounds, resets>>

(* Mutant: the answer overwrites a nonce that is valid.                    *)
QueryAnsweredOverwriting ==
  /\ IsNextResult("account")
  /\ toApp' = Tail(toApp)
  /\ TakeNonces(waiting, Head(toApp).nonce + 1)
  /\ waiting' = <<>>
  /\ query' = "none"
  /\ UNCHANGED <<signer, payload, promises, toEnclave, enclave, bounds, resets>>

(* Mutant: the account's last nonce is used once more.                     *)
QueryAnsweredLastNonce ==
  /\ IsNextResult("account")
  /\ toApp' = Tail(toApp)
  /\ TakeNonces(waiting, IF nonce = 0 THEN Head(toApp).nonce ELSE nonce)
  /\ waiting' = <<>>
  /\ query' = "none"
  /\ UNCHANGED <<signer, payload, promises, toEnclave, enclave, bounds, resets>>

(* The account arrives.  The query's continuation runs first and overwrites *)
(* only an invalid nonce; then the callers that awaited it take theirs.    *)
QueryAnswered ==
  /\ IsNextResult("account")
  /\ toApp' = Tail(toApp)
  /\ TakeNonces(waiting, IF nonce = 0 THEN Head(toApp).nonce + 1 ELSE nonce)
  /\ waiting' = <<>>
  /\ query' = "none"
  /\ UNCHANGED <<signer, payload, promises, toEnclave, enclave, bounds, resets>>

(* The query fails: all who await it fail, and #updatingNonce is not       *)
(* cleared.  The error event of a failed call resets the nonce as always.  *)
QueryFailed ==
  /\ IsNextResult("queryError")
  /\ toApp' = Tail(toApp)
  /\ ResetNonce
  /\ query' = "rejected"
  /\ stage' = [c \in Calls |-> IF stage[c] = "waiting" THEN "failed" ELSE stage[c]]
  /\ waiting' = <<>>
  /\ UNCHANGED <<signer, signing, payload, txnonce, era, promises, toEnclave, enclave, bounds>>

Accepted(c) ==
  /\ IsNextResult("accepted") /\ Head(toApp).call = c
  /\ toApp' = Tail(toApp)
  /\ stage' = [stage EXCEPT ![c] = "accepted"]
  /\ UNCHANGED <<signer, local, signing, payload, txnonce, era, promises, toEnclave, enclave,
                 bounds, resets>>

(* Mutant: an error does not reset the nonce.                              *)
RejectedWithoutReset(c) ==
  /\ IsNextResult("error") /\ Head(toApp).call = c
  /\ toApp' = Tail(toApp)
  /\ stage' = [stage EXCEPT ![c] = "rejected"]
  /\ UNCHANGED <<signer, local, signing, payload, txnonce, era, promises, toEnclave,
                 enclave, bounds, resets>>

(* An error answers the call and, as an error event, resets the nonce.     *)
Rejected(c) ==
  /\ IsNextResult("error") /\ Head(toApp).call = c
  /\ toApp' = Tail(toApp)
  /\ stage' = [stage EXCEPT ![c] = "rejected"]
  /\ ResetNonce
  /\ UNCHANGED <<signer, query, waiting, signing, payload, txnonce, era, promises, toEnclave,
                 enclave, bounds>>

(* An error event of the connection or of the enclave as a whole.          *)
ErrorEvent ==
  /\ errors < MaxErrors
  /\ errors' = errors + 1
  /\ ResetNonce
  /\ UNCHANGED <<signer, query, waiting, signing, stage, payload, txnonce, era, promises,
                 toEnclave, toApp, enclave, updates>>

(* ReceiptDispatcher.watch(): nothing is ever taken out of the map.        *)
ReceiptEvent(h) ==
  /\ h \in receipts
  /\ receipts' = receipts \ {h}
  /\ resolved' = resolved \union ({dispatchers[g] : g \in {h} \intersect DOMAIN dispatchers})
  /\ UNCHANGED <<signer, local, signing, stage, payload, txnonce, era, dispatchers, toEnclave,
                 toApp, account, executed, bounds, resets>>

EnclaveStep == EnclaveAnswersQuery \/ \E c \in Calls : EnclaveServesTx(c)
Delivery == \/ QueryAnswered \/ QueryFailed
            \/ \E c \in Calls : Accepted(c) \/ Rejected(c)
SignerStep(c) == Signed(c) \/ SignerRefused(c)

Next == \/ \E c \in Calls : Begin(c) \/ SignerStep(c)
        \/ UpdateNonce
        \/ EnclaveStep
        \/ Delivery
        \/ ErrorEvent
        \/ \E h \in receipts : ReceiptEvent(h)

Spec == Init /\ [][Next]_vars

(* The signer and the enclave answer and the connection delivers.          *)
FairSpec == /\ Spec
            /\ WF_vars(EnclaveStep)
            /\ WF_vars(Delivery)
            /\ \A c \in Calls : WF_vars(SignerStep(c))
            /\ WF_vars(\E h \in receipts : ReceiptEvent(h))
-----------------------------------------------------------------------------
MessageTypes == [type : {"getAccount", "tx"}, call : Calls \union {NoCall}]
ResultTypes == [type : {"account", "queryError", "accepted", "error"},
                call : Calls \union {NoCall}, nonce : Nat]

TypeOK ==
  /\ nonce \in Nat /\ query \in {"none", "pending", "rejected"}
  /\ waiting \in Seq(Calls) /\ signing \in Seq(Calls)
  /\ stage \in [Calls -> Stages]
  /\ payload \in [Calls -> Payloads]
  /\ txnonce \in [Calls -> Nat] /\ era \in [Calls -> Nat]
  /\ DOMAIN dispatchers \subseteq Hashes
  /\ \A h \in DOMAIN dispatchers : dispatchers[h] \in Calls
  /\ resolved \subseteq Calls
  /\ toEnclave \in Seq(MessageTypes) /\ toApp \in Seq(ResultTypes)
  /\ receipts \subseteq Hashes /\ account \in Nat /\ executed \subseteq Calls
  /\ errors \in 0..MaxErrors /\ updates \in 0..MaxUpdates /\ resets \in Nat

(* Concurrent calls never share a nonce, unless the nonce was reset in     *)
(* between: also when several of them await one query, and when a query    *)
(* that was started before the nonce became valid is answered late.        *)
DistinctNonces ==
  \A c, d \in Calls : c # d /\ txnonce[c] # 0 /\ era[c] = era[d] => txnonce[c] # txnonce[d]

(* Whoever awaits the nonce has a query to wait for, and however many calls *)
(* are made at once, one query is on its way for all of them.              *)
InTransit(m) == Cardinality({i \in DOMAIN toEnclave : toEnclave[i].type = m})
WaitersServed ==
  LET answers == {i \in DOMAIN toApp : toApp[i].type \in {"account", "queryError"}}
  IN  /\ waiting # <<>> => query = "pending"
      /\ InTransit("getAccount") + Cardinality(answers) = IF query = "pending" THEN 1 ELSE 0

(* Concurrent calls whose signer has kept their order so far reach the      *)
(* enclave in order and without a gap, for as long as no error disturbs    *)
(* the session: it has no reason to reject any of them for its nonce.      *)
Undisturbed == resets = 0 /\ \A i \in DOMAIN toApp : toApp[i].type # "error"
InOrder ==
  LET txs == {i \in DOMAIN toEnclave : toEnclave[i].type = "tx"}
      place(i) == Cardinality({j \in txs : j <= i})
  IN  signer = {} /\ Undisturbed =>
        \A i \in txs : txnonce[toEnclave[i].call] = account + place(i)

(* Once nothing is in progress, a valid nonce is the one the enclave       *)
(* expects, whatever was rejected before: the next call will be accepted.  *)
(* A signer that changes the order or declines can leave a gap, and so can *)
(* an updateNonce() whose answer an error and other calls overtake.        *)
Quiet == /\ toEnclave = <<>> /\ toApp = <<>> /\ signing = <<>> /\ waiting = <<>>
QuietMeansCurrent ==
  Quiet /\ nonce # 0 /\ signer = {} /\ updates = 0 => nonce = account + 1

(* Until the nonce is reset, a receipt resolves the promise of a call      *)
(* whose transaction was executed, also when calls say the same.           *)
ReceiptOfOwnTx == resets = 0 => resolved \subseteq executed

(* Every call gets an answer.                                              *)
CallsEnd == \A c \in Calls :
              stage[c] = "waiting" ~> stage[c] \in {"accepted", "rejected", "failed"}

(* Every executed call gets its receipt, unless a reset of the nonce lets  *)
(* another call take its hash.                                             *)
ReceiptsArrive == \A c \in Calls : c \in executed ~> c \in resolved \/ resets > 0

(* As the comment of nextNonce() has it, a call that finds an invalid nonce *)
(* queries the nonce from the enclave: it does not fail without asking.    *)
AskedBeforeFailing ==
  [][\A c \in Calls : ~(stage[c] = "idle" /\ stage'[c] = "failed")]_vars
=============================================================================

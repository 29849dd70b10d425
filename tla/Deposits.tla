------------------------------- MODULE Deposits -------------------------------
(***************************************************************************)
(* deposit() of the Ethereum connection (writeconn.ts): for each asset of  *)
(* the basket, the token holder is asked for (module TokenProvider), and   *)
(* the approvals and the deposit are prepared, with awaits in between, at  *)
(* each of which the application may change the basket, an object of its   *)
(* own.  Several calls share the provider and its cache of wrapped tokens. *)
(*                                                                         *)
(* An amount is a set of units: token ids, or indivisible coins.           *)
(***************************************************************************)
EXTENDS TokenProvider, Sequences, SequencesExt

CONSTANTS Assets,   \* what baskets may hold
          Ether, NFTs, Wrapped, \* the native coin, token sets, and assets that
                    \* come from another chain; the others are own ERC20 tokens
          Units,
          Baskets,  \* what deposit() is called with
          MaxChanges  \* calls during which the application changes it

ASSUME BasketsAssumption == Baskets \subseteq [Assets -> SUBSET Units]
ASSUME BoundsAssumption == MaxChanges \in Nat
ASSUME AssetsAssumption == /\ {Ether} \union NFTs \union Wrapped \subseteq Assets
                           /\ Ether \notin NFTs \union Wrapped

Calls == Queries

VARIABLES
  stage,     \* where each call of deposit() is
  basket,    \* its argument
  changed,   \* the calls whose basket was changed during the call
  current,   \* the asset that each call is at
  visited,   \* the assets it is done with
  approving, \* the amount that it read for the approval
  batch,     \* the transactions it has prepared
  cache,     \* the wrapped tokens whose addresses are cached
  txOpts     \* the promise #ethTxOpts

deposit == <<stage, basket, changed, current, visited, approving, batch, cache, txOpts>>
vars == <<provider, deposit>>

Nothing == [a \in Assets |-> {}]
Holds(c) == {a \in Assets : basket[c][a] # {}}
Approve(a, us) == [type |-> "approve", asset |-> a, units |-> us]
Deposit(a, us) == [type |-> "deposit", asset |-> a, units |-> us]

Init == /\ ProviderInit
        /\ stage = [c \in Calls |-> "idle"]
        /\ basket = [c \in Calls |-> Nothing] /\ changed = {}
        /\ current = [c \in Calls |-> Ether]
        /\ visited = [c \in Calls |-> {}]
        /\ approving = [c \in Calls |-> {}]
        /\ batch = [c \in Calls |-> <<>>]
        /\ cache = {} /\ txOpts = "pending"
-----------------------------------------------------------------------------
(* deposit() throws: what it has prepared is lost.                         *)
Throw(c) ==
  /\ stage' = [stage EXCEPT ![c] = "failed"]
  /\ batch' = [batch EXCEPT ![c] = <<>>]
  /\ current' = [current EXCEPT ![c] = Ether]
  /\ visited' = [visited EXCEPT ![c] = {}]
  /\ approving' = [approving EXCEPT ![c] = {}]
  /\ UNCHANGED <<basket, changed>>

(* deposit() is called; of nothing it throws.                              *)
Call(c) ==
  /\ stage[c] = "idle"
  /\ \E b \in Baskets :
       /\ basket' = [basket EXCEPT ![c] = b]
       /\ stage' = [stage EXCEPT ![c] = IF b = Nothing THEN "failed" ELSE "next"]
  /\ UNCHANGED <<provider, changed, current, visited, approving, batch, cache, txOpts>>

(* The application changes an amount of the basket.                        *)
ChangeBasket(c) ==
  /\ stage[c] \notin {"idle", "done", "failed"} /\ c \notin changed
  /\ Cardinality(changed) < MaxChanges
  /\ changed' = changed \union {c}
  /\ \E a \in Holds(c), us \in (SUBSET Units) \ {{}} :
       basket' = [basket EXCEPT ![c][a] = us]
  /\ UNCHANGED <<provider, stage, current, visited, approving, batch, cache, txOpts>>

(* addStage() for the next asset: the holder is asked for, at first for    *)
(* the address of a wrapped token that is not in the cache.                *)
NextAsset(c) ==
  /\ stage[c] = "next"
  /\ \E a \in Holds(c) \ visited[c] :
       /\ current' = [current EXCEPT ![c] = a]
       /\ stage' = [stage EXCEPT ![c] = IF a \in Wrapped \ cache THEN "lookup" ELSE "holder"]
  /\ AskHolder(c)
  /\ UNCHANGED <<basket, changed, visited, approving, batch, cache, txOpts>>

Return(c) ==
  /\ stage[c] = "next" /\ Holds(c) \subseteq visited[c]
  /\ stage' = [stage EXCEPT ![c] = "done"]
  /\ UNCHANGED <<provider, basket, changed, current, visited, approving, batch, cache, txOpts>>

(* deployedToken() of the holder answers: with the address, or with zero,  *)
(* or not at all, and deposit() throws.  Only the address is cached.       *)
Lookup(c) ==
  /\ stage[c] = "lookup" /\ query[c] = "answered"
  /\ \/ /\ cache' = cache \union {current[c]}
        /\ stage' = [stage EXCEPT ![c] = "holder"]
        /\ AskHolder(c)
        /\ UNCHANGED <<basket, changed, current, visited, approving, batch>>
     \/ Throw(c) /\ UNCHANGED <<provider, cache>>
  /\ UNCHANGED txOpts

HolderFails(c) ==
  /\ stage[c] \in {"lookup", "holder"} /\ query[c] = "failed"
  /\ Throw(c)
  /\ UNCHANGED <<provider, cache, txOpts>>

(* The amount to approve is read, before the transaction options are       *)
(* awaited.                                                                *)
HolderKnown(c) ==
  /\ stage[c] = "holder" /\ query[c] = "answered"
  /\ stage' = [stage EXCEPT ![c] = IF current[c] = Ether THEN "deposit" ELSE "approve"]
  /\ approving' = [approving EXCEPT ![c] = basket[c][current[c]]]
  /\ UNCHANGED <<provider, basket, changed, current, visited, batch, cache, txOpts>>

(* Mutant: of a token set the first token is approved.                     *)
PrepareApprovalOfFirst(c) ==
  /\ stage[c] = "approve" /\ txOpts = "known"
  /\ \E us \in IF current[c] \in NFTs THEN {{u} : u \in approving[c]} ELSE {approving[c]} :
       batch' = [batch EXCEPT ![c] = Append(@, Approve(current[c], us))]
  /\ stage' = [stage EXCEPT ![c] = "deposit"]
  /\ UNCHANGED <<provider, basket, changed, current, visited, approving, cache, txOpts>>

(* One approval for an amount, one for each token of a token set.          *)
PrepareApproval(c) ==
  /\ stage[c] = "approve" /\ txOpts = "known"
  /\ \E us \in IF current[c] \in NFTs THEN {{u} : u \in approving[c]} ELSE {approving[c]} :
       /\ batch' = [batch EXCEPT ![c] = Append(@, Approve(current[c], us))]
       /\ approving' = [approving EXCEPT ![c] = @ \ us]
  /\ stage' = [stage EXCEPT ![c] = IF approving'[c] = {} THEN "deposit" ELSE @]
  /\ UNCHANGED <<provider, basket, changed, current, visited, cache, txOpts>>

(* The amount is read again.                                               *)
PrepareDeposit(c) ==
  /\ stage[c] = "deposit" /\ txOpts = "known"
  /\ batch' = [batch EXCEPT ![c] = Append(@, Deposit(current[c], basket[c][current[c]]))]
  /\ visited' = [visited EXCEPT ![c] = @ \union {current[c]}]
  /\ stage' = [stage EXCEPT ![c] = "next"]
  /\ UNCHANGED <<provider, basket, changed, current, approving, cache, txOpts>>

(* The node has not told its fees or its network: no deposit() works.      *)
NoOptions(c) ==
  /\ stage[c] \in {"approve", "deposit"} /\ txOpts = "failed"
  /\ Throw(c)
  /\ UNCHANGED <<provider, cache, txOpts>>

OptionsArrive ==
  /\ txOpts = "pending" /\ txOpts' \in {"known", "failed"}
  /\ UNCHANGED <<provider, stage, basket, changed, current, visited, approving, batch, cache>>

Step(c) == \/ NextAsset(c) \/ Return(c) \/ Lookup(c) \/ HolderFails(c) \/ HolderKnown(c)
           \/ PrepareApproval(c) \/ PrepareDeposit(c) \/ NoOptions(c)

Next == \/ \E c \in Calls : Call(c) \/ ChangeBasket(c) \/ Step(c)
        \/ OptionsArrive
        \/ ProviderNext /\ UNCHANGED deposit

Spec == Init /\ [][Next]_vars

(* Calls go on, timers expire, the node answers; nobody need ever fetch or *)
(* resolve the holders.                                                    *)
FairSpec == /\ Spec
            /\ \A c \in Calls : /\ WF_vars(Step(c))
                                /\ WF_vars(Timeout(c) /\ UNCHANGED deposit)
            /\ WF_vars(OptionsArrive)
-----------------------------------------------------------------------------
TypeOK ==
  /\ ProviderTypeOK
  /\ stage \in [Calls -> {"idle", "next", "lookup", "holder", "approve", "deposit", "done",
                          "failed"}]
  /\ basket \in [Calls -> [Assets -> SUBSET Units]] /\ changed \subseteq Calls
  /\ current \in [Calls -> Assets] /\ visited \in [Calls -> SUBSET Assets]
  /\ approving \in [Calls -> SUBSET Units]
  /\ batch \in [Calls -> Seq([type : {"approve", "deposit"}, asset : Assets,
                              units : SUBSET Units])]
  /\ cache \subseteq Wrapped /\ txOpts \in {"pending", "known", "failed"}

(* Every deposit of a batch is approved by what stands before it in the    *)
(* batch, exactly, and a batch deposits the basket, all of it and once, if *)
(* the basket was left alone during the call.                              *)
ApprovedBefore(c, i) ==
  UNION {batch[c][j].units : j \in {k \in 1..(i - 1) :
           batch[c][k].type = "approve" /\ batch[c][k].asset = batch[c][i].asset}}
DepositsOf(c) == {i \in DOMAIN batch[c] : batch[c][i].type = "deposit"}
DepositsAsGiven ==
  \A c \in Calls \ changed :
    /\ \A i \in DepositsOf(c) :
         batch[c][i].asset # Ether => ApprovedBefore(c, i) = batch[c][i].units
    /\ stage[c] = "done" =>
         /\ {batch[c][i].asset : i \in DepositsOf(c)} = Holds(c)
         /\ Cardinality(DepositsOf(c)) = Cardinality(Holds(c))
         /\ \A i \in DepositsOf(c) : batch[c][i].units = basket[c][batch[c][i].asset]

(* deposit() ends, whether or not anybody provides the holders.            *)
DepositEnds == \A c \in Calls : stage[c] = "next" ~> stage[c] \in {"done", "failed"}
===============================================================================

----------------------------- MODULE AssetsProofs -----------------------------
(* That assets arrive as they were given.  First part: deposit() prepares    *)
(* what it was given, exactly, however many calls share the token provider,  *)
(* and whoever waits for the token holders has a timeout that will end it,   *)
(* whatever the fetches do.  Second part: the loops of the token sets stay   *)
(* sorted and do what sets do, for arrays of any length and any ids.         *)
EXTENDS Deposits, Tokens, FiniteSetTheorems, TLAPS

(* As long as the promise is pending, both functions that settle it are      *)
(* there; only who waits for it has a timeout.                               *)
ProviderInv == /\ ProviderTypeOK
               /\ timers = Waiting
               /\ holders = "pending" => setHolders /\ failHolders
               /\ Waiting # {} => holders = "pending"

LEMMA ProviderInitHolds == ProviderInit => ProviderInv
  BY DEF ProviderInit, ProviderInv, ProviderTypeOK, Waiting

(* Settling ends all waiting.                                                *)
LEMMA SettleEnds ==
  ASSUME ProviderInv, NEW o \in {"resolved", "rejected"}, Settle(o)
  PROVE  /\ holders' \in {"resolved", "rejected"}
         /\ query' \in [Queries -> {"none", "waiting", "answered", "failed"}]
         /\ Waiting' = {} /\ timers' = {}
<1>1. CASE holders = "pending"
  BY <1>1 DEF Settle, ProviderInv, ProviderTypeOK, Waiting
<1>2. CASE holders # "pending"
  BY <1>2 DEF Settle, ProviderInv, ProviderTypeOK, Waiting
<1>3. QED
  BY <1>1, <1>2

(* A step after which the promise is settled.                                *)
LEMMA SettledKeeps ==
  ASSUME holders' \in {"resolved", "rejected"},
         query' \in [Queries -> {"none", "waiting", "answered", "failed"}],
         Waiting' = {}, timers' = {}, setHolders' \in BOOLEAN, failHolders' \in BOOLEAN,
         fetch' \in [Fetchers -> {"idle", "asking", "done", "failed"}]
  PROVE  ProviderInv'
BY DEF ProviderInv, ProviderTypeOK

(* A step that leaves the promise alone, which is settled or keeps the       *)
(* functions.                                                                *)
LEMMA QuietKeeps ==
  ASSUME ProviderInv, UNCHANGED <<holders, query, timers>>,
         setHolders' \in BOOLEAN, failHolders' \in BOOLEAN,
         fetch' \in [Fetchers -> {"idle", "asking", "done", "failed"}],
         holders # "pending" \/ UNCHANGED <<setHolders, failHolders>>
  PROVE  ProviderInv'
BY DEF ProviderInv, ProviderTypeOK, Waiting

LEMMA ProviderStep == ProviderInv /\ ProviderNext => ProviderInv'
<1> SUFFICES ASSUME ProviderInv, ProviderNext PROVE ProviderInv'
  OBVIOUS
<1>1. /\ setHolders \in BOOLEAN /\ failHolders \in BOOLEAN
      /\ fetch \in [Fetchers -> {"idle", "asking", "done", "failed"}]
      /\ holders \in {"pending", "resolved", "rejected"}
      /\ holders = "pending" => setHolders /\ failHolders
  BY DEF ProviderInv, ProviderTypeOK
<1>2. FALSE \in BOOLEAN
  OBVIOUS
<1>3. CASE ResolveHolders
  <2>1. setHolders' = FALSE /\ failHolders' = FALSE /\ fetch' = fetch
    BY <1>3 DEF ResolveHolders
  <2>2. CASE setHolders
    BY <1>1, <1>2, <1>3, <2>1, <2>2, SettleEnds, SettledKeeps DEF ResolveHolders
  <2>3. CASE ~setHolders
    BY <1>1, <1>2, <1>3, <2>1, <2>3, QuietKeeps DEF ResolveHolders
  <2>4. QED
    BY <2>2, <2>3
<1>4. ASSUME NEW f \in Fetchers, Fetch(f) PROVE ProviderInv'
  <2>1. /\ fetch' \in [Fetchers -> {"idle", "asking", "done", "failed"}]
        /\ UNCHANGED <<holders, setHolders, failHolders, query, timers>>
    BY <1>1, <1>4 DEF Fetch
  <2>2. QED
    BY <1>1, <2>1, QuietKeeps
<1>5. ASSUME NEW f \in Fetchers, FetchAnswered(f) PROVE ProviderInv'
  <2>1. /\ fetch' \in [Fetchers -> {"idle", "asking", "done", "failed"}]
        /\ setHolders' = FALSE /\ failHolders' = FALSE
    BY <1>1, <1>5 DEF FetchAnswered
  <2>2. CASE setHolders
    BY <1>2, <1>5, <2>1, <2>2, SettleEnds, SettledKeeps DEF FetchAnswered
  <2>3. CASE ~setHolders
    BY <1>1, <1>2, <1>5, <2>1, <2>3, QuietKeeps DEF FetchAnswered
  <2>4. QED
    BY <2>2, <2>3
<1>6. ASSUME NEW f \in Fetchers, FetchRefused(f) PROVE ProviderInv'
  <2>1. /\ fetch' \in [Fetchers -> {"idle", "asking", "done", "failed"}]
        /\ setHolders' = FALSE /\ failHolders' = failHolders
    BY <1>1, <1>6 DEF FetchRefused
  <2>2. CASE failHolders
    BY <1>1, <1>2, <1>6, <2>1, <2>2, SettleEnds, SettledKeeps DEF FetchRefused
  <2>3. CASE ~failHolders
    BY <1>1, <1>2, <1>6, <2>1, <2>3, QuietKeeps DEF FetchRefused
  <2>4. QED
    BY <2>2, <2>3
<1>7. ASSUME NEW q \in Queries, Timeout(q) PROVE ProviderInv'
  <2>1. q \in Waiting /\ Waiting = timers /\ failHolders
    BY <1>7 DEF Timeout, ProviderInv
  <2>2. /\ setHolders' = setHolders /\ failHolders' = FALSE /\ fetch' = fetch
        /\ holders' = "rejected"
        /\ query' = [r \in Queries |-> IF r \in Waiting THEN "failed" ELSE query[r]]
        /\ timers' = timers \ ({q} \union Waiting)
    BY <1>7, <2>1 DEF Timeout
  <2>3. query' \in [Queries -> {"none", "waiting", "answered", "failed"}]
    BY <2>2 DEF ProviderInv, ProviderTypeOK
  <2>4. Waiting' = {} /\ timers' = {}
    BY <2>1, <2>2 DEF Waiting
  <2>5. QED
    BY <1>1, <1>2, <2>2, <2>3, <2>4, SettledKeeps
<1>8. QED
  BY <1>3, <1>4, <1>5, <1>6, <1>7 DEF ProviderNext

LEMMA AskStep ==
  ASSUME ProviderInv, NEW q \in Queries, AskHolder(q)
  PROVE  ProviderInv'
<1>1. /\ query \in [Queries -> {"none", "waiting", "answered", "failed"}]
      /\ UNCHANGED <<holders, setHolders, failHolders, fetch>>
  BY DEF AskHolder, ProviderInv, ProviderTypeOK
<1>2. CASE holders = "pending"
  <2>1. query' = [query EXCEPT ![q] = "waiting"] /\ timers' = timers \union {q}
    BY <1>2 DEF AskHolder
  <2>2. Waiting' = Waiting \union {q}
    BY <1>1, <2>1 DEF Waiting
  <2>3. QED
    BY <1>1, <1>2, <2>1, <2>2 DEF ProviderInv, ProviderTypeOK
<1>3. CASE holders # "pending"
  <2>1. PICK a \in {"answered", "failed"} : query' = [query EXCEPT ![q] = a]
    BY <1>3 DEF AskHolder, ProviderInv, ProviderTypeOK
  <2>2. Waiting = {} /\ timers = {} /\ timers' = timers
    BY <1>3 DEF AskHolder, ProviderInv
  <2>3. Waiting' = {}
    BY <1>1, <2>1, <2>2 DEF Waiting
  <2>4. QED
    BY <1>1, <1>3, <2>1, <2>2, <2>3 DEF ProviderInv, ProviderTypeOK
<1>4. QED
  BY <1>2, <1>3

LEMMA SameProvider == ProviderInv /\ UNCHANGED provider => ProviderInv'
  BY DEF ProviderInv, ProviderTypeOK, provider, Waiting

LEMMA StepKeepsProvider == ProviderInv /\ [Next]_vars => ProviderInv'
<1> SUFFICES ASSUME ProviderInv, [Next]_vars PROVE ProviderInv'
  OBVIOUS
<1>1. ASSUME NEW c \in Calls, Call(c) \/ ChangeBasket(c) \/ Step(c) PROVE ProviderInv'
  <2>1. AskHolder(c) \/ UNCHANGED provider
    BY <1>1 DEF Call, ChangeBasket, Step, NextAsset, Return, Lookup, HolderFails,
                HolderKnown, PrepareApproval, PrepareDeposit, NoOptions
  <2>2. QED
    BY <2>1, AskStep, SameProvider DEF Calls
<1>2. CASE OptionsArrive
  BY <1>2, SameProvider DEF OptionsArrive
<1>3. CASE UNCHANGED vars
  BY <1>3, SameProvider DEF vars
<1>4. QED
  BY <1>1, <1>2, <1>3, ProviderStep DEF Next
-------------------------------------------------------------------------------
Txs == [type : {"approve", "deposit"}, asset : Assets, units : SUBSET Units]
Stages == {"idle", "next", "lookup", "holder", "approve", "deposit", "done", "failed"}

Types ==
  /\ stage \in [Calls -> Stages]
  /\ basket \in [Calls -> [Assets -> SUBSET Units]] /\ changed \subseteq Calls
  /\ current \in [Calls -> Assets] /\ visited \in [Calls -> SUBSET Assets]
  /\ approving \in [Calls -> SUBSET Units]
  /\ batch \in [Calls -> Seq(Txs)]
  /\ cache \subseteq Wrapped /\ txOpts \in {"pending", "known", "failed"}

(* What the transactions of s up to the n-th approve of an asset.            *)
Approved(s, a, n) ==
  UNION {s[j].units : j \in {k \in 1..n : s[k].type = "approve" /\ s[k].asset = a}}
DepositsIn(s) == {i \in 1..Len(s) : s[i].type = "deposit"}

(* A batch s that has the deposits of the assets vis of the basket b.        *)
GoodBatch(s, b, vis) ==
  /\ \A a \in vis : b[a] # {}
  /\ \A i \in DepositsIn(s) :
       /\ s[i].asset \in vis /\ s[i].units = b[s[i].asset]
       /\ s[i].asset # Ether => Approved(s, s[i].asset, i - 1) = s[i].units
  /\ \A a \in vis : \E i \in DepositsIn(s) : s[i].asset = a
  /\ \A i, j \in DepositsIn(s) : s[i].asset = s[j].asset => i = j

(* Nothing is approved but for the assets as.                                *)
ApprovesOnly(s, as) == \A i \in 1..Len(s) : s[i].type = "approve" => s[i].asset \in as

(* What a call at stage st has done when its current asset is a, and how     *)
(* far it is with the approvals of that asset.                               *)
Sound(st, b, a, vis, app, s) ==
  /\ GoodBatch(s, b, vis)
  /\ st \in {"idle", "failed"} => s = <<>> /\ vis = {}
  /\ st \in {"lookup", "holder", "approve", "deposit"} => b[a] # {} /\ a \notin vis
  /\ st \in {"next", "lookup", "holder"} => ApprovesOnly(s, vis)
  /\ st \in {"approve", "deposit"} => ApprovesOnly(s, vis \union {a})
  /\ st = "approve" => app \subseteq b[a] /\ Approved(s, a, Len(s)) = b[a] \ app
  /\ st = "deposit" /\ a # Ether => Approved(s, a, Len(s)) = b[a]
  /\ st = "done" => \A x \in Assets : b[x] # {} => x \in vis

CallInv(c) ==
  c \notin changed =>
    Sound(stage[c], basket[c], current[c], visited[c], approving[c], batch[c])

(* Only addresses of wrapped tokens are looked up, and cached.               *)
LooksUpWrapped == \A c \in Calls : stage[c] = "lookup" => current[c] \in Wrapped

IInv == ProviderInv /\ Types /\ LooksUpWrapped /\ \A c \in Calls : CallInv(c)
-------------------------------------------------------------------------------
LEMMA EmptyBatch ==
  ASSUME NEW b, NEW as
  PROVE  /\ GoodBatch(<<>>, b, {}) /\ ApprovesOnly(<<>>, as)
         /\ \A a : Approved(<<>>, a, 0) = {}
BY DEF GoodBatch, DepositsIn, ApprovesOnly, Approved

LEMMA AppendTx ==
  ASSUME NEW s \in Seq(Txs), NEW x \in Txs
  PROVE  /\ Append(s, x) \in Seq(Txs) /\ Len(Append(s, x)) = Len(s) + 1
         /\ Len(s) \in Nat
         /\ \A i \in 1..Len(s) : Append(s, x)[i] = s[i]
         /\ Append(s, x)[Len(s) + 1] = x
         /\ \A i \in 1..(Len(s) + 1) : i \in 1..Len(s) \/ i = Len(s) + 1
OBVIOUS

(* What one more transaction adds to what is approved.                       *)
LEMMA ApprovedAppend ==
  ASSUME NEW s \in Seq(Txs), NEW x \in Txs, NEW a
  PROVE  /\ \A n \in 0..Len(s) : Approved(Append(s, x), a, n) = Approved(s, a, n)
         /\ Approved(Append(s, x), a, Len(s) + 1) =
              Approved(s, a, Len(s)) \union
                (IF x.type = "approve" /\ x.asset = a THEN x.units ELSE {})
<1> DEFINE t == Append(s, x)
           P(k) == s[k].type = "approve" /\ s[k].asset = a
           Q(k) == t[k].type = "approve" /\ t[k].asset = a
<1>1. /\ Len(s) \in Nat /\ \A i \in 1..Len(s) : t[i] = s[i]
      /\ t[Len(s) + 1] = x
      /\ \A i \in 1..(Len(s) + 1) : i \in 1..Len(s) \/ i = Len(s) + 1
  BY AppendTx
<1> HIDE DEF t
<1>2. ASSUME NEW n \in 0..Len(s) PROVE Approved(t, a, n) = Approved(s, a, n)
  <2>1. \A k \in 1..n : t[k] = s[k]
    BY <1>1
  <2>2. {k \in 1..n : Q(k)} = {k \in 1..n : P(k)}
    BY <2>1
  <2>3. \A k \in {j \in 1..n : P(j)} : t[k].units = s[k].units
    BY <2>1
  <2>4. QED
    BY <2>2, <2>3 DEF Approved
<1>3. Approved(t, a, Len(s) + 1) =
        Approved(s, a, Len(s)) \union (IF x.type = "approve" /\ x.asset = a THEN x.units ELSE {})
  <2>1. 1..(Len(s) + 1) = (1..Len(s)) \union {Len(s) + 1}
    BY <1>1
  <2>2. {k \in 1..(Len(s) + 1) : Q(k)} =
          {k \in 1..Len(s) : P(k)} \union
            (IF x.type = "approve" /\ x.asset = a THEN {Len(s) + 1} ELSE {})
    BY <1>1, <2>1
  <2>3. \A k \in {j \in 1..Len(s) : P(j)} : t[k].units = s[k].units
    BY <1>1
  <2>4. t[Len(s) + 1].units = x.units
    BY <1>1
  <2>5. QED
    BY <2>2, <2>3, <2>4 DEF Approved
<1>4. QED
  BY <1>2, <1>3 DEF t

(* An approval leaves the deposits as they are.                              *)
LEMMA ApproveKeepsGood ==
  ASSUME NEW s \in Seq(Txs), NEW x \in Txs, x.type = "approve", NEW b, NEW vis,
         GoodBatch(s, b, vis)
  PROVE  GoodBatch(Append(s, x), b, vis)
<1> DEFINE t == Append(s, x)
<1>1. /\ Len(s) \in Nat /\ Len(t) = Len(s) + 1
      /\ \A i \in 1..Len(s) : t[i] = s[i]
      /\ t[Len(s) + 1] = x
      /\ \A i \in 1..(Len(s) + 1) : i \in 1..Len(s) \/ i = Len(s) + 1
  BY AppendTx
<1>2. \A a : \A n \in 0..Len(s) : Approved(t, a, n) = Approved(s, a, n)
  BY ApprovedAppend
<1> HIDE DEF t
<1>3. DepositsIn(t) = DepositsIn(s)
  BY <1>1 DEF DepositsIn
<1>4. \A i \in DepositsIn(s) : t[i] = s[i] /\ i - 1 \in 0..Len(s)
  BY <1>1 DEF DepositsIn
<1>5. \A i \in DepositsIn(s) : Approved(t, s[i].asset, i - 1) = Approved(s, s[i].asset, i - 1)
  BY <1>2, <1>4
<1>6. GoodBatch(t, b, vis)
  BY <1>3, <1>4, <1>5 DEF GoodBatch
<1>7. QED
  BY <1>6 DEF t

(* A deposit of an asset that was not visited, as it was approved.           *)
LEMMA DepositKeepsGood ==
  ASSUME NEW s \in Seq(Txs), NEW x \in Txs, x.type = "deposit", NEW b, NEW vis,
         GoodBatch(s, b, vis), x.asset \notin vis, b[x.asset] # {}, x.units = b[x.asset],
         x.asset # Ether => Approved(s, x.asset, Len(s)) = x.units
  PROVE  GoodBatch(Append(s, x), b, vis \union {x.asset})
<1> DEFINE t == Append(s, x)
           n == Len(s) + 1
<1>1. /\ Len(s) \in Nat /\ Len(t) = n /\ \A i \in 1..Len(s) : t[i] = s[i]
      /\ t[n] = x
      /\ \A i \in 1..n : i \in 1..Len(s) \/ i = n
  BY AppendTx
<1>2. \A a : \A k \in 0..Len(s) : Approved(t, a, k) = Approved(s, a, k)
  BY ApprovedAppend
<1> HIDE DEF t
<1>3. DepositsIn(t) = DepositsIn(s) \union {n} /\ n \notin DepositsIn(s)
  BY <1>1 DEF DepositsIn
<1>4. \A i \in DepositsIn(s) : t[i] = s[i] /\ i - 1 \in 0..Len(s)
  BY <1>1 DEF DepositsIn
<1>5. \A i \in DepositsIn(s) : Approved(t, s[i].asset, i - 1) = Approved(s, s[i].asset, i - 1)
  BY <1>2, <1>4
<1>6. Approved(t, x.asset, n - 1) = Approved(s, x.asset, Len(s))
  <2>1. n - 1 = Len(s) /\ Len(s) \in 0..Len(s)
    BY <1>1
  <2>2. QED
    BY <1>2, <2>1
<1> HIDE DEF n
<1>7. \A i \in DepositsIn(t) :
        /\ t[i].asset \in vis \union {x.asset} /\ t[i].units = b[t[i].asset]
        /\ t[i].asset # Ether => Approved(t, t[i].asset, i - 1) = t[i].units
  BY <1>1, <1>3, <1>4, <1>5, <1>6 DEF GoodBatch
<1>8. \A a \in vis \union {x.asset} : \E i \in DepositsIn(t) : t[i].asset = a
  BY <1>1, <1>3, <1>4 DEF GoodBatch
<1>9. \A i, j \in DepositsIn(t) : t[i].asset = t[j].asset => i = j
  BY SMTT(20), <1>1, <1>3, <1>4 DEF GoodBatch
<1>10. GoodBatch(t, b, vis \union {x.asset})
  BY <1>7, <1>8, <1>9 DEF GoodBatch
<1>11. QED
  BY <1>10 DEF t

LEMMA NothingApprovedYet ==
  ASSUME NEW s \in Seq(Txs), NEW as, NEW a, a \notin as, ApprovesOnly(s, as)
  PROVE  Approved(s, a, Len(s)) = {}
BY DEF Approved, ApprovesOnly

LEMMA ApprovesAppend ==
  ASSUME NEW s \in Seq(Txs), NEW x \in Txs, NEW as, ApprovesOnly(s, as),
         x.type = "approve" => x.asset \in as
  PROVE  ApprovesOnly(Append(s, x), as)
<1> DEFINE t == Append(s, x)
<1>1. /\ Len(t) = Len(s) + 1 /\ \A i \in 1..Len(s) : t[i] = s[i]
      /\ t[Len(s) + 1] = x
      /\ \A i \in 1..(Len(s) + 1) : i \in 1..Len(s) \/ i = Len(s) + 1
  BY AppendTx
<1> HIDE DEF t
<1>2. ApprovesOnly(t, as)
  BY <1>1 DEF ApprovesOnly
<1>3. QED
  BY <1>2 DEF t
-------------------------------------------------------------------------------
(* One call moves, the others stay as they are.                              *)
LEMMA OneCall ==
  ASSUME \A d \in Calls : CallInv(d), NEW c \in Calls, CallInv(c)',
         changed \subseteq changed',
         \A d \in Calls : d # c =>
           /\ stage'[d] = stage[d] /\ basket'[d] = basket[d] /\ current'[d] = current[d]
           /\ visited'[d] = visited[d] /\ approving'[d] = approving[d]
           /\ batch'[d] = batch[d]
  PROVE  \A d \in Calls : CallInv(d)'
<1>1. ASSUME NEW d \in Calls, d # c PROVE CallInv(d)'
  BY <1>1 DEF CallInv
<1>2. QED
  BY <1>1

LEMMA ThrowKeeps ==
  ASSUME Types, \A d \in Calls : CallInv(d), NEW c \in Calls, Throw(c),
         cache' = cache, txOpts' = txOpts
  PROVE  Types' /\ \A d \in Calls : CallInv(d)'
<1>1. Ether \in Assets
  BY AssetsAssumption
<1>2. Types'
  BY <1>1 DEF Types, Throw, Stages
<1>3. /\ stage'[c] = "failed" /\ batch'[c] = <<>> /\ visited'[c] = {}
      /\ UNCHANGED <<basket, changed>>
  BY DEF Types, Throw
<1>4. CallInv(c)'
  BY <1>3, EmptyBatch DEF CallInv, Sound
<1>5. QED
  BY <1>2, <1>4, OneCall DEF Types, Throw

LEMMA CallKeeps ==
  ASSUME Types, \A d \in Calls : CallInv(d), NEW c \in Calls, Call(c)
  PROVE  Types' /\ \A d \in Calls : CallInv(d)'
<1>1. PICK b \in Baskets : /\ basket' = [basket EXCEPT ![c] = b]
                           /\ stage' = [stage EXCEPT ![c] = IF b = Nothing THEN "failed" ELSE "next"]
  BY DEF Call
<1>2. stage[c] = "idle" /\ UNCHANGED <<changed, current, visited, approving, batch, cache, txOpts>>
  BY DEF Call
<1>3. b \in [Assets -> SUBSET Units]
  BY BasketsAssumption
<1>4. Types'
  BY <1>1, <1>2, <1>3 DEF Types, Stages
<1>5. stage'[c] \in {"failed", "next"}
  BY <1>1 DEF Types
<1>6. CallInv(c)'
  <2>1. SUFFICES ASSUME c \notin changed
                 PROVE  Sound(stage'[c], basket'[c], current'[c], visited'[c], approving'[c],
                              batch'[c])
    BY <1>2 DEF CallInv
  <2>2. batch'[c] = <<>> /\ visited'[c] = {}
    BY <1>2, <2>1 DEF CallInv, Sound
  <2>3. QED
    BY <1>5, <2>2, EmptyBatch DEF Sound
<1>7. QED
  BY <1>1, <1>2, <1>4, <1>6, OneCall DEF Types

LEMMA ChangeKeeps ==
  ASSUME Types, \A d \in Calls : CallInv(d), NEW c \in Calls, ChangeBasket(c)
  PROVE  Types' /\ \A d \in Calls : CallInv(d)'
<1>1. PICK a \in Holds(c), us \in SUBSET Units : basket' = [basket EXCEPT ![c][a] = us]
  BY DEF ChangeBasket
<1>2. /\ changed' = changed \union {c}
      /\ UNCHANGED <<stage, current, visited, approving, batch, cache, txOpts>>
  BY DEF ChangeBasket
<1>3. Types'
  BY <1>1, <1>2 DEF Types, Holds
<1>4. CallInv(c)'
  BY <1>2 DEF CallInv
<1>5. QED
  BY <1>1, <1>2, <1>3, <1>4, OneCall DEF Types

LEMMA NextAssetKeeps ==
  ASSUME Types, \A d \in Calls : CallInv(d), NEW c \in Calls, NextAsset(c)
  PROVE  Types' /\ \A d \in Calls : CallInv(d)'
<1>1. PICK a \in Holds(c) \ visited[c] :
        /\ current' = [current EXCEPT ![c] = a]
        /\ stage' = [stage EXCEPT ![c] = IF a \in Wrapped \ cache THEN "lookup" ELSE "holder"]
  BY DEF NextAsset
<1>2. /\ stage[c] = "next"
      /\ UNCHANGED <<basket, changed, visited, approving, batch, cache, txOpts>>
  BY DEF NextAsset
<1>3. a \in Assets /\ basket[c][a] # {} /\ a \notin visited[c]
  BY DEF Holds
<1>4. Types'
  BY <1>1, <1>2, <1>3 DEF Types, Stages
<1>5. stage'[c] \in {"lookup", "holder"} /\ current'[c] = a
  BY <1>1 DEF Types
<1>6. CallInv(c)'
  BY <1>2, <1>3, <1>5 DEF CallInv, Sound
<1>7. QED
  BY <1>1, <1>2, <1>4, <1>6, OneCall DEF Types

LEMMA ReturnKeeps ==
  ASSUME Types, \A d \in Calls : CallInv(d), NEW c \in Calls, Return(c)
  PROVE  Types' /\ \A d \in Calls : CallInv(d)'
<1>1. /\ stage[c] = "next" /\ Holds(c) \subseteq visited[c]
      /\ stage' = [stage EXCEPT ![c] = "done"]
      /\ UNCHANGED <<basket, changed, current, visited, approving, batch, cache, txOpts>>
  BY DEF Return
<1>2. Types' /\ stage'[c] = "done"
  BY <1>1 DEF Types, Stages
<1>3. CallInv(c)'
  BY <1>1, <1>2 DEF CallInv, Sound, Holds
<1>4. QED
  BY <1>1, <1>2, <1>3, OneCall DEF Types

LEMMA LookupKeeps ==
  ASSUME Types, \A d \in Calls : CallInv(d), NEW c \in Calls, Lookup(c),
         stage[c] = "lookup" => current[c] \in Wrapped
  PROVE  Types' /\ \A d \in Calls : CallInv(d)'
<1>1. CASE Throw(c) /\ cache' = cache
  BY <1>1, ThrowKeeps DEF Lookup
<1>2. CASE ~(Throw(c) /\ cache' = cache)
  <2>1. /\ stage[c] = "lookup" /\ cache' = cache \union {current[c]}
        /\ stage' = [stage EXCEPT ![c] = "holder"]
        /\ UNCHANGED <<basket, changed, current, visited, approving, batch, txOpts>>
    BY <1>2 DEF Lookup
  <2>2. Types' /\ stage'[c] = "holder"
    BY <2>1 DEF Types, Stages
  <2>3. CallInv(c)'
    BY <2>1, <2>2 DEF CallInv, Sound
  <2>4. QED
    BY <2>1, <2>2, <2>3, OneCall DEF Types
<1>3. QED
  BY <1>1, <1>2

LEMMA HolderKnownKeeps ==
  ASSUME Types, \A d \in Calls : CallInv(d), NEW c \in Calls, HolderKnown(c)
  PROVE  Types' /\ \A d \in Calls : CallInv(d)'
<1> DEFINE a == current[c]
<1>1. /\ stage[c] = "holder"
      /\ stage' = [stage EXCEPT ![c] = IF a = Ether THEN "deposit" ELSE "approve"]
      /\ approving' = [approving EXCEPT ![c] = basket[c][a]]
      /\ UNCHANGED <<basket, changed, current, visited, batch, cache, txOpts>>
  BY DEF HolderKnown
<1>2. a \in Assets /\ basket[c][a] \in SUBSET Units /\ batch[c] \in Seq(Txs)
  BY DEF Types
<1>3. Types' /\ stage'[c] = (IF a = Ether THEN "deposit" ELSE "approve")
      /\ approving'[c] = basket[c][a]
  BY <1>1, <1>2 DEF Types, Stages
<1>4. CallInv(c)'
  <2>1. SUFFICES ASSUME c \notin changed
                 PROVE  Sound(stage'[c], basket[c], a, visited[c], approving'[c], batch[c])
    BY <1>1 DEF CallInv
  <2>2. /\ GoodBatch(batch[c], basket[c], visited[c])
        /\ basket[c][a] # {} /\ a \notin visited[c] /\ ApprovesOnly(batch[c], visited[c])
    BY <1>1, <2>1 DEF CallInv, Sound
  <2>3. ApprovesOnly(batch[c], visited[c] \union {a})
    BY <2>2 DEF ApprovesOnly
  <2>4. Approved(batch[c], a, Len(batch[c])) = {}
    BY <1>2, <2>2, NothingApprovedYet
  <2> HIDE DEF a
  <2>5. QED
    BY <1>3, <2>2, <2>3, <2>4 DEF Sound
<1>5. QED
  BY <1>1, <1>3, <1>4, OneCall DEF Types

LEMMA PrepareApprovalKeeps ==
  ASSUME Types, \A d \in Calls : CallInv(d), NEW c \in Calls, PrepareApproval(c)
  PROVE  Types' /\ \A d \in Calls : CallInv(d)'
<1> DEFINE a == current[c]
<1>1. PICK us \in IF a \in NFTs THEN {{u} : u \in approving[c]} ELSE {approving[c]} :
        /\ batch' = [batch EXCEPT ![c] = Append(@, Approve(a, us))]
        /\ approving' = [approving EXCEPT ![c] = @ \ us]
  BY DEF PrepareApproval
<1>2. /\ stage[c] = "approve"
      /\ stage' = [stage EXCEPT ![c] = IF approving'[c] = {} THEN "deposit" ELSE @]
      /\ UNCHANGED <<basket, changed, current, visited, cache, txOpts>>
  BY DEF PrepareApproval
<1>3. us \subseteq approving[c] /\ approving[c] \subseteq Units /\ a \in Assets
      /\ batch[c] \in Seq(Txs)
  BY DEF Types
<1> DEFINE x == Approve(a, us)
<1>4. x \in Txs /\ x.type = "approve" /\ x.asset = a /\ x.units = us
  BY <1>3 DEF Approve, Txs
<1> HIDE DEF x
<1>5. /\ batch' = [batch EXCEPT ![c] = Append(batch[c], x)]
      /\ Append(batch[c], x) \in Seq(Txs)
  BY <1>1, <1>3, <1>4, AppendTx DEF x
<1>6. approving[c] \ us \in SUBSET Units
  BY <1>3
<1>7. stage' = [stage EXCEPT ![c] = IF approving'[c] = {} THEN "deposit" ELSE "approve"]
  BY <1>2
<1>8. /\ Types' /\ batch'[c] = Append(batch[c], x) /\ approving'[c] = approving[c] \ us
      /\ stage'[c] = (IF approving'[c] = {} THEN "deposit" ELSE "approve")
  <2>1. batch' \in [Calls -> Seq(Txs)] /\ batch'[c] = Append(batch[c], x)
    BY <1>5 DEF Types
  <2>2. approving' \in [Calls -> SUBSET Units] /\ approving'[c] = approving[c] \ us
    BY <1>1, <1>6 DEF Types
  <2>3. /\ stage' \in [Calls -> Stages]
        /\ stage'[c] = (IF approving'[c] = {} THEN "deposit" ELSE "approve")
    BY <1>7 DEF Types, Stages
  <2>4. QED
    BY <1>2, <2>1, <2>2, <2>3 DEF Types
<1>9. CallInv(c)'
  <2>1. SUFFICES ASSUME c \notin changed
                 PROVE  Sound(stage'[c], basket[c], a, visited[c], approving'[c], batch'[c])
    BY <1>2 DEF CallInv
  <2>2. /\ GoodBatch(batch[c], basket[c], visited[c])
        /\ basket[c][a] # {} /\ a \notin visited[c]
        /\ ApprovesOnly(batch[c], visited[c] \union {a})
        /\ approving[c] \subseteq basket[c][a]
        /\ Approved(batch[c], a, Len(batch[c])) = basket[c][a] \ approving[c]
    BY <1>2, <2>1 DEF CallInv, Sound
  <2>3. /\ GoodBatch(batch'[c], basket[c], visited[c])
        /\ ApprovesOnly(batch'[c], visited[c] \union {a})
    BY <1>3, <1>4, <1>8, <2>2, ApproveKeepsGood, ApprovesAppend
  <2>4. Approved(batch'[c], a, Len(batch'[c])) = (basket[c][a] \ approving[c]) \union us
    <3>1. Len(batch'[c]) = Len(batch[c]) + 1
      BY <1>3, <1>4, <1>8, AppendTx
    <3>2. QED
      BY <1>3, <1>4, <1>8, <2>2, <3>1, ApprovedAppend
  <2>5. Approved(batch'[c], a, Len(batch'[c])) = basket[c][a] \ approving'[c]
    BY <1>3, <1>8, <2>2, <2>4
  <2> HIDE DEF a
  <2>6. QED
    BY <1>8, <2>2, <2>3, <2>5 DEF Sound
<1>10. QED
  BY <1>1, <1>2, <1>8, <1>9, OneCall DEF Types

LEMMA PrepareDepositKeeps ==
  ASSUME Types, \A d \in Calls : CallInv(d), NEW c \in Calls, PrepareDeposit(c)
  PROVE  Types' /\ \A d \in Calls : CallInv(d)'
<1> DEFINE a == current[c]
           x == Deposit(a, basket[c][a])
<1>1. /\ stage[c] = "deposit" /\ stage' = [stage EXCEPT ![c] = "next"]
      /\ batch' = [batch EXCEPT ![c] = Append(batch[c], x)]
      /\ visited' = [visited EXCEPT ![c] = visited[c] \union {a}]
      /\ UNCHANGED <<basket, changed, current, approving, cache, txOpts>>
  BY DEF PrepareDeposit
<1>2. a \in Assets /\ basket[c][a] \in SUBSET Units /\ batch[c] \in Seq(Txs)
      /\ visited[c] \in SUBSET Assets
  BY DEF Types
<1>3. x \in Txs /\ x.type = "deposit" /\ x.asset = a /\ x.units = basket[c][a]
  BY <1>2 DEF Deposit, Txs
<1> HIDE DEF x
<1>4. Append(batch[c], x) \in Seq(Txs) /\ visited[c] \union {a} \in SUBSET Assets
  BY <1>2, <1>3, AppendTx
<1>5. /\ Types' /\ batch'[c] = Append(batch[c], x) /\ visited'[c] = visited[c] \union {a}
      /\ stage'[c] = "next"
  <2>1. batch' \in [Calls -> Seq(Txs)] /\ batch'[c] = Append(batch[c], x)
    BY <1>1, <1>4 DEF Types
  <2>2. visited' \in [Calls -> SUBSET Assets] /\ visited'[c] = visited[c] \union {a}
    BY <1>1, <1>4 DEF Types
  <2>3. stage' \in [Calls -> Stages] /\ stage'[c] = "next"
    BY <1>1 DEF Types, Stages
  <2>4. QED
    BY <1>1, <2>1, <2>2, <2>3 DEF Types
<1>6. CallInv(c)'
  <2>1. SUFFICES ASSUME c \notin changed
                 PROVE  Sound("next", basket[c], a, visited'[c], approving'[c], batch'[c])
    BY <1>1, <1>5 DEF CallInv
  <2>2. /\ GoodBatch(batch[c], basket[c], visited[c])
        /\ basket[c][a] # {} /\ a \notin visited[c]
        /\ ApprovesOnly(batch[c], visited[c] \union {a})
        /\ a # Ether => Approved(batch[c], a, Len(batch[c])) = basket[c][a]
    BY <1>1, <2>1 DEF CallInv, Sound
  <2> HIDE DEF a
  <2>3. GoodBatch(batch'[c], basket[c], visited'[c])
    BY SMTT(20), <1>2, <1>3, <1>5, <2>2, DepositKeepsGood
  <2>4. ApprovesOnly(batch'[c], visited'[c])
    BY <1>2, <1>3, <1>5, <2>2, ApprovesAppend
  <2>5. QED
    BY <2>3, <2>4 DEF Sound
<1>7. QED
  BY <1>1, <1>5, <1>6, OneCall DEF Types
-------------------------------------------------------------------------------
LEMMA InitHolds == Init => IInv
<1> SUFFICES ASSUME Init PROVE IInv
  OBVIOUS
<1>1. ProviderInv
  BY ProviderInitHolds DEF Init
<1>2. Ether \in Assets
  BY AssetsAssumption
<1>3. Types /\ LooksUpWrapped
  BY <1>2 DEF Init, Types, Stages, Nothing, LooksUpWrapped
<1>4. ASSUME NEW c \in Calls PROVE CallInv(c)
  <2>1. stage[c] = "idle" /\ batch[c] = <<>> /\ visited[c] = {}
    BY DEF Init
  <2>2. QED
    BY <2>1, EmptyBatch DEF CallInv, Sound
<1>5. QED
  BY <1>1, <1>3, <1>4 DEF IInv

LEMMA SameCalls ==
  ASSUME Types, \A d \in Calls : CallInv(d),
         UNCHANGED <<stage, basket, changed, current, visited, approving, batch, cache>>,
         txOpts' \in {"pending", "known", "failed"}
  PROVE  Types' /\ \A d \in Calls : CallInv(d)'
BY DEF Types, CallInv

LEMMA StepKeepsCalls == IInv /\ [Next]_vars => Types' /\ \A d \in Calls : CallInv(d)'
<1> SUFFICES ASSUME IInv, [Next]_vars PROVE Types' /\ \A d \in Calls : CallInv(d)'
  OBVIOUS
<1>1. Types /\ LooksUpWrapped /\ \A d \in Calls : CallInv(d)
  BY DEF IInv
<1>2. ASSUME NEW c \in Calls, Call(c) \/ ChangeBasket(c)
      PROVE  Types' /\ \A d \in Calls : CallInv(d)'
  BY <1>1, <1>2, CallKeeps, ChangeKeeps
<1>3. ASSUME NEW c \in Calls, NextAsset(c) \/ Return(c) \/ Lookup(c)
      PROVE  Types' /\ \A d \in Calls : CallInv(d)'
  BY <1>1, <1>3, NextAssetKeeps, ReturnKeeps, LookupKeeps DEF LooksUpWrapped
<1>4. ASSUME NEW c \in Calls, HolderFails(c) \/ NoOptions(c)
      PROVE  Types' /\ \A d \in Calls : CallInv(d)'
  BY <1>1, <1>4, ThrowKeeps DEF HolderFails, NoOptions
<1>5. ASSUME NEW c \in Calls, HolderKnown(c) \/ PrepareApproval(c) \/ PrepareDeposit(c)
      PROVE  Types' /\ \A d \in Calls : CallInv(d)'
  BY <1>1, <1>5, HolderKnownKeeps, PrepareApprovalKeeps, PrepareDepositKeeps
<1>6. CASE OptionsArrive
  BY <1>1, <1>6, SameCalls DEF OptionsArrive
<1>7. CASE UNCHANGED deposit
  BY <1>1, <1>7, SameCalls DEF deposit, Types
<1>8. QED
  BY <1>2, <1>3, <1>4, <1>5, <1>6, <1>7 DEF Next, Step, vars

LEMMA StepKeepsLookups == IInv /\ [Next]_vars => LooksUpWrapped'
<1> SUFFICES ASSUME IInv, [Next]_vars PROVE LooksUpWrapped'
  OBVIOUS
<1> USE DEF IInv, LooksUpWrapped, Types
<1>1. CASE UNCHANGED <<stage, current>>
  BY <1>1
<1>2. ASSUME NEW c \in Calls, Call(c) \/ Return(c) \/ HolderKnown(c) \/ PrepareDeposit(c)
      PROVE  LooksUpWrapped'
  BY <1>2 DEF Call, Return, HolderKnown, PrepareDeposit
<1>3. ASSUME NEW c \in Calls, PrepareApproval(c) PROVE LooksUpWrapped'
  BY <1>3 DEF PrepareApproval
<1>4. ASSUME NEW c \in Calls, NextAsset(c) PROVE LooksUpWrapped'
  <2>1. PICK a \in Holds(c) \ visited[c] :
          /\ current' = [current EXCEPT ![c] = a]
          /\ stage' = [stage EXCEPT ![c] = IF a \in Wrapped \ cache THEN "lookup" ELSE "holder"]
    BY <1>4 DEF NextAsset
  <2>2. QED
    BY <2>1 DEF Holds
<1>5. ASSUME NEW c \in Calls, Throw(c) PROVE LooksUpWrapped'
  BY <1>5 DEF Throw
<1>6. ASSUME NEW c \in Calls, Lookup(c) PROVE LooksUpWrapped'
  BY <1>5, <1>6 DEF Lookup
<1>7. ASSUME NEW c \in Calls, HolderFails(c) \/ NoOptions(c) PROVE LooksUpWrapped'
  BY <1>5, <1>7 DEF HolderFails, NoOptions
<1>8. CASE (\E c \in Calls : ChangeBasket(c)) \/ OptionsArrive \/ UNCHANGED deposit
  BY <1>1, <1>8 DEF ChangeBasket, OptionsArrive, deposit
<1>9. QED
  BY <1>2, <1>3, <1>4, <1>6, <1>7, <1>8 DEF Next, Step, vars

(* The types, and one timeout for each query that waits: the invariant that  *)
(* calls, fetches and timeouts keep.                                         *)
THEOREM Invariance == Spec => []IInv
<1>1. IInv /\ [Next]_vars => IInv'
  BY StepKeepsProvider, StepKeepsCalls, StepKeepsLookups DEF IInv
<1>2. QED
  BY <1>1, InitHolds, PTL DEF Spec
-------------------------------------------------------------------------------
(* The prepared transactions, the waiting calls and their timers have their  *)
(* types, whatever the calls, fetches and timeouts do to each other.         *)
THEOREM TypeCorrect == Spec => []TypeOK
<1>1. IInv => TypeOK
  BY DEF IInv, ProviderInv, Types, Stages, Txs, TypeOK
<1>2. QED
  BY <1>1, Invariance, PTL

(* Whoever waits for the token holders has a timeout that runs and that can  *)
(* reject the promise: queries that time out together and fetches that       *)
(* overtake each other take nobody's end away.                               *)
THEOREM WaitingEnds == Spec => []Failable
<1>1. IInv => Failable
  BY DEF IInv, ProviderInv, Failable
<1>2. QED
  BY <1>1, Invariance, PTL

LEMMA SameApproved ==
  ASSUME NEW c \in Calls, NEW i
  PROVE  ApprovedBefore(c, i) = Approved(batch[c], batch[c][i].asset, i - 1)
BY DEF ApprovedBefore, Approved

(* As many deposits as assets: each asset has one, and each deposit another  *)
(* asset.                                                                    *)
LEMMA OneDepositEach ==
  ASSUME NEW s \in Seq(Txs), NEW b, NEW vis, GoodBatch(s, b, vis)
  PROVE  /\ {s[i].asset : i \in DepositsIn(s)} = vis
         /\ Cardinality(DepositsIn(s)) = Cardinality(vis)
<1> DEFINE f == [i \in DepositsIn(s) |-> s[i].asset]
<1>1. {s[i].asset : i \in DepositsIn(s)} = vis
  BY DEF GoodBatch
<1>2. f \in Bijection(DepositsIn(s), vis)
  BY DEF GoodBatch, Bijection, Injection, Surjection, IsInjective
<1>3. 1 \in Int /\ Len(s) \in Int
  OBVIOUS
<1>4. IsFiniteSet(1..Len(s))
  BY ONLY <1>3, FS_Interval, Zenon
<1>5. DepositsIn(s) \in SUBSET (1..Len(s))
  BY DEF DepositsIn
<1>6. IsFiniteSet(DepositsIn(s))
  BY <1>4, <1>5, FS_Subset
<1>7. ExistsBijection(DepositsIn(s), vis)
  BY <1>2 DEF ExistsBijection
<1>8. QED
  BY <1>1, <1>6, <1>7, FS_Bijection

(* Every deposit is approved before it, exactly, and a batch that deposit()  *)
(* returns has one deposit of all of each asset it was given.                *)
THEOREM DepositsAreAsGiven == Spec => []DepositsAsGiven
<1>1. ASSUME IInv PROVE DepositsAsGiven
  <2>1. SUFFICES ASSUME NEW c \in Calls, c \notin changed
                 PROVE  /\ \A i \in DepositsOf(c) :
                             batch[c][i].asset # Ether =>
                               ApprovedBefore(c, i) = batch[c][i].units
                        /\ stage[c] = "done" =>
                             /\ {batch[c][i].asset : i \in DepositsOf(c)} = Holds(c)
                             /\ Cardinality(DepositsOf(c)) = Cardinality(Holds(c))
                             /\ \A i \in DepositsOf(c) :
                                  batch[c][i].units = basket[c][batch[c][i].asset]
    BY DEF DepositsAsGiven
  <2>2. /\ Sound(stage[c], basket[c], current[c], visited[c], approving[c], batch[c])
        /\ batch[c] \in Seq(Txs) /\ visited[c] \subseteq Assets
    BY <1>1, <2>1 DEF IInv, CallInv, Types
  <2>3. GoodBatch(batch[c], basket[c], visited[c])
    BY <2>2 DEF Sound
  <2>4. DepositsOf(c) = DepositsIn(batch[c])
    BY <2>2 DEF DepositsOf, DepositsIn
  <2>5. \A i \in DepositsOf(c) : batch[c][i].asset # Ether =>
                                   ApprovedBefore(c, i) = batch[c][i].units
    BY <2>3, <2>4, SameApproved DEF GoodBatch
  <2>6. ASSUME stage[c] = "done" PROVE visited[c] = Holds(c)
    BY <2>2, <2>3, <2>6 DEF Sound, GoodBatch, Holds
  <2>7. \A i \in DepositsOf(c) : batch[c][i].units = basket[c][batch[c][i].asset]
    BY <2>3, <2>4 DEF GoodBatch
  <2>8. QED
    BY <2>2, <2>3, <2>4, <2>5, <2>6, <2>7, OneDepositEach
<1>2. QED
  BY <1>1, Invariance, PTL
-------------------------------------------------------------------------------
(* That deposit() ends: nobody's call is stuck, and each of its steps brings *)
(* it nearer to its end.  A call that is at an asset holds an amount of it,  *)
(* whatever the application changes, and has asked for its holder.           *)
OnTheWay(c) ==
  /\ visited[c] \subseteq Holds(c) /\ (stage[c] = "idle" => visited[c] = {})
  /\ stage[c] \in {"lookup", "holder", "approve", "deposit"} =>
       current[c] \in Holds(c) \ visited[c]
  /\ stage[c] = "approve" => approving[c] # {}
  /\ stage[c] \in {"lookup", "holder"} => query[c] # "none"

(* A query is never forgotten.                                               *)
LEMMA QueriesStay ==
  ASSUME ProviderInv, NEW q \in Queries, query[q] # "none",
         ProviderNext \/ (\E r \in Queries : AskHolder(r)) \/ UNCHANGED provider
  PROVE  query'[q] # "none"
<1>1. query \in [Queries -> {"none", "waiting", "answered", "failed"}]
  BY DEF ProviderInv, ProviderTypeOK
<1>2. ASSUME NEW o \in {"resolved", "rejected"}, Settle(o) PROVE query'[q] # "none"
  BY <1>1, <1>2 DEF Settle
<1>3. CASE ProviderNext
  <2>1. ASSUME NEW r \in Queries, Timeout(r) PROVE query'[q] # "none"
    BY <1>1, <2>1 DEF Timeout
  <2>2. QED
    BY <1>2, <1>3, <2>1 DEF ProviderNext, ResolveHolders, Fetch, FetchAnswered, FetchRefused
<1>4. ASSUME NEW r \in Queries, AskHolder(r) PROVE query'[q] # "none"
  <2>1. PICK a \in {"waiting", "answered", "failed"} : query' = [query EXCEPT ![r] = a]
    BY <1>4 DEF AskHolder, ProviderInv, ProviderTypeOK
  <2>2. QED
    BY <1>1, <2>1
<1>5. QED
  BY <1>3, <1>4 DEF provider

LEMMA AskedIsKnown ==
  ASSUME ProviderInv, NEW q \in Queries, AskHolder(q)
  PROVE  query'[q] # "none"
<1>1. PICK a \in {"waiting", "answered", "failed"} : query' = [query EXCEPT ![q] = a]
  BY DEF AskHolder, ProviderInv, ProviderTypeOK
<1>2. QED
  BY <1>1 DEF ProviderInv, ProviderTypeOK

(* What a step does to the provider.                                         *)
LEMMA ProviderMoves ==
  [Next]_vars =>
    ProviderNext \/ (\E r \in Queries : AskHolder(r)) \/ UNCHANGED provider
BY DEF Next, Step, Call, ChangeBasket, NextAsset, Return, Lookup, HolderFails, HolderKnown,
       PrepareApproval, PrepareDeposit, NoOptions, OptionsArrive, Calls, vars

(* Once deposit() is called, its basket holds the same assets: a change      *)
(* leaves none of them empty and adds none.                                  *)
LEMMA AssetsStay ==
  ASSUME Types, [Next]_vars, NEW c \in Calls, stage[c] # "idle"
  PROVE  Holds(c)' = Holds(c)
<1>1. basket \in [Calls -> [Assets -> SUBSET Units]]
  BY DEF Types
<1>2. ASSUME NEW d \in Calls, Call(d) PROVE Holds(c)' = Holds(c)
  <2>1. basket'[c] = basket[c]
    BY <1>1, <1>2 DEF Call
  <2>2. QED
    BY <2>1 DEF Holds
<1>3. ASSUME NEW d \in Calls, ChangeBasket(d) PROVE Holds(c)' = Holds(c)
  <2>1. PICK a \in Holds(d), us \in (SUBSET Units) \ {{}} :
           basket' = [basket EXCEPT ![d][a] = us]
    BY <1>3 DEF ChangeBasket
  <2>2. CASE c = d
    <3>1. /\ basket'[c][a] = us /\ us # {} /\ a \in Assets /\ basket[c][a] # {}
          /\ \A x \in Assets : x # a => basket'[c][x] = basket[c][x]
      BY <1>1, <2>1, <2>2 DEF Holds
    <3>2. QED
      BY <3>1 DEF Holds
  <2>3. CASE c # d
    BY <1>1, <2>1, <2>3 DEF Holds
  <2>4. QED
    BY <2>2, <2>3
<1>4. CASE basket' = basket
  BY <1>4 DEF Holds
<1>5. \/ \E d \in Calls : Call(d) \/ ChangeBasket(d)
      \/ basket' = basket
  BY DEF Next, Step, NextAsset, Return, Lookup, Throw, HolderFails, HolderKnown,
         PrepareApproval, PrepareDeposit, NoOptions, OptionsArrive, deposit, vars
<1>6. QED
  BY <1>2, <1>3, <1>4, <1>5

(* How far a call is with its asset.                                         *)
Place(st) == IF st = "next" THEN 0 ELSE IF st = "lookup" THEN 1 ELSE IF st = "holder" THEN 2
             ELSE IF st = "approve" THEN 3 ELSE 4

(* A call comes nearer to its end when it ends, is done with another of the  *)
(* assets, gets further with one, or approves another token of it.           *)
Nearer(c) ==
  \/ stage'[c] \in {"done", "failed"}
  \/ \E a \in Holds(c) \ visited[c] : visited'[c] = visited[c] \union {a}
  \/ visited'[c] = visited[c] /\ Place(stage'[c]) > Place(stage[c])
  \/ /\ visited'[c] = visited[c] /\ stage'[c] = stage[c]
     /\ approving'[c] \subseteq approving[c] /\ approving'[c] # approving[c]

Ahead(c) == <<stage[c], current[c], visited[c], approving[c], batch[c]>>

(* The steps of a call under way.                                            *)
LEMMA StepComesNearer ==
  ASSUME Types, NEW c \in Calls, OnTheWay(c), Step(c)
  PROVE  stage[c] \notin {"idle", "done", "failed"} /\ Nearer(c)
<1>1. /\ stage \in [Calls -> Stages] /\ current \in [Calls -> Assets]
      /\ visited \in [Calls -> SUBSET Assets] /\ approving \in [Calls -> SUBSET Units]
  BY DEF Types
<1>2. CASE NextAsset(c)
  BY <1>1, <1>2 DEF NextAsset, Nearer, Place
<1>3. CASE Return(c)
  BY <1>1, <1>3 DEF Return, Nearer
<1>4. CASE Lookup(c)
  BY <1>1, <1>4 DEF Lookup, Throw, Nearer, Place
<1>5. CASE HolderFails(c) \/ NoOptions(c)
  BY <1>1, <1>5 DEF HolderFails, NoOptions, Throw, Nearer
<1>6. CASE HolderKnown(c)
  BY <1>1, <1>6 DEF HolderKnown, Nearer, Place
<1>7. CASE PrepareApproval(c)
  <2>1. PICK us \in IF current[c] \in NFTs THEN {{u} : u \in approving[c]} ELSE {approving[c]} :
           approving' = [approving EXCEPT ![c] = @ \ us]
    BY <1>7 DEF PrepareApproval
  <2>2. us \subseteq approving[c] /\ us # {}
    BY <1>7, <2>1 DEF PrepareApproval, OnTheWay
  <2>3. approving'[c] \subseteq approving[c] /\ approving'[c] # approving[c]
    BY <1>1, <2>1, <2>2
  <2>4. /\ stage[c] = "approve" /\ visited' = visited
        /\ stage'[c] = "deposit" \/ stage'[c] = "approve"
    BY <1>1, <1>7 DEF PrepareApproval
  <2>5. QED
    BY <2>3, <2>4 DEF Nearer, Place
<1>8. CASE PrepareDeposit(c)
  <2>1. /\ stage[c] = "deposit" /\ visited'[c] = visited[c] \union {current[c]}
        /\ current[c] \in Holds(c) \ visited[c]
    BY <1>1, <1>8 DEF PrepareDeposit, OnTheWay
  <2>2. QED
    BY <2>1 DEF Nearer
<1>9. QED
  BY <1>2, <1>3, <1>4, <1>5, <1>6, <1>7, <1>8 DEF Step

(* A step of another, or of the environment, leaves a call where it is.      *)
LEMMA OthersLeaveIt ==
  ASSUME Types, [Next]_vars, NEW c \in Calls, stage[c] # "idle"
  PROVE  Step(c) \/ Ahead(c)' = Ahead(c)
<1>1. /\ stage \in [Calls -> Stages] /\ current \in [Calls -> Assets]
      /\ visited \in [Calls -> SUBSET Assets] /\ approving \in [Calls -> SUBSET Units]
      /\ batch \in [Calls -> Seq(Txs)]
  BY DEF Types
<1>2. ASSUME NEW d \in Calls, d # c, Step(d) PROVE Ahead(c)' = Ahead(c)
  <2>1. ASSUME NextAsset(d) \/ Return(d) PROVE Ahead(c)' = Ahead(c)
    BY <1>1, <1>2, <2>1 DEF NextAsset, Return, Ahead
  <2>2. ASSUME Lookup(d) \/ HolderFails(d) \/ NoOptions(d) PROVE Ahead(c)' = Ahead(c)
    BY <1>1, <1>2, <2>2 DEF Lookup, HolderFails, NoOptions, Throw, Ahead
  <2>3. ASSUME HolderKnown(d) PROVE Ahead(c)' = Ahead(c)
    BY <1>1, <1>2, <2>3 DEF HolderKnown, Ahead
  <2>4. ASSUME PrepareApproval(d) PROVE Ahead(c)' = Ahead(c)
    BY <1>1, <1>2, <2>4 DEF PrepareApproval, Ahead
  <2>5. ASSUME PrepareDeposit(d) PROVE Ahead(c)' = Ahead(c)
    BY <1>1, <1>2, <2>5 DEF PrepareDeposit, Ahead
  <2>6. QED
    BY <1>2, <2>1, <2>2, <2>3, <2>4, <2>5 DEF Step
<1>3. ASSUME NEW d \in Calls, Call(d) PROVE Ahead(c)' = Ahead(c)
  BY <1>1, <1>3 DEF Call, Ahead
<1>4. ASSUME NEW d \in Calls, ChangeBasket(d) PROVE Ahead(c)' = Ahead(c)
  BY <1>4 DEF ChangeBasket, Ahead
<1>5. CASE OptionsArrive \/ UNCHANGED vars \/ UNCHANGED deposit
  BY <1>5 DEF OptionsArrive, vars, deposit, Ahead
<1>6. QED
  BY <1>2, <1>3, <1>4, <1>5 DEF Next

LEMMA StepKeepsOnTheWay ==
  ASSUME IInv, [Next]_vars, NEW c \in Calls, OnTheWay(c)
  PROVE  OnTheWay(c)'
<1>1. /\ stage \in [Calls -> Stages] /\ current \in [Calls -> Assets]
      /\ visited \in [Calls -> SUBSET Assets] /\ approving \in [Calls -> SUBSET Units]
      /\ basket \in [Calls -> [Assets -> SUBSET Units]] /\ Types
      /\ ProviderInv
  BY DEF IInv, Types
<1>2. query[c] # "none" => query'[c] # "none"
  BY <1>1, ProviderMoves, QueriesStay DEF Calls
<1>3. CASE stage[c] = "idle"
  <2>1. visited[c] = {}
    BY <1>3 DEF OnTheWay
  <2>2. ASSUME NEW d \in Calls, Step(d) PROVE d # c
    BY <1>3, <2>2 DEF Step, NextAsset, Return, Lookup, HolderFails, HolderKnown,
                      PrepareApproval, PrepareDeposit, NoOptions
  <2>3. ASSUME NEW d \in Calls, Step(d)
        PROVE  stage'[c] = "idle" /\ visited'[c] = visited[c]
    BY <1>1, <1>3, <2>2, <2>3 DEF Step, NextAsset, Return, Lookup, HolderFails, HolderKnown,
                      PrepareApproval, PrepareDeposit, NoOptions, Throw
  <2>4. ASSUME NEW d \in Calls, Call(d) \/ ChangeBasket(d)
        PROVE  stage'[c] \in {"idle", "next", "failed"} /\ visited'[c] = visited[c]
    BY <1>1, <1>3, <2>4 DEF Call, ChangeBasket
  <2>5. ASSUME OptionsArrive \/ UNCHANGED deposit
        PROVE  stage'[c] = "idle" /\ visited'[c] = visited[c]
    BY <1>3, <2>5 DEF OptionsArrive, deposit
  <2>6. stage'[c] \in {"idle", "next", "failed"} /\ visited'[c] = {}
    BY <2>1, <2>3, <2>4, <2>5 DEF Next, vars
  <2>7. QED
    BY <2>6 DEF OnTheWay
<1>4. CASE stage[c] # "idle" /\ Ahead(c)' = Ahead(c)
  <2>1. Holds(c)' = Holds(c)
    BY <1>1, <1>4, AssetsStay
  <2>2. QED
    BY <1>2, <1>4, <2>1 DEF OnTheWay, Ahead
<1>5. CASE stage[c] # "idle" /\ Step(c)
  <2>1. Holds(c)' = Holds(c)
    BY <1>1, <1>5, AssetsStay
  <2>2. CASE NextAsset(c)
    <3>1. query'[c] # "none"
      BY <1>1, <2>2, AskedIsKnown DEF NextAsset, Calls
    <3>2. /\ stage'[c] \in {"lookup", "holder"} /\ visited' = visited
          /\ current'[c] \in Holds(c) \ visited[c]
      BY <1>1, <2>2 DEF NextAsset
    <3>3. QED
      BY <2>1, <3>1, <3>2 DEF OnTheWay
  <2>3. CASE Return(c)
    BY <1>1, <2>1, <2>3 DEF Return, OnTheWay
  <2>4. ASSUME Throw(c) PROVE OnTheWay(c)'
    BY <1>1, <2>1, <2>4 DEF Throw, OnTheWay
  <2>5. CASE Lookup(c)
    <3>1. CASE AskHolder(c)
      <4>1. query'[c] # "none"
        BY <1>1, <3>1, AskedIsKnown DEF Calls
      <4>2. CASE Throw(c)
        BY <2>4, <4>2
      <4>3. CASE ~Throw(c)
        BY <1>1, <2>1, <2>5, <4>1, <4>3 DEF Lookup, OnTheWay
      <4>4. QED
        BY <4>2, <4>3
    <3>2. QED
      BY <2>4, <2>5, <3>1 DEF Lookup
  <2>6. CASE HolderFails(c) \/ NoOptions(c)
    BY <2>4, <2>6 DEF HolderFails, NoOptions
  <2>7. CASE HolderKnown(c)
    <3>1. basket[c][current[c]] # {} /\ current[c] \in Holds(c) \ visited[c]
      BY <2>7 DEF HolderKnown, OnTheWay, Holds
    <3>2. /\ stage'[c] \in {"deposit", "approve"} /\ current' = current /\ visited' = visited
          /\ approving'[c] = basket[c][current[c]]
      BY <1>1, <2>7 DEF HolderKnown
    <3>3. QED
      BY <2>1, <3>1, <3>2 DEF OnTheWay
  <2>8. CASE PrepareApproval(c)
    <3>1. /\ stage[c] = "approve" /\ current' = current /\ visited' = visited
          /\ stage'[c] \in {"deposit", "approve"}
          /\ stage'[c] = "approve" => approving'[c] # {}
      BY <1>1, <2>8 DEF PrepareApproval
    <3>2. QED
      BY <2>1, <3>1 DEF OnTheWay
  <2>9. CASE PrepareDeposit(c)
    <3>1. /\ stage'[c] = "next" /\ visited'[c] = visited[c] \union {current[c]}
          /\ current[c] \in Holds(c)
      BY <1>1, <2>9 DEF PrepareDeposit, OnTheWay
    <3>2. QED
      BY <2>1, <3>1 DEF OnTheWay
  <2>10. QED
    BY <1>5, <2>2, <2>3, <2>5, <2>6, <2>7, <2>8, <2>9 DEF Step
<1>6. QED
  BY <1>1, <1>3, <1>4, <1>5, OthersLeaveIt

LEMMA InitOnTheWay == Init => \A c \in Calls : OnTheWay(c)
BY DEF Init, OnTheWay

THEOREM DepositsKeepTheirWay == Spec => [](IInv /\ \A c \in Calls : OnTheWay(c))
<1>1. IInv /\ (\A c \in Calls : OnTheWay(c)) /\ [Next]_vars =>
        (\A c \in Calls : OnTheWay(c))'
  BY StepKeepsOnTheWay DEF Calls
<1>2. QED
  BY <1>1, InitOnTheWay, Invariance, PTL DEF Spec

(* No call of deposit() is stuck, the safety part of DepositEnds: what it    *)
(* waits for is there, or the promise is pending and a timeout of its own    *)
(* runs that will find the function to reject with; and there is something   *)
(* left to approve, whatever the application changed.                        *)
NotStuck(c) ==
  /\ stage[c] \in {"lookup", "holder"} =>
       \/ query[c] \in {"answered", "failed"}
       \/ c \in Waiting \intersect timers /\ holders = "pending" /\ failHolders
  /\ stage[c] = "approve" => approving[c] # {}

THEOREM DepositsAreServed == Spec => [](\A c \in Calls : NotStuck(c))
<1>1. ASSUME IInv, NEW c \in Calls, OnTheWay(c) PROVE NotStuck(c)
  <2>1. query[c] \in {"none", "waiting", "answered", "failed"}
    BY <1>1 DEF IInv, ProviderInv, ProviderTypeOK, Calls
  <2>2. query[c] = "waiting" => c \in Waiting \intersect timers /\ holders = "pending" /\ failHolders
    BY <1>1 DEF IInv, ProviderInv, Waiting, Calls
  <2>3. QED
    BY <1>1, <2>1, <2>2 DEF OnTheWay, NotStuck
<1>2. IInv /\ (\A c \in Calls : OnTheWay(c)) => \A c \in Calls : NotStuck(c)
  BY <1>1
<1>3. QED
  BY <1>2, DepositsKeepTheirWay, PTL

(* And each step of a call under way brings it nearer to its end, of finite  *)
(* baskets: the assets it has to visit stay the same, and nothing but its    *)
(* own steps moves it, none of them back.                                    *)
DepositsAdvance ==
  \A c \in Calls : stage[c] # "idle" =>
    /\ Holds(c)' = Holds(c)
    /\ Ahead(c)' = Ahead(c) \/ (stage[c] \notin {"done", "failed"} /\ Nearer(c))

THEOREM DepositsComeNearer == Spec => [][DepositsAdvance]_vars
<1>1. IInv /\ (\A c \in Calls : OnTheWay(c)) /\ [Next]_vars => [DepositsAdvance]_vars
  <2> SUFFICES ASSUME IInv, \A c \in Calls : OnTheWay(c), [Next]_vars,
                      NEW c \in Calls, stage[c] # "idle"
               PROVE  /\ Holds(c)' = Holds(c)
                      /\ \/ Ahead(c)' = Ahead(c)
                         \/ stage[c] \notin {"done", "failed"} /\ Nearer(c)
    BY DEF DepositsAdvance
  <2>1. Types
    BY DEF IInv, Types
  <2>2. QED
    BY <2>1, AssetsStay, OthersLeaveIt, StepComesNearer
<1>2. QED
  BY <1>1, DepositsKeepTheirWay, PTL DEF Spec
-------------------------------------------------------------------------------

(* A sorted array with more ids than another holds one that is not in it.   *)
LEMMA LongerHasMore ==
  ASSUME NEW s \in Seq(IDs), NEW t \in Seq(IDs), Increasing(s), Len(s) > Len(t)
  PROVE  ~(Range(s) \subseteq Range(t))
<1> SUFFICES ASSUME Range(s) \subseteq Range(t) PROVE FALSE
  OBVIOUS
<1> DEFINE f == [i \in 1..Len(s) |-> CHOOSE j \in 1..Len(t) : t[j] = s[i]]
<1>1. \A i \in 1..Len(s) : f[i] \in 1..Len(t) /\ t[f[i]] = s[i]
  <2> TAKE i \in 1..Len(s)
  <2>1. s[i] \in Range(t)
    BY DEF Range
  <2>2. PICK j \in 1..Len(t) : t[j] = s[i]
    BY <2>1 DEF Range
  <2>3. QED
    BY <2>2
<1>2. f \in [1..Len(s) -> 1..Len(t)]
  BY <1>1
<1> HIDE DEF f
<1>3. /\ IsFiniteSet(1..Len(s)) /\ Cardinality(1..Len(s)) = Len(s)
      /\ IsFiniteSet(1..Len(t)) /\ Cardinality(1..Len(t)) = Len(t)
  <2> DEFINE m == Len(s)
             n == Len(t)
  <2>1. m \in Nat /\ n \in Nat
    OBVIOUS
  <2> HIDE DEF m, n
  <2>2. /\ IsFiniteSet(1..m) /\ Cardinality(1..m) = m
        /\ IsFiniteSet(1..n) /\ Cardinality(1..n) = n
    <3>1. ASSUME NEW k \in Nat PROVE IsFiniteSet(1..k) /\ Cardinality(1..k) = k
      <4>1. 1 \in Int /\ k \in Int
        OBVIOUS
      <4>2. /\ IsFiniteSet(1..k)
            /\ Cardinality(1..k) = IF 1 > k THEN 0 ELSE k - 1 + 1
        BY ONLY <4>1, FS_Interval, Zenon
      <4>3. QED
        BY <4>2
    <3>2. QED
      BY <2>1, <3>1
  <2>3. QED
    BY <2>2 DEF m, n
<1>4. PICK x, y \in 1..Len(s) : x # y /\ f[x] = f[y]
  BY <1>2, <1>3, FS_PigeonHole
<1>5. s[x] = s[y]
  BY <1>1, <1>4
<1>6. s[x] \in Int /\ s[y] \in Int /\ (s[x] < s[y] \/ s[y] < s[x])
  <2>1. Len(s) \in Nat /\ x \in Nat /\ y \in Nat /\ (x < y \/ y < x)
    BY <1>4
  <2>2. s[x] \in IDs /\ s[y] \in IDs
    OBVIOUS
  <2>3. QED
    BY <2>1, <2>2, IDsAssumption DEF Increasing
<1>7. QED
  BY <1>5, <1>6

(* Splicing an id in after the last smaller one.                            *)
LEMMA SpliceKeepsIncreasing ==
  ASSUME NEW s \in Seq(IDs), Increasing(s), NEW id \in IDs, id \notin Range(s),
         NEW n \in 0..Len(s), n > 0 => s[n] < id,
         \A i \in 1..Len(s) : s[i] < id => i <= n
  PROVE  LET r == SubSeq(s, 1, n) \o <<id>> \o SubSeq(s, n + 1, Len(s))
         IN  r \in Seq(IDs) /\ Increasing(r)
<1> DEFINE r == SubSeq(s, 1, n) \o <<id>> \o SubSeq(s, n + 1, Len(s))
<1>1. /\ SubSeq(s, 1, n) \in Seq(IDs) /\ Len(SubSeq(s, 1, n)) = n
      /\ \A i \in 1..n : SubSeq(s, 1, n)[i] = s[i]
  OBVIOUS
<1>2. /\ SubSeq(s, n + 1, Len(s)) \in Seq(IDs) /\ Len(SubSeq(s, n + 1, Len(s))) = Len(s) - n
      /\ \A i \in 1..(Len(s) - n) : SubSeq(s, n + 1, Len(s))[i] = s[n + i]
  OBVIOUS
<1>3. /\ r \in Seq(IDs) /\ Len(r) = Len(s) + 1
      /\ \A i \in 1..n : r[i] = s[i]
      /\ r[n + 1] = id
      /\ \A i \in 1..(Len(s) - n) : r[n + 1 + i] = s[n + i]
  <2> DEFINE a == SubSeq(s, 1, n)
             b == SubSeq(s, n + 1, Len(s))
  <2>1. a \in Seq(IDs) /\ Len(a) = n /\ b \in Seq(IDs) /\ Len(b) = Len(s) - n
    BY <1>1, <1>2
  <2>2. (\A i \in 1..n : a[i] = s[i]) /\ (\A i \in 1..(Len(s) - n) : b[i] = s[n + i])
    BY <1>1, <1>2
  <2>3. r = a \o <<id>> \o b
    OBVIOUS
  <2> HIDE DEF a, b, r
  <2> DEFINE c == a \o <<id>>
  <2>4. c \in Seq(IDs) /\ Len(c) = n + 1 /\ c[n + 1] = id /\ \A i \in 1..n : c[i] = a[i]
    BY <2>1
  <2>5. r = c \o b
    BY <2>3
  <2> HIDE DEF c
  <2>6. r \in Seq(IDs) /\ Len(r) = Len(s) + 1
    BY <2>1, <2>4, <2>5
  <2>7. \A i \in 1..(n + 1) : r[i] = c[i]
    BY <2>1, <2>4, <2>5
  <2>8. \A i \in 1..(Len(s) - n) : r[n + 1 + i] = b[i]
    BY SMTT(20), <2>1, <2>4, <2>5
  <2>9. \A i \in 1..n : r[i] = s[i]
    BY <2>2, <2>4, <2>7
  <2>10. r[n + 1] = id
    BY <2>4, <2>7
  <2>11. \A i \in 1..(Len(s) - n) : r[n + 1 + i] = s[n + i]
    BY <2>2, <2>8
  <2>12. QED
    BY <2>6, <2>9, <2>10, <2>11
<1> HIDE DEF r
<1> DEFINE m == Len(s)
<1>m. m \in Nat /\ n \in 0..m /\ \A i \in 1..m : s[i] \in IDs /\ s[i] \in Int
  <2>1. m \in Nat /\ \A i \in 1..m : s[i] \in IDs
    OBVIOUS
  <2>2. QED
    BY <2>1, IDsAssumption
<1>4. \A i, j \in 1..m : i < j => s[i] < s[j]
  BY DEF Increasing
<1>5. \A i \in 1..m : (i <= n => s[i] < id) /\ (i > n => id < s[i])
  <2> TAKE i \in 1..m
  <2>1. s[i] # id /\ s[i] \in Int /\ id \in Int
    BY <1>m, IDsAssumption DEF Range
  <2>2. s[i] < id => i <= n
    OBVIOUS
  <2>3. i < n => s[i] < s[n]
    BY <1>m, <1>4
  <2>4. QED
    BY <1>m, <2>1, <2>2, <2>3
<1> HIDE DEF m
<1>6. Increasing(r)
  <2> SUFFICES ASSUME NEW i \in 1..(m + 1), NEW j \in 1..(m + 1), i < j PROVE r[i] < r[j]
    BY <1>3 DEF Increasing, m
  <2>1. \A k \in 1..n : r[k] = s[k]
    BY <1>3
  <2>2. \A k \in (n + 2)..(m + 1) : r[k] = s[k - 1]
    <3> TAKE k \in (n + 2)..(m + 1)
    <3>1. k - n - 1 \in 1..(m - n) /\ n + 1 + (k - n - 1) = k /\ n + (k - n - 1) = k - 1
      BY <1>m
    <3>2. QED
      BY <1>3, <3>1 DEF m
  <2>3. CASE j <= n
    BY <1>m, <1>4, <2>1, <2>3
  <2>4. CASE j = n + 1
    BY <1>m, <1>3, <1>5, <2>1, <2>4
  <2>5. CASE j > n + 1 /\ i <= n
    <3>1. i < j - 1 /\ i \in 1..m /\ j - 1 \in 1..m /\ i \in 1..n /\ j \in (n + 2)..(m + 1)
      BY <1>m, <2>5
    <3>2. QED
      BY <1>4, <2>1, <2>2, <3>1
  <2>6. CASE j > n + 1 /\ i = n + 1
    <3>1. j - 1 \in 1..m /\ j - 1 > n /\ j \in (n + 2)..(m + 1)
      BY <1>m, <2>6
    <3>2. QED
      BY <1>3, <1>5, <2>2, <2>6, <3>1
  <2>7. CASE i > n + 1
    <3>1. i - 1 < j - 1 /\ {i - 1, j - 1} \subseteq 1..m /\ {i, j} \subseteq (n + 2)..(m + 1)
      BY <1>m, <2>7
    <3>2. QED
      BY <1>4, <2>2, <3>1
  <2>8. QED
    BY <1>m, <2>3, <2>4, <2>5, <2>6, <2>7
<1>7. QED
  BY <1>3, <1>6 DEF r
-----------------------------------------------------------------------------
TokensTypes ==
  /\ value \in Seq(IDs) /\ before \in Seq(IDs) /\ asset \in Seq(IDs) /\ ret \in Seq(IDs)
  /\ Increasing(value) /\ Increasing(asset)
  /\ pc \in {"ready", "add", "sub", "cmp"} /\ last \in {"new", "addID", "add", "sub", "cmp"}
  /\ this_i \in Nat \ {0} /\ asset_i \in Nat \ {0}
  /\ bigger \in BOOLEAN /\ smaller \in BOOLEAN

(* A loop works for the operation that began last, on the value it found.   *)
Running ==
  pc # "ready" => /\ last = pc /\ value = before
                  /\ this_i <= Len(value) + 1 /\ asset_i <= Len(asset) + 1

(* The result so far is sorted and smaller than what is to come.            *)
Sorted ==
  /\ Increasing(ret)
  /\ \A k \in 1..Len(ret) : /\ this_i <= Len(value) => ret[k] < value[this_i]
                            /\ pc = "add" /\ asset_i <= Len(asset) => ret[k] < asset[asset_i]

(* #add has merged what it is done with, and found no duplicate.            *)
Merged ==
  pc = "add" =>
    /\ Sorted
    /\ \A k \in 1..Len(ret) : \/ \E i \in 1..(this_i - 1) : ret[k] = value[i]
                              \/ \E j \in 1..(asset_i - 1) : ret[k] = asset[j]
    /\ \A i \in 1..(this_i - 1) : \E k \in 1..Len(ret) : ret[k] = value[i]
    /\ \A j \in 1..(asset_i - 1) : \E k \in 1..Len(ret) : ret[k] = asset[j]
    /\ \A i \in 1..(this_i - 1), j \in 1..Len(asset) : value[i] # asset[j]
    /\ \A j \in 1..(asset_i - 1), i \in 1..Len(value) : value[i] # asset[j]

(* #sub has kept what is not to be removed, and found what is.              *)
Reduced ==
  pc = "sub" =>
    /\ Sorted
    /\ \A k \in 1..Len(ret) : /\ \E i \in 1..(this_i - 1) : ret[k] = value[i]
                              /\ \A j \in 1..Len(asset) : ret[k] # asset[j]
    /\ \A i \in 1..(this_i - 1) : \/ \E k \in 1..Len(ret) : ret[k] = value[i]
                                  \/ \E j \in 1..(asset_i - 1) : value[i] = asset[j]
    /\ \A j \in 1..(asset_i - 1) : \E i \in 1..(this_i - 1) : asset[j] = value[i]
    /\ \A i \in 1..(this_i - 1) : asset_i <= Len(asset) => value[i] < asset[asset_i]

(* cmp() has found no difference, or one that is there.                     *)
Compared ==
  pc = "cmp" =>
    /\ ~bigger /\ ~smaller =>
         /\ this_i = asset_i
         /\ \A i \in 1..(this_i - 1) : value[i] = asset[i]
    /\ bigger \/ smaller => Range(value) # Range(asset)

TokensInv == TokensTypes /\ Running /\ Merged /\ Reduced /\ Compared /\ SetSemantics
-----------------------------------------------------------------------------
LEMMA TokensInitHolds == TokensInit => TokensInv
<1> SUFFICES ASSUME TokensInit PROVE TokensInv
  OBVIOUS
<1>1. <<>> \in Seq(IDs)
  OBVIOUS
<1>2. TokensTypes
  <2>1. Increasing(value) /\ Increasing(asset)
    BY DEF TokensInit, Increasing
  <2>2. value \in Seq(IDs) /\ before \in Seq(IDs) /\ asset \in Seq(IDs) /\ ret \in Seq(IDs)
    BY <1>1 DEF TokensInit
  <2>3. this_i \in Nat \ {0} /\ asset_i \in Nat \ {0}
    BY DEF TokensInit
  <2>4. pc \in {"ready", "add", "sub", "cmp"} /\ last \in {"new", "addID", "add", "sub", "cmp"}
    BY DEF TokensInit
  <2>5. bigger \in BOOLEAN /\ smaller \in BOOLEAN
    BY Zenon DEF TokensInit
  <2>6. QED
    BY <2>1, <2>2, <2>3, <2>4, <2>5 DEF TokensTypes
<1>3. pc = "ready" /\ last = "new"
  BY DEF TokensInit
<1>4. Running /\ Merged /\ Reduced /\ Compared /\ SetSemantics
  BY <1>3 DEF Running, Merged, Reduced, Compared, SetSemantics
<1>5. QED
  BY <1>2, <1>4 DEF TokensInv

(* New and AddID only have to keep the value sorted.                        *)
LEMMA ReadyStepKeeps ==
  ASSUME TokensInv, pc = "ready", pc' = "ready", last' \in {"new", "addID"},
         value' \in Seq(IDs), Increasing(value'),
         UNCHANGED <<before, asset, loop>>
  PROVE  TokensInv'
<1>1. TokensTypes' /\ Running'
  BY DEF TokensInv, TokensTypes, Running, loop
<1>2. Merged' /\ Reduced' /\ Compared' /\ SetSemantics'
  BY DEF Merged, Reduced, Compared, SetSemantics
<1>3. QED
  BY <1>1, <1>2 DEF TokensInv

LEMMA NewKeeps == TokensInv /\ New => TokensInv'
<1> SUFFICES ASSUME TokensInv, New PROVE TokensInv'
  OBVIOUS
<1>0. PICK v \in Arrays : \E p \in [DOMAIN v -> DOMAIN v] :
        /\ value' = [i \in DOMAIN v |-> v[p[i]]]
        /\ \A i, j \in DOMAIN v : i < j => value'[i] <= value'[j]
        /\ \A k \in 1..(Len(v) - 1) : value'[k] >= 0 /\ value'[k] # value'[k + 1]
  BY DEF New
<1>1. PICK p \in [DOMAIN v -> DOMAIN v] :
        /\ value' = [i \in DOMAIN v |-> v[p[i]]]
        /\ \A i, j \in DOMAIN v : i < j => value'[i] <= value'[j]
        /\ \A k \in 1..(Len(v) - 1) : value'[k] >= 0 /\ value'[k] # value'[k + 1]
  BY <1>0
<1>2. v \in Seq(IDs)
  BY ArraysAssumption
<1> DEFINE n == Len(v)
<1>3. n \in Nat /\ DOMAIN v = 1..n /\ \A i \in 1..n : v[i] \in IDs
  BY <1>2
<1>4. value' \in [1..n -> IDs]
  BY <1>1, <1>3
<1>5. value' \in Seq(IDs) /\ Len(value') = n
  BY <1>3, <1>4
<1>6. \A i \in 1..n : value'[i] \in Int
  BY <1>4, IDsAssumption
<1> HIDE DEF n
<1>7. \A i, j \in 1..n : i < j => value'[i] < value'[j]
  <2> SUFFICES ASSUME NEW i \in 1..n, NEW j \in 1..n, i < j PROVE value'[i] < value'[j]
    OBVIOUS
  <2>1. i \in 1..(n - 1) /\ i + 1 \in 1..n /\ (i + 1 < j \/ i + 1 = j)
    BY <1>3
  <2>2. value'[i] # value'[i + 1]
    BY <1>1, <2>1 DEF n
  <2>3. value'[i] <= value'[i + 1] /\ (i + 1 < j => value'[i + 1] <= value'[j])
    <3>1. i \in DOMAIN v /\ i + 1 \in DOMAIN v /\ j \in DOMAIN v /\ i < i + 1
      BY <1>3, <2>1
    <3>2. QED
      BY <1>1, <3>1
  <2>4. QED
    BY <1>6, <2>1, <2>2, <2>3
<1>8. Increasing(value')
  BY <1>5, <1>7 DEF Increasing
<1>9. QED
  BY <1>5, <1>8, ReadyStepKeeps DEF New

LEMMA AddIDKeeps == ASSUME TokensInv, NEW id \in IDs, AddID(id) PROVE TokensInv'
<1>1. value \in Seq(IDs) /\ Increasing(value) /\ id \notin Range(value)
  BY DEF TokensInv, TokensTypes, AddID
<1>2. PICK n \in 0..Len(value) :
        /\ n > 0 => value[n] < id
        /\ \A i \in 1..Len(value) : value[i] < id => i <= n
        /\ value' = SubSeq(value, 1, n) \o <<id>> \o SubSeq(value, n + 1, Len(value))
  BY DEF AddID
<1>3. value' \in Seq(IDs) /\ Increasing(value')
  BY <1>1, <1>2, SpliceKeepsIncreasing
<1>4. QED
  BY <1>3, ReadyStepKeeps DEF AddID

LEMMA BeginKeeps == ASSUME TokensInv, NEW op \in {"add", "sub", "cmp"}, Begin(op) PROVE TokensInv'
<1>1. /\ asset' \in Seq(IDs) /\ Increasing(asset')
      /\ value' = value /\ ret' = <<>> /\ Len(ret') = 0 /\ this_i' = 1 /\ asset_i' = 1
      /\ bigger' = FALSE /\ smaller' = FALSE /\ pc' = op /\ last' = op /\ before' = value
  BY OperandsAssumption DEF Begin
<1>2. value' \in Seq(IDs) /\ Increasing(value') /\ ret' \in Seq(IDs)
  BY <1>1 DEF TokensInv, TokensTypes
<1>3. TokensTypes'
  <2>1. /\ 1 \in Nat \ {0} /\ op \in {"ready", "add", "sub", "cmp"}
        /\ op \in {"new", "addID", "add", "sub", "cmp"}
    OBVIOUS
  <2>2. QED
    BY <1>1, <1>2, <2>1 DEF TokensTypes
<1>4. Running'
  BY <1>1, <1>2 DEF Running
<1>5. Merged' /\ Reduced'
  BY <1>1 DEF Merged, Reduced, Sorted, Increasing
<1>6. Compared' /\ SetSemantics'
  BY <1>1 DEF Compared, SetSemantics
<1>7. QED
  BY <1>3, <1>4, <1>5, <1>6 DEF TokensInv
-----------------------------------------------------------------------------
LEMMA PushFacts ==
  ASSUME NEW s \in Seq(IDs), NEW x \in IDs
  PROVE  /\ Append(s, x) \in Seq(IDs)
         /\ Len(s) \in Nat /\ Len(Append(s, x)) = Len(s) + 1
         /\ \A k \in 1..Len(s) : Append(s, x)[k] = s[k]
         /\ Append(s, x)[Len(s) + 1] = x
OBVIOUS

(* Appending an id that is bigger than what is there, and smaller than what *)
(* is to come.                                                              *)
LEMMA AppendKeepsSorted ==
  ASSUME NEW s \in Seq(IDs), NEW x \in IDs, Increasing(s),
         \A k \in 1..Len(s) : s[k] < x
  PROVE  /\ Increasing(Append(s, x))
         /\ \A y \in IDs : x < y => \A k \in 1..Len(Append(s, x)) : Append(s, x)[k] < y
<1> DEFINE r == Append(s, x)
           n == Len(s)
<1>1. n \in Nat /\ Len(r) = n + 1 /\ (\A k \in 1..n : r[k] = s[k]) /\ r[n + 1] = x
  BY PushFacts
<1>2. x \in Int /\ \A k \in 1..n : s[k] \in Int
  <2>1. \A k \in 1..n : s[k] \in IDs
    OBVIOUS
  <2>2. QED
    BY <2>1, IDsAssumption
<1>3. \A i, j \in 1..n : i < j => s[i] < s[j]
  BY DEF Increasing
<1> HIDE DEF r, n
<1>4. \A k \in 1..(n + 1) : k \in 1..n \/ k = n + 1
  BY <1>1
<1>5. Increasing(r)
  <2> SUFFICES ASSUME NEW i \in 1..(n + 1), NEW j \in 1..(n + 1), i < j PROVE r[i] < r[j]
    BY <1>1 DEF Increasing
  <2>1. i \in 1..n
    BY <1>1
  <2>2. CASE j \in 1..n
    BY <1>1, <1>3, <2>1, <2>2
  <2>3. CASE j = n + 1
    BY <1>1, <2>1, <2>3 DEF n
  <2>4. QED
    BY <1>4, <2>2, <2>3
<1>6. ASSUME NEW y \in IDs, x < y, NEW k \in 1..(n + 1) PROVE r[k] < y
  <2>1. y \in Int
    BY IDsAssumption
  <2>2. CASE k \in 1..n
    <3>1. s[k] < x
      BY <2>2 DEF n
    <3>2. QED
      BY <1>1, <1>2, <1>6, <2>1, <2>2, <3>1
  <2>3. CASE k = n + 1
    BY <1>1, <1>6, <2>3
  <2>4. QED
    BY <1>4, <2>2, <2>3
<1>7. QED
  BY <1>1, <1>5, <1>6 DEF r

(* What every step of a loop has to start from.                             *)
LEMMA Elements ==
  ASSUME TokensInv
  PROVE  /\ Len(value) \in Nat /\ Len(asset) \in Nat /\ Len(ret) \in Nat
         /\ this_i \in Nat /\ this_i > 0 /\ asset_i \in Nat /\ asset_i > 0
         /\ \A i \in 1..Len(value) : value[i] \in IDs /\ value[i] \in Int
         /\ \A j \in 1..Len(asset) : asset[j] \in IDs /\ asset[j] \in Int
         /\ \A i, j \in 1..Len(value) : i < j => value[i] < value[j]
         /\ \A i, j \in 1..Len(asset) : i < j => asset[i] < asset[j]
<1>1. value \in Seq(IDs) /\ asset \in Seq(IDs) /\ ret \in Seq(IDs)
  BY DEF TokensInv, TokensTypes
<1>2. /\ Len(value) \in Nat /\ Len(asset) \in Nat /\ Len(ret) \in Nat
      /\ \A i \in 1..Len(value) : value[i] \in IDs
      /\ \A j \in 1..Len(asset) : asset[j] \in IDs
  BY <1>1
<1>3. this_i \in Nat /\ this_i > 0 /\ asset_i \in Nat /\ asset_i > 0
  BY DEF TokensInv, TokensTypes
<1>4. QED
  BY <1>2, <1>3, IDsAssumption DEF TokensInv, TokensTypes, Increasing
-----------------------------------------------------------------------------
(* The loop of #add.                                                        *)
LEMMA AddThisKeeps == TokensInv /\ AddThis => TokensInv'
<1> SUFFICES ASSUME TokensInv, AddThis PROVE TokensInv'
  OBVIOUS
<1> USE Elements
<1>1. /\ pc = "add" /\ this_i <= Len(value) /\ (asset_i <= Len(asset) => value[this_i] < asset[asset_i])
      /\ ret' = Append(ret, value[this_i]) /\ this_i' = this_i + 1
      /\ UNCHANGED <<value, before, asset, pc, last, outcome, asset_i, bigger, smaller>>
  BY DEF AddThis, InThis, InAsset, PushThis
<1>2. TokensTypes /\ Running /\ Merged /\ this_i \in 1..Len(value)
  BY <1>1 DEF TokensInv
<1> DEFINE x == value[this_i]
<1>3. x \in IDs /\ x \in Int /\ ret \in Seq(IDs)
  BY <1>2 DEF TokensTypes
<1>4. Increasing(ret) /\ \A k \in 1..Len(ret) : ret[k] < x
  BY <1>1, <1>2 DEF Merged, Sorted
<1> DEFINE r == Append(ret, x)
<1>5. /\ r \in Seq(IDs) /\ Len(r) = Len(ret) + 1
      /\ \A k \in 1..Len(ret) : r[k] = ret[k]
      /\ r[Len(ret) + 1] = x
  BY <1>3, PushFacts
<1>6. /\ Increasing(r)
      /\ \A y \in IDs : x < y => \A k \in 1..Len(r) : r[k] < y
  BY <1>3, <1>4, AppendKeepsSorted
<1>7. ret' = r /\ Len(r) \in Nat
  BY <1>1, <1>5
<1> HIDE DEF r
<1>8. TokensTypes'
  BY <1>1, <1>2, <1>5, <1>7 DEF TokensTypes
<1>9. Running'
  BY <1>1, <1>2 DEF Running
<1>10. Sorted'
  <2>1. ASSUME this_i + 1 <= Len(value), NEW k \in 1..Len(r) PROVE r[k] < value[this_i + 1]
    <3>1. this_i + 1 \in 1..Len(value) /\ x < value[this_i + 1]
      BY <1>2, <2>1
    <3>2. QED
      BY <1>6, <2>1, <3>1
  <2>2. ASSUME asset_i <= Len(asset), NEW k \in 1..Len(r) PROVE r[k] < asset[asset_i]
    <3>1. asset_i \in 1..Len(asset) /\ x < asset[asset_i]
      BY <1>1, <2>2
    <3>2. QED
      BY <1>6, <2>2, <3>1
  <2>3. QED
    BY <1>1, <1>6, <1>7, <2>1, <2>2 DEF Sorted
<1>11. \A i \in 1..this_i : i \in 1..(this_i - 1) \/ i = this_i
  OBVIOUS
<1>12. \A k \in 1..Len(r) : k \in 1..Len(ret) \/ k = Len(ret) + 1
  BY <1>5
<1>13. \A k \in 1..Len(r) : \/ \E i \in 1..this_i : r[k] = value[i]
                            \/ \E j \in 1..(asset_i - 1) : r[k] = asset[j]
  <2> TAKE k \in 1..Len(r)
  <2>1. CASE k \in 1..Len(ret)
    <3>1. r[k] = ret[k]
      BY <1>5, <2>1
    <3>2. \/ \E i \in 1..(this_i - 1) : ret[k] = value[i]
          \/ \E j \in 1..(asset_i - 1) : ret[k] = asset[j]
      BY <1>1, <1>2, <2>1 DEF Merged
    <3>3. \A i \in 1..(this_i - 1) : i \in 1..this_i
      OBVIOUS
    <3>4. QED
      BY <3>1, <3>2, <3>3
  <2>2. CASE k = Len(ret) + 1
    BY <1>2, <1>5, <2>2
  <2>3. QED
    BY <1>12, <2>1, <2>2
<1>14. \A i \in 1..this_i : \E k \in 1..Len(r) : r[k] = value[i]
  <2> TAKE i \in 1..this_i
  <2>1. CASE i \in 1..(this_i - 1)
    <3>1. PICK k \in 1..Len(ret) : ret[k] = value[i]
      BY <1>1, <1>2, <2>1 DEF Merged
    <3>2. k \in 1..Len(r) /\ r[k] = ret[k]
      BY <1>5
    <3>3. QED
      BY <3>1, <3>2
  <2>2. CASE i = this_i
    <3>1. Len(ret) + 1 \in 1..Len(r)
      BY <1>5
    <3>2. QED
      BY <1>5, <2>2, <3>1
  <2>3. QED
    BY <1>11, <2>1, <2>2
<1>15. \A j \in 1..(asset_i - 1) : \E k \in 1..Len(r) : r[k] = asset[j]
  <2> TAKE j \in 1..(asset_i - 1)
  <2>1. PICK k \in 1..Len(ret) : ret[k] = asset[j]
    BY <1>1, <1>2 DEF Merged
  <2>2. k \in 1..Len(r) /\ r[k] = ret[k]
    BY <1>5
  <2>3. QED
    BY <2>1, <2>2
<1>16. \A i \in 1..this_i, j \in 1..Len(asset) : value[i] # asset[j]
  <2> TAKE i \in 1..this_i, j \in 1..Len(asset)
  <2>1. CASE i \in 1..(this_i - 1)
    BY <1>1, <1>2, <2>1 DEF Merged
  <2>2. CASE i = this_i /\ j \in 1..(asset_i - 1)
    BY <1>1, <1>2, <2>2 DEF Merged
  <2>3. CASE i = this_i /\ j >= asset_i
    <3>1. asset_i \in 1..Len(asset) /\ value[i] < asset[asset_i]
      BY <1>1, <2>3
    <3>2. asset_i = j \/ asset[asset_i] < asset[j]
      BY <2>3, <3>1
    <3>3. QED
      BY <1>3, <2>3, <3>1, <3>2
  <2>4. j \in 1..(asset_i - 1) \/ j >= asset_i
    OBVIOUS
  <2>5. QED
    BY <1>11, <2>1, <2>2, <2>3, <2>4
<1>17. \A j \in 1..(asset_i - 1), i \in 1..Len(value) : value[i] # asset[j]
  BY <1>1, <1>2 DEF Merged
<1>18. Merged'
  <2>1. (this_i') - 1 = this_i /\ (asset_i') - 1 = asset_i - 1
    BY <1>1
  <2>2. /\ ret' = r /\ value' = value /\ asset' = asset
        /\ (this_i') - 1 = this_i /\ (asset_i') - 1 = asset_i - 1
    BY <1>1, <1>7, <2>1
  <2>3. QED
    BY ONLY <1>10, <1>13, <1>14, <1>15, <1>16, <1>17, <2>2, ZenonT(30) DEF Merged
<1>19. Reduced' /\ Compared' /\ SetSemantics'
  BY <1>1 DEF Reduced, Compared, SetSemantics
<1>20. QED
  BY <1>8, <1>9, <1>18, <1>19 DEF TokensInv

LEMMA AddAssetKeeps == TokensInv /\ AddAsset => TokensInv'
<1> SUFFICES ASSUME TokensInv, AddAsset PROVE TokensInv'
  OBVIOUS
<1> USE Elements
<1>1. /\ pc = "add" /\ asset_i <= Len(asset) /\ (this_i <= Len(value) => asset[asset_i] < value[this_i])
      /\ ret' = Append(ret, asset[asset_i]) /\ asset_i' = asset_i + 1
      /\ UNCHANGED <<value, before, asset, pc, last, outcome, this_i, bigger, smaller>>
  BY DEF AddAsset, InThis, InAsset, PushAsset
<1>2. TokensTypes /\ Running /\ Merged /\ asset_i \in 1..Len(asset)
  BY <1>1 DEF TokensInv
<1> DEFINE x == asset[asset_i]
<1>3. x \in IDs /\ x \in Int /\ ret \in Seq(IDs)
  BY <1>2 DEF TokensTypes
<1>4. Increasing(ret) /\ \A k \in 1..Len(ret) : ret[k] < x
  BY <1>1, <1>2 DEF Merged, Sorted
<1> DEFINE r == Append(ret, x)
<1>5. /\ r \in Seq(IDs) /\ Len(r) = Len(ret) + 1
      /\ \A k \in 1..Len(ret) : r[k] = ret[k]
      /\ r[Len(ret) + 1] = x
  BY <1>3, PushFacts
<1>6. /\ Increasing(r)
      /\ \A y \in IDs : x < y => \A k \in 1..Len(r) : r[k] < y
  BY <1>3, <1>4, AppendKeepsSorted
<1>7. ret' = r /\ Len(r) \in Nat
  BY <1>1, <1>5
<1> HIDE DEF r
<1>8. TokensTypes'
  BY <1>1, <1>2, <1>5, <1>7 DEF TokensTypes
<1>9. Running'
  BY <1>1, <1>2 DEF Running
<1>10. Sorted'
  <2>1. ASSUME asset_i + 1 <= Len(asset), NEW k \in 1..Len(r) PROVE r[k] < asset[asset_i + 1]
    <3>1. asset_i + 1 \in 1..Len(asset) /\ x < asset[asset_i + 1]
      BY <1>2, <2>1
    <3>2. QED
      BY <1>6, <2>1, <3>1
  <2>2. ASSUME this_i <= Len(value), NEW k \in 1..Len(r) PROVE r[k] < value[this_i]
    <3>1. this_i \in 1..Len(value) /\ x < value[this_i]
      BY <1>1, <2>2
    <3>2. QED
      BY <1>6, <2>2, <3>1
  <2>3. QED
    BY <1>1, <1>6, <1>7, <2>1, <2>2 DEF Sorted
<1>11. \A j \in 1..asset_i : j \in 1..(asset_i - 1) \/ j = asset_i
  OBVIOUS
<1>12. \A k \in 1..Len(r) : k \in 1..Len(ret) \/ k = Len(ret) + 1
  BY <1>5
<1>13. \A k \in 1..Len(r) : \/ \E i \in 1..(this_i - 1) : r[k] = value[i]
                            \/ \E j \in 1..asset_i : r[k] = asset[j]
  <2> TAKE k \in 1..Len(r)
  <2>1. CASE k \in 1..Len(ret)
    <3>1. r[k] = ret[k]
      BY <1>5, <2>1
    <3>2. \/ \E i \in 1..(this_i - 1) : ret[k] = value[i]
          \/ \E j \in 1..(asset_i - 1) : ret[k] = asset[j]
      BY <1>1, <1>2, <2>1 DEF Merged
    <3>3. \A j \in 1..(asset_i - 1) : j \in 1..asset_i
      OBVIOUS
    <3>4. QED
      BY <3>1, <3>2, <3>3
  <2>2. CASE k = Len(ret) + 1
    BY <1>2, <1>5, <2>2
  <2>3. QED
    BY <1>12, <2>1, <2>2
<1>14. \A j \in 1..asset_i : \E k \in 1..Len(r) : r[k] = asset[j]
  <2> TAKE j \in 1..asset_i
  <2>1. CASE j \in 1..(asset_i - 1)
    <3>1. PICK k \in 1..Len(ret) : ret[k] = asset[j]
      BY <1>1, <1>2, <2>1 DEF Merged
    <3>2. k \in 1..Len(r) /\ r[k] = ret[k]
      BY <1>5
    <3>3. QED
      BY <3>1, <3>2
  <2>2. CASE j = asset_i
    <3>1. Len(ret) + 1 \in 1..Len(r)
      BY <1>5
    <3>2. QED
      BY <1>5, <2>2, <3>1
  <2>3. QED
    BY <1>11, <2>1, <2>2
<1>15. \A i \in 1..(this_i - 1) : \E k \in 1..Len(r) : r[k] = value[i]
  <2> TAKE i \in 1..(this_i - 1)
  <2>1. PICK k \in 1..Len(ret) : ret[k] = value[i]
    BY <1>1, <1>2 DEF Merged
  <2>2. k \in 1..Len(r) /\ r[k] = ret[k]
    BY <1>5
  <2>3. QED
    BY <2>1, <2>2
<1>16. \A j \in 1..asset_i, i \in 1..Len(value) : value[i] # asset[j]
  <2> TAKE j \in 1..asset_i, i \in 1..Len(value)
  <2>1. CASE j \in 1..(asset_i - 1)
    BY <1>1, <1>2, <2>1 DEF Merged
  <2>2. CASE j = asset_i /\ i \in 1..(this_i - 1)
    BY <1>1, <1>2, <2>2 DEF Merged
  <2>3. CASE j = asset_i /\ i >= this_i
    <3>1. this_i \in 1..Len(value) /\ asset[j] < value[this_i]
      BY <1>1, <2>3
    <3>2. this_i = i \/ value[this_i] < value[i]
      BY <2>3, <3>1
    <3>3. QED
      BY <1>3, <2>3, <3>1, <3>2
  <2>4. i \in 1..(this_i - 1) \/ i >= this_i
    OBVIOUS
  <2>5. QED
    BY <1>11, <2>1, <2>2, <2>3, <2>4
<1>17. \A i \in 1..(this_i - 1), j \in 1..Len(asset) : value[i] # asset[j]
  BY <1>1, <1>2 DEF Merged
<1>18. Merged'
  <2>1. (asset_i') - 1 = asset_i /\ (this_i') - 1 = this_i - 1
    BY <1>1
  <2>2. /\ ret' = r /\ value' = value /\ asset' = asset
        /\ (asset_i') - 1 = asset_i /\ (this_i') - 1 = this_i - 1
    BY <1>1, <1>7, <2>1
  <2>3. \A k \in 1..Len(ret') : \/ \E i \in 1..((this_i') - 1) : ret'[k] = value'[i]
                                \/ \E j \in 1..((asset_i') - 1) : ret'[k] = asset'[j]
    BY ONLY <1>13, <2>2, Zenon
  <2>4. /\ \A i \in 1..((this_i') - 1) : \E k \in 1..Len(ret') : ret'[k] = value'[i]
        /\ \A j \in 1..((asset_i') - 1) : \E k \in 1..Len(ret') : ret'[k] = asset'[j]
    BY ONLY <1>14, <1>15, <2>2, Zenon
  <2>5. /\ \A i \in 1..((this_i') - 1), j \in 1..Len(asset') : value'[i] # asset'[j]
        /\ \A j \in 1..((asset_i') - 1), i \in 1..Len(value') : value'[i] # asset'[j]
    BY ONLY <1>16, <1>17, <2>2, Zenon
  <2>6. QED
    BY ONLY <1>10, <2>3, <2>4, <2>5, Zenon DEF Merged
<1>19. Reduced' /\ Compared' /\ SetSemantics'
  BY <1>1 DEF Reduced, Compared, SetSemantics
<1>20. QED
  BY <1>8, <1>9, <1>18, <1>19 DEF TokensInv

(* A step that ends a loop leaves a sorted value.                           *)
LEMMA EndKeeps ==
  ASSUME TokensInv, pc' = "ready", value' \in Seq(IDs), Increasing(value'),
         UNCHANGED <<before, asset, last, loop>>, SetSemantics'
  PROVE  TokensInv'
<1>1. TokensTypes' /\ Running'
  BY DEF TokensInv, TokensTypes, Running, loop
<1>2. Merged' /\ Reduced' /\ Compared'
  BY DEF Merged, Reduced, Compared
<1>3. QED
  BY <1>1, <1>2 DEF TokensInv

LEMMA AddDuplicateKeeps == TokensInv /\ AddDuplicate => TokensInv'
<1> SUFFICES ASSUME TokensInv, AddDuplicate PROVE TokensInv'
  OBVIOUS
<1>1. /\ pc = "add" /\ this_i <= Len(value) /\ asset_i <= Len(asset)
      /\ value[this_i] = asset[asset_i]
      /\ pc' = "ready" /\ outcome' = "throws" /\ UNCHANGED <<value, before, asset, last, loop>>
  BY DEF AddDuplicate, InThis, InAsset, Raise, Finish
<1>2. value \in Seq(IDs) /\ Increasing(value) /\ last = "add" /\ value = before
  BY <1>1 DEF TokensInv, TokensTypes, Running
<1>3. value[this_i] \in Range(value) \cap Range(asset)
  <2>1. this_i \in 1..Len(value) /\ asset_i \in 1..Len(asset)
    BY <1>1, Elements
  <2>2. asset \in Seq(IDs)
    BY DEF TokensInv, TokensTypes
  <2>3. QED
    BY <1>1, <1>2, <2>1, <2>2 DEF Range
<1>4. SetSemantics'
  BY <1>1, <1>2, <1>3 DEF SetSemantics
<1>5. QED
  BY <1>1, <1>2, <1>4, EndKeeps

(* The ids of an array, by their places.                                    *)
LEMMA RangeBySeq ==
  ASSUME NEW s \in Seq(IDs)
  PROVE  /\ \A k \in 1..Len(s) : s[k] \in Range(s)
         /\ \A x \in Range(s) : \E k \in 1..Len(s) : s[k] = x
BY DEF Range

LEMMA AddReturnsKeeps == TokensInv /\ AddReturns => TokensInv'
<1> SUFFICES ASSUME TokensInv, AddReturns PROVE TokensInv'
  OBVIOUS
<1> USE Elements
<1>1. /\ pc = "add" /\ ~(this_i <= Len(value)) /\ ~(asset_i <= Len(asset))
      /\ value' = ret
      /\ pc' = "ready" /\ outcome' = "ok" /\ UNCHANGED <<before, asset, last, loop>>
  BY DEF AddReturns, InThis, InAsset, Finish
<1>2. TokensTypes /\ Running /\ Merged
  BY DEF TokensInv
<1>3. last = "add" /\ value = before /\ this_i - 1 = Len(value) /\ asset_i - 1 = Len(asset)
  BY <1>1, <1>2 DEF Running
<1>4. /\ value \in Seq(IDs) /\ asset \in Seq(IDs) /\ ret \in Seq(IDs) /\ Increasing(ret)
  BY <1>1, <1>2 DEF TokensTypes, Merged, Sorted
<1>5. /\ \A k \in 1..Len(ret) : \/ \E i \in 1..Len(value) : ret[k] = value[i]
                                \/ \E j \in 1..Len(asset) : ret[k] = asset[j]
      /\ \A i \in 1..Len(value) : \E k \in 1..Len(ret) : ret[k] = value[i]
      /\ \A j \in 1..Len(asset) : \E k \in 1..Len(ret) : ret[k] = asset[j]
      /\ \A i \in 1..Len(value), j \in 1..Len(asset) : value[i] # asset[j]
  <2>1. pc = "add" /\ this_i - 1 = Len(value) /\ asset_i - 1 = Len(asset)
    BY <1>1, <1>3
  <2>2. QED
    BY ONLY <1>2, <2>1, Zenon DEF Merged
<1>6. Range(ret) = Range(value) \union Range(asset)
  <2>1. ASSUME NEW x \in Range(ret) PROVE x \in Range(value) \union Range(asset)
    <3>1. PICK k \in 1..Len(ret) : ret[k] = x
      BY <1>4, RangeBySeq
    <3>2. QED
      BY ZenonT(30), <1>4, <1>5, <3>1, RangeBySeq
  <2>2. ASSUME NEW x \in Range(value) PROVE x \in Range(ret)
    <3>1. PICK i \in 1..Len(value) : value[i] = x
      BY <1>4, RangeBySeq
    <3>2. QED
      BY <1>4, <1>5, <3>1, RangeBySeq
  <2>3. ASSUME NEW x \in Range(asset) PROVE x \in Range(ret)
    <3>1. PICK j \in 1..Len(asset) : asset[j] = x
      BY <1>4, RangeBySeq
    <3>2. QED
      BY <1>4, <1>5, <3>1, RangeBySeq
  <2>4. QED
    BY <2>1, <2>2, <2>3
<1>7. Range(value) \cap Range(asset) = {}
  <2> SUFFICES ASSUME NEW x \in Range(value), x \in Range(asset) PROVE FALSE
    OBVIOUS
  <2>1. PICK i \in 1..Len(value) : value[i] = x
    BY <1>4, RangeBySeq
  <2>2. PICK j \in 1..Len(asset) : asset[j] = x
    BY <1>4, RangeBySeq
  <2>3. QED
    BY <1>5, <2>1, <2>2
<1>8. SetSemantics'
  BY <1>1, <1>3, <1>6, <1>7 DEF SetSemantics
<1>9. QED
  BY <1>1, <1>4, <1>8, EndKeeps
-----------------------------------------------------------------------------
(* The loop of #sub.                                                        *)
LEMMA SubKeepKeeps == TokensInv /\ SubKeep => TokensInv'
<1> SUFFICES ASSUME TokensInv, SubKeep PROVE TokensInv'
  OBVIOUS
<1> USE Elements
<1>1. /\ pc = "sub" /\ this_i <= Len(value) /\ (asset_i <= Len(asset) => value[this_i] < asset[asset_i])
      /\ ret' = Append(ret, value[this_i]) /\ this_i' = this_i + 1
      /\ UNCHANGED <<value, before, asset, pc, last, outcome, asset_i, bigger, smaller>>
  BY DEF SubKeep, InThis, InAsset, PushThis
<1>2. TokensTypes /\ Running /\ Reduced /\ this_i \in 1..Len(value)
  BY <1>1 DEF TokensInv
<1> DEFINE x == value[this_i]
<1>3. x \in IDs /\ x \in Int /\ ret \in Seq(IDs)
  BY <1>2 DEF TokensTypes
<1>4. Increasing(ret) /\ \A k \in 1..Len(ret) : ret[k] < x
  BY <1>1, <1>2 DEF Reduced, Sorted
<1> DEFINE r == Append(ret, x)
<1>5. /\ r \in Seq(IDs) /\ Len(r) = Len(ret) + 1
      /\ \A k \in 1..Len(ret) : r[k] = ret[k]
      /\ r[Len(ret) + 1] = x
  BY <1>3, PushFacts
<1>6. /\ Increasing(r)
      /\ \A y \in IDs : x < y => \A k \in 1..Len(r) : r[k] < y
  BY <1>3, <1>4, AppendKeepsSorted
<1>7. ret' = r /\ Len(r) \in Nat
  BY <1>1, <1>5
<1> HIDE DEF r
<1>8. TokensTypes'
  BY <1>1, <1>2, <1>5, <1>7 DEF TokensTypes
<1>9. Running'
  BY <1>1, <1>2 DEF Running
<1>10. Sorted'
  <2>1. ASSUME this_i + 1 <= Len(value), NEW k \in 1..Len(r) PROVE r[k] < value[this_i + 1]
    <3>1. this_i + 1 \in 1..Len(value) /\ x < value[this_i + 1]
      BY <1>2, <2>1
    <3>2. QED
      BY <1>6, <2>1, <3>1
  <2>2. QED
    BY <1>1, <1>6, <1>7, <2>1 DEF Sorted
<1>11. \A i \in 1..this_i : i \in 1..(this_i - 1) \/ i = this_i
  OBVIOUS
<1>12. \A k \in 1..Len(r) : k \in 1..Len(ret) \/ k = Len(ret) + 1
  BY <1>5
<1>13. \A j \in 1..Len(asset) : x # asset[j]
  <2> TAKE j \in 1..Len(asset)
  <2>1. CASE j \in 1..(asset_i - 1)
    <3>1. PICK i \in 1..(this_i - 1) : asset[j] = value[i]
      BY <1>1, <1>2, <2>1 DEF Reduced
    <3>2. i \in 1..Len(value) /\ i < this_i
      BY <1>2
    <3>3. QED
      BY <1>2, <1>3, <3>1, <3>2
  <2>2. CASE j >= asset_i
    <3>1. asset_i \in 1..Len(asset) /\ x < asset[asset_i]
      BY <1>1, <2>2
    <3>2. asset_i = j \/ asset[asset_i] < asset[j]
      BY <2>2, <3>1
    <3>3. QED
      BY <1>3, <3>1, <3>2
  <2>3. j \in 1..(asset_i - 1) \/ j >= asset_i
    OBVIOUS
  <2>4. QED
    BY <2>1, <2>2, <2>3
<1>14. \A k \in 1..Len(r) : /\ \E i \in 1..this_i : r[k] = value[i]
                            /\ \A j \in 1..Len(asset) : r[k] # asset[j]
  <2> TAKE k \in 1..Len(r)
  <2>1. CASE k \in 1..Len(ret)
    <3>1. r[k] = ret[k]
      BY <1>5, <2>1
    <3>2. /\ \E i \in 1..(this_i - 1) : ret[k] = value[i]
          /\ \A j \in 1..Len(asset) : ret[k] # asset[j]
      BY <1>1, <1>2, <2>1 DEF Reduced
    <3>3. \A i \in 1..(this_i - 1) : i \in 1..this_i
      OBVIOUS
    <3>4. QED
      BY <3>1, <3>2, <3>3
  <2>2. CASE k = Len(ret) + 1
    <3>1. this_i \in 1..this_i /\ r[k] = value[this_i]
      BY <1>2, <1>5, <2>2
    <3>2. QED
      BY <1>13, <3>1
  <2>3. QED
    BY <1>12, <2>1, <2>2
<1>15. \A i \in 1..this_i : \/ \E k \in 1..Len(r) : r[k] = value[i]
                            \/ \E j \in 1..(asset_i - 1) : value[i] = asset[j]
  <2> TAKE i \in 1..this_i
  <2>1. CASE i \in 1..(this_i - 1)
    <3>1. \/ \E k \in 1..Len(ret) : ret[k] = value[i]
          \/ \E j \in 1..(asset_i - 1) : value[i] = asset[j]
      BY <1>1, <1>2, <2>1 DEF Reduced
    <3>2. \A k \in 1..Len(ret) : k \in 1..Len(r) /\ r[k] = ret[k]
      BY <1>5
    <3>3. QED
      BY <3>1, <3>2
  <2>2. CASE i = this_i
    <3>1. Len(ret) + 1 \in 1..Len(r)
      BY <1>5
    <3>2. QED
      BY <1>5, <2>2, <3>1
  <2>3. QED
    BY <1>11, <2>1, <2>2
<1>16. \A j \in 1..(asset_i - 1) : \E i \in 1..this_i : asset[j] = value[i]
  <2> TAKE j \in 1..(asset_i - 1)
  <2>1. PICK i \in 1..(this_i - 1) : asset[j] = value[i]
    BY <1>1, <1>2 DEF Reduced
  <2>2. i \in 1..this_i
    OBVIOUS
  <2>3. QED
    BY <2>1, <2>2
<1>17. \A i \in 1..this_i : asset_i <= Len(asset) => value[i] < asset[asset_i]
  <2> TAKE i \in 1..this_i
  <2>1. CASE i \in 1..(this_i - 1)
    BY <1>1, <1>2, <2>1 DEF Reduced
  <2>2. CASE i = this_i
    BY <1>1, <2>2
  <2>3. QED
    BY <1>11, <2>1, <2>2
<1>18. Reduced'
  <2>1. (this_i') - 1 = this_i /\ (asset_i') - 1 = asset_i - 1
    BY <1>1
  <2>2. /\ ret' = r /\ value' = value /\ asset' = asset /\ asset_i' = asset_i
        /\ (this_i') - 1 = this_i /\ (asset_i') - 1 = asset_i - 1
    BY <1>1, <1>7, <2>1
  <2>3. \A k \in 1..Len(ret') : /\ \E i \in 1..((this_i') - 1) : ret'[k] = value'[i]
                                /\ \A j \in 1..Len(asset') : ret'[k] # asset'[j]
    BY ONLY <1>14, <2>2, Zenon
  <2>4. \A i \in 1..((this_i') - 1) : \/ \E k \in 1..Len(ret') : ret'[k] = value'[i]
                                      \/ \E j \in 1..((asset_i') - 1) : value'[i] = asset'[j]
    BY ONLY <1>15, <2>2, Zenon
  <2>5. \A j \in 1..((asset_i') - 1) : \E i \in 1..((this_i') - 1) : asset'[j] = value'[i]
    BY ONLY <1>16, <2>2, Zenon
  <2>6. \A i \in 1..((this_i') - 1) : asset_i' <= Len(asset') => value'[i] < asset'[asset_i']
    BY ONLY <1>17, <2>2, Zenon
  <2>7. QED
    BY ONLY <1>10, <2>3, <2>4, <2>5, <2>6, Zenon DEF Reduced
<1>19. Merged' /\ Compared' /\ SetSemantics'
  BY <1>1 DEF Merged, Compared, SetSemantics
<1>20. QED
  BY <1>8, <1>9, <1>18, <1>19 DEF TokensInv

LEMMA SubRemoveKeeps == TokensInv /\ SubRemove => TokensInv'
<1> SUFFICES ASSUME TokensInv, SubRemove PROVE TokensInv'
  OBVIOUS
<1> USE Elements
<1>1. /\ pc = "sub" /\ this_i <= Len(value) /\ asset_i <= Len(asset)
      /\ value[this_i] = asset[asset_i]
      /\ this_i' = this_i + 1 /\ asset_i' = asset_i + 1
      /\ UNCHANGED <<value, before, asset, pc, last, outcome, ret, bigger, smaller>>
  BY DEF SubRemove, InThis, InAsset
<1>2. /\ TokensTypes /\ Running /\ Reduced
      /\ this_i \in 1..Len(value) /\ asset_i \in 1..Len(asset)
  BY <1>1 DEF TokensInv
<1>3. TokensTypes'
  BY <1>1, <1>2 DEF TokensTypes
<1>4. Running'
  BY <1>1, <1>2 DEF Running
<1>5. \A k \in 1..Len(ret) : ret[k] \in Int
  <2>1. \A k \in 1..Len(ret) : ret[k] \in IDs
    BY <1>2 DEF TokensTypes
  <2>2. QED
    BY <2>1, IDsAssumption
<1>6. Sorted'
  <2>1. ASSUME this_i + 1 <= Len(value), NEW k \in 1..Len(ret) PROVE ret[k] < value[this_i + 1]
    <3>1. this_i + 1 \in 1..Len(value) /\ value[this_i] < value[this_i + 1]
      BY <1>2, <2>1
    <3>2. ret[k] < value[this_i]
      BY <1>1, <1>2, <2>1 DEF Reduced, Sorted
    <3>3. QED
      BY <1>2, <1>5, <2>1, <3>1, <3>2
  <2>2. Increasing(ret)
    BY <1>1, <1>2 DEF Reduced, Sorted
  <2>3. QED
    BY <1>1, <2>1, <2>2 DEF Sorted
<1>7. \A i \in 1..this_i : i \in 1..(this_i - 1) \/ i = this_i
  OBVIOUS
<1>8. \A j \in 1..asset_i : j \in 1..(asset_i - 1) \/ j = asset_i
  OBVIOUS
<1>9. \A k \in 1..Len(ret) : /\ \E i \in 1..this_i : ret[k] = value[i]
                             /\ \A j \in 1..Len(asset) : ret[k] # asset[j]
  <2> TAKE k \in 1..Len(ret)
  <2>1. /\ \E i \in 1..(this_i - 1) : ret[k] = value[i]
        /\ \A j \in 1..Len(asset) : ret[k] # asset[j]
    BY <1>1, <1>2 DEF Reduced
  <2>2. \A i \in 1..(this_i - 1) : i \in 1..this_i
    OBVIOUS
  <2>3. QED
    BY <2>1, <2>2
<1>10. \A i \in 1..this_i : \/ \E k \in 1..Len(ret) : ret[k] = value[i]
                            \/ \E j \in 1..asset_i : value[i] = asset[j]
  <2> TAKE i \in 1..this_i
  <2>1. CASE i \in 1..(this_i - 1)
    <3>1. \/ \E k \in 1..Len(ret) : ret[k] = value[i]
          \/ \E j \in 1..(asset_i - 1) : value[i] = asset[j]
      BY <1>1, <1>2, <2>1 DEF Reduced
    <3>2. \A j \in 1..(asset_i - 1) : j \in 1..asset_i
      OBVIOUS
    <3>3. QED
      BY <3>1, <3>2
  <2>2. CASE i = this_i
    <3>1. asset_i \in 1..asset_i /\ value[i] = asset[asset_i]
      BY <1>1, <1>2, <2>2
    <3>2. QED
      BY <3>1
  <2>3. QED
    BY <1>7, <2>1, <2>2
<1>11. \A j \in 1..asset_i : \E i \in 1..this_i : asset[j] = value[i]
  <2> TAKE j \in 1..asset_i
  <2>1. CASE j \in 1..(asset_i - 1)
    <3>1. PICK i \in 1..(this_i - 1) : asset[j] = value[i]
      BY <1>1, <1>2, <2>1 DEF Reduced
    <3>2. i \in 1..this_i
      OBVIOUS
    <3>3. QED
      BY <3>1, <3>2
  <2>2. CASE j = asset_i
    <3>1. this_i \in 1..this_i /\ asset[j] = value[this_i]
      BY <1>1, <1>2, <2>2
    <3>2. QED
      BY <3>1
  <2>3. QED
    BY <1>8, <2>1, <2>2
<1>12. \A i \in 1..this_i : asset_i + 1 <= Len(asset) => value[i] < asset[asset_i + 1]
  <2> SUFFICES ASSUME NEW i \in 1..this_i, asset_i + 1 <= Len(asset)
               PROVE  value[i] < asset[asset_i + 1]
    OBVIOUS
  <2>1. asset_i + 1 \in 1..Len(asset) /\ asset[asset_i] < asset[asset_i + 1]
    BY <1>2
  <2>2. i \in 1..Len(value) /\ (value[i] < asset[asset_i] \/ value[i] = asset[asset_i])
    <3>1. CASE i \in 1..(this_i - 1)
      BY <1>1, <1>2, <3>1 DEF Reduced
    <3>2. CASE i = this_i
      BY <1>1, <1>2, <3>2
    <3>3. QED
      BY <1>7, <3>1, <3>2
  <2>3. QED
    BY <1>2, <2>1, <2>2
<1>13. Reduced'
  <2>1. (this_i') - 1 = this_i /\ (asset_i') - 1 = asset_i
    BY <1>1
  <2>2. /\ ret' = ret /\ value' = value /\ asset' = asset /\ asset_i' = asset_i + 1
        /\ (this_i') - 1 = this_i /\ (asset_i') - 1 = asset_i
    BY <1>1, <2>1
  <2>3. \A k \in 1..Len(ret') : /\ \E i \in 1..((this_i') - 1) : ret'[k] = value'[i]
                                /\ \A j \in 1..Len(asset') : ret'[k] # asset'[j]
    BY ONLY <1>9, <2>2, Zenon
  <2>4. \A i \in 1..((this_i') - 1) : \/ \E k \in 1..Len(ret') : ret'[k] = value'[i]
                                      \/ \E j \in 1..((asset_i') - 1) : value'[i] = asset'[j]
    BY ONLY <1>10, <2>2, Zenon
  <2>5. \A j \in 1..((asset_i') - 1) : \E i \in 1..((this_i') - 1) : asset'[j] = value'[i]
    BY ONLY <1>11, <2>2, Zenon
  <2>6. \A i \in 1..((this_i') - 1) : asset_i' <= Len(asset') => value'[i] < asset'[asset_i']
    BY ONLY <1>12, <2>2, Zenon
  <2>7. QED
    BY ONLY <1>6, <2>3, <2>4, <2>5, <2>6, Zenon DEF Reduced
<1>14. Merged' /\ Compared' /\ SetSemantics'
  BY <1>1 DEF Merged, Compared, SetSemantics
<1>15. QED
  BY <1>3, <1>4, <1>13, <1>14 DEF TokensInv

(* More ids to subtract than there are: one of them is absent.              *)
LEMMA SubTooManyKeeps == TokensInv /\ SubTooMany => TokensInv'
<1> SUFFICES ASSUME TokensInv, SubTooMany PROVE TokensInv'
  OBVIOUS
<1>1. /\ pc = "sub" /\ Len(asset) > Len(value)
      /\ pc' = "ready" /\ outcome' = "throws" /\ UNCHANGED <<value, before, asset, last, loop>>
  BY DEF SubTooMany, Raise, Finish
<1>2. /\ value \in Seq(IDs) /\ Increasing(value) /\ last = "sub" /\ value = before
      /\ asset \in Seq(IDs) /\ Increasing(asset)
  BY <1>1 DEF TokensInv, TokensTypes, Running
<1>3. ~(Range(asset) \subseteq Range(value))
  BY <1>1, <1>2, LongerHasMore
<1>4. SetSemantics'
  BY <1>1, <1>2, <1>3 DEF SetSemantics
<1>5. QED
  BY <1>1, <1>2, <1>4, EndKeeps

LEMMA SubAbsentKeeps == TokensInv /\ SubAbsent => TokensInv'
<1> SUFFICES ASSUME TokensInv, SubAbsent PROVE TokensInv'
  OBVIOUS
<1> USE Elements
<1>1. /\ pc = "sub" /\ asset_i <= Len(asset)
      /\ (this_i <= Len(value) => value[this_i] > asset[asset_i])
      /\ pc' = "ready" /\ outcome' = "throws" /\ UNCHANGED <<value, before, asset, last, loop>>
  BY DEF SubAbsent, InThis, InAsset, Raise, Finish
<1>2. /\ value \in Seq(IDs) /\ Increasing(value) /\ last = "sub" /\ value = before
      /\ asset \in Seq(IDs) /\ asset_i \in 1..Len(asset) /\ Reduced
  BY <1>1 DEF TokensInv, TokensTypes, Running
<1>3. \A i \in 1..Len(value) : value[i] # asset[asset_i]
  <2> TAKE i \in 1..Len(value)
  <2>1. CASE i \in 1..(this_i - 1)
    <3>1. value[i] < asset[asset_i]
      BY <1>1, <1>2, <2>1 DEF Reduced
    <3>2. QED
      BY <1>2, <3>1
  <2>2. CASE i >= this_i
    <3>1. this_i \in 1..Len(value) /\ value[this_i] > asset[asset_i]
      BY <1>1, <2>2
    <3>2. this_i = i \/ value[this_i] < value[i]
      BY <2>2, <3>1
    <3>3. QED
      BY <1>2, <3>1, <3>2
  <2>3. i \in 1..(this_i - 1) \/ i >= this_i
    OBVIOUS
  <2>4. QED
    BY <2>1, <2>2, <2>3
<1>4. asset[asset_i] \in Range(asset) /\ asset[asset_i] \notin Range(value)
  BY <1>2, <1>3, RangeBySeq
<1>5. SetSemantics'
  BY <1>1, <1>2, <1>4 DEF SetSemantics
<1>6. QED
  BY <1>1, <1>2, <1>5, EndKeeps

LEMMA SubReturnsKeeps == TokensInv /\ SubReturns => TokensInv'
<1> SUFFICES ASSUME TokensInv, SubReturns PROVE TokensInv'
  OBVIOUS
<1> USE Elements
<1>1. /\ pc = "sub" /\ ~(this_i <= Len(value)) /\ ~(asset_i <= Len(asset))
      /\ value' = ret
      /\ pc' = "ready" /\ outcome' = "ok" /\ UNCHANGED <<before, asset, last, loop>>
  BY DEF SubReturns, InThis, InAsset, Finish
<1>2. TokensTypes /\ Running /\ Reduced
  BY DEF TokensInv
<1>3. last = "sub" /\ value = before /\ this_i - 1 = Len(value) /\ asset_i - 1 = Len(asset)
  BY <1>1, <1>2 DEF Running
<1>4. /\ value \in Seq(IDs) /\ asset \in Seq(IDs) /\ ret \in Seq(IDs) /\ Increasing(ret)
  BY <1>1, <1>2 DEF TokensTypes, Reduced, Sorted
<1>5. /\ \A k \in 1..Len(ret) : /\ \E i \in 1..Len(value) : ret[k] = value[i]
                                /\ \A j \in 1..Len(asset) : ret[k] # asset[j]
      /\ \A i \in 1..Len(value) : \/ \E k \in 1..Len(ret) : ret[k] = value[i]
                                  \/ \E j \in 1..Len(asset) : value[i] = asset[j]
      /\ \A j \in 1..Len(asset) : \E i \in 1..Len(value) : asset[j] = value[i]
  <2>1. pc = "sub" /\ this_i - 1 = Len(value) /\ asset_i - 1 = Len(asset)
    BY <1>1, <1>3
  <2>2. QED
    BY ONLY <1>2, <2>1, Zenon DEF Reduced
<1>6. Range(ret) = Range(value) \ Range(asset)
  <2>1. ASSUME NEW x \in Range(ret) PROVE x \in Range(value) /\ x \notin Range(asset)
    <3>1. PICK k \in 1..Len(ret) : ret[k] = x
      BY <1>4, RangeBySeq
    <3>2. QED
      BY ZenonT(30), <1>4, <1>5, <3>1, RangeBySeq
  <2>2. ASSUME NEW x \in Range(value), x \notin Range(asset) PROVE x \in Range(ret)
    <3>1. PICK i \in 1..Len(value) : value[i] = x
      BY <1>4, RangeBySeq
    <3>2. QED
      BY ZenonT(30), <1>4, <1>5, <2>2, <3>1, RangeBySeq
  <2>3. QED
    BY <2>1, <2>2
<1>7. Range(asset) \subseteq Range(value)
  <2> SUFFICES ASSUME NEW x \in Range(asset) PROVE x \in Range(value)
    OBVIOUS
  <2>1. PICK j \in 1..Len(asset) : asset[j] = x
    BY <1>4, RangeBySeq
  <2>2. QED
    BY <1>4, <1>5, <2>1, RangeBySeq
<1>8. SetSemantics'
  BY <1>1, <1>3, <1>6, <1>7 DEF SetSemantics
<1>9. QED
  BY <1>1, <1>4, <1>8, EndKeeps
-----------------------------------------------------------------------------
(* Sets with sorted arrays of different lengths are different.              *)
LEMMA LengthsDiffer ==
  ASSUME TokensInv, Len(value) # Len(asset)
  PROVE  Range(value) # Range(asset)
<1>1. /\ value \in Seq(IDs) /\ Increasing(value) /\ asset \in Seq(IDs) /\ Increasing(asset)
  BY DEF TokensInv, TokensTypes
<1>2. Len(value) > Len(asset) \/ Len(asset) > Len(value)
  BY Elements
<1>3. QED
  BY <1>1, <1>2, LongerHasMore

(* The first ids that differ are each missing in the other set.             *)
LEMMA FirstDifference ==
  ASSUME TokensInv, NEW i \in 1..Len(value), i <= Len(asset), value[i] # asset[i],
         \A k \in 1..(i - 1) : value[k] = asset[k]
  PROVE  Range(value) # Range(asset)
<1> USE Elements
<1>1. value \in Seq(IDs) /\ asset \in Seq(IDs) /\ i \in 1..Len(asset)
  BY DEF TokensInv, TokensTypes
<1>2. CASE value[i] < asset[i]
  <2>1. \A j \in 1..Len(asset) : asset[j] # value[i]
    <3> TAKE j \in 1..Len(asset)
    <3>1. CASE j < i
      <4>1. j \in 1..(i - 1) /\ j \in 1..Len(value) /\ value[j] < value[i]
        BY <3>1
      <4>2. QED
        BY <4>1
    <3>2. CASE j >= i
      <4>1. j = i \/ asset[i] < asset[j]
        BY <1>1, <3>2
      <4>2. QED
        BY <1>1, <1>2, <4>1
    <3>3. QED
      BY <3>1, <3>2
  <2>2. value[i] \in Range(value) /\ value[i] \notin Range(asset)
    BY <1>1, <2>1, RangeBySeq
  <2>3. QED
    BY <2>2
<1>3. CASE asset[i] < value[i]
  <2>1. \A j \in 1..Len(value) : value[j] # asset[i]
    <3> TAKE j \in 1..Len(value)
    <3>1. CASE j < i
      <4>1. j \in 1..(i - 1) /\ j \in 1..Len(asset) /\ asset[j] < asset[i]
        BY <1>1, <3>1
      <4>2. QED
        BY <1>1, <4>1
    <3>2. CASE j >= i
      <4>1. j = i \/ value[i] < value[j]
        BY <3>2
      <4>2. QED
        BY <1>1, <1>3, <4>1
    <3>3. QED
      BY <3>1, <3>2
  <2>2. asset[i] \in Range(asset) /\ asset[i] \notin Range(value)
    BY <1>1, <2>1, RangeBySeq
  <2>3. QED
    BY <2>2
<1>4. QED
  BY <1>1, <1>2, <1>3

LEMMA CmpStepKeeps == TokensInv /\ CmpStep => TokensInv'
<1> SUFFICES ASSUME TokensInv, CmpStep PROVE TokensInv'
  OBVIOUS
<1> USE Elements
<1> DEFINE less == MinArray[this_i] < MaxArray[asset_i]
           more == MinArray[this_i] > MaxArray[asset_i]
<1>1. /\ pc = "cmp" /\ CmpLoops /\ CmpInside
      /\ bigger' = (bigger \/ less) /\ smaller' = (smaller \/ more)
      /\ this_i' = (IF more THEN this_i ELSE this_i + 1)
      /\ asset_i' = (IF less THEN asset_i ELSE asset_i + 1)
      /\ UNCHANGED <<value, before, asset, pc, last, outcome, ret>>
  BY DEF CmpStep
<1>2. TokensTypes /\ Running /\ Compared
  BY DEF TokensInv
<1>3. /\ this_i <= Len(value) /\ asset_i <= Len(asset)
      /\ this_i' \in {this_i, this_i + 1} /\ asset_i' \in {asset_i, asset_i + 1}
  BY <1>1, <1>2 DEF CmpLoops, Running
<1>4. bigger' \in BOOLEAN /\ smaller' \in BOOLEAN
  BY <1>1, Zenon
<1> HIDE DEF less, more
<1>5. TokensTypes'
  <2>1. this_i' \in Nat \ {0} /\ asset_i' \in Nat \ {0}
    BY <1>3
  <2>2. QED
    BY <1>1, <1>2, <1>4, <2>1 DEF TokensTypes
<1>6. Running'
  BY <1>1, <1>2, <1>3 DEF Running
<1>7. CASE bigger \/ smaller
  <2>1. Range(value) # Range(asset) /\ (bigger' \/ smaller')
    BY <1>1, <1>2, <1>7, Zenon DEF Compared
  <2>2. Compared'
    BY <1>1, <2>1 DEF Compared
  <2>3. QED
    BY <1>1, <1>5, <1>6, <2>2 DEF TokensInv, Merged, Reduced, SetSemantics
<1>8. CASE ~bigger /\ ~smaller
  <2>1. this_i = asset_i /\ \A k \in 1..(this_i - 1) : value[k] = asset[k]
    BY <1>1, <1>2, <1>8 DEF Compared
  <2>2. this_i \in 1..Len(value) /\ this_i \in 1..Len(asset)
    BY <1>3, <2>1
  <2>3. \/ MinArray = value /\ MaxArray = asset
        \/ MinArray = asset /\ MaxArray = value
    BY DEF MinArray, MaxArray
  <2>4. CASE value[this_i] = asset[this_i]
    <3>1. ~less /\ ~more
      BY <2>1, <2>2, <2>3, <2>4 DEF less, more
    <3>2. /\ ~bigger' /\ ~smaller'
          /\ this_i' = this_i + 1 /\ asset_i' = asset_i + 1
      BY <1>1, <1>8, <3>1
    <3>3. \A k \in 1..this_i : value[k] = asset[k]
      <4>1. \A k \in 1..this_i : k \in 1..(this_i - 1) \/ k = this_i
        OBVIOUS
      <4>2. QED
        BY <2>1, <2>4, <4>1
    <3>4. Compared'
      <4>1. (this_i') - 1 = this_i
        BY <3>2
      <4>2. QED
        BY <1>1, <2>1, <3>2, <3>3, <4>1 DEF Compared
    <3>5. QED
      BY <1>1, <1>5, <1>6, <3>4 DEF TokensInv, Merged, Reduced, SetSemantics
  <2>5. CASE value[this_i] # asset[this_i]
    <3>1. less \/ more
      BY <2>1, <2>2, <2>3, <2>5 DEF less, more
    <3>2. bigger' \/ smaller'
      BY <1>1, <3>1
    <3>3. Range(value) # Range(asset)
      BY <1>3, <2>1, <2>2, <2>5, FirstDifference
    <3>4. Compared'
      BY <1>1, <3>2, <3>3 DEF Compared
    <3>5. QED
      BY <1>1, <1>5, <1>6, <3>4 DEF TokensInv, Merged, Reduced, SetSemantics
  <2>6. QED
    BY <2>4, <2>5
<1>9. QED
  BY <1>7, <1>8

(* cmp() runs off the end only of an array of another length.               *)
LEMMA CmpTypeErrorKeeps == TokensInv /\ CmpTypeError => TokensInv'
<1> SUFFICES ASSUME TokensInv, CmpTypeError PROVE TokensInv'
  OBVIOUS
<1> USE Elements
<1>1. /\ pc = "cmp" /\ CmpLoops /\ ~CmpInside
      /\ pc' = "ready" /\ outcome' = "throws" /\ UNCHANGED <<value, before, asset, last, loop>>
  BY DEF CmpTypeError, Raise, Finish
<1>2. /\ value \in Seq(IDs) /\ Increasing(value) /\ last = "cmp" /\ value = before /\ Running
  BY <1>1 DEF TokensInv, TokensTypes, Running
<1>3. Len(value) # Len(asset)
  BY <1>1, <1>2 DEF CmpLoops, CmpInside, MinArray, MaxArray, Running
<1>4. Range(value) # Range(asset)
  BY <1>3, LengthsDiffer
<1>5. SetSemantics'
  BY <1>1, <1>2, <1>4 DEF SetSemantics
<1>6. QED
  BY <1>1, <1>2, <1>5, EndKeeps

LEMMA CmpReturnsKeeps == TokensInv /\ CmpReturns => TokensInv'
<1> SUFFICES ASSUME TokensInv, CmpReturns PROVE TokensInv'
  OBVIOUS
<1> USE Elements
<1>1. /\ pc = "cmp" /\ ~CmpLoops
      /\ pc' = "ready" /\ UNCHANGED <<value, before, asset, last, loop>>
      /\ (outcome' = "equal" <=> ~bigger /\ ~smaller /\ Len(value) = Len(asset))
  BY DEF CmpReturns, Finish
<1>2. /\ value \in Seq(IDs) /\ Increasing(value) /\ last = "cmp" /\ value = before
      /\ asset \in Seq(IDs) /\ Running /\ Compared
  BY <1>1 DEF TokensInv, TokensTypes, Running
<1>3. ASSUME ~bigger /\ ~smaller /\ Len(value) = Len(asset) PROVE Range(value) = Range(asset)
  <2>1. this_i = asset_i /\ \A k \in 1..(this_i - 1) : value[k] = asset[k]
    BY <1>1, <1>2, <1>3 DEF Compared
  <2>2. this_i - 1 = Len(value)
    BY <1>1, <1>2, <1>3, <2>1 DEF CmpLoops
  <2>3. \A k \in 1..Len(value) : value[k] = asset[k]
    BY ONLY <2>1, <2>2, Zenon
  <2>4. ASSUME NEW x \in Range(value) PROVE x \in Range(asset)
    <3>1. PICK k \in 1..Len(value) : value[k] = x
      BY <1>2, <2>4, RangeBySeq
    <3>2. QED
      BY <1>2, <1>3, <2>3, <3>1, RangeBySeq
  <2>5. ASSUME NEW x \in Range(asset) PROVE x \in Range(value)
    <3>1. PICK k \in 1..Len(asset) : asset[k] = x
      BY <1>2, <2>5, RangeBySeq
    <3>2. QED
      BY <1>2, <1>3, <2>3, <3>1, RangeBySeq
  <2>6. QED
    BY <2>4, <2>5, Zenon
<1>4. ASSUME bigger \/ smaller \/ Len(value) # Len(asset) PROVE Range(value) # Range(asset)
  BY <1>1, <1>2, <1>4, LengthsDiffer DEF Compared
<1>5. outcome' = "equal" <=> Range(value) = Range(asset)
  BY <1>1, <1>3, <1>4
<1>6. SetSemantics'
  BY <1>1, <1>2, <1>5 DEF SetSemantics
<1>7. QED
  BY <1>1, <1>2, <1>6, EndKeeps
-----------------------------------------------------------------------------
LEMMA TokensStepKeeps == TokensInv /\ [TokensNext]_tokens => TokensInv'
<1> SUFFICES ASSUME TokensInv, [TokensNext]_tokens PROVE TokensInv'
  OBVIOUS
<1>1. CASE New
  BY <1>1, NewKeeps
<1>2. CASE \E id \in IDs : AddID(id)
  BY <1>2, AddIDKeeps
<1>3. CASE \E op \in {"add", "sub", "cmp"} : Begin(op)
  BY <1>3, BeginKeeps
<1>4. CASE Add
  BY <1>4, AddThisKeeps, AddAssetKeeps, AddDuplicateKeeps, AddReturnsKeeps DEF Add
<1>5. CASE Sub
  BY <1>5, SubTooManyKeeps, SubKeepKeeps, SubRemoveKeeps, SubAbsentKeeps, SubReturnsKeeps DEF Sub
<1>6. CASE Cmp
  BY <1>6, CmpStepKeeps, CmpTypeErrorKeeps, CmpReturnsKeeps DEF Cmp
<1>7. CASE UNCHANGED tokens
  BY <1>7 DEF tokens, loop, TokensInv, TokensTypes, Running, Merged, Reduced, Sorted, Compared, SetSemantics
<1>8. QED
  BY <1>1, <1>2, <1>3, <1>4, <1>5, <1>6, <1>7 DEF TokensNext

(* What the loops of add(), sub() and cmp() have done so far is what the    *)
(* sets of the ids they have passed would have become.                      *)
THEOREM TokensInvariance == TokensSpec => []TokensInv
<1>1. QED
  BY TokensInitHolds, TokensStepKeeps, PTL DEF TokensSpec

(* However long the arrays and whatever the ids, the value stays sorted and *)
(* free of duplicates: what the operations rely on, they leave behind.      *)
THEOREM StaysSorted == TokensSpec => []TokensTypeOK
<1>1. TokensInv => TokensTypeOK
  BY DEF TokensInv, TokensTypes, TokensTypeOK
<1>2. QED
  BY <1>1, TokensInvariance, PTL

(* The loops of add(), sub() and cmp() compute union, difference and        *)
(* equality of sets, and throw exactly when the operands are not fit for it. *)
THEOREM LoopsAreSetOperations == TokensSpec => []SetSemantics
<1>1. TokensInv => SetSemantics
  BY DEF TokensInv
<1>2. QED
  BY <1>1, TokensInvariance, PTL

(* The loops end, of arrays of any length, that of cmp() too, whose          *)
(* condition is on the lengths of the arrays before it exchanged them: each  *)
(* round but the last leaves fewer ids to pass, and none passes an end.      *)
Left == (Len(value) + 1 - this_i) + (Len(asset) + 1 - asset_i)
LoopsRunDown ==
  pc # "ready" => \/ pc' = "ready"
                  \/ pc' = pc /\ Left \in Nat /\ Left' \in Nat /\ Left' < Left

THEOREM LoopsEnd == TokensSpec => [][LoopsRunDown]_tokens
<1>1. ASSUME TokensInv, TokensInv', [TokensNext]_tokens, pc # "ready"
      PROVE  [LoopsRunDown]_tokens
  <2>1. /\ this_i \in Nat /\ asset_i \in Nat /\ Len(value) \in Nat /\ Len(asset) \in Nat
        /\ this_i' \in Nat /\ asset_i' \in Nat
    BY <1>1 DEF TokensInv, TokensTypes
  <2>2. CASE pc' = "ready" \/ UNCHANGED tokens
    BY <2>2 DEF LoopsRunDown
  <2>3. CASE pc' # "ready" /\ ~UNCHANGED tokens
    <3>1. AddThis \/ AddAsset \/ SubKeep \/ SubRemove \/ CmpStep
      BY <1>1, <2>3 DEF TokensNext, New, AddID, Begin, Add, Sub, Cmp, AddDuplicate, AddReturns,
                        SubTooMany, SubAbsent, SubReturns, CmpTypeError, CmpReturns, Raise,
                        Finish
    <3>2. value' = value /\ asset' = asset /\ pc' = pc
      BY <3>1 DEF AddThis, AddAsset, SubKeep, SubRemove, CmpStep
    <3>3. /\ this_i' = this_i \/ this_i' = this_i + 1
          /\ asset_i' = asset_i \/ asset_i' = asset_i + 1
          /\ this_i' = this_i + 1 \/ asset_i' = asset_i + 1
      <4>1. CASE AddThis \/ AddAsset \/ SubKeep \/ SubRemove
        BY <4>1 DEF AddThis, AddAsset, SubKeep, SubRemove, PushThis, PushAsset
      <4>2. CASE CmpStep
        <5>1. MinArray \in Seq(IDs) /\ MaxArray \in Seq(IDs)
          BY <1>1 DEF TokensInv, TokensTypes, MinArray, MaxArray
        <5>2. this_i \in 1..Len(MinArray) /\ asset_i \in 1..Len(MaxArray)
          BY <1>1, <4>2, <5>1 DEF CmpStep, CmpInside, TokensInv, TokensTypes
        <5>3. MinArray[this_i] \in IDs /\ MaxArray[asset_i] \in IDs
          BY <5>1, <5>2
        <5> DEFINE x == MinArray[this_i]
                   y == MaxArray[asset_i]
        <5>4. x \in Int /\ y \in Int
          BY <5>3, IDsAssumption
        <5> HIDE DEF x, y
        <5>5. ~(x < y /\ x > y)
          BY <5>4
        <5>6. QED
          BY <4>2, <5>5 DEF CmpStep, x, y
      <4>3. QED
        BY <3>1, <4>1, <4>2
    <3>4. /\ this_i <= Len(value) + 1 /\ asset_i <= Len(asset) + 1
          /\ this_i' <= Len(value) + 1 /\ asset_i' <= Len(asset) + 1
      BY <1>1, <2>3, <3>2 DEF TokensInv, Running
    <3> DEFINE n == Len(value)
               m == Len(asset)
    <3>5. n \in Nat /\ m \in Nat
      BY <2>1
    <3>6. Left = (n + 1 - this_i) + (m + 1 - asset_i)
      BY DEF Left
    <3>7. Left' = (n + 1 - this_i') + (m + 1 - asset_i')
      BY <3>2 DEF Left
    <3>8. /\ this_i <= n + 1 /\ asset_i <= m + 1 /\ this_i' <= n + 1 /\ asset_i' <= m + 1
      BY <3>4
    <3> HIDE DEF n, m
    <3>9. Left \in Nat /\ Left' \in Nat /\ Left' < Left
      <4>1. CASE this_i' = this_i + 1 /\ asset_i' = asset_i
        BY <2>1, <3>5, <3>6, <3>7, <3>8, <4>1
      <4>2. CASE this_i' = this_i /\ asset_i' = asset_i + 1
        BY <2>1, <3>5, <3>6, <3>7, <3>8, <4>2
      <4>3. CASE this_i' = this_i + 1 /\ asset_i' = asset_i + 1
        BY <2>1, <3>5, <3>6, <3>7, <3>8, <4>3
      <4>4. QED
        BY <3>3, <4>1, <4>2, <4>3
    <3>10. QED
      BY <3>2, <3>9 DEF LoopsRunDown
  <2>4. QED
    BY <2>2, <2>3
<1>2. ASSUME pc = "ready" PROVE LoopsRunDown
  BY <1>2 DEF LoopsRunDown
<1>3. TokensInv /\ TokensInv' /\ [TokensNext]_tokens => [LoopsRunDown]_tokens
  BY <1>1, <1>2
<1>4. QED
  BY <1>3, TokensInvariance, PTL DEF TokensSpec
=============================================================================

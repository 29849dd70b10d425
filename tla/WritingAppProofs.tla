--------------------------- MODULE WritingAppProofs ---------------------------
(* For any number of calls and however they, the signer, the enclave and the *)
(* errors interleave: calls never share a nonce, one nonce query serves all  *)
(* who await it, what is sent undisturbed arrives in order, the session      *)
(* finds back to the enclave's nonce, and receipts find their calls.  And,   *)
(* the part of liveness that is safety: whoever has begun is where somebody  *)
(* looks for it, is told the truth, and is told once.                        *)
(*                                                                           *)
(* The invariant is built in layers, each kept by a step with the help of    *)
(* those before: Asking (the nonces, the line and the query), Owners (who is *)
(* on the way to the enclave), Course (with which nonces), Receipts, and     *)
(* Underway (where each call is).                                            *)
EXTENDS WritingApp, FiniteSetTheorems, SequenceTheorems, TLAPS

(* No caller is twice in a line.                                             *)
Once(cs) == \A i, j \in 1..Len(cs) : cs[i] = cs[j] => i = j

(* Who has a nonce of the current era has one below the next.                *)
Nonces ==
  /\ nonce \in Nat /\ resets \in Nat
  /\ stage \in [Calls -> Stages]
  /\ txnonce \in [Calls -> Nat] /\ era \in [Calls -> Nat]
  /\ \A c \in Calls : stage[c] = "idle" => txnonce[c] = 0
  /\ \A c \in Calls : era[c] <= resets
  /\ \A c \in Calls : txnonce[c] # 0 /\ era[c] = resets => txnonce[c] < nonce
  /\ DistinctNonces

(* Who waits has begun, and has no nonce.                                    *)
Line == /\ waiting \in Seq(Calls) /\ Once(waiting)
        /\ \A i \in 1..Len(waiting) : stage[waiting[i]] # "idle" /\ txnonce[waiting[i]] = 0

Channels == /\ toEnclave \in Seq(MessageTypes) /\ toApp \in Seq(ResultTypes)
            /\ account \in Nat

(* How many messages of s are of a type of T.                                *)
Places(s, T) == {i \in 1..Len(s) : s[i].type \in T}
Count(s, T) == Cardinality(Places(s, T))

(* The query that is pending is on its way to the enclave, or its answer on  *)
(* its way back.                                                             *)
OneQueryPending ==
  /\ query \in {"none", "pending", "rejected"}
  /\ waiting # <<>> => query = "pending"
  /\ Count(toEnclave, {"getAccount"}) + Count(toApp, {"account", "queryError"})
       = IF query = "pending" THEN 1 ELSE 0

(* How nonces are asked for and given out.                                   *)
Asking == Nonces /\ Line /\ Channels /\ OneQueryPending
-------------------------------------------------------------------------------
LEMMA FinitePlaces ==
  ASSUME NEW S, NEW s \in Seq(S), NEW T
  PROVE  IsFiniteSet(Places(s, T)) /\ Count(s, T) \in Nat
<1>1. 1 \in Int /\ Len(s) \in Int
  OBVIOUS
<1>2. IsFiniteSet(1..Len(s))
  BY ONLY <1>1, FS_Interval, Zenon
<1>3. Places(s, T) \in SUBSET (1..Len(s))
  BY DEF Places
<1>4. QED
  BY <1>2, <1>3, FS_Subset, FS_CardinalityType DEF Count

LEMMA CountEmpty == \A T : Count(<<>>, T) = 0
<1>1. \A T : Places(<<>>, T) = {}
  BY DEF Places
<1>2. QED
  BY <1>1, FS_EmptySet DEF Count

LEMMA CountAppend ==
  ASSUME NEW S, NEW s \in Seq(S), NEW x \in S, NEW T
  PROVE  Count(Append(s, x), T) = Count(s, T) + (IF x.type \in T THEN 1 ELSE 0)
<1> DEFINE t == Append(s, x)
           n == Len(s) + 1
<1>1. /\ Len(s) \in Nat /\ Len(t) = n
      /\ \A i \in 1..Len(s) : t[i] = s[i]
      /\ t[n] = x /\ 1..n = (1..Len(s)) \union {n} /\ n \notin 1..Len(s)
  OBVIOUS
<1> HIDE DEF t, n
<1>2. Places(t, T) = Places(s, T) \union (IF x.type \in T THEN {n} ELSE {})
  BY <1>1 DEF Places
<1>3. n \notin Places(s, T) /\ IsFiniteSet(Places(s, T)) /\ Count(s, T) \in Nat
  BY <1>1, FinitePlaces DEF Places
<1>4. CASE x.type \in T
  <2>1. Places(t, T) = Places(s, T) \union {n}
    BY <1>2, <1>4
  <2>2. Cardinality(Places(t, T)) = Cardinality(Places(s, T)) + 1
    BY <1>3, <2>1, FS_AddElement
  <2>3. QED
    BY <1>4, <2>2 DEF Count, t
<1>5. CASE x.type \notin T
  BY <1>2, <1>3, <1>5 DEF Count, t
<1>6. QED
  BY <1>4, <1>5

LEMMA CountTail ==
  ASSUME NEW S, NEW s \in Seq(S), s # <<>>, NEW T
  PROVE  /\ Tail(s) \in Seq(S)
         /\ Count(s, T) = Count(Tail(s), T) + (IF Head(s).type \in T THEN 1 ELSE 0)
<1> DEFINE t == Tail(s)
           f == [i \in Places(t, T) |-> i + 1]
<1>1. /\ t \in Seq(S) /\ Len(s) \in Nat \ {0} /\ Len(t) = Len(s) - 1
      /\ Head(s) = s[1]
      /\ \A i \in 1..Len(t) : t[i] = s[i + 1]
  OBVIOUS
<1> HIDE DEF t
<1>2. IsFiniteSet(Places(s, T)) /\ IsFiniteSet(Places(t, T)) /\ Count(s, T) \in Nat
      /\ Count(t, T) \in Nat
  BY <1>1, FinitePlaces
<1>3. \A i \in Places(t, T) : i \in Nat /\ i + 1 \in Places(s, T) \ {1}
  BY <1>1 DEF Places
<1>4. ASSUME NEW j \in Places(s, T) \ {1} PROVE j - 1 \in Places(t, T) /\ (j - 1) + 1 = j
  <2>1. j \in 1..Len(s) /\ j # 1 /\ s[j].type \in T
    BY DEF Places
  <2>2. j - 1 \in 1..Len(t) /\ (j - 1) + 1 = j
    BY <1>1, <2>1
  <2>3. t[j - 1] = s[j]
    BY <1>1, <2>2
  <2>4. QED
    BY <2>1, <2>2, <2>3 DEF Places
<1>5. f \in Bijection(Places(t, T), Places(s, T) \ {1})
  <2>1. f \in [Places(t, T) -> Places(s, T) \ {1}]
    BY <1>3
  <2>2. \A i, j \in Places(t, T) : f[i] = f[j] => i = j
    BY <1>3
  <2>3. \A j \in Places(s, T) \ {1} : \E i \in Places(t, T) : f[i] = j
    BY <1>4
  <2> HIDE DEF f
  <2>4. QED
    BY <2>1, <2>2, <2>3 DEF Bijection, Injection, Surjection, IsInjective
<1>6. Cardinality(Places(s, T) \ {1}) = Count(t, T)
  BY <1>2, <1>5, FS_Bijection DEF ExistsBijection, Count
<1>7. 1 \in Places(s, T) <=> Head(s).type \in T
  BY <1>1 DEF Places
<1>8. Count(s, T) = Count(t, T) + (IF Head(s).type \in T THEN 1 ELSE 0)
  <2>1. Cardinality(Places(s, T) \ {1}) =
          IF 1 \in Places(s, T) THEN Count(s, T) - 1 ELSE Count(s, T)
    BY <1>2, FS_RemoveElement DEF Count
  <2>2. QED
    BY <1>2, <1>6, <1>7, <2>1
<1>9. QED
  BY <1>1, <1>8 DEF t
-------------------------------------------------------------------------------
(* The callers cs take nonces that nobody of this era has.                   *)
LEMMA TakeKeeps ==
  ASSUME Nonces, NEW cs \in Seq(Calls), Once(cs),
         \A i \in 1..Len(cs) : txnonce[cs[i]] = 0,
         NEW n \in Nat \ {0}, n >= nonce, TakeNonces(cs, n), resets' = resets
  PROVE  Nonces'
<1> DEFINE taken == {cs[i] : i \in DOMAIN cs}
           rank(c) == CHOOSE i \in DOMAIN cs : cs[i] = c
<1>1. /\ nonce' = n + Len(cs)
      /\ txnonce' = [c \in Calls |-> IF c \in taken THEN n + rank(c) - 1 ELSE txnonce[c]]
      /\ era' = [c \in Calls |-> IF c \in taken THEN resets ELSE era[c]]
      /\ stage' = [c \in Calls |-> IF c \in taken THEN "signing" ELSE stage[c]]
  BY DEF TakeNonces
<1>2. DOMAIN cs = 1..Len(cs) /\ Len(cs) \in Nat
  OBVIOUS
<1>3. ASSUME NEW c \in taken
      PROVE  rank(c) \in 1..Len(cs) /\ cs[rank(c)] = c /\ txnonce[c] = 0
  <2>1. \E i \in DOMAIN cs : cs[i] = c
    OBVIOUS
  <2>2. rank(c) \in DOMAIN cs /\ cs[rank(c)] = c
    BY <2>1
  <2> HIDE DEF rank
  <2>3. QED
    BY <1>2, <2>2
<1> HIDE DEF taken, rank
<1>4. /\ nonce \in Nat /\ resets \in Nat
      /\ txnonce \in [Calls -> Nat] /\ era \in [Calls -> Nat]
      /\ stage \in [Calls -> Stages]
  BY DEF Nonces
<1>5. ASSUME NEW c \in Calls, c \in taken
      PROVE  /\ txnonce'[c] = n + rank(c) - 1 /\ txnonce'[c] \in Nat
             /\ txnonce'[c] >= n /\ txnonce'[c] < nonce'
             /\ era'[c] = resets /\ stage'[c] = "signing"
  BY <1>1, <1>2, <1>3, <1>5
<1>6. ASSUME NEW c \in Calls, c \notin taken
      PROVE  txnonce'[c] = txnonce[c] /\ era'[c] = era[c] /\ stage'[c] = stage[c]
  BY <1>1, <1>6
<1>7. /\ nonce' \in Nat /\ resets' \in Nat /\ nonce' >= nonce
      /\ stage' \in [Calls -> Stages]
      /\ txnonce' \in [Calls -> Nat] /\ era' \in [Calls -> Nat]
  <2>1. nonce' \in Nat /\ resets' \in Nat /\ nonce' >= nonce
    BY <1>1, <1>2, <1>4
  <2>2. stage' \in [Calls -> Stages]
    BY <1>1, <1>4 DEF Stages
  <2>3. \A c \in Calls : txnonce'[c] \in Nat
    BY <1>4, <1>5, <1>6
  <2>4. txnonce' \in [Calls -> Nat]
    BY <1>1, <2>3
  <2>5. era' \in [Calls -> Nat]
    BY <1>1, <1>4
  <2>6. QED
    BY <2>1, <2>2, <2>4, <2>5
<1>8. \A c \in Calls : /\ stage'[c] = "idle" => txnonce'[c] = 0
                       /\ era'[c] <= resets'
  <2>1. TAKE c \in Calls
  <2>2. CASE c \in taken
    BY <1>4, <1>5, <2>2
  <2>3. CASE c \notin taken
    BY <1>4, <1>6, <2>3 DEF Nonces
  <2>4. QED
    BY <2>2, <2>3
<1>9. ASSUME NEW c \in Calls, txnonce'[c] # 0, era'[c] = resets'
      PROVE  txnonce'[c] < nonce'
  <2>1. CASE c \in taken
    BY <1>5, <2>1
  <2>2. CASE c \notin taken
    <3>1. txnonce[c] < nonce
      BY <1>6, <1>9, <2>2 DEF Nonces
    <3>2. QED
      BY <1>4, <1>6, <1>7, <2>2, <3>1
  <2>3. QED
    BY <2>1, <2>2
<1>10. ASSUME NEW c \in Calls, NEW d \in Calls, c # d, txnonce'[c] # 0, era'[c] = era'[d]
       PROVE  txnonce'[c] # txnonce'[d]
  <2>1. CASE c \in taken /\ d \in taken
    <3>1. rank(c) # rank(d)
      BY <1>3, <1>10, <2>1
    <3>2. QED
      BY <1>2, <1>3, <1>5, <2>1, <3>1
  <2>2. CASE c \in taken /\ d \notin taken
    <3>1. era[d] = resets /\ txnonce'[c] >= n
      BY <1>5, <1>6, <1>10, <2>2
    <3>2. txnonce[d] = 0 \/ txnonce[d] < nonce
      BY <3>1 DEF Nonces
    <3>3. QED
      BY <1>4, <1>5, <1>6, <2>2, <3>1, <3>2
  <2>3. CASE c \notin taken /\ d \in taken
    <3>1. era[c] = resets /\ txnonce[c] # 0
      BY <1>5, <1>6, <1>10, <2>3
    <3>2. txnonce[c] < nonce
      BY <3>1 DEF Nonces
    <3>3. QED
      BY <1>4, <1>5, <1>6, <2>3, <3>2
  <2>4. CASE c \notin taken /\ d \notin taken
    BY <1>6, <1>10, <2>4 DEF Nonces, DistinctNonces
  <2>5. QED
    BY <2>1, <2>2, <2>3, <2>4
<1>11. QED
  BY <1>7, <1>8, <1>9, <1>10 DEF Nonces, DistinctNonces

(* A call moves on without a nonce, or with the one it has.                  *)
LEMMA MoveKeeps ==
  ASSUME Nonces, NEW c \in Calls, NEW s \in Stages, stage' = [stage EXCEPT ![c] = s],
         s # "idle", UNCHANGED <<nonce, txnonce, era, resets>>
  PROVE  Nonces'
BY DEF Nonces, DistinctNonces

(* A reset begins an era in which nobody has a nonce.                        *)
LEMMA ResetKeeps ==
  ASSUME Nonces, ResetNonce, UNCHANGED <<txnonce, era>>, stage' \in [Calls -> Stages],
         \A c \in Calls : stage'[c] = "idle" => stage[c] = "idle"
  PROVE  Nonces'
<1>1. nonce' = 0 /\ resets' = resets + 1 /\ resets \in Nat
  BY DEF ResetNonce, Nonces
<1>2. \A c \in Calls : era[c] \in Nat /\ era[c] <= resets
  BY DEF Nonces
<1>3. \A c \in Calls : era'[c] <= resets' /\ era'[c] # resets'
  BY <1>1, <1>2
<1>4. DistinctNonces'
  BY DEF Nonces, DistinctNonces
<1>5. QED
  BY <1>1, <1>3, <1>4 DEF Nonces

LEMMA SameNonces ==
  Nonces /\ UNCHANGED <<nonce, stage, txnonce, era, resets>> => Nonces'
  BY DEF Nonces, DistinctNonces

LEMMA InitNonces == Init => Nonces /\ Line
  BY DEF Init, Nonces, Line, Once, Stages, DistinctNonces

LEMMA LineMoves ==
  ASSUME Nonces, Line, NEW c \in Calls, NEW s, s # "idle", stage' = [stage EXCEPT ![c] = s],
         UNCHANGED <<waiting, txnonce>>
  PROVE  Line'
BY DEF Line, Nonces

LEMMA SameLine == Line /\ UNCHANGED <<waiting, stage, txnonce>> => Line'
  BY DEF Line

LEMMA NobodyInLine == waiting' = <<>> => Line'
  BY DEF Line, Once

(* A call begins: it takes the nonce, gets in line, or fails.                *)
LEMMA BeginKeeps ==
  ASSUME Asking, NEW c \in Calls, Begin(c)
  PROVE  Nonces' /\ Line'
<1>1. Nonces /\ Line /\ nonce \in Nat /\ stage[c] = "idle" /\ txnonce[c] = 0
  BY DEF Asking, Nonces, Begin
<1>2. resets' = resets
  BY DEF Begin
<1>3. CASE nonce # 0
  <2> DEFINE cs == <<c>>
  <2>1. TakeNonces(cs, nonce) /\ waiting' = waiting
    BY <1>1, <1>3 DEF Begin, local
  <2>2. cs \in Seq(Calls) /\ Len(cs) = 1 /\ cs[1] = c /\ DOMAIN cs = {1}
    OBVIOUS
  <2> HIDE DEF cs
  <2>3. Once(cs) /\ \A i \in 1..Len(cs) : txnonce[cs[i]] = 0
    BY <1>1, <2>2 DEF Once
  <2>4. nonce \in Nat \ {0} /\ nonce >= nonce
    BY <1>1, <1>3
  <2>5. Nonces'
    BY ONLY <1>1, <1>2, <2>1, <2>2, <2>3, <2>4, TakeKeeps
  <2>6. {cs[i] : i \in DOMAIN cs} = {c}
    BY <2>2
  <2>7. \A d \in Calls : d # c => stage'[d] = stage[d] /\ txnonce'[d] = txnonce[d]
    BY <2>1, <2>6 DEF TakeNonces
  <2>8. \A i \in 1..Len(waiting) : waiting[i] \in Calls /\ waiting[i] # c
    BY <1>1 DEF Line
  <2>9. Line'
    BY <1>1, <2>1, <2>7, <2>8 DEF Line
  <2>10. QED
    BY <2>5, <2>9
<1>4. CASE nonce = 0 /\ query # "rejected"
  <2>1. /\ waiting' = Append(waiting, c) /\ stage' = [stage EXCEPT ![c] = "waiting"]
        /\ UNCHANGED <<nonce, txnonce, era>>
    BY <1>4 DEF Begin
  <2>2. Nonces'
    <3>1. "waiting" \in Stages
      BY DEF Stages
    <3>2. UNCHANGED <<nonce, txnonce, era, resets>>
      BY <1>2, <2>1
    <3>3. "waiting" # "idle"
      OBVIOUS
    <3>4. QED
      BY ONLY <1>1, <2>1, <3>1, <3>2, <3>3, MoveKeeps
  <2>3. /\ Len(waiting) \in Nat /\ waiting' \in Seq(Calls) /\ Len(waiting') = Len(waiting) + 1
        /\ \A i \in 1..Len(waiting) : waiting'[i] = waiting[i]
        /\ waiting'[Len(waiting) + 1] = c
        /\ \A i \in 1..(Len(waiting) + 1) : i \in 1..Len(waiting) \/ i = Len(waiting) + 1
    BY <1>1, <2>1 DEF Line
  <2>4. \A i \in 1..Len(waiting) : waiting[i] \in Calls /\ waiting[i] # c
    BY <1>1 DEF Line
  <2>5. stage'[c] = "waiting" /\ \A d \in Calls : d # c => stage'[d] = stage[d]
    BY <1>1, <2>1 DEF Nonces
  <2>6. Once(waiting')
    BY <1>1, <2>3, <2>4 DEF Line, Once
  <2>7. \A i \in 1..Len(waiting') : stage'[waiting'[i]] # "idle" /\ txnonce'[waiting'[i]] = 0
    BY <1>1, <2>1, <2>3, <2>4, <2>5 DEF Line
  <2>8. QED
    BY <2>2, <2>3, <2>6, <2>7 DEF Line
<1>5. CASE nonce = 0 /\ query = "rejected"
  <2>1. stage' = [stage EXCEPT ![c] = "failed"] /\ UNCHANGED <<nonce, waiting, txnonce, era>>
    BY <1>5 DEF Begin, local
  <2>2. QED
    BY <1>1, <1>2, <2>1, MoveKeeps, LineMoves DEF Stages
<1>6. QED
  BY <1>3, <1>4, <1>5

(* The account arrives, and everybody in line takes a nonce.                 *)
LEMMA QueryAnsweredKeeps ==
  Asking /\ QueryAnswered => Nonces' /\ Line'
<1> SUFFICES ASSUME Asking, QueryAnswered PROVE Nonces' /\ Line'
  OBVIOUS
<1> DEFINE n == IF nonce = 0 THEN Head(toApp).nonce + 1 ELSE nonce
<1>1. /\ Nonces /\ Line /\ toApp # <<>> /\ toApp \in Seq(ResultTypes)
      /\ nonce \in Nat
  BY DEF Asking, Nonces, Channels, QueryAnswered, IsNextResult
<1>2. Head(toApp) \in ResultTypes
  BY <1>1
<1>3. n \in Nat \ {0} /\ n >= nonce
  BY <1>1, <1>2 DEF ResultTypes
<1>4. TakeNonces(waiting, n) /\ resets' = resets /\ waiting' = <<>>
  BY DEF QueryAnswered
<1> HIDE DEF n
<1>5. /\ waiting \in Seq(Calls) /\ Once(waiting)
      /\ \A i \in 1..Len(waiting) : txnonce[waiting[i]] = 0
  BY <1>1 DEF Line
<1>6. QED
  BY <1>1, <1>3, <1>4, <1>5, TakeKeeps, NobodyInLine

LEMMA StepKeepsNonces == Asking /\ [Next]_vars => Nonces' /\ Line'
<1> SUFFICES ASSUME Asking, [Next]_vars PROVE Nonces' /\ Line'
  OBVIOUS
<1> USE DEF local
<1>1. Nonces /\ Line
  BY DEF Asking
<1>2. ASSUME UNCHANGED <<nonce, waiting, stage, txnonce, era, resets>> PROVE Nonces' /\ Line'
  BY <1>1, <1>2, SameNonces, SameLine
<1>3. ASSUME NEW c \in Calls, NEW s \in Stages \ {"idle"}, stage' = [stage EXCEPT ![c] = s],
             UNCHANGED <<nonce, waiting, txnonce, era, resets>>
      PROVE  Nonces' /\ Line'
  BY <1>1, <1>3, MoveKeeps, LineMoves
<1>4. ASSUME NEW c \in Calls, Begin(c) PROVE Nonces' /\ Line'
  BY <1>4, BeginKeeps
<1>5. ASSUME NEW c \in Calls, SignerStep(c) PROVE Nonces' /\ Line'
  BY <1>3, <1>5 DEF SignerStep, Signed, SignerRefused, Stages
<1>6. CASE UpdateNonce
  BY <1>2, <1>6 DEF UpdateNonce
<1>7. CASE EnclaveStep
  BY <1>2, <1>7 DEF EnclaveStep, EnclaveAnswersQuery, EnclaveServesTx
<1>8. CASE QueryAnswered
  BY <1>8, QueryAnsweredKeeps
<1>9. CASE QueryFailed
  <2>1. /\ ResetNonce /\ waiting' = <<>> /\ UNCHANGED <<txnonce, era>>
        /\ stage' = [c \in Calls |-> IF stage[c] = "waiting" THEN "failed" ELSE stage[c]]
    BY <1>9 DEF QueryFailed
  <2>2. /\ stage' \in [Calls -> Stages]
        /\ \A c \in Calls : stage'[c] = "idle" => stage[c] = "idle"
    BY <1>1, <2>1 DEF Nonces, Stages
  <2>3. QED
    BY <1>1, <2>1, <2>2, ResetKeeps, NobodyInLine
<1>10. ASSUME NEW c \in Calls, Accepted(c) PROVE Nonces' /\ Line'
  BY <1>3, <1>10 DEF Accepted, Stages
<1>11. ASSUME NEW c \in Calls, Rejected(c) PROVE Nonces' /\ Line'
  <2>1. /\ ResetNonce /\ stage' = [stage EXCEPT ![c] = "rejected"]
        /\ UNCHANGED <<waiting, txnonce, era>>
    BY <1>11 DEF Rejected
  <2>2. /\ stage' \in [Calls -> Stages]
        /\ \A d \in Calls : stage'[d] = "idle" => stage[d] = "idle"
    BY <1>1, <2>1 DEF Nonces, Stages
  <2>3. QED
    BY <1>1, <2>1, <2>2, ResetKeeps, LineMoves
<1>12. CASE ErrorEvent
  BY <1>1, <1>12, ResetKeeps, SameLine DEF ErrorEvent, Nonces
<1>13. ASSUME NEW h \in receipts, ReceiptEvent(h) PROVE Nonces' /\ Line'
  BY <1>2, <1>13 DEF ReceiptEvent
<1>14. CASE UNCHANGED vars
  BY <1>2, <1>14 DEF vars
<1>15. QED
  BY <1>4, <1>5, <1>6, <1>7, <1>8, <1>9, <1>10, <1>11, <1>12, <1>13, <1>14
     DEF Next, Delivery
-------------------------------------------------------------------------------
(* The query and its answer.                                                 *)
LEMMA MessageKinds ==
  ASSUME NEW c \in Calls
  PROVE  Tx(c) \in MessageTypes /\ Tx(c).type = "tx"
BY DEF Tx, MessageTypes

LEMMA ResultKinds ==
  ASSUME NEW t \in {"account", "queryError", "accepted", "error"},
         NEW c \in Calls \union {NoCall}, NEW n \in Nat
  PROVE  Result(t, c, n) \in ResultTypes /\ Result(t, c, n).type = t
BY DEF Result, ResultTypes

LEMMA QueryKind == GetAccount \in MessageTypes /\ GetAccount.type = "getAccount"
  BY DEF GetAccount, MessageTypes

Queries == Count(toEnclave, {"getAccount"})
Answers == Count(toApp, {"account", "queryError"})

LEMMA Counted == Channels => Queries \in Nat /\ Answers \in Nat
  BY FinitePlaces DEF Channels, Queries, Answers

LEMMA SameChannels ==
  Channels /\ OneQueryPending /\ UNCHANGED <<toEnclave, toApp, account, query, waiting>>
    => Channels' /\ OneQueryPending'
  BY DEF Channels, OneQueryPending, Count, Places

(* updateNonce(): a query is sent if there is none.                          *)
LEMMA AskKeeps ==
  ASSUME Channels, OneQueryPending, AskUnlessAsked, UNCHANGED <<toApp, account>>,
         waiting' # <<>> => waiting # <<>> \/ query # "rejected"
  PROVE  Channels' /\ OneQueryPending'
<1>1. CASE query = "none"
  <2>1. query' = "pending" /\ toEnclave' = Append(toEnclave, GetAccount)
    BY <1>1 DEF AskUnlessAsked
  <2>2. Queries' = Queries + 1 /\ Answers' = Answers
    BY <2>1, QueryKind, CountAppend DEF Channels, Queries, Answers
  <2>3. Channels'
    BY <2>1, QueryKind DEF Channels
  <2>4. QED
    BY <1>1, <2>1, <2>2, <2>3, Counted DEF OneQueryPending, Queries, Answers
<1>2. CASE query # "none"
  BY <1>2 DEF AskUnlessAsked, Channels, OneQueryPending, Count, Places
<1>3. QED
  BY <1>1, <1>2

(* A transaction is sent, which is no query.                                 *)
LEMMA SendKeeps ==
  ASSUME Channels, OneQueryPending, NEW c \in Calls,
         toEnclave' = Append(toEnclave, Tx(c)), UNCHANGED <<toApp, account, query, waiting>>
  PROVE  Channels' /\ OneQueryPending'
<1>1. Channels'
  BY MessageKinds DEF Channels
<1>2. Queries' = Queries /\ Answers' = Answers
  BY MessageKinds, CountAppend, Counted DEF Channels, Queries, Answers
<1>3. QED
  BY <1>1, <1>2 DEF OneQueryPending, Queries, Answers

(* The enclave serves the first message m, with a result r of the same sort. *)
LEMMA ServeKeeps ==
  ASSUME Channels, OneQueryPending, toEnclave # <<>>, toEnclave' = Tail(toEnclave),
         NEW r \in ResultTypes, toApp' = Append(toApp, r), account' \in Nat,
         Head(toEnclave).type = "getAccount" <=> r.type \in {"account", "queryError"},
         UNCHANGED <<query, waiting>>
  PROVE  Channels' /\ OneQueryPending'
<1>1. toEnclave \in Seq(MessageTypes) /\ toApp \in Seq(ResultTypes)
  BY DEF Channels
<1>2. /\ toEnclave' \in Seq(MessageTypes)
      /\ Queries = Queries' + (IF Head(toEnclave).type \in {"getAccount"} THEN 1 ELSE 0)
  BY <1>1, CountTail DEF Queries
<1>3. /\ toApp' \in Seq(ResultTypes)
      /\ Answers' = Answers + (IF r.type \in {"account", "queryError"} THEN 1 ELSE 0)
  BY <1>1, CountAppend DEF Answers
<1>4. Channels'
  BY <1>2, <1>3 DEF Channels
<1>5. /\ Queries \in Nat /\ Answers \in Nat /\ Queries' \in Nat /\ Answers' \in Nat
  <2>1. Queries \in Nat /\ Answers \in Nat
    BY Counted
  <2>2. Queries' \in Nat /\ Answers' \in Nat
    BY <1>2, <1>3, FinitePlaces DEF Queries, Answers
  <2>3. QED
    BY <2>1, <2>2
<1>6. Queries' + Answers' = Queries + Answers
  BY <1>2, <1>3, <1>5
<1>7. QED
  BY <1>4, <1>6 DEF OneQueryPending, Queries, Answers

LEMMA LastAnswer ==
  ASSUME NEW q \in Nat, NEW a \in Nat, NEW b \in Nat, a = b + 1, q + a <= 1
  PROVE  q + b = 0
OBVIOUS

LEMMA PlusNothing == ASSUME NEW a \in Nat, NEW b \in Nat, a = b + 0 PROVE b = a
OBVIOUS

(* A result arrives.                                                         *)
LEMMA ArriveKeeps ==
  ASSUME Channels, OneQueryPending, toApp # <<>>, toApp' = Tail(toApp),
         UNCHANGED <<toEnclave, account>>,
         \/ /\ Head(toApp).type \in {"account", "queryError"}
            /\ query' \in {"none", "rejected"} /\ waiting' = <<>>
         \/ /\ Head(toApp).type \notin {"account", "queryError"}
            /\ UNCHANGED <<query, waiting>>
  PROVE  Channels' /\ OneQueryPending'
<1>1. toEnclave \in Seq(MessageTypes) /\ toApp \in Seq(ResultTypes)
  BY DEF Channels
<1>2. /\ toApp' \in Seq(ResultTypes)
      /\ Answers = Answers' + (IF Head(toApp).type \in {"account", "queryError"} THEN 1 ELSE 0)
  BY <1>1, CountTail DEF Answers
<1>3. Channels' /\ Queries' = Queries
  BY <1>2 DEF Channels, Queries
<1>4. Queries \in Nat /\ Answers \in Nat /\ Answers' \in Nat
  BY <1>2, Counted, FinitePlaces DEF Answers
<1>5. CASE Head(toApp).type \in {"account", "queryError"}
  <2>1. query' \in {"none", "rejected"} /\ waiting' = <<>>
    BY <1>5
  <2>2. Answers = Answers' + 1
    BY <1>2, <1>5
  <2>3. Queries + Answers <= 1
    BY <1>4 DEF OneQueryPending, Queries, Answers
  <2>4. Queries + Answers' = 0
    BY ONLY <1>4, <2>2, <2>3, LastAnswer, Zenon
  <2>5. Queries' + Answers' = 0
    BY ONLY <1>3, <2>4, Zenon
  <2>6. QED
    BY <1>3, <2>1, <2>5 DEF OneQueryPending, Queries, Answers
<1>6. CASE Head(toApp).type \notin {"account", "queryError"}
  <2>1. query' = query /\ waiting' = waiting
    BY <1>6, Zenon
  <2>2. Answers' = Answers
    <3>1. Answers = Answers' + 0
      BY <1>2, <1>6, Zenon
    <3>2. QED
      BY ONLY <1>4, <3>1, PlusNothing, Zenon
  <2>3. QED
    BY <1>3, <2>1, <2>2 DEF OneQueryPending, Queries, Answers
<1>7. QED
  BY <1>5, <1>6

LEMMA StepKeepsChannels == Asking /\ [Next]_vars => Channels' /\ OneQueryPending'
<1> SUFFICES ASSUME Asking, [Next]_vars PROVE Channels' /\ OneQueryPending'
  OBVIOUS
<1> USE DEF local, enclave
<1>1. Channels /\ OneQueryPending /\ account \in Nat
  BY DEF Asking, Channels
<1>2. ASSUME UNCHANGED <<toEnclave, toApp, account, query, waiting>>
      PROVE  Channels' /\ OneQueryPending'
  BY <1>1, <1>2, SameChannels
<1>3. ASSUME NEW c \in Calls, Begin(c) PROVE Channels' /\ OneQueryPending'
  <2>1. CASE nonce = 0 /\ query # "rejected"
    <3>1. AskUnlessAsked /\ UNCHANGED <<toApp, account>>
      BY <1>3, <2>1 DEF Begin
    <3>2. QED
      BY <1>1, <2>1, <3>1, AskKeeps
  <2>2. CASE ~(nonce = 0 /\ query # "rejected")
    BY <1>2, <1>3, <2>2 DEF Begin
  <2>3. QED
    BY <2>1, <2>2
<1>4. ASSUME NEW c \in Calls, SignerStep(c) PROVE Channels' /\ OneQueryPending'
  <2>1. CASE Signed(c)
    BY <1>1, <2>1, SendKeeps DEF Signed
  <2>2. CASE SignerRefused(c)
    BY <1>2, <2>2 DEF SignerRefused
  <2>3. QED
    BY <1>4, <2>1, <2>2 DEF SignerStep
<1>5. CASE UpdateNonce
  BY <1>1, <1>5, AskKeeps DEF UpdateNonce
<1>6. CASE EnclaveAnswersQuery
  <2>1. PICK t \in {"account", "queryError"}, n \in Nat :
          toApp' = Append(toApp, Result(t, NoCall, n))
    BY <1>1, <1>6 DEF EnclaveAnswersQuery
  <2>2. /\ Result(t, NoCall, n) \in ResultTypes
        /\ Result(t, NoCall, n).type = t
    BY ResultKinds
  <2>3. /\ toEnclave # <<>> /\ toEnclave' = Tail(toEnclave)
        /\ Head(toEnclave).type = "getAccount"
        /\ UNCHANGED <<query, waiting, account>>
    BY <1>6, QueryKind DEF EnclaveAnswersQuery
  <2>4. QED
    BY <1>1, <2>1, <2>2, <2>3, ServeKeeps
<1>7. ASSUME NEW c \in Calls, EnclaveServesTx(c) PROVE Channels' /\ OneQueryPending'
  <2>1. PICK t \in {"accepted", "error"} :
          /\ toApp' = Append(toApp, Result(t, c, 0)) /\ account' \in Nat
    BY <1>1, <1>7 DEF EnclaveServesTx
  <2>2. Result(t, c, 0) \in ResultTypes /\ Result(t, c, 0).type = t
    BY ResultKinds
  <2>3. /\ toEnclave # <<>> /\ toEnclave' = Tail(toEnclave)
        /\ Head(toEnclave).type = "tx" /\ UNCHANGED <<query, waiting>>
    BY <1>7, MessageKinds DEF EnclaveServesTx
  <2>4. QED
    BY <1>1, <2>1, <2>2, <2>3, ServeKeeps
<1>8. CASE QueryAnswered
  BY <1>1, <1>8, ArriveKeeps DEF QueryAnswered, IsNextResult
<1>9. CASE QueryFailed
  BY <1>1, <1>9, ArriveKeeps DEF QueryFailed, IsNextResult
<1>10. ASSUME NEW c \in Calls, Accepted(c) \/ Rejected(c)
       PROVE  Channels' /\ OneQueryPending'
  BY <1>1, <1>10, ArriveKeeps DEF Accepted, Rejected, IsNextResult
<1>11. CASE ErrorEvent
  BY <1>2, <1>11 DEF ErrorEvent
<1>12. ASSUME NEW h \in receipts, ReceiptEvent(h) PROVE Channels' /\ OneQueryPending'
  BY <1>2, <1>12 DEF ReceiptEvent
<1>13. CASE UNCHANGED vars
  BY <1>2, <1>13 DEF vars
<1>14. QED
  BY <1>3, <1>4, <1>5, <1>6, <1>7, <1>8, <1>9, <1>10, <1>11, <1>12, <1>13
     DEF Next, EnclaveStep, Delivery
-------------------------------------------------------------------------------
(* The place of s[i] among the transactions of s.                            *)
Rank(s, i) == Count(SubSeq(s, 1, i), {"tx"})

LEMMA RankType ==
  ASSUME NEW S, NEW s \in Seq(S), NEW i \in 0..Len(s)
  PROVE  SubSeq(s, 1, i) \in Seq(S) /\ Rank(s, i) \in Nat
<1>1. SubSeq(s, 1, i) \in Seq(S)
  BY SubSeqProperties
<1>2. QED
  BY <1>1, FinitePlaces DEF Rank

LEMMA RankLast ==
  ASSUME NEW S, NEW s \in Seq(S)
  PROVE  Rank(s, Len(s)) = Count(s, {"tx"})
BY SubSeqFull DEF Rank

(* What is appended leaves the places alone.                                 *)
LEMMA RankAppend ==
  ASSUME NEW S, NEW s \in Seq(S), NEW x \in S, NEW i \in 0..Len(s)
  PROVE  Rank(Append(s, x), i) = Rank(s, i)
<1> DEFINE t == Append(s, x)
<1>1. /\ t \in Seq(S) /\ Len(t) = Len(s) + 1 /\ Len(s) \in Nat
      /\ \A j \in 1..Len(s) : t[j] = s[j]
  OBVIOUS
<1> HIDE DEF t
<1>2. /\ SubSeq(t, 1, i) \in Seq(S) /\ Len(SubSeq(t, 1, i)) = i
      /\ \A j \in 1..i : SubSeq(t, 1, i)[j] = t[j]
  BY <1>1
<1>3. /\ SubSeq(s, 1, i) \in Seq(S) /\ Len(SubSeq(s, 1, i)) = i
      /\ \A j \in 1..i : SubSeq(s, 1, i)[j] = s[j]
  BY <1>1
<1>4. \A j \in 1..i : SubSeq(t, 1, i)[j] = SubSeq(s, 1, i)[j]
  BY <1>1, <1>2, <1>3
<1>5. SubSeq(t, 1, i) = SubSeq(s, 1, i)
  BY <1>2, <1>3, <1>4, SeqEqual
<1>6. QED
  BY <1>5 DEF Rank, t

(* When the first message is served, all others move up.                     *)
LEMMA RankTail ==
  ASSUME NEW S, NEW s \in Seq(S), s # <<>>, NEW i \in 1..Len(Tail(s))
  PROVE  Rank(s, i + 1) = Rank(Tail(s), i) + (IF Head(s).type = "tx" THEN 1 ELSE 0)
<1> DEFINE u == SubSeq(s, 1, i + 1)
           v == SubSeq(Tail(s), 1, i)
<1>1. /\ Len(s) \in Nat \ {0} /\ Tail(s) \in Seq(S) /\ Len(Tail(s)) = Len(s) - 1
      /\ \A j \in 1..Len(Tail(s)) : Tail(s)[j] = s[j + 1]
      /\ Head(s) = s[1]
  OBVIOUS
<1>2. /\ u \in Seq(S) /\ Len(u) = i + 1
      /\ \A j \in 1..(i + 1) : u[j] = s[j]
  BY <1>1
<1>3. /\ v \in Seq(S) /\ Len(v) = i
      /\ \A j \in 1..i : v[j] = s[j + 1]
  BY <1>1
<1> HIDE DEF u, v
<1>4. u # <<>> /\ Tail(u) \in Seq(S) /\ Len(Tail(u)) = i /\ Head(u) = Head(s)
      /\ \A j \in 1..i : Tail(u)[j] = s[j + 1]
  BY <1>1, <1>2
<1>5. \A j \in 1..i : Tail(u)[j] = v[j]
  BY <1>3, <1>4
<1>6. Tail(u) = v
  BY <1>3, <1>4, <1>5, SeqEqual
<1>7. Count(u, {"tx"}) = Count(Tail(u), {"tx"}) + (IF Head(u).type \in {"tx"} THEN 1 ELSE 0)
  BY <1>2, <1>4, CountTail
<1>8. QED
  BY <1>4, <1>6, <1>7 DEF Rank, u, v

LEMMA RankFirst ==
  ASSUME NEW S, NEW s \in Seq(S), s # <<>>, Head(s).type = "tx"
  PROVE  Rank(s, 1) = 1
<1> DEFINE u == SubSeq(s, 1, 1)
<1>1. Len(s) \in Nat \ {0} /\ Head(s) = s[1]
  OBVIOUS
<1>2. Len(u) = 1 /\ u[1] = Head(s)
  BY <1>1
<1> HIDE DEF u
<1>3. Places(u, {"tx"}) = {1}
  BY <1>2 DEF Places
<1>4. QED
  BY <1>3, FS_Singleton DEF Rank, Count, u

(* One is taken out of a sequence.                                           *)
LEMMA RemoveAtProperties ==
  ASSUME NEW S, NEW s \in Seq(S), NEW i \in 1..Len(s)
  PROVE  /\ RemoveAt(s, i) \in Seq(S) /\ Len(RemoveAt(s, i)) = Len(s) - 1
         /\ \A j \in 1..Len(RemoveAt(s, i)) :
              RemoveAt(s, i)[j] = IF j < i THEN s[j] ELSE s[j + 1]
<1> DEFINE u == SubSeq(s, 1, i - 1)
           v == SubSeq(s, i + 1, Len(s))
<1>1. Len(s) \in Nat
  OBVIOUS
<1>2. u \in Seq(S) /\ Len(u) = i - 1 /\ \A j \in 1..(i - 1) : u[j] = s[j]
  BY <1>1
<1>3. v \in Seq(S) /\ Len(v) = Len(s) - i /\ \A j \in 1..(Len(s) - i) : v[j] = s[i + j]
  BY <1>1
<1> HIDE DEF u, v
<1>4. /\ u \o v \in Seq(S) /\ Len(u \o v) = Len(s) - 1
      /\ \A j \in 1..(Len(s) - 1) : (u \o v)[j] = IF j <= i - 1 THEN u[j] ELSE v[j - (i - 1)]
  <2>1. /\ u \o v \in Seq(S) /\ Len(u \o v) = Len(u) + Len(v)
        /\ \A j \in 1..(Len(u) + Len(v)) :
             (u \o v)[j] = IF j <= Len(u) THEN u[j] ELSE v[j - Len(u)]
    BY <1>2, <1>3, ConcatProperties
  <2>2. Len(u) + Len(v) = Len(s) - 1
    BY <1>1, <1>2, <1>3
  <2>3. QED
    BY <1>2, <2>1, <2>2
<1>5. ASSUME NEW j \in 1..(Len(s) - 1)
      PROVE  (u \o v)[j] = IF j < i THEN s[j] ELSE s[j + 1]
  <2>1. CASE j < i
    BY <1>1, <1>2, <1>4, <2>1
  <2>2. CASE ~(j < i)
    <3>1. (u \o v)[j] = v[j - (i - 1)] /\ j - (i - 1) \in 1..(Len(s) - i)
      BY <1>1, <1>4, <2>2
    <3>2. v[j - (i - 1)] = s[i + (j - (i - 1))] /\ i + (j - (i - 1)) = j + 1
      BY <1>1, <1>3, <3>1
    <3>3. QED
      BY <2>2, <3>1, <3>2
  <2>3. QED
    BY <2>1, <2>2
<1>6. RemoveAt(s, i) = u \o v
  BY DEF RemoveAt, u, v
<1>7. QED
  BY <1>4, <1>5, <1>6
-------------------------------------------------------------------------------
(* The calls on their way to the enclave: those whose transaction is sent,   *)
(* and behind them those with the signer, who all have a nonce.              *)
Owners ==
  /\ signing \in Seq(Calls) /\ Once(signing)
  /\ \A i \in 1..Len(signing) : txnonce[signing[i]] # 0
  /\ \A i \in 1..Len(toEnclave) :
       toEnclave[i].type = "tx" => /\ toEnclave[i].call \in Calls
                                   /\ txnonce[toEnclave[i].call] # 0

Sent == Count(toEnclave, {"tx"})

(* Their nonces follow the account's without a gap,                          *)
Consecutive ==
  /\ \A i \in 1..Len(toEnclave) :
       toEnclave[i].type = "tx" => txnonce[toEnclave[i].call] = account + Rank(toEnclave, i)
  /\ \A i \in 1..Len(signing) : txnonce[signing[i]] = account + Sent + i

(* up to this one.                                                           *)
Reach == account + Sent + Len(signing)

NoError == \A i \in 1..Len(toApp) : toApp[i].type # "error"

(* A session that nothing has disturbed takes the nonces one by one.         *)
InStep ==
  signer = {} /\ resets = 0 /\ NoError =>
    /\ Consecutive
    /\ nonce # 0 => nonce = Reach + 1
    /\ nonce = 0 => /\ Reach = 0
                    /\ \A i \in 1..Len(toApp) : toApp[i].type = "account" => toApp[i].nonce = 0

(* A session that was disturbed is in step again when what is on its way is. *)
Recovers ==
  signer = {} /\ updates = 0 /\ nonce # 0 /\ NoError /\ Consecutive => nonce = Reach + 1

(* Without updateNonce(), a query has somebody who waits for it.             *)
AskedFor == updates = 0 /\ query = "pending" => waiting # <<>>

Course == InStep /\ Recovers /\ AskedFor
-------------------------------------------------------------------------------
(* What the callers cs take, and that the others keep theirs.                *)
LEMMA TakenInOrder ==
  ASSUME txnonce \in [Calls -> Nat], NEW cs \in Seq(Calls), Once(cs), NEW n \in Nat,
         TakeNonces(cs, n)
  PROVE  /\ nonce' = n + Len(cs) /\ signing' = signing \o cs
         /\ \A i \in 1..Len(cs) : txnonce'[cs[i]] = n + i - 1
         /\ \A c \in Calls : (\A i \in 1..Len(cs) : cs[i] # c) => txnonce'[c] = txnonce[c]
<1> DEFINE taken == {cs[i] : i \in DOMAIN cs}
           rank(c) == CHOOSE i \in DOMAIN cs : cs[i] = c
<1>1. /\ nonce' = n + Len(cs) /\ signing' = signing \o cs
      /\ txnonce' = [c \in Calls |-> IF c \in taken THEN n + rank(c) - 1 ELSE txnonce[c]]
  BY DEF TakeNonces
<1>2. DOMAIN cs = 1..Len(cs) /\ \A i \in 1..Len(cs) : cs[i] \in Calls
  OBVIOUS
<1>3. ASSUME NEW i \in 1..Len(cs) PROVE cs[i] \in taken /\ rank(cs[i]) = i
  <2>1. \A j \in DOMAIN cs : cs[j] = cs[i] => j = i
    BY <1>2 DEF Once
  <2>2. i \in DOMAIN cs
    BY <1>2
  <2>3. QED
    BY <2>1, <2>2
<1>4. \A c \in Calls : (\A i \in 1..Len(cs) : cs[i] # c) => c \notin taken
  BY <1>2
<1> HIDE DEF taken, rank
<1>5. \A i \in 1..Len(cs) : txnonce'[cs[i]] = n + i - 1
  BY <1>1, <1>2, <1>3
<1>6. QED
  BY <1>1, <1>4, <1>5

(* The nonces of those who have one stay theirs.                             *)
NoncesStay == \A c \in Calls : txnonce[c] # 0 => txnonce'[c] = txnonce[c]

(* The callers cs, who have none, take nonces and get behind the others.     *)
LEMMA TakeOwners ==
  ASSUME Owners, Channels, txnonce \in [Calls -> Nat], NEW cs \in Seq(Calls), Once(cs),
         \A i \in 1..Len(cs) : txnonce[cs[i]] = 0,
         NEW n \in Nat \ {0}, TakeNonces(cs, n), UNCHANGED <<toEnclave, account>>
  PROVE  /\ NoncesStay /\ Owners' /\ nonce' = n + Len(cs)
         /\ Sent' = Sent /\ Len(signing') = Len(signing) + Len(cs)
         /\ Consecutive' <=> Consecutive /\ (cs = <<>> \/ n = account + Sent + Len(signing) + 1)
<1> DEFINE L == Len(signing)
           m == Len(cs)
           a == account + Sent
<1>1. /\ nonce' = n + m /\ signing' = signing \o cs
      /\ \A i \in 1..m : txnonce'[cs[i]] = n + i - 1
      /\ \A c \in Calls : (\A i \in 1..m : cs[i] # c) => txnonce'[c] = txnonce[c]
  BY TakenInOrder
<1>2. NoncesStay
  BY <1>1 DEF NoncesStay
<1>3. /\ L \in Nat /\ m \in Nat /\ signing \in Seq(Calls)
      /\ \A i \in 1..L : signing[i] \in Calls /\ txnonce[signing[i]] # 0
      /\ \A i \in 1..m : cs[i] \in Calls /\ txnonce[cs[i]] = 0
  BY DEF Owners
<1>4. /\ signing' \in Seq(Calls) /\ Len(signing') = L + m
      /\ \A i \in 1..(L + m) : signing'[i] = IF i <= L THEN signing[i] ELSE cs[i - L]
  BY <1>1, <1>3, ConcatProperties
<1> HIDE DEF L, m
<1>5. /\ \A i \in 1..L : signing'[i] = signing[i] /\ i \in 1..(L + m)
      /\ \A i \in 1..m : signing'[L + i] = cs[i] /\ L + i \in 1..(L + m)
      /\ \A i \in 1..(L + m) : i \in 1..L \/ (i - L \in 1..m /\ L + (i - L) = i)
  <2>1. \A i \in 1..L : i \in 1..(L + m) /\ i <= L
    BY <1>3
  <2>2. \A i \in 1..m : L + i \in 1..(L + m) /\ ~(L + i <= L) /\ (L + i) - L = i
    BY <1>3
  <2>3. \A i \in 1..(L + m) : i \in 1..L \/ (i - L \in 1..m /\ L + (i - L) = i)
    BY <1>3
  <2>4. \A i \in 1..L : signing'[i] = signing[i]
    BY <1>4, <2>1
  <2>5. \A i \in 1..m : signing'[L + i] = cs[i]
    BY <1>4, <2>2
  <2>6. QED
    BY <2>1, <2>2, <2>3, <2>4, <2>5
<1>6. \A i \in 1..L : txnonce'[signing'[i]] = txnonce[signing[i]]
  BY <1>2, <1>3, <1>5 DEF NoncesStay
<1>7. \A i \in 1..m : txnonce'[signing'[L + i]] = n + i - 1
  BY <1>1, <1>5
<1>8. Once(signing')
  <2>1. SUFFICES ASSUME NEW i \in 1..(L + m), NEW j \in 1..(L + m), signing'[i] = signing'[j]
                 PROVE  i = j
    BY <1>4 DEF Once
  <2>2. CASE i \in 1..L /\ j \in 1..L
    BY <1>5, <2>1, <2>2 DEF Owners, Once, L
  <2>3. CASE i \in 1..L /\ j \notin 1..L
    <3>1. signing[i] = cs[j - L] /\ j - L \in 1..m
      BY <1>5, <2>1, <2>3
    <3>2. QED
      BY <1>3, <2>3, <3>1
  <2>4. CASE i \notin 1..L /\ j \in 1..L
    <3>1. signing[j] = cs[i - L] /\ i - L \in 1..m
      BY <1>5, <2>1, <2>4
    <3>2. QED
      BY <1>3, <2>4, <3>1
  <2>5. CASE i \notin 1..L /\ j \notin 1..L
    <3>1. i - L \in 1..m /\ j - L \in 1..m /\ cs[i - L] = cs[j - L]
      BY <1>5, <2>1, <2>5
    <3>2. i - L = j - L
      BY <3>1 DEF Once, m
    <3>3. QED
      BY <1>3, <3>2
  <2>6. QED
    BY <2>2, <2>3, <2>4, <2>5
<1>9. \A i \in 1..Len(signing') : txnonce'[signing'[i]] # 0
  <2>1. TAKE i \in 1..Len(signing')
  <2>2. CASE i \in 1..L
    BY <1>3, <1>6, <2>2
  <2>3. CASE i \notin 1..L
    <3>1. i - L \in 1..m /\ L + (i - L) = i
      BY <1>4, <1>5, <2>3
    <3>2. txnonce'[signing'[i]] = n + (i - L) - 1
      BY <1>7, <3>1
    <3>3. QED
      BY <1>3, <3>1, <3>2
  <2>4. QED
    BY <2>2, <2>3
<1>10. ASSUME NEW i \in 1..Len(toEnclave), toEnclave[i].type = "tx"
       PROVE  /\ toEnclave[i].call \in Calls /\ txnonce[toEnclave[i].call] # 0
              /\ txnonce'[toEnclave[i].call] = txnonce[toEnclave[i].call]
  BY <1>2, <1>10 DEF Owners, NoncesStay
<1>11. Owners'
  BY <1>4, <1>8, <1>9, <1>10 DEF Owners
<1>12. Sent' = Sent /\ \A i \in 1..Len(toEnclave) : Rank(toEnclave, i)' = Rank(toEnclave, i)
  BY DEF Sent, Rank, Count, Places
<1>13. (\A i \in 1..Len(signing') : txnonce'[signing'[i]] = a + i)
         <=> /\ \A i \in 1..L : txnonce[signing[i]] = a + i
             /\ \A i \in 1..m : n + i - 1 = a + (L + i)
  <2>1. (\A i \in 1..(L + m) : txnonce'[signing'[i]] = a + i)
          <=> /\ \A i \in 1..L : txnonce'[signing'[i]] = a + i
              /\ \A i \in 1..m : txnonce'[signing'[L + i]] = a + (L + i)
    BY <1>5
  <2>2. QED
    BY <1>4, <1>6, <1>7, <2>1
<1>14. (\A i \in 1..m : n + i - 1 = a + (L + i)) <=> (cs = <<>> \/ n = a + L + 1)
  <2>1. account \in Nat /\ Sent \in Nat /\ a \in Nat
    BY FinitePlaces DEF Channels, Sent
  <2> HIDE DEF a
  <2>2. CASE m = 0
    <3>1. cs = <<>>
      BY <2>2 DEF m
    <3>2. QED
      BY <2>2, <3>1
  <2>3. CASE m # 0
    <3>1. cs # <<>> /\ 1 \in 1..m
      BY <1>3, <2>3 DEF m
    <3>2. ASSUME \A i \in 1..m : n + i - 1 = a + (L + i) PROVE n = a + L + 1
      <4>1. n + 1 - 1 = a + (L + 1)
        BY <3>1, <3>2
      <4>2. QED
        BY <1>3, <2>1, <4>1
    <3>3. n = a + L + 1 => \A i \in 1..m : n + i - 1 = a + (L + i)
      BY <1>3, <2>1
    <3>4. QED
      BY <3>1, <3>2, <3>3
  <2>4. QED
    BY <2>2, <2>3
<1>15. Consecutive' <=> Consecutive /\ (cs = <<>> \/ n = account + Sent + Len(signing) + 1)
  <2>1. (\A i \in 1..Len(toEnclave) : toEnclave[i].type = "tx" =>
           txnonce'[toEnclave[i].call] = account + Rank(toEnclave, i))
         <=> \A i \in 1..Len(toEnclave) : toEnclave[i].type = "tx" =>
               txnonce[toEnclave[i].call] = account + Rank(toEnclave, i)
    BY <1>10
  <2>2. QED
    BY <1>12, <1>13, <1>14, <2>1 DEF Consecutive, L
<1>16. QED
  BY <1>1, <1>2, <1>4, <1>11, <1>12, <1>15 DEF L, m

(* What is on its way is the same.                                           *)
LEMMA SameOwners ==
  ASSUME Owners, NoncesStay, UNCHANGED <<signing, toEnclave, account>>
  PROVE  Owners' /\ (Consecutive' <=> Consecutive) /\ Reach' = Reach
<1>1. ASSUME NEW i \in 1..Len(signing)
      PROVE  txnonce'[signing[i]] = txnonce[signing[i]] /\ txnonce[signing[i]] # 0
  BY DEF Owners, NoncesStay
<1>2. ASSUME NEW i \in 1..Len(toEnclave), toEnclave[i].type = "tx"
      PROVE  /\ txnonce'[toEnclave[i].call] = txnonce[toEnclave[i].call]
             /\ toEnclave[i].call \in Calls /\ txnonce[toEnclave[i].call] # 0
  BY <1>2 DEF Owners, NoncesStay
<1>3. Owners'
  BY <1>1, <1>2 DEF Owners
<1>4. Sent' = Sent /\ \A i \in 1..Len(toEnclave) : Rank(toEnclave, i)' = Rank(toEnclave, i)
  BY DEF Sent, Rank, Count, Places
<1>5. Consecutive' <=> Consecutive
  BY <1>1, <1>2, <1>4 DEF Consecutive
<1>6. QED
  BY <1>3, <1>4, <1>5 DEF Reach

(* A query is sent behind the transactions.                                  *)
LEMMA QueryOwners ==
  ASSUME Owners, Channels, NoncesStay, toEnclave' = Append(toEnclave, GetAccount),
         UNCHANGED <<signing, account>>
  PROVE  Owners' /\ (Consecutive' <=> Consecutive) /\ Reach' = Reach
<1> DEFINE k == Len(toEnclave)
<1>1. /\ toEnclave \in Seq(MessageTypes) /\ k \in Nat /\ Len(toEnclave') = k + 1
      /\ \A i \in 1..k : toEnclave'[i] = toEnclave[i] /\ i \in 1..(k + 1)
      /\ toEnclave'[k + 1].type # "tx"
      /\ \A i \in 1..(k + 1) : i \in 1..k \/ i = k + 1
  BY DEF Channels, GetAccount
<1> HIDE DEF k
<1>2. ASSUME NEW i \in 1..Len(signing)
      PROVE  txnonce'[signing[i]] = txnonce[signing[i]] /\ txnonce[signing[i]] # 0
  BY DEF Owners, NoncesStay
<1>3. ASSUME NEW i \in 1..k, toEnclave[i].type = "tx"
      PROVE  /\ txnonce'[toEnclave[i].call] = txnonce[toEnclave[i].call]
             /\ toEnclave[i].call \in Calls /\ txnonce[toEnclave[i].call] # 0
  BY <1>3 DEF Owners, NoncesStay, k
<1>4. Owners'
  <2>1. \A i \in 1..Len(toEnclave') :
          toEnclave'[i].type = "tx" => toEnclave'[i].call \in Calls /\ txnonce'[toEnclave'[i].call] # 0
    BY <1>1, <1>3
  <2>2. QED
    BY <1>2, <2>1 DEF Owners
<1>5. Sent' = Sent
  <2>1. Sent \in Nat
    BY <1>1, FinitePlaces DEF Sent
  <2>2. QED
    BY <1>1, <2>1, QueryKind, CountAppend DEF Sent
<1>6. \A i \in 1..k : Rank(toEnclave', i) = Rank(toEnclave, i)
  BY <1>1, QueryKind, RankAppend DEF k
<1>7. Consecutive' <=> Consecutive
  <2>1. (\A i \in 1..(k + 1) : toEnclave'[i].type = "tx" =>
           txnonce'[toEnclave'[i].call] = account + Rank(toEnclave', i))
         <=> \A i \in 1..k : toEnclave[i].type = "tx" =>
               txnonce[toEnclave[i].call] = account + Rank(toEnclave, i)
    BY <1>1, <1>3, <1>6
  <2>2. QED
    BY <1>1, <1>2, <1>5, <2>1 DEF Consecutive, k
<1>8. QED
  BY <1>4, <1>5, <1>7 DEF Reach

(* The enclave has served the first message.                                 *)
LEMMA ServedOwners ==
  ASSUME Owners, Channels, toEnclave # <<>>, toEnclave' = Tail(toEnclave),
         UNCHANGED <<signing, txnonce>>
  PROVE  Owners'
<1>1. /\ Len(toEnclave) \in Nat /\ Len(toEnclave') = Len(toEnclave) - 1
      /\ \A i \in 1..Len(toEnclave') : toEnclave'[i] = toEnclave[i + 1] /\ i + 1 \in 1..Len(toEnclave)
  BY DEF Channels
<1>2. \A i \in 1..Len(toEnclave') :
        toEnclave'[i].type = "tx" => toEnclave'[i].call \in Calls /\ txnonce[toEnclave'[i].call] # 0
  BY <1>1 DEF Owners
<1>3. QED
  BY <1>2 DEF Owners

(* The enclave serves the first message: a query, or the transaction that    *)
(* has the account's next nonce.                                             *)
LEMMA ServeOwners ==
  ASSUME Owners, Channels, toEnclave # <<>>, toEnclave' = Tail(toEnclave),
         UNCHANGED <<signing, txnonce>>,
         \/ Head(toEnclave).type # "tx" /\ account' = account
         \/ /\ Head(toEnclave).type = "tx" /\ account' = account + 1
            /\ txnonce[Head(toEnclave).call] = account + 1
  PROVE  Owners' /\ (Consecutive' <=> Consecutive) /\ Reach' = Reach
<1> DEFINE k == Len(toEnclave')
           one == IF Head(toEnclave).type = "tx" THEN 1 ELSE 0
<1>1. /\ toEnclave \in Seq(MessageTypes) /\ Len(toEnclave) \in Nat /\ k \in Nat
      /\ Len(toEnclave) = k + 1 /\ toEnclave' \in Seq(MessageTypes)
      /\ \A i \in 1..k : toEnclave'[i] = toEnclave[i + 1] /\ i + 1 \in 1..Len(toEnclave)
      /\ \A i \in 1..(k + 1) : i = 1 \/ (i - 1 \in 1..k /\ (i - 1) + 1 = i)
      /\ toEnclave[1] = Head(toEnclave) /\ 1 \in 1..(k + 1)
  BY DEF Channels
<1>2. one \in Nat /\ account \in Nat /\ account' = account + one
  BY DEF Channels
<1>3. \A i \in 1..k : /\ Rank(toEnclave', i) \in Nat
                      /\ Rank(toEnclave, i + 1) = Rank(toEnclave', i) + one
  <2>1. TAKE i \in 1..k
  <2>2. i \in 0..Len(toEnclave')
    BY <1>1
  <2>3. QED
    BY <1>1, <2>2, RankType, RankTail
<1>4. Sent = Sent' + one /\ Sent' \in Nat
  <2>1. Sent = Sent' + (IF Head(toEnclave).type \in {"tx"} THEN 1 ELSE 0)
    BY <1>1, CountTail DEF Sent
  <2>2. Sent' \in Nat
    BY <1>1, FinitePlaces DEF Sent
  <2>3. QED
    BY <2>1, <2>2
<1>5. Head(toEnclave).type = "tx" => txnonce[Head(toEnclave).call] = account + Rank(toEnclave, 1)
  BY <1>1, RankFirst
<1> HIDE DEF k, one
<1>6. Owners'
  BY ServedOwners
<1>7. (\A i \in 1..(k + 1) : toEnclave[i].type = "tx" =>
         txnonce[toEnclave[i].call] = account + Rank(toEnclave, i))
       <=> \A i \in 1..k : toEnclave'[i].type = "tx" =>
             txnonce[toEnclave'[i].call] = account' + Rank(toEnclave', i)
  <2>1. \A i \in 1..k : account + Rank(toEnclave, i + 1) = account' + Rank(toEnclave', i)
    BY <1>2, <1>3
  <2> DEFINE P(i) == toEnclave[i].type = "tx" =>
                       txnonce[toEnclave[i].call] = account + Rank(toEnclave, i)
             Q(i) == toEnclave'[i].type = "tx" =>
                       txnonce[toEnclave'[i].call] = account' + Rank(toEnclave', i)
  <2>2. P(1) /\ \A i \in 1..k : P(i + 1) <=> Q(i)
    BY <1>1, <1>5, <2>1
  <2> HIDE DEF P, Q
  <2>3. (\A i \in 1..(k + 1) : P(i)) <=> \A i \in 1..k : Q(i)
    BY <1>1, <2>2
  <2>4. QED
    BY <2>3 DEF P, Q
<1>8. account' + Sent' = account + Sent
  BY <1>2, <1>4
<1>9. Consecutive' <=> Consecutive
  BY <1>1, <1>7, <1>8 DEF Consecutive, k
<1>10. QED
  BY <1>6, <1>8, <1>9 DEF Reach

(* The signer is done with the i-th of its calls, and the transaction is     *)
(* sent or not.                                                              *)
LEMMA SignOwners ==
  ASSUME Owners, Channels, NEW i \in 1..Len(signing), signing' = RemoveAt(signing, i),
         toEnclave' = toEnclave \/ toEnclave' = Append(toEnclave, Tx(signing[i])),
         UNCHANGED txnonce
  PROVE  Owners'
<1> DEFINE L == Len(signing)
           k == Len(toEnclave)
<1>1. /\ signing \in Seq(Calls) /\ L \in Nat /\ signing[i] \in Calls
      /\ signing' \in Seq(Calls) /\ Len(signing') = L - 1
      /\ \A j \in 1..(L - 1) : signing'[j] = IF j < i THEN signing[j] ELSE signing[j + 1]
  <2>1. signing \in Seq(Calls) /\ L \in Nat /\ signing[i] \in Calls
    BY DEF Owners
  <2>2. QED
    BY <2>1, RemoveAtProperties
<1> HIDE DEF L
<1>2. Once(signing')
  <2>1. SUFFICES ASSUME NEW a \in 1..(L - 1), NEW b \in 1..(L - 1), signing'[a] = signing'[b]
                 PROVE  a = b
    BY <1>1 DEF Once
  <2> DEFINE x == IF a < i THEN a ELSE a + 1
             y == IF b < i THEN b ELSE b + 1
  <2>2. x \in 1..L /\ y \in 1..L /\ signing'[a] = signing[x] /\ signing'[b] = signing[y]
    BY <1>1
  <2>3. x = y => a = b
    BY <1>1
  <2> HIDE DEF x, y
  <2>4. x = y
    BY <2>1, <2>2 DEF Owners, Once, L
  <2>5. QED
    BY <2>3, <2>4
<1>3. \A j \in 1..(L - 1) : txnonce[signing'[j]] # 0
  BY <1>1 DEF Owners, L
<1>4. \A j \in 1..Len(toEnclave') :
        toEnclave'[j].type = "tx" => toEnclave'[j].call \in Calls /\ txnonce[toEnclave'[j].call] # 0
  <2>1. CASE toEnclave' = toEnclave
    BY <2>1 DEF Owners
  <2>2. CASE toEnclave' = Append(toEnclave, Tx(signing[i]))
    <3>1. /\ k \in Nat /\ Len(toEnclave') = k + 1
          /\ \A j \in 1..k : toEnclave'[j] = toEnclave[j]
          /\ toEnclave'[k + 1].call = signing[i]
          /\ \A j \in 1..(k + 1) : j \in 1..k \/ j = k + 1
      BY <2>2 DEF Channels, Tx
    <3> HIDE DEF k
    <3>2. \A j \in 1..k :
            toEnclave[j].type = "tx" => toEnclave[j].call \in Calls /\ txnonce[toEnclave[j].call] # 0
      BY DEF Owners, k
    <3>3. txnonce[signing[i]] # 0
      BY DEF Owners
    <3>4. QED
      BY <1>1, <3>1, <3>2, <3>3
  <2>3. QED
    BY <2>1, <2>2
<1>5. QED
  BY <1>1, <1>2, <1>3, <1>4 DEF Owners

(* The first of the signer's calls is sent.                                  *)
LEMMA SendOwners ==
  ASSUME Owners, Channels, NEW i \in 1..Len(signing), signing' = RemoveAt(signing, i),
         signing[i] = Head(signing),
         toEnclave' = Append(toEnclave, Tx(signing[i])), UNCHANGED <<account, txnonce>>
  PROVE  (Consecutive' <=> Consecutive) /\ Reach' = Reach
<1> DEFINE L == Len(signing)
           k == Len(toEnclave)
<1>1. i = 1
  <2>1. signing[i] = signing[1] /\ 1 \in 1..Len(signing)
    BY DEF Owners
  <2>2. QED
    BY <2>1 DEF Owners, Once
<1>2. /\ L \in Nat /\ Len(signing') = L - 1 /\ signing[1] \in Calls
      /\ \A j \in 1..(L - 1) : signing'[j] = signing[j + 1]
  <2>1. signing \in Seq(Calls) /\ L \in Nat /\ signing[1] \in Calls
    BY <1>1 DEF Owners
  <2>2. /\ Len(signing') = L - 1
        /\ \A j \in 1..Len(signing') : signing'[j] = IF j < i THEN signing[j] ELSE signing[j + 1]
    BY <2>1, RemoveAtProperties
  <2>3. \A j \in 1..(L - 1) : j \in 1..Len(signing') /\ ~(j < i)
    BY <1>1, <2>1, <2>2
  <2>4. QED
    BY <2>1, <2>2, <2>3
<1>3. /\ toEnclave \in Seq(MessageTypes) /\ toEnclave' \in Seq(MessageTypes)
      /\ k \in Nat /\ Len(toEnclave') = k + 1
      /\ \A j \in 1..k : toEnclave'[j] = toEnclave[j]
      /\ toEnclave'[k + 1].type = "tx" /\ toEnclave'[k + 1].call = signing[1]
      /\ \A j \in 1..(k + 1) : j \in 1..k \/ j = k + 1
  BY <1>1, <1>2, MessageKinds DEF Channels, Tx
<1>4. Sent \in Nat /\ Sent' = Sent + 1 /\ account \in Nat
  <2>1. Sent' = Sent + (IF Tx(signing[1]).type \in {"tx"} THEN 1 ELSE 0)
    BY <1>1, <1>2, <1>3, MessageKinds, CountAppend DEF Sent
  <2>2. Sent \in Nat /\ account \in Nat
    BY <1>3, FinitePlaces DEF Sent, Channels
  <2>3. QED
    BY <1>2, <2>1, <2>2, MessageKinds
<1>5. \A j \in 1..k : Rank(toEnclave', j) = Rank(toEnclave, j)
  BY <1>1, <1>2, <1>3, MessageKinds, RankAppend
<1>6. Rank(toEnclave', k + 1) = Sent + 1
  BY <1>3, <1>4, RankLast DEF Sent
<1> HIDE DEF L, k
<1> DEFINE P(j) == toEnclave'[j].type = "tx" =>
                     txnonce[toEnclave'[j].call] = account + Rank(toEnclave', j)
           Q(j) == toEnclave[j].type = "tx" =>
                     txnonce[toEnclave[j].call] = account + Rank(toEnclave, j)
           R(j) == txnonce[signing[j]] = account + Sent + j
<1>7. (\A j \in 1..k : P(j) <=> Q(j)) /\ (P(k + 1) <=> R(1))
  <2>1. \A j \in 1..k : P(j) <=> Q(j)
    BY <1>3, <1>5
  <2>2. account + Rank(toEnclave', k + 1) = account + Sent + 1
    BY <1>4, <1>6
  <2>3. P(k + 1) <=> R(1)
    BY <1>3, <2>2
  <2>4. QED
    BY <2>1, <2>3
<1>8. \A j \in 1..(L - 1) : R(j + 1) <=> txnonce[signing'[j]] = account + Sent' + j
  <2>1. \A j \in 1..(L - 1) : account + Sent + (j + 1) = account + Sent' + j
    BY <1>2, <1>4
  <2>2. QED
    BY <1>2, <2>1
<1>9. Consecutive <=> (\A j \in 1..k : Q(j)) /\ (\A j \in 1..L : R(j))
  BY DEF Consecutive, k, L
<1>10. Consecutive' <=> /\ \A j \in 1..(k + 1) : P(j)
                        /\ \A j \in 1..(L - 1) : txnonce[signing'[j]] = account + Sent' + j
  BY <1>2, <1>3 DEF Consecutive
<1> HIDE DEF P, Q, R
<1>11. (\A j \in 1..L : R(j)) <=> R(1) /\ \A j \in 1..(L - 1) : R(j + 1)
  <2>1. L \in Nat \ {0}
    BY <1>1, <1>2 DEF L
  <2>2. 1 \in 1..L /\ \A j \in 1..(L - 1) : j + 1 \in 1..L
    BY <2>1
  <2>3. \A j \in 1..L : j = 1 \/ (j - 1 \in 1..(L - 1) /\ (j - 1) + 1 = j)
    BY <2>1
  <2>4. QED
    BY <2>2, <2>3
<1>12. (\A j \in 1..(k + 1) : P(j)) <=> P(k + 1) /\ \A j \in 1..k : P(j)
  BY <1>3
<1>13. Consecutive' <=> Consecutive
  BY <1>7, <1>8, <1>9, <1>10, <1>11, <1>12
<1>14. Reach' = Reach
  BY <1>2, <1>4 DEF Reach, L
<1>15. QED
  BY <1>13, <1>14
-------------------------------------------------------------------------------
(* Every answer on its way tells of an account that has done nothing.        *)
Zeros == \A i \in 1..Len(toApp) : toApp[i].type = "account" => toApp[i].nonce = 0

LEMMA AppendResult ==
  ASSUME Channels, NEW r \in ResultTypes, toApp' = Append(toApp, r)
  PROVE  /\ NoError' <=> NoError /\ r.type # "error"
         /\ Zeros' <=> Zeros /\ (r.type = "account" => r.nonce = 0)
<1> DEFINE k == Len(toApp)
<1>1. /\ k \in Nat /\ Len(toApp') = k + 1 /\ toApp'[k + 1] = r
      /\ \A i \in 1..k : toApp'[i] = toApp[i] /\ i \in 1..(k + 1)
      /\ k + 1 \in 1..(k + 1)
      /\ \A i \in 1..(k + 1) : i \in 1..k \/ i = k + 1
  BY DEF Channels
<1> HIDE DEF k
<1>2. NoError' <=> \A i \in 1..(k + 1) : toApp'[i].type # "error"
  BY <1>1 DEF NoError
<1>3. Zeros' <=> \A i \in 1..(k + 1) : toApp'[i].type = "account" => toApp'[i].nonce = 0
  BY <1>1 DEF Zeros
<1>4. QED
  BY <1>1, <1>2, <1>3 DEF NoError, Zeros, k

LEMMA TailResult ==
  ASSUME Channels, toApp # <<>>, toApp' = Tail(toApp)
  PROVE  /\ Head(toApp) \in ResultTypes
         /\ NoError <=> NoError' /\ Head(toApp).type # "error"
         /\ Zeros <=> Zeros' /\ (Head(toApp).type = "account" => Head(toApp).nonce = 0)
<1> DEFINE k == Len(toApp')
<1>1. /\ k \in Nat /\ Len(toApp) = k + 1 /\ Head(toApp) = toApp[1] /\ Head(toApp) \in ResultTypes
      /\ \A i \in 1..k : toApp'[i] = toApp[i + 1] /\ i + 1 \in 1..(k + 1)
      /\ 1 \in 1..(k + 1)
      /\ \A i \in 1..(k + 1) : i = 1 \/ (i - 1 \in 1..k /\ (i - 1) + 1 = i)
  BY DEF Channels
<1> HIDE DEF k
<1> DEFINE P(i) == toApp[i].type # "error"
           Q(i) == toApp[i].type = "account" => toApp[i].nonce = 0
<1>2. /\ NoError <=> \A i \in 1..(k + 1) : P(i)
      /\ NoError' <=> \A i \in 1..k : P(i + 1)
  BY <1>1 DEF NoError, k
<1>3. /\ Zeros <=> \A i \in 1..(k + 1) : Q(i)
      /\ Zeros' <=> \A i \in 1..k : Q(i + 1)
  BY <1>1 DEF Zeros, k
<1>4. /\ P(1) <=> Head(toApp).type # "error"
      /\ Q(1) <=> (Head(toApp).type = "account" => Head(toApp).nonce = 0)
  BY <1>1
<1> HIDE DEF P, Q
<1>5. /\ (\A i \in 1..(k + 1) : P(i)) <=> P(1) /\ \A i \in 1..k : P(i + 1)
      /\ (\A i \in 1..(k + 1) : Q(i)) <=> Q(1) /\ \A i \in 1..k : Q(i + 1)
  BY <1>1
<1>6. QED
  BY <1>1, <1>2, <1>3, <1>4, <1>5

LEMMA ReachType ==
  ASSUME Owners, Channels
  PROVE  Reach \in Nat /\ Sent \in Nat /\ account \in Nat /\ (Reach = 0 => account = 0)
<1>1. Sent \in Nat /\ account \in Nat /\ Len(signing) \in Nat
  BY FinitePlaces DEF Sent, Channels, Owners
<1>2. QED
  BY <1>1 DEF Reach

(* What is on its way keeps its nonces, or they are all served in turn.      *)
LEMMA QuietCourse ==
  ASSUME Course, AskedFor', Consecutive' <=> Consecutive, Reach' = Reach,
         UNCHANGED <<nonce, resets>>, signer \subseteq signer', updates' = 0 => updates = 0,
         NoError' => NoError,
         nonce = 0 /\ Reach = 0 /\ Zeros => Zeros'
  PROVE  Course'
BY DEF Course, InStep, Recovers, Zeros

(* The signer, the enclave or an error has disturbed the session.            *)
LEMMA DisturbedCourse ==
  ASSUME AskedFor', signer' # {} \/ ~NoError' \/ (nonce' = 0 /\ resets' # 0)
  PROVE  Course'
BY DEF Course, InStep, Recovers

(* m callers take the nonces from n on.                                      *)
LEMMA TakeCourse ==
  ASSUME AskedFor', NEW n \in Nat \ {0}, NEW m \in Nat, nonce' = n + m,
         Reach \in Nat, Reach' = Reach + m,
         Consecutive' <=> Consecutive /\ (m = 0 \/ n = Reach + 1),
         UNCHANGED <<signer, resets, updates>>,
         signer = {} /\ resets = 0 /\ NoError' => Consecutive /\ n = Reach + 1,
         signer = {} /\ updates = 0 /\ NoError' => m # 0
  PROVE  Course'
<1>1. nonce' # 0
  OBVIOUS
<1>2. n = Reach + 1 => nonce' = Reach' + 1
  OBVIOUS
<1>3. InStep'
  BY <1>1, <1>2 DEF InStep
<1>4. Recovers'
  BY <1>2 DEF Recovers
<1>5. QED
  BY <1>3, <1>4 DEF Course
-------------------------------------------------------------------------------
(* A call with a valid nonce takes it, any other asks or fails.              *)
LEMMA BeginCourse ==
  ASSUME Asking, Owners, Course, NEW c \in Calls, Begin(c)
  PROVE  NoncesStay /\ Owners' /\ Course'
<1>1. /\ txnonce \in [Calls -> Nat] /\ nonce \in Nat /\ txnonce[c] = 0 /\ Channels
      /\ UNCHANGED <<signer, resets, updates, account, toApp>>
  BY DEF Asking, Nonces, Begin, bounds, enclave
<1>2. CASE nonce # 0
  <2> DEFINE cs == <<c>>
  <2>1. TakeNonces(cs, nonce) /\ UNCHANGED <<query, waiting, toEnclave>>
    BY <1>2 DEF Begin
  <2>2. cs \in Seq(Calls) /\ Len(cs) = 1 /\ cs[1] = c /\ cs # <<>>
    OBVIOUS
  <2> HIDE DEF cs
  <2>3. Once(cs) /\ \A i \in 1..Len(cs) : txnonce[cs[i]] = 0
    BY <1>1, <2>2 DEF Once
  <2>4. /\ NoncesStay /\ Owners' /\ nonce' = nonce + 1
        /\ Sent' = Sent /\ Len(signing') = Len(signing) + 1
        /\ Consecutive' <=> Consecutive /\ nonce = account + Sent + Len(signing) + 1
    <3>1. nonce \in Nat \ {0}
      BY <1>1, <1>2
    <3>2. /\ NoncesStay /\ Owners' /\ nonce' = nonce + Len(cs)
          /\ Sent' = Sent /\ Len(signing') = Len(signing) + Len(cs)
          /\ Consecutive' <=> Consecutive /\ (cs = <<>> \/ nonce = account + Sent + Len(signing) + 1)
      BY <1>1, <2>1, <2>2, <2>3, <3>1, TakeOwners
    <3>3. QED
      BY <2>2, <3>2
  <2>5. Reach \in Nat /\ Reach' = Reach + 1
    <3>1. Sent \in Nat /\ account \in Nat /\ Len(signing) \in Nat
      BY <1>1, ReachType DEF Owners
    <3>2. QED
      BY <1>1, <2>4, <3>1 DEF Reach
  <2>6. AskedFor'
    BY <1>1, <2>1 DEF AskedFor, Course
  <2>7. NoError' = NoError
    BY <1>1 DEF NoError
  <2>8. signer = {} /\ resets = 0 /\ NoError' => Consecutive /\ nonce = Reach + 1
    BY <1>2, <2>7 DEF Course, InStep
  <2>9. Course'
    <3>1. nonce \in Nat \ {0} /\ 1 \in Nat /\ 1 # 0
      BY <1>1, <1>2
    <3>2. Consecutive' <=> Consecutive /\ (1 = 0 \/ nonce = Reach + 1)
      BY <2>4 DEF Reach
    <3>3. UNCHANGED <<signer, resets, updates>>
      BY <1>1
    <3>4. QED
      BY ONLY <2>4, <2>5, <2>6, <2>8, <3>1, <3>2, <3>3, TakeCourse
  <2>10. QED
    BY <2>4, <2>9
<1>3. CASE nonce = 0
  <2>1. UNCHANGED <<nonce, signing, txnonce>>
    BY <1>3 DEF Begin, local
  <2>2. NoncesStay
    BY <2>1 DEF NoncesStay
  <2>3. toEnclave' = toEnclave \/ toEnclave' = Append(toEnclave, GetAccount)
    BY <1>3 DEF Begin, AskUnlessAsked
  <2>4. Owners' /\ (Consecutive' <=> Consecutive) /\ Reach' = Reach
    BY <1>1, <2>1, <2>2, <2>3, SameOwners, QueryOwners
  <2>5. AskedFor'
    <3>1. CASE query # "rejected"
      <4>1. waiting' = Append(waiting, c) /\ waiting \in Seq(Calls)
        BY <1>3, <3>1 DEF Begin, Asking, Line
      <4>2. QED
        BY <4>1 DEF AskedFor
    <3>2. CASE query = "rejected"
      BY <1>1, <1>3, <3>2 DEF Begin, local, AskedFor, Course
    <3>3. QED
      BY <3>1, <3>2
  <2>6. NoError' = NoError /\ Zeros' = Zeros
    BY <1>1 DEF NoError, Zeros
  <2>7. Course'
    BY <1>1, <2>1, <2>4, <2>5, <2>6, QuietCourse
  <2>8. QED
    BY <2>2, <2>4, <2>7
<1>4. QED
  BY <1>2, <1>3

(* The answer gives the nonce after the account's, if none is known by then. *)
LEMMA QueryAnsweredCourse ==
  ASSUME Asking, Owners, Course, QueryAnswered
  PROVE  NoncesStay /\ Owners' /\ Course'
<1> DEFINE n == IF nonce = 0 THEN Head(toApp).nonce + 1 ELSE nonce
           m == Len(waiting)
<1>1. /\ txnonce \in [Calls -> Nat] /\ nonce \in Nat /\ Channels
      /\ toApp # <<>> /\ Head(toApp).type = "account" /\ toApp' = Tail(toApp)
      /\ UNCHANGED <<signer, resets, updates, account, toEnclave>>
      /\ TakeNonces(waiting, n) /\ query' = "none"
  BY DEF Asking, Nonces, QueryAnswered, IsNextResult, bounds, enclave
<1>2. /\ waiting \in Seq(Calls) /\ Once(waiting) /\ m \in Nat
      /\ \A i \in 1..Len(waiting) : txnonce[waiting[i]] = 0
  BY DEF Asking, Line
<1>3. /\ Head(toApp) \in ResultTypes
      /\ NoError <=> NoError'
      /\ Zeros => Head(toApp).nonce = 0
  <2>1. /\ Head(toApp) \in ResultTypes
        /\ NoError <=> NoError' /\ Head(toApp).type # "error"
        /\ Zeros <=> Zeros' /\ (Head(toApp).type = "account" => Head(toApp).nonce = 0)
    BY <1>1, TailResult
  <2>2. Head(toApp).type # "error"
    BY <1>1
  <2>3. QED
    BY <1>1, <2>1, <2>2
<1>4. n \in Nat \ {0} /\ (nonce # 0 => n = nonce) /\ (nonce = 0 /\ Zeros => n = 1)
  BY <1>1, <1>3 DEF ResultTypes
<1> HIDE DEF n
<1>5. /\ NoncesStay /\ Owners' /\ nonce' = n + m
      /\ Sent' = Sent /\ Len(signing') = Len(signing) + m
      /\ Consecutive' <=> Consecutive /\ (waiting = <<>> \/ n = account + Sent + Len(signing) + 1)
  BY <1>1, <1>2, <1>4, TakeOwners
<1>6. Reach \in Nat /\ Reach' = Reach + m
  <2>1. Sent \in Nat /\ account \in Nat /\ Len(signing) \in Nat
    BY <1>1, ReachType DEF Owners
  <2>2. QED
    BY <1>1, <1>2, <1>5, <2>1 DEF Reach
<1>7. query = "pending"
  <2>1. Answers = Count(Tail(toApp), {"account", "queryError"}) + 1
    BY <1>1, CountTail DEF Answers, Channels
  <2>2. Queries \in Nat /\ Answers \in Nat /\ Count(Tail(toApp), {"account", "queryError"}) \in Nat
    BY <1>1, Counted, CountTail, FinitePlaces DEF Channels
  <2>3. Queries + Answers # 0
    BY <2>1, <2>2
  <2>4. QED
    BY <2>3 DEF Asking, OneQueryPending, Queries, Answers
<1>8. updates = 0 => m # 0
  BY <1>2, <1>7 DEF Course, AskedFor
<1>9. waiting = <<>> <=> m = 0
  BY <1>2
<1>10. signer = {} /\ resets = 0 /\ NoError' => Consecutive /\ n = Reach + 1
  <2>1. SUFFICES ASSUME signer = {}, resets = 0, NoError' PROVE Consecutive /\ n = Reach + 1
    OBVIOUS
  <2>2. /\ Consecutive
        /\ nonce # 0 => nonce = Reach + 1
        /\ nonce = 0 => Reach = 0 /\ Zeros
    BY <1>3, <2>1 DEF Course, InStep, Zeros
  <2>3. QED
    BY <1>4, <2>2
<1>11. AskedFor'
  BY <1>1 DEF AskedFor
<1>12. Consecutive' <=> Consecutive /\ (m = 0 \/ n = Reach + 1)
  BY <1>5, <1>9 DEF Reach
<1>13. UNCHANGED <<signer, resets, updates>> /\ (signer = {} /\ updates = 0 /\ NoError' => m # 0)
  BY <1>1, <1>8
<1>14. Course'
  BY ONLY <1>2, <1>4, <1>5, <1>6, <1>10, <1>11, <1>12, <1>13, TakeCourse
<1>15. QED
  BY <1>5, <1>14

(* The application's calls of updateNonce() and the errors are bounded.      *)
Bounds == errors \in 0..MaxErrors /\ updates \in 0..MaxUpdates

LEMMA StepKeepsBounds == Bounds /\ [Next]_vars => Bounds'
<1> SUFFICES ASSUME Bounds, [Next]_vars PROVE Bounds'
  OBVIOUS
<1>1. \/ UNCHANGED <<errors, updates>>
      \/ updates < MaxUpdates /\ updates' = updates + 1 /\ errors' = errors
      \/ errors < MaxErrors /\ errors' = errors + 1 /\ updates' = updates
  BY DEF Next, Begin, SignerStep, Signed, SignerRefused, UpdateNonce, EnclaveStep,
     EnclaveAnswersQuery, EnclaveServesTx, Delivery, QueryAnswered, QueryFailed, Accepted,
     Rejected, ErrorEvent, ReceiptEvent, vars, bounds
<1>2. QED
  BY <1>1, BoundsAssumption DEF Bounds

(* The signer is done with a call.                                           *)
LEMMA SignerCourse ==
  ASSUME Asking, Owners, Course, NEW c \in Calls, SignerStep(c)
  PROVE  NoncesStay /\ Owners' /\ Course'
<1>1. /\ Channels /\ UNCHANGED <<nonce, query, waiting, txnonce, resets, updates, account, toApp>>
      /\ signer \subseteq signer'
  BY DEF Asking, SignerStep, Signed, SignerRefused, local, bounds, enclave
<1>2. PICK i \in 1..Len(signing) : signing[i] = c /\ signing' = RemoveAt(signing, i)
  BY DEF SignerStep, Signed, SignerRefused, Finishes, Owners
<1>3. toEnclave' = toEnclave \/ toEnclave' = Append(toEnclave, Tx(c))
  BY DEF SignerStep, Signed, SignerRefused
<1>4. Owners'
  BY <1>1, <1>2, <1>3, SignOwners
<1>5. NoncesStay /\ AskedFor' /\ NoError' = NoError /\ Zeros' = Zeros
  BY <1>1 DEF NoncesStay, AskedFor, Course, NoError, Zeros
<1>6. CASE signer' # {}
  BY <1>4, <1>5, <1>6, DisturbedCourse
<1>7. CASE signer' = {}
  <2>1. Signed(c) /\ c = Head(signing)
    BY <1>7 DEF SignerStep, Signed, SignerRefused
  <2>2. toEnclave' = Append(toEnclave, Tx(c))
    BY <2>1 DEF Signed
  <2>3. (Consecutive' <=> Consecutive) /\ Reach' = Reach
    BY <1>1, <1>2, <2>1, <2>2, SendOwners
  <2>4. Course'
    BY <1>1, <1>5, <2>3, QuietCourse
  <2>5. QED
    BY <1>4, <1>5, <2>4
<1>8. QED
  BY <1>6, <1>7

(* The enclave serves a message.                                             *)
LEMMA EnclaveCourse ==
  ASSUME Asking, Owners, Course, EnclaveStep
  PROVE  NoncesStay /\ Owners' /\ Course'
<1>1. /\ Channels /\ toEnclave # <<>> /\ toEnclave' = Tail(toEnclave)
      /\ UNCHANGED <<nonce, query, waiting, signing, signer, txnonce, resets, updates>>
  BY DEF Asking, EnclaveStep, EnclaveAnswersQuery, EnclaveServesTx, local, bounds
<1>2. NoncesStay /\ AskedFor'
  BY <1>1 DEF NoncesStay, AskedFor, Course
<1>3. CASE EnclaveAnswersQuery
  <2>1. account' = account /\ Head(toEnclave).type # "tx"
    BY <1>3 DEF EnclaveAnswersQuery, enclave, GetAccount
  <2>2. Owners' /\ (Consecutive' <=> Consecutive) /\ Reach' = Reach
    BY <1>1, <2>1, ServeOwners
  <2>3. PICK r \in {Result("account", NoCall, account), Result("queryError", NoCall, 0)} :
          toApp' = Append(toApp, r)
    BY <1>3 DEF EnclaveAnswersQuery
  <2>4. account \in Nat /\ (Reach = 0 => account = 0)
    BY <1>1, ReachType
  <2>5. r \in ResultTypes /\ r.type # "error" /\ (account = 0 => r.nonce = 0)
    BY <2>4 DEF Result, ResultTypes
  <2>6. (NoError' => NoError) /\ (Reach = 0 /\ Zeros => Zeros')
    BY <1>1, <2>3, <2>4, <2>5, AppendResult
  <2>7. Course'
    BY <1>1, <1>2, <2>2, <2>6, QuietCourse
  <2>8. QED
    BY <1>2, <2>2, <2>7
<1>4. ASSUME NEW c \in Calls, EnclaveServesTx(c)
      PROVE  NoncesStay /\ Owners' /\ Course'
  <2>1. Head(toEnclave).type = "tx" /\ Head(toEnclave).call = c
    BY <1>4 DEF EnclaveServesTx, Tx
  <2>2. CASE txnonce[c] = account + 1 /\ account' = account + 1
             /\ toApp' = Append(toApp, Result("accepted", c, 0))
    <3>1. Owners' /\ (Consecutive' <=> Consecutive) /\ Reach' = Reach
      BY <1>1, <2>1, <2>2, ServeOwners
    <3>2. Result("accepted", c, 0) \in ResultTypes /\ Result("accepted", c, 0).type = "accepted"
      BY ResultKinds
    <3>3. (NoError' => NoError) /\ (Zeros => Zeros')
      BY <1>1, <2>2, <3>2, AppendResult
    <3>4. Course'
      BY <1>1, <1>2, <3>1, <3>3, QuietCourse
    <3>5. QED
      BY <1>2, <3>1, <3>4
  <2>3. CASE account' = account /\ toApp' = Append(toApp, Result("error", c, 0))
    <3>1. Result("error", c, 0) \in ResultTypes /\ Result("error", c, 0).type = "error"
      BY ResultKinds
    <3>2. ~NoError'
      BY <1>1, <2>3, <3>1, AppendResult
    <3>3. Owners'
      BY <1>1, ServedOwners
    <3>4. QED
      BY <1>2, <3>2, <3>3, DisturbedCourse
  <2>4. QED
    BY <1>4, <2>2, <2>3 DEF EnclaveServesTx, enclave
<1>5. QED
  BY <1>3, <1>4 DEF EnclaveStep

(* Anything else: results that arrive, updateNonce(), errors and receipts.   *)
LEMMA OtherCourse ==
  ASSUME Asking, Bounds, Owners, Course,
         UpdateNonce \/ QueryFailed \/ (\E c \in Calls : Accepted(c) \/ Rejected(c))
           \/ ErrorEvent \/ (\E h \in receipts : ReceiptEvent(h)) \/ UNCHANGED vars
  PROVE  NoncesStay /\ Owners' /\ Course'
<1>1. Channels /\ UNCHANGED <<signing, signer, txnonce, account>>
  BY DEF Asking, UpdateNonce, QueryFailed, Accepted, Rejected, ErrorEvent, ReceiptEvent, vars,
     local, enclave, bounds
<1>2. NoncesStay
  BY <1>1 DEF NoncesStay
<1>3. toEnclave' = toEnclave \/ toEnclave' = Append(toEnclave, GetAccount)
  BY DEF UpdateNonce, AskUnlessAsked, QueryFailed, Accepted, Rejected, ErrorEvent, ReceiptEvent, vars
<1>4. Owners' /\ (Consecutive' <=> Consecutive) /\ Reach' = Reach
  BY <1>1, <1>2, <1>3, SameOwners, QueryOwners
<1>5. CASE UpdateNonce
  <2>1. /\ updates' = updates + 1 /\ updates' # 0 /\ UNCHANGED <<nonce, toApp, resets>>
    BY <1>5, BoundsAssumption DEF UpdateNonce, Bounds
  <2>2. AskedFor' /\ NoError' = NoError /\ Zeros' = Zeros
    BY <2>1 DEF AskedFor, NoError, Zeros
  <2>3. QED
    BY <1>1, <1>2, <1>4, <2>1, <2>2, QuietCourse
<1>6. CASE QueryFailed \/ ErrorEvent \/ \E c \in Calls : Rejected(c)
  <2>1. nonce' = 0 /\ resets' = resets + 1 /\ resets \in Nat
    BY <1>6 DEF QueryFailed, ErrorEvent, Rejected, ResetNonce, Asking, Nonces
  <2>2. AskedFor'
    BY <1>6 DEF QueryFailed, ErrorEvent, Rejected, AskedFor, Course, bounds
  <2>3. QED
    BY <1>2, <1>4, <2>1, <2>2, DisturbedCourse
<1>7. ASSUME NEW c \in Calls, Accepted(c) PROVE Course'
  <2>1. /\ toApp # <<>> /\ Head(toApp).type = "accepted" /\ toApp' = Tail(toApp)
        /\ UNCHANGED <<nonce, query, waiting, resets, updates>>
    BY <1>7 DEF Accepted, IsNextResult, local, bounds
  <2>2. AskedFor' /\ (NoError' => NoError) /\ (Zeros => Zeros')
    BY <1>1, <2>1, TailResult DEF AskedFor, Course
  <2>3. QED
    BY <1>1, <1>4, <2>1, <2>2, QuietCourse
<1>8. CASE (\E h \in receipts : ReceiptEvent(h)) \/ UNCHANGED vars
  <2>1. UNCHANGED <<nonce, query, waiting, toApp, resets, updates>>
    BY <1>8 DEF ReceiptEvent, vars, local, bounds
  <2>2. AskedFor' /\ NoError' = NoError /\ Zeros' = Zeros
    BY <2>1 DEF AskedFor, Course, NoError, Zeros
  <2>3. QED
    BY <1>1, <1>2, <1>4, <2>1, <2>2, QuietCourse
<1>9. QED
  BY <1>2, <1>4, <1>5, <1>6, <1>7, <1>8

LEMMA StepKeepsCourse ==
  Asking /\ Bounds /\ Owners /\ Course /\ [Next]_vars => NoncesStay /\ Owners' /\ Course'
BY BeginCourse, SignerCourse, EnclaveCourse, QueryAnsweredCourse, OtherCourse DEF Next, Delivery

LEMMA InitCourse == Init => Owners /\ Course
<1> SUFFICES ASSUME Init PROVE Owners /\ Course
  OBVIOUS
<1>1. Sent = 0
  BY CountEmpty DEF Init, Sent
<1>2. Owners
  BY DEF Init, Owners, Once
<1>3. Consecutive /\ Reach = 0
  BY <1>1 DEF Init, Consecutive, Reach
<1>4. QED
  BY <1>2, <1>3 DEF Init, Course, InStep, Recovers, AskedFor
-------------------------------------------------------------------------------
(* A hash stands for the call that took its nonce: the dispatcher's entries, *)
(* and the receipts on their way.                                            *)
Receipts ==
  /\ payload \in [Calls -> Payloads]
  /\ \A h \in DOMAIN dispatchers : /\ dispatchers[h] \in Calls
                                   /\ txnonce[dispatchers[h]] # 0
                                   /\ h = Hash(dispatchers[h])
  /\ executed \subseteq Calls /\ \A c \in executed : txnonce[c] # 0
  /\ \A h \in receipts : \E c \in executed : h = Hash(c)
  /\ resolved \subseteq Calls
  /\ ReceiptOfOwnTx

HashesStay == /\ \A c \in Calls : txnonce[c] # 0 => txnonce'[c] # 0 /\ Hash(c)' = Hash(c)
              /\ payload' = payload
              /\ resets' = 0 => resets = 0

LEMMA StepKeepsHashes ==
  ASSUME Asking, NoncesStay, [Next]_vars
  PROVE  HashesStay
<1>1. payload' = payload
  BY DEF Next, Begin, SignerStep, Signed, SignerRefused, UpdateNonce, EnclaveStep,
     EnclaveAnswersQuery, EnclaveServesTx, Delivery, QueryAnswered, QueryFailed, Accepted,
     Rejected, ErrorEvent, ReceiptEvent, vars
<1>2. resets' = resets \/ resets' = resets + 1
  BY DEF Next, Begin, SignerStep, Signed, SignerRefused, UpdateNonce, EnclaveStep,
     EnclaveAnswersQuery, EnclaveServesTx, Delivery, QueryAnswered, QueryFailed, Accepted,
     Rejected, ErrorEvent, ReceiptEvent, ResetNonce, vars
<1>3. QED
  BY <1>1, <1>2 DEF HashesStay, NoncesStay, Hash, Asking, Nonces

LEMMA SameReceipts ==
  ASSUME Receipts, HashesStay, UNCHANGED <<dispatchers, resolved, receipts, executed>>
  PROVE  Receipts'
<1>1. \A h \in receipts' : \E c \in executed' : h = Hash(c)'
  <2>1. TAKE h \in receipts'
  <2>2. PICK c \in executed : h = Hash(c)
    BY DEF Receipts
  <2>3. Hash(c)' = Hash(c)
    BY DEF Receipts, HashesStay
  <2>4. QED
    BY <2>2, <2>3
<1>2. QED
  BY <1>1 DEF Receipts, HashesStay, ReceiptOfOwnTx

(* A receipt is registered under the hash of its call.                       *)
LEMMA RegisterReceipt ==
  ASSUME Receipts, HashesStay, NEW c \in Calls, txnonce[c] # 0,
         dispatchers' = [h \in DOMAIN dispatchers \union {Hash(c)} |->
                           IF h = Hash(c) THEN c ELSE dispatchers[h]],
         UNCHANGED <<resolved, receipts, executed>>
  PROVE  Receipts'
<1> DEFINE hash == Hash(c)
<1>1. /\ DOMAIN dispatchers' = DOMAIN dispatchers \union {hash}
      /\ dispatchers'[hash] = c
      /\ \A h \in DOMAIN dispatchers : h # hash => dispatchers'[h] = dispatchers[h]
  OBVIOUS
<1>2. txnonce'[c] # 0 /\ Hash(c)' = hash
  BY DEF HashesStay
<1> HIDE DEF hash
<1>3. \A h \in DOMAIN dispatchers' : /\ dispatchers'[h] \in Calls
                                     /\ txnonce'[dispatchers'[h]] # 0
                                     /\ h = Hash(dispatchers[h])'
  <2>1. TAKE h \in DOMAIN dispatchers'
  <2>2. CASE h = hash
    BY <1>1, <1>2, <2>2 DEF Hash
  <2>3. CASE h # hash
    <3>1. h \in DOMAIN dispatchers /\ dispatchers'[h] = dispatchers[h]
      BY <1>1, <2>3
    <3>2. /\ dispatchers[h] \in Calls /\ txnonce[dispatchers[h]] # 0
          /\ h = Hash(dispatchers[h])
      BY <3>1 DEF Receipts
    <3>3. QED
      BY <3>1, <3>2 DEF HashesStay, Hash
  <2>4. QED
    BY <2>2, <2>3
<1>4. \A h \in receipts' : \E d \in executed' : h = Hash(d)'
  <2>1. TAKE h \in receipts'
  <2>2. PICK d \in executed : h = Hash(d)
    BY DEF Receipts
  <2>3. Hash(d)' = Hash(d)
    BY DEF Receipts, HashesStay
  <2>4. QED
    BY <2>2, <2>3
<1>5. QED
  BY <1>3, <1>4 DEF Receipts, HashesStay, ReceiptOfOwnTx

(* The enclave executes a call and emits its receipt.                        *)
LEMMA ExecuteReceipt ==
  ASSUME Receipts, HashesStay, NEW c \in Calls, txnonce[c] # 0,
         executed' = executed \union {c}, receipts' = receipts \union {Hash(c)},
         UNCHANGED <<dispatchers, resolved>>
  PROVE  Receipts'
<1>1. \A h \in receipts' : \E d \in executed' : h = Hash(d)'
  <2>1. TAKE h \in receipts'
  <2>2. PICK d \in executed' : h = Hash(d)
    BY DEF Receipts
  <2>3. Hash(d)' = Hash(d)
    BY DEF Receipts, HashesStay
  <2>4. QED
    BY <2>2, <2>3
<1>2. QED
  BY <1>1 DEF Receipts, HashesStay, ReceiptOfOwnTx

(* A receipt resolves the promise of the call whose hash it has.             *)
LEMMA WatchReceipt ==
  ASSUME Asking, Receipts, HashesStay, NEW h \in receipts, ReceiptEvent(h)
  PROVE  Receipts'
<1>1. /\ receipts' = receipts \ {h} /\ UNCHANGED <<dispatchers, executed, txnonce, payload, resets>>
      /\ resolved' = resolved \union ({dispatchers[g] : g \in {h} \intersect DOMAIN dispatchers})
  BY DEF ReceiptEvent
<1>2. resolved' \subseteq Calls
  BY <1>1 DEF Receipts
<1>3. ReceiptOfOwnTx'
  <2>1. SUFFICES ASSUME resets = 0, h \in DOMAIN dispatchers
                 PROVE  dispatchers[h] \in executed
    BY <1>1 DEF Receipts, ReceiptOfOwnTx
  <2>2. PICK c \in executed : h = Hash(c)
    BY DEF Receipts
  <2> DEFINE d == dispatchers[h]
  <2>3. c \in Calls /\ d \in Calls /\ txnonce[c] # 0 /\ Hash(d) = Hash(c)
    BY <2>1, <2>2 DEF Receipts
  <2> HIDE DEF d
  <2>4. txnonce[d] = txnonce[c]
    BY <2>3 DEF Hash
  <2>5. era[c] = 0 /\ era[d] = 0
    BY <2>1, <2>3 DEF Asking, Nonces
  <2>6. c = d
    BY <2>3, <2>4, <2>5 DEF Asking, Nonces, DistinctNonces
  <2>7. QED
    BY <2>6 DEF d
<1>4. /\ \A g \in DOMAIN dispatchers : Hash(dispatchers[g])' = Hash(dispatchers[g])
      /\ \A c \in executed : Hash(c)' = Hash(c)
  BY <1>1 DEF Hash
<1>5. QED
  BY <1>1, <1>2, <1>3, <1>4 DEF Receipts

LEMMA StepKeepsReceipts ==
  ASSUME Asking, Owners, Receipts, NoncesStay, [Next]_vars
  PROVE  Receipts'
<1>1. HashesStay
  BY StepKeepsHashes
<1>2. ASSUME NEW c \in Calls, Begin(c) \/ SignerRefused(c) \/ Accepted(c) \/ Rejected(c)
      PROVE  Receipts'
  BY <1>1, <1>2, SameReceipts DEF Begin, SignerRefused, Accepted, Rejected, promises, enclave
<1>3. CASE UpdateNonce \/ EnclaveAnswersQuery \/ QueryAnswered \/ QueryFailed \/ ErrorEvent
             \/ UNCHANGED vars
  BY <1>1, <1>3, SameReceipts DEF UpdateNonce, EnclaveAnswersQuery, QueryAnswered, QueryFailed,
     ErrorEvent, vars, promises, enclave
<1>4. ASSUME NEW c \in Calls, Signed(c) PROVE Receipts'
  <2>1. txnonce[c] # 0
    BY <1>4 DEF Signed, Finishes, Owners
  <2>2. QED
    BY <1>1, <1>4, <2>1, RegisterReceipt DEF Signed, enclave
<1>5. ASSUME NEW c \in Calls, EnclaveServesTx(c) PROVE Receipts'
  <2>1. CASE UNCHANGED enclave
    BY <1>1, <1>5, <2>1, SameReceipts DEF EnclaveServesTx, promises, enclave
  <2>2. CASE /\ txnonce[c] = account + 1 /\ executed' = executed \union {c}
             /\ receipts' = receipts \union {Hash(c)}
    <3>1. txnonce[c] # 0
      BY <2>2 DEF Asking, Channels
    <3>2. QED
      BY <1>1, <1>5, <2>2, <3>1, ExecuteReceipt DEF EnclaveServesTx, promises
  <2>3. QED
    BY <1>5, <2>1, <2>2 DEF EnclaveServesTx
<1>6. ASSUME NEW h \in receipts, ReceiptEvent(h) PROVE Receipts'
  BY <1>1, <1>6, WatchReceipt
<1>7. QED
  BY <1>2, <1>3, <1>4, <1>5, <1>6 DEF Next, SignerStep, EnclaveStep, Delivery
-------------------------------------------------------------------------------
(* The inductive invariant.                                                  *)
IInv == Asking /\ Bounds /\ Owners /\ Course /\ Receipts

(* Through every interleaving of calls, signatures, responses and resets the *)
(* bookkeeping of nonces, channels and receipts stays consistent.            *)
THEOREM Invariance == Spec => []IInv
<1>1. Init => Asking
  BY InitNonces, CountEmpty DEF Init, Asking, Channels, OneQueryPending
<1>2. Init => Bounds /\ Receipts
  BY BoundsAssumption DEF Init, Bounds, Receipts, ReceiptOfOwnTx
<1>3. Asking /\ [Next]_vars => Asking'
  BY StepKeepsNonces, StepKeepsChannels DEF Asking
<1>4. IInv /\ [Next]_vars => IInv'
  BY <1>3, StepKeepsBounds, StepKeepsCourse, StepKeepsReceipts DEF IInv
<1>5. QED
  BY <1>1, <1>2, <1>4, InitCourse, PTL DEF Spec, IInv

(* Two calls have the same nonce only if it was reset in between.            *)
THEOREM NoncesAreDistinct == Spec => []DistinctNonces
<1>1. IInv => DistinctNonces
  BY DEF IInv, Asking, Nonces
<1>2. QED
  BY <1>1, Invariance, PTL

(* One query serves all who wait, and nobody waits without one.              *)
THEOREM OneQueryServes == Spec => []WaitersServed
<1>1. ASSUME IInv PROVE WaitersServed
  <2>1. InTransit("getAccount") = Queries
    <3>1. {i \in DOMAIN toEnclave : toEnclave[i].type = "getAccount"} =
            Places(toEnclave, {"getAccount"})
      BY <1>1 DEF IInv, Asking, Channels, Places
    <3>2. QED
      BY <3>1 DEF InTransit, Queries, Count
  <2>2. Cardinality({i \in DOMAIN toApp : toApp[i].type \in {"account", "queryError"}}) = Answers
    <3>1. {i \in DOMAIN toApp : toApp[i].type \in {"account", "queryError"}} =
            Places(toApp, {"account", "queryError"})
      BY <1>1 DEF IInv, Asking, Channels, Places
    <3>2. QED
      BY <3>1 DEF Answers, Count
  <2>3. QED
    BY <1>1, <2>1, <2>2 DEF IInv, Asking, OneQueryPending, WaitersServed, Queries, Answers
<1>2. QED
  BY <1>1, Invariance, PTL

(* The types of the session, of the channels and of the enclave's account.   *)
THEOREM TypeCorrect == Spec => []TypeOK
<1>1. ASSUME IInv PROVE TypeOK
  <2>1. Asking /\ Bounds /\ Owners /\ Receipts
    BY <1>1 DEF IInv
  <2>2. /\ nonce \in Nat /\ resets \in Nat /\ stage \in [Calls -> Stages]
        /\ txnonce \in [Calls -> Nat] /\ era \in [Calls -> Nat]
    BY <2>1 DEF Asking, Nonces
  <2>3. /\ waiting \in Seq(Calls) /\ signing \in Seq(Calls)
        /\ toEnclave \in Seq(MessageTypes) /\ toApp \in Seq(ResultTypes) /\ account \in Nat
        /\ query \in {"none", "pending", "rejected"}
    BY <2>1 DEF Asking, Line, Owners, Channels, OneQueryPending
  <2>4. \A c \in Calls : Hash(c) \in Hashes
    BY <2>1, <2>2 DEF Receipts, Hash, Hashes
  <2>5. /\ DOMAIN dispatchers \subseteq Hashes
        /\ \A h \in DOMAIN dispatchers : dispatchers[h] \in Calls
        /\ receipts \subseteq Hashes /\ executed \subseteq Calls /\ resolved \subseteq Calls
        /\ payload \in [Calls -> Payloads]
    BY <2>1, <2>4 DEF Receipts
  <2>6. QED
    BY <2>1, <2>2, <2>3, <2>5 DEF TypeOK, Bounds
<1>2. QED
  BY <1>1, Invariance, PTL

(* Until the nonce is reset, a receipt resolves the promise of the call that *)
(* was executed, though the dispatcher knows only hashes.                    *)
THEOREM ReceiptsFindTheirCalls == Spec => []ReceiptOfOwnTx
<1>1. IInv => ReceiptOfOwnTx
  BY DEF IInv, Receipts
<1>2. QED
  BY <1>1, Invariance, PTL

(* What an undisturbed session sends arrives in order and without a gap.     *)
THEOREM SentInOrder == Spec => []InOrder
<1>1. ASSUME IInv PROVE InOrder
  <2> DEFINE txs == {i \in DOMAIN toEnclave : toEnclave[i].type = "tx"}
  <2>1. Consecutive \/ ~(signer = {} /\ Undisturbed)
    BY <1>1 DEF IInv, Asking, Channels, Course, InStep, Undisturbed, NoError
  <2>2. ASSUME NEW i \in txs PROVE Cardinality({j \in txs : j <= i}) = Rank(toEnclave, i)
    <3>1. toEnclave \in Seq(MessageTypes) /\ Len(toEnclave) \in Nat /\ i \in 1..Len(toEnclave)
      BY <1>1 DEF IInv, Asking, Channels
    <3> DEFINE u == SubSeq(toEnclave, 1, i)
    <3>2. /\ Len(u) = i /\ \A j \in 1..i : u[j] = toEnclave[j]
          /\ \A j : j \in DOMAIN toEnclave /\ j <= i <=> j \in 1..i
      BY <3>1
    <3> HIDE DEF u
    <3>3. Places(u, {"tx"}) = {j \in 1..i : toEnclave[j].type = "tx"}
      BY <3>2 DEF Places
    <3>4. {j \in txs : j <= i} = {j \in 1..i : toEnclave[j].type = "tx"}
      BY <3>2
    <3>5. QED
      BY <3>3, <3>4 DEF Rank, Count, u
  <2>3. DOMAIN toEnclave = 1..Len(toEnclave)
    BY <1>1 DEF IInv, Asking, Channels
  <2>4. QED
    BY <2>1, <2>2, <2>3 DEF InOrder, Consecutive
<1>2. QED
  BY <1>1, Invariance, PTL

(* A session finds back to the nonce that the enclave expects, whatever was  *)
(* rejected, reset or lost on the way.                                       *)
THEOREM NonceIsCurrent == Spec => []QuietMeansCurrent
<1>1. ASSUME IInv, Quiet, nonce # 0, signer = {}, updates = 0
      PROVE  nonce = account + 1
  <2>1. Sent = 0 /\ account \in Nat /\ Len(signing) = 0 /\ Len(toEnclave) = 0 /\ Len(toApp) = 0
    BY <1>1, CountEmpty DEF Quiet, Sent, IInv, Asking, Channels
  <2>2. Consecutive /\ NoError /\ Reach = account
    BY <2>1 DEF Consecutive, NoError, Reach
  <2>3. QED
    BY <1>1, <2>2 DEF IInv, Course, Recovers
<1>2. IInv => QuietMeansCurrent
  BY <1>1 DEF QuietMeansCurrent
<1>3. QED
  BY <1>2, Invariance, PTL
-------------------------------------------------------------------------------
(* Why every call ends, up to fairness: whoever has begun is where the next  *)
(* step looks for it, and no message holds up those behind it.               *)
OfCall(r, c) == r.type \in {"accepted", "error"} /\ r.call = c
OfQuery(r) == r.type \in {"account", "queryError"}

(* The lines hold the calls of their stage.                                  *)
Lines == \A c \in Calls : /\ stage[c] = "waiting" <=> c \in Range(waiting)
                          /\ stage[c] = "signing" <=> c \in Range(signing)

(* What is sent is on its way.                                               *)
SentIsUnderway ==
  \A c \in Calls : stage[c] = "sent" => \/ \E i \in 1..Len(toEnclave) : toEnclave[i] = Tx(c)
                                        \/ \E i \in 1..Len(toApp) : OfCall(toApp[i], c)

(* Each message is one that the other side knows what to do with.            *)
Understood ==
  /\ \A i \in 1..Len(toEnclave) :
       toEnclave[i] = GetAccount \/ \E c \in Calls : toEnclave[i] = Tx(c)
  /\ \A i \in 1..Len(toApp) : OfQuery(toApp[i]) \/ \E c \in Calls : OfCall(toApp[i], c)

(* A call that is sent is on its way once, one that is not is not.           *)
OnTheWayOnce ==
  /\ \A i \in 1..Len(toEnclave), c \in Calls : toEnclave[i] = Tx(c) =>
       /\ stage[c] = "sent"
       /\ \A j \in 1..Len(toEnclave) : toEnclave[j] = Tx(c) => i = j
       /\ \A j \in 1..Len(toApp) : ~OfCall(toApp[j], c)
  /\ \A i \in 1..Len(toApp), c \in Calls : OfCall(toApp[i], c) =>
       /\ stage[c] = "sent"
       /\ \A j \in 1..Len(toApp) : OfCall(toApp[j], c) => i = j

Way == SentIsUnderway /\ Understood /\ OnTheWayOnce

LEMMA Elements ==
  ASSUME NEW S, NEW s \in Seq(S)
  PROVE  /\ Len(s) \in Nat /\ \A i \in 1..Len(s) : s[i] \in S
         /\ \A e \in S : /\ Len(Append(s, e)) = Len(s) + 1
                         /\ Append(s, e)[Len(s) + 1] = e
                         /\ \A i \in 1..Len(s) : Append(s, e)[i] = s[i]
                         /\ \A i \in 1..(Len(s) + 1) : i \in 1..Len(s) \/ i = Len(s) + 1
         /\ s # <<>> => /\ Len(Tail(s)) = Len(s) - 1 /\ Head(s) = s[1] /\ 1 \in 1..Len(s)
                        /\ \A i \in 1..Len(Tail(s)) : /\ Tail(s)[i] = s[i + 1]
                                                      /\ i + 1 \in 1..Len(s) /\ i + 1 # 1
                        /\ \A i \in 1..Len(s) : i = 1 \/ (i - 1 \in 1..Len(Tail(s)) /\ (i - 1) + 1 = i)
OBVIOUS

LEMMA Kinds ==
  \A c, d \in Calls : /\ Tx(c) # GetAccount /\ (Tx(c) = Tx(d) => c = d)
                      /\ \A r : OfCall(r, c) => ~OfQuery(r) /\ (OfCall(r, d) => c = d)
BY DEF Tx, GetAccount, OfCall, OfQuery

(* Neither channel moves, and nobody's transaction is sent or answered.      *)
LEMMA SameWay ==
  ASSUME Way, UNCHANGED <<toEnclave, toApp>>,
         \A c \in Calls : stage'[c] = "sent" <=> stage[c] = "sent"
  PROVE  Way'
<1>1. SentIsUnderway'
  BY DEF Way, SentIsUnderway
<1>2. Understood'
  BY DEF Way, Understood
<1>3. OnTheWayOnce'
  BY DEF Way, OnTheWayOnce
<1>. QED  BY <1>1, <1>2, <1>3 DEF Way

(* m is sent to the enclave: a query, or the transaction of a call.          *)
LEMMA SendWay ==
  ASSUME Way, Channels, UNCHANGED toApp, NEW m \in MessageTypes,
         toEnclave' = Append(toEnclave, m),
         \/ m = GetAccount /\ \A c \in Calls : stage'[c] = "sent" <=> stage[c] = "sent"
         \/ \E d \in Calls : /\ m = Tx(d) /\ stage[d] # "sent" /\ stage'[d] = "sent"
                             /\ \A c \in Calls \ {d} : stage'[c] = stage[c]
  PROVE  Way'
<1>. DEFINE k == Len(toEnclave)
<1>1. /\ k \in Nat /\ Len(toEnclave') = k + 1 /\ toEnclave'[k + 1] = m
      /\ \A i \in 1..k : toEnclave'[i] = toEnclave[i]
      /\ \A i \in 1..(k + 1) : i \in 1..k \/ i = k + 1
      /\ \A i \in 1..k : i \in 1..(k + 1) /\ i # k + 1
  BY Elements DEF Channels
<1>2. \A c \in Calls : stage'[c] = "sent" <=> stage[c] = "sent" \/ m = Tx(c)
  BY Kinds
<1>3. \A c \in Calls : m = Tx(c) => stage[c] # "sent"
  BY Kinds
<1>4. m = GetAccount \/ \E c \in Calls : m = Tx(c)
  OBVIOUS
<1>. HIDE DEF k
<1>5. SentIsUnderway'
  BY <1>1, <1>2 DEF Way, SentIsUnderway, k
<1>6. Understood'
  BY <1>1, <1>4 DEF Way, Understood, k
<1>7. OnTheWayOnce'
  BY <1>1, <1>2, <1>3 DEF Way, OnTheWayOnce, k
<1>. QED  BY <1>5, <1>6, <1>7 DEF Way

(* The enclave answers the first message m with r.                           *)
LEMMA ServeWay ==
  ASSUME Way, Channels, toEnclave # <<>>, toEnclave' = Tail(toEnclave),
         NEW r \in ResultTypes, toApp' = Append(toApp, r), UNCHANGED stage,
         \/ Head(toEnclave) = GetAccount /\ OfQuery(r)
         \/ \E c \in Calls : Head(toEnclave) = Tx(c) /\ OfCall(r, c)
  PROVE  Way'
<1>. DEFINE k == Len(toEnclave')
            l == Len(toApp)
            m == toEnclave[1]
<1>1. /\ k \in Nat /\ Len(toEnclave) = k + 1
      /\ \A i \in 1..k : toEnclave'[i] = toEnclave[i + 1] /\ i + 1 \in 1..(k + 1) /\ i + 1 # 1
      /\ \A i \in 1..(k + 1) : i = 1 \/ (i - 1 \in 1..k /\ (i - 1) + 1 = i)
      /\ Head(toEnclave) = m /\ 1 \in 1..(k + 1)
  BY Elements DEF Channels
<1>2. /\ l \in Nat /\ Len(toApp') = l + 1 /\ toApp'[l + 1] = r
      /\ \A i \in 1..l : toApp'[i] = toApp[i]
      /\ \A i \in 1..(l + 1) : i \in 1..l \/ i = l + 1
      /\ \A i \in 1..l : i \in 1..(l + 1) /\ i # l + 1
      /\ l + 1 \in 1..(l + 1)
  BY Elements DEF Channels
<1>3. \A c \in Calls : m = Tx(c) <=> OfCall(r, c)
  BY <1>1, Kinds
<1>. HIDE DEF k, l, m
<1>4. SentIsUnderway'
  <2>. SUFFICES ASSUME NEW c \in Calls, stage[c] = "sent"
                PROVE  \/ \E i \in 1..k : toEnclave'[i] = Tx(c)
                       \/ \E i \in 1..(l + 1) : OfCall(toApp'[i], c)
    BY <1>2 DEF SentIsUnderway, OfCall, k
  <2>1. CASE \E i \in 1..(k + 1) : toEnclave[i] = Tx(c)
    <3>1. PICK i \in 1..(k + 1) : toEnclave[i] = Tx(c)
      BY <2>1
    <3>2. CASE i = 1
      BY <1>2, <1>3, <3>1, <3>2 DEF m
    <3>3. CASE i # 1
      <4>1. i - 1 \in 1..k /\ toEnclave'[i - 1] = toEnclave[i]
        BY <1>1, <3>3
      <4>. QED  BY <3>1, <4>1
    <3>. QED  BY <3>2, <3>3
  <2>2. CASE \E i \in 1..l : OfCall(toApp[i], c)
    BY <1>2, <2>2
  <2>. QED  BY <1>1, <2>1, <2>2 DEF Way, SentIsUnderway, l
<1>5. Understood'
  <2>1. \A i \in 1..k : toEnclave'[i] = GetAccount \/ \E c \in Calls : toEnclave'[i] = Tx(c)
    BY <1>1 DEF Way, Understood
  <2>2. \A i \in 1..(l + 1) : OfQuery(toApp'[i]) \/ \E c \in Calls : OfCall(toApp'[i], c)
    BY <1>2 DEF Way, Understood, l
  <2>. QED  BY <1>2, <2>1, <2>2 DEF Understood, OfQuery, OfCall, k
<1>6. OnTheWayOnce'
  <2>1. /\ \A i \in 1..(k + 1), c \in Calls : toEnclave[i] = Tx(c) =>
             /\ stage[c] = "sent"
             /\ \A j \in 1..(k + 1) : toEnclave[j] = Tx(c) => i = j
             /\ \A j \in 1..l : ~OfCall(toApp[j], c)
        /\ \A i \in 1..l, c \in Calls : OfCall(toApp[i], c) =>
             /\ stage[c] = "sent"
             /\ \A j \in 1..l : OfCall(toApp[j], c) => i = j
    BY <1>1 DEF Way, OnTheWayOnce, l
  <2>2. ASSUME NEW i \in 1..k, NEW c \in Calls, toEnclave'[i] = Tx(c)
        PROVE  /\ stage[c] = "sent"
               /\ \A j \in 1..k : toEnclave'[j] = Tx(c) => i = j
               /\ \A j \in 1..(l + 1) : ~OfCall(toApp'[j], c)
    <3>1. toEnclave[i + 1] = Tx(c) /\ i + 1 \in 1..(k + 1)
      BY <1>1, <2>2
    <3>2. m # Tx(c)
      BY <1>1, <2>1, <3>1 DEF m
    <3>3. \A j \in 1..k : toEnclave'[j] = Tx(c) => i = j
      BY <1>1, <2>1, <3>1
    <3>4. stage[c] = "sent" /\ \A j \in 1..l : ~OfCall(toApp[j], c)
      BY <2>1, <3>1
    <3>5. ~OfCall(r, c)
      BY <1>3, <3>2
    <3>6. \A j \in 1..(l + 1) : ~OfCall(toApp'[j], c)
      BY <1>2, <3>4, <3>5
    <3>. QED  BY <3>3, <3>4, <3>6
  <2>3. ASSUME NEW i \in 1..(l + 1), NEW c \in Calls, OfCall(toApp'[i], c)
        PROVE  /\ stage[c] = "sent"
               /\ \A j \in 1..(l + 1) : OfCall(toApp'[j], c) => i = j
    <3>1. CASE OfCall(r, c)
      <4>1. m = Tx(c) /\ stage[c] = "sent" /\ \A j \in 1..l : ~OfCall(toApp[j], c)
        BY <1>1, <1>3, <2>1, <3>1 DEF m
      <4>. QED  BY <1>2, <2>3, <4>1
    <3>2. CASE ~OfCall(r, c)
      BY <1>2, <2>1, <2>3, <3>2
    <3>. QED  BY <3>1, <3>2
  <2>4. Len(toApp') = l + 1 /\ Len(toEnclave') = k /\ stage' = stage
    BY <1>2 DEF k
  <2>5. \A i \in 1..Len(toEnclave'), c \in Calls : toEnclave'[i] = Tx(c) =>
          /\ stage'[c] = "sent"
          /\ \A j \in 1..Len(toEnclave') : toEnclave'[j] = Tx(c) => i = j
          /\ \A j \in 1..Len(toApp') : ~OfCall(toApp'[j], c)
    BY <2>2, <2>4
  <2>6. \A i \in 1..Len(toApp'), c \in Calls : OfCall(toApp'[i], c) =>
          /\ stage'[c] = "sent"
          /\ \A j \in 1..Len(toApp') : OfCall(toApp'[j], c) => i = j
    BY <2>3, <2>4
  <2>. QED  BY <2>5, <2>6, Zenon DEF OnTheWayOnce, OfCall
<1>. QED  BY <1>4, <1>5, <1>6 DEF Way

(* The first result arrives; the call it answers, if any, has an end.        *)
LEMMA ArriveWay ==
  ASSUME Way, Channels, toApp # <<>>, toApp' = Tail(toApp), UNCHANGED toEnclave,
         \A c \in Calls : stage'[c] = "sent" <=> stage[c] = "sent" /\ ~OfCall(Head(toApp), c)
  PROVE  Way'
<1>. DEFINE l == Len(toApp')
            r == toApp[1]
<1>1. /\ l \in Nat /\ Len(toApp) = l + 1
      /\ \A i \in 1..l : toApp'[i] = toApp[i + 1] /\ i + 1 \in 1..(l + 1) /\ i + 1 # 1
      /\ \A i \in 1..(l + 1) : i = 1 \/ (i - 1 \in 1..l /\ (i - 1) + 1 = i)
      /\ Head(toApp) = r /\ 1 \in 1..(l + 1)
  BY Elements DEF Channels
<1>. HIDE DEF l, r
<1>2. \A c \in Calls : stage'[c] = "sent" <=> stage[c] = "sent" /\ ~OfCall(r, c)
  BY <1>1
<1>3. SentIsUnderway'
  <2>. SUFFICES ASSUME NEW c \in Calls, stage[c] = "sent", ~OfCall(r, c),
                       ~ \E i \in 1..Len(toEnclave) : toEnclave[i] = Tx(c)
                PROVE  \E i \in 1..l : OfCall(toApp'[i], c)
    BY <1>2 DEF SentIsUnderway, OfCall, l
  <2>1. PICK i \in 1..(l + 1) : OfCall(toApp[i], c)
    BY <1>1 DEF Way, SentIsUnderway
  <2>2. i # 1
    BY <2>1 DEF r
  <2>3. i - 1 \in 1..l /\ toApp'[i - 1] = toApp[i]
    BY <1>1, <2>2
  <2>. QED  BY <2>1, <2>3
<1>4. Understood'
  <2>1. \A i \in 1..l : OfQuery(toApp'[i]) \/ \E c \in Calls : OfCall(toApp'[i], c)
    BY <1>1 DEF Way, Understood
  <2>. QED  BY <2>1 DEF Way, Understood, OfQuery, OfCall, l
<1>5. OnTheWayOnce'
  <2>1. /\ \A i \in 1..Len(toEnclave), c \in Calls : toEnclave[i] = Tx(c) =>
             /\ stage[c] = "sent"
             /\ \A j \in 1..Len(toEnclave) : toEnclave[j] = Tx(c) => i = j
             /\ \A j \in 1..(l + 1) : ~OfCall(toApp[j], c)
        /\ \A i \in 1..(l + 1), c \in Calls : OfCall(toApp[i], c) =>
             /\ stage[c] = "sent"
             /\ \A j \in 1..(l + 1) : OfCall(toApp[j], c) => i = j
    BY <1>1 DEF Way, OnTheWayOnce
  <2>2. ASSUME NEW i \in 1..Len(toEnclave), NEW c \in Calls, toEnclave[i] = Tx(c)
        PROVE  stage'[c] = "sent" /\ \A j \in 1..l : ~OfCall(toApp'[j], c)
    BY <1>1, <1>2, <2>1, <2>2 DEF r
  <2>3. ASSUME NEW i \in 1..l, NEW c \in Calls, OfCall(toApp'[i], c)
        PROVE  stage'[c] = "sent" /\ \A j \in 1..l : OfCall(toApp'[j], c) => i = j
    <3>1. OfCall(toApp[i + 1], c) /\ i + 1 \in 1..(l + 1) /\ i + 1 # 1
      BY <1>1, <2>3
    <3>2. stage[c] = "sent" /\ ~OfCall(r, c)
      BY <1>1, <2>1, <3>1 DEF r
    <3>. QED  BY <1>1, <1>2, <2>1, <3>1, <3>2
  <2>. QED  BY <2>1, <2>2, <2>3 DEF OnTheWayOnce, OfCall, l
<1>. QED  BY <1>3, <1>4, <1>5 DEF Way
-------------------------------------------------------------------------------
(* The lines: who takes a nonce leaves the one for the other.                *)
LEMMA Ranges ==
  ASSUME NEW S, NEW s \in Seq(S)
  PROVE  /\ \A x : x \in Range(s) <=> \E i \in 1..Len(s) : s[i] = x
         /\ \A e \in S : Range(Append(s, e)) = Range(s) \union {e}
         /\ \A t \in Seq(S) : Range(s \o t) = Range(s) \union Range(t)
<1>1. \A q \in Seq(S) : \A x : x \in Range(q) <=> \E i \in 1..Len(q) : q[i] = x
  BY DEF Range
<1>2. ASSUME NEW e \in S PROVE Range(Append(s, e)) = Range(s) \union {e}
  <2>. DEFINE k == Len(s)
              t == Append(s, e)
  <2>1. /\ t \in Seq(S) /\ k \in Nat /\ Len(t) = k + 1 /\ t[k + 1] = e
        /\ \A i \in 1..k : t[i] = s[i] /\ i \in 1..(k + 1)
        /\ \A i \in 1..(k + 1) : i \in 1..k \/ i = k + 1
        /\ k + 1 \in 1..(k + 1)
    BY Elements
  <2>2. \A x : x \in Range(s) <=> \E i \in 1..k : s[i] = x
    BY <1>1
  <2>3. \A x : x \in Range(t) <=> \E i \in 1..(k + 1) : t[i] = x
    <3>. HIDE DEF k, t
    <3>1. \A x : x \in Range(t) <=> \E i \in 1..Len(t) : t[i] = x
      BY <1>1, <2>1
    <3>. QED  BY <2>1, <3>1
  <2>. HIDE DEF k, t
  <2>4. \A x : x \in Range(t) <=> x \in Range(s) \/ x = e
    BY <2>1, <2>2, <2>3
  <2>. QED  BY <2>4 DEF t
<1>3. ASSUME NEW t \in Seq(S) PROVE Range(s \o t) = Range(s) \union Range(t)
  <2>1. /\ s \o t \in Seq(S) /\ Len(s \o t) = Len(s) + Len(t) /\ Len(s) \in Nat /\ Len(t) \in Nat
        /\ \A i \in 1..(Len(s) + Len(t)) :
             (s \o t)[i] = IF i <= Len(s) THEN s[i] ELSE t[i - Len(s)]
    BY ConcatProperties
  <2>2. ASSUME NEW x \in Range(s \o t) PROVE x \in Range(s) \union Range(t)
    <3>1. PICK i \in 1..(Len(s) + Len(t)) : (s \o t)[i] = x
      BY <1>1, <2>1
    <3>2. CASE i <= Len(s)
      BY <1>1, <2>1, <3>1, <3>2
    <3>3. CASE ~(i <= Len(s))
      <4>1. i - Len(s) \in 1..Len(t) /\ t[i - Len(s)] = x
        BY <2>1, <3>1, <3>3
      <4>. QED  BY <1>1, <4>1
    <3>. QED  BY <3>2, <3>3
  <2>3. ASSUME NEW x \in Range(s) PROVE x \in Range(s \o t)
    <3>1. PICK i \in 1..Len(s) : s[i] = x
      BY <1>1, <2>3
    <3>2. i \in 1..(Len(s) + Len(t)) /\ (s \o t)[i] = s[i]
      BY <2>1
    <3>. QED  BY <1>1, <2>1, <3>1, <3>2
  <2>4. ASSUME NEW x \in Range(t) PROVE x \in Range(s \o t)
    <3>1. PICK i \in 1..Len(t) : t[i] = x
      BY <1>1, <2>4
    <3>2. Len(s) + i \in 1..(Len(s) + Len(t)) /\ (s \o t)[Len(s) + i] = t[i]
      BY <2>1
    <3>. QED  BY <1>1, <2>1, <3>1, <3>2
  <2>. QED  BY <2>2, <2>3, <2>4
<1>. QED  BY <1>1, <1>2, <1>3

LEMMA RangeRemoved ==
  ASSUME NEW S, NEW s \in Seq(S), Once(s), NEW i \in 1..Len(s)
  PROVE  Range(RemoveAt(s, i)) = Range(s) \ {s[i]}
<1>. DEFINE t == RemoveAt(s, i)
<1>1. /\ t \in Seq(S) /\ Len(t) = Len(s) - 1 /\ Len(s) \in Nat
      /\ \A j \in 1..Len(t) : t[j] = IF j < i THEN s[j] ELSE s[j + 1]
  BY RemoveAtProperties
<1>2. \A x : /\ x \in Range(s) <=> \E j \in 1..Len(s) : s[j] = x
             /\ x \in Range(t) <=> \E j \in 1..Len(t) : t[j] = x
  BY <1>1, Ranges
<1>. HIDE DEF t
<1>3. ASSUME NEW x \in Range(t) PROVE x \in Range(s) \ {s[i]}
  <2>1. PICK j \in 1..Len(t) : t[j] = x
    BY <1>2, <1>3
  <2>2. PICK k \in 1..Len(s) : s[k] = x /\ k # i
    BY <1>1, <2>1
  <2>. QED  BY <1>2, <2>2 DEF Once
<1>4. ASSUME NEW x \in Range(s) \ {s[i]} PROVE x \in Range(t)
  <2>1. PICK j \in 1..Len(s) : s[j] = x /\ j # i
    BY <1>2, <1>4
  <2>2. CASE j < i
    BY <1>1, <1>2, <2>1, <2>2
  <2>3. CASE ~(j < i)
    <3>1. j - 1 \in 1..Len(t) /\ t[j - 1] = x
      BY <1>1, <2>1, <2>3
    <3>. QED  BY <1>2, <3>1
  <2>. QED  BY <2>2, <2>3
<1>. QED  BY <1>3, <1>4 DEF t

LEMMA SameLines ==
  ASSUME Lines, UNCHANGED <<waiting, signing>>,
         \A c \in Calls : stage'[c] # stage[c] => {stage[c], stage'[c]} \intersect {"waiting", "signing"} = {}
  PROVE  Lines'
BY DEF Lines

(* The callers cs take nonces: they leave their line for the signer's.       *)
LEMMA TakeLines ==
  ASSUME Lines, signing \in Seq(Calls), waiting \in Seq(Calls), NEW cs \in Seq(Calls),
         NEW n, TakeNonces(cs, n),
         \/ cs = waiting /\ waiting' = <<>>
         \/ waiting' = waiting /\ \A c \in Range(cs) : stage[c] # "waiting"
  PROVE  /\ Lines'
         /\ \A c \in Calls : stage'[c] = IF c \in Range(cs) THEN "signing" ELSE stage[c]
<1>1. {cs[i] : i \in DOMAIN cs} = Range(cs)
  BY DEF Range
<1>2. /\ stage' = [c \in Calls |-> IF c \in Range(cs) THEN "signing" ELSE stage[c]]
      /\ signing' = signing \o cs
  BY <1>1 DEF TakeNonces
<1>3. Range(signing') = Range(signing) \union Range(cs)
  BY <1>2, Ranges
<1>4. Range(<<>>) = {}
  BY DEF Range
<1>. QED  BY <1>2, <1>3, <1>4 DEF Lines

LEMMA FinishLines ==
  ASSUME Lines, Owners, NEW c \in Calls, Finishes(c), NEW s, s \notin {"waiting", "signing"},
         stage \in [Calls -> Stages], stage' = [stage EXCEPT ![c] = s], UNCHANGED waiting
  PROVE  Lines' /\ stage[c] = "signing"
<1>1. PICK i \in 1..Len(signing) : signing[i] = c /\ signing' = RemoveAt(signing, i)
  BY DEF Finishes, Owners
<1>2. Range(signing') = Range(signing) \ {c} /\ c \in Range(signing)
  BY <1>1, RangeRemoved, Ranges DEF Owners
<1>3. stage[c] = "signing"
  BY <1>2 DEF Lines
<1>. QED  BY <1>2, <1>3 DEF Lines

Whereabouts == Lines /\ Way

LEMMA StepKeepsWhereabouts ==
  ASSUME Asking, Owners, Whereabouts, [Next]_vars
  PROVE  /\ Whereabouts'
         /\ \A c \in Calls : stage[c] \in {"accepted", "rejected", "failed"} => stage'[c] = stage[c]
         /\ \A c \in Calls : stage[c] = "sent" => stage'[c] \in {"sent", "accepted", "rejected"}
<1>. DEFINE Goal == /\ Whereabouts'
                    /\ \A c \in Calls : stage[c] \in {"accepted", "rejected", "failed"} => stage'[c] = stage[c]
                    /\ \A c \in Calls : stage[c] = "sent" => stage'[c] \in {"sent", "accepted", "rejected"}
<1>. SUFFICES Goal
  OBVIOUS
<1>0. /\ Lines /\ Way /\ Channels /\ stage \in [Calls -> Stages]
      /\ waiting \in Seq(Calls) /\ signing \in Seq(Calls)
  BY DEF Whereabouts, Asking, Nonces, Line, Owners
<1>. USE DEF local, enclave, bounds
<1>1. ASSUME UNCHANGED <<waiting, signing, stage, toEnclave, toApp>> PROVE Goal
  BY <1>0, <1>1, SameLines, SameWay DEF Whereabouts
<1>2. ASSUME AskUnlessAsked, UNCHANGED toApp, \A c \in Calls : stage'[c] = "sent" <=> stage[c] = "sent"
      PROVE  Way'
  BY <1>0, <1>2, SameWay, SendWay, QueryKind DEF AskUnlessAsked
<1>3. ASSUME NEW c \in Calls, Begin(c) PROVE Goal
  <2>1. stage[c] = "idle" /\ UNCHANGED toApp
    BY <1>3 DEF Begin
  <2>2. CASE TakeNonces(<<c>>, nonce) /\ UNCHANGED <<waiting, toEnclave>>
    <3>1. <<c>> \in Seq(Calls) /\ Range(<<c>>) = {c}
      BY DEF Range
    <3>2. Lines' /\ \A d \in Calls : stage'[d] = IF d \in {c} THEN "signing" ELSE stage[d]
      BY <1>0, <2>1, <2>2, <3>1, TakeLines
    <3>3. Way'
      BY <1>0, <2>1, <2>2, <3>2, SameWay
    <3>. QED  BY <2>1, <3>2, <3>3 DEF Whereabouts
  <2>3. CASE /\ AskUnlessAsked /\ waiting' = Append(waiting, c) /\ UNCHANGED signing
             /\ stage' = [stage EXCEPT ![c] = "waiting"]
    <3>1. Range(waiting') = Range(waiting) \union {c}
      BY <1>0, <2>3, Ranges
    <3>2. Lines'
      BY <1>0, <2>1, <2>3, <3>1 DEF Lines
    <3>3. Way'
      BY <1>0, <1>2, <2>1, <2>3
    <3>. QED  BY <1>0, <2>1, <2>3, <3>2, <3>3 DEF Whereabouts
  <2>4. CASE /\ stage' = [stage EXCEPT ![c] = "failed"]
             /\ UNCHANGED <<waiting, signing, toEnclave>>
    <3>1. Lines' /\ Way'
      BY <1>0, <2>1, <2>4, SameLines, SameWay
    <3>. QED  BY <1>0, <2>1, <2>4, <3>1 DEF Whereabouts
  <2>. QED  BY <1>3, <2>2, <2>3, <2>4 DEF Begin
<1>4. CASE UpdateNonce
  <2>1. Way'
    BY <1>2, <1>4 DEF UpdateNonce
  <2>2. UNCHANGED <<waiting, signing, stage>>
    BY <1>4 DEF UpdateNonce
  <2>. QED  BY <1>0, <2>1, <2>2, SameLines DEF Whereabouts
<1>5. ASSUME NEW c \in Calls, Signed(c) PROVE Goal
  <2>1. /\ Finishes(c) /\ stage' = [stage EXCEPT ![c] = "sent"]
        /\ toEnclave' = Append(toEnclave, Tx(c)) /\ UNCHANGED <<waiting, toApp>>
    BY <1>5 DEF Signed
  <2>2. Lines' /\ stage[c] = "signing"
    BY <1>0, <2>1, FinishLines
  <2>3. Way'
    BY <1>0, <2>1, <2>2, SendWay, MessageKinds
  <2>. QED  BY <1>0, <2>1, <2>2, <2>3 DEF Whereabouts
<1>6. ASSUME NEW c \in Calls, SignerRefused(c) PROVE Goal
  <2>1. /\ Finishes(c) /\ stage' = [stage EXCEPT ![c] = "failed"]
        /\ UNCHANGED <<waiting, toEnclave, toApp>>
    BY <1>6 DEF SignerRefused
  <2>2. Lines' /\ stage[c] = "signing"
    BY <1>0, <2>1, FinishLines
  <2>3. Way'
    BY <1>0, <2>1, <2>2, SameWay
  <2>. QED  BY <1>0, <2>1, <2>2, <2>3 DEF Whereabouts
<1>7. ASSUME toEnclave # <<>>, toEnclave' = Tail(toEnclave), UNCHANGED <<waiting, signing, stage>>,
             NEW r \in ResultTypes, toApp' = Append(toApp, r),
             \/ Head(toEnclave) = GetAccount /\ OfQuery(r)
             \/ \E c \in Calls : Head(toEnclave) = Tx(c) /\ OfCall(r, c)
      PROVE  Goal
  BY <1>0, <1>7, SameLines, ServeWay DEF Whereabouts
<1>8. CASE EnclaveAnswersQuery
  <2>1. PICK t \in {"account", "queryError"}, n \in Nat : toApp' = Append(toApp, Result(t, NoCall, n))
    BY <1>0, <1>8 DEF EnclaveAnswersQuery, Channels
  <2>2. Result(t, NoCall, n) \in ResultTypes /\ OfQuery(Result(t, NoCall, n))
    BY ResultKinds DEF OfQuery
  <2>. QED  BY <1>7, <1>8, <2>1, <2>2 DEF EnclaveAnswersQuery
<1>9. ASSUME NEW c \in Calls, EnclaveServesTx(c) PROVE Goal
  <2>1. PICK t \in {"accepted", "error"} : toApp' = Append(toApp, Result(t, c, 0))
    BY <1>9 DEF EnclaveServesTx
  <2>2. Result(t, c, 0) \in ResultTypes /\ OfCall(Result(t, c, 0), c)
    BY ResultKinds DEF OfCall, Result
  <2>. QED  BY <1>7, <1>9, <2>1, <2>2 DEF EnclaveServesTx
<1>10. CASE QueryAnswered
  <2>1. /\ toApp # <<>> /\ toApp' = Tail(toApp) /\ OfQuery(Head(toApp)) /\ waiting' = <<>>
        /\ UNCHANGED toEnclave
        /\ \E n : TakeNonces(waiting, n)
    BY <1>10, Zenon DEF QueryAnswered, IsNextResult, OfQuery
  <2>2. /\ Lines'
        /\ \A c \in Calls : stage'[c] = IF c \in Range(waiting) THEN "signing" ELSE stage[c]
    BY <1>0, <2>1, TakeLines
  <2>3. \A c \in Calls : stage[c] # "waiting" => stage'[c] = stage[c]
    BY <1>0, <2>2 DEF Lines
  <2>4. \A c \in Calls : stage'[c] = "sent" <=> stage[c] = "sent" /\ ~OfCall(Head(toApp), c)
    BY <2>1, <2>2, <2>3, Kinds
  <2>. QED  BY <1>0, <2>1, <2>2, <2>3, <2>4, ArriveWay DEF Whereabouts
<1>11. CASE QueryFailed
  <2>1. /\ toApp # <<>> /\ toApp' = Tail(toApp) /\ OfQuery(Head(toApp)) /\ waiting' = <<>>
        /\ UNCHANGED <<toEnclave, signing>>
        /\ stage' = [c \in Calls |-> IF stage[c] = "waiting" THEN "failed" ELSE stage[c]]
    BY <1>11 DEF QueryFailed, IsNextResult, OfQuery
  <2>2. Range(waiting') = {}
    BY <2>1 DEF Range
  <2>3. Lines'
    BY <1>0, <2>1, <2>2 DEF Lines
  <2>4. \A c \in Calls : stage'[c] = "sent" <=> stage[c] = "sent" /\ ~OfCall(Head(toApp), c)
    BY <2>1, Kinds
  <2>. QED  BY <1>0, <2>1, <2>3, <2>4, ArriveWay DEF Whereabouts
<1>12. ASSUME NEW c \in Calls, Accepted(c) \/ Rejected(c) PROVE Goal
  <2>1. /\ toApp # <<>> /\ toApp' = Tail(toApp) /\ OfCall(Head(toApp), c)
        /\ UNCHANGED <<waiting, signing, toEnclave>>
        /\ \E s \in {"accepted", "rejected"} : stage' = [stage EXCEPT ![c] = s]
    BY <1>12 DEF Accepted, Rejected, IsNextResult, OfCall
  <2>2. stage[c] = "sent"
    <3>1. Head(toApp) = toApp[1] /\ 1 \in 1..Len(toApp)
      BY <1>0, <2>1, Elements DEF Channels
    <3>. QED  BY <1>0, <2>1, <3>1 DEF Way, OnTheWayOnce
  <2>3. Lines'
    BY <1>0, <2>1, <2>2, SameLines
  <2>4. \A d \in Calls : stage'[d] = "sent" <=> stage[d] = "sent" /\ ~OfCall(Head(toApp), d)
    BY <1>0, <2>1, <2>2, Kinds
  <2>. QED  BY <1>0, <2>1, <2>2, <2>3, <2>4, ArriveWay DEF Whereabouts
<1>13. CASE ErrorEvent \/ (\E h \in receipts : ReceiptEvent(h)) \/ UNCHANGED vars
  BY <1>1, <1>13 DEF ErrorEvent, ReceiptEvent, vars
<1>. QED
  BY <1>3, <1>4, <1>5, <1>6, <1>8, <1>9, <1>10, <1>11, <1>12, <1>13
     DEF Next, SignerStep, EnclaveStep, Delivery
-------------------------------------------------------------------------------
(* What a call is told is what happened: its transaction was executed iff it *)
(* was accepted, or is about to be told so.                                  *)
ToldTheTruth ==
  \A c \in Calls : c \in executed <=>
    \/ stage[c] = "accepted"
    \/ \E i \in 1..Len(toApp) : toApp[i].type = "accepted" /\ toApp[i].call = c

(* Who has signed has a receipt that is registered.                          *)
Registered ==
  \A c \in Calls : stage[c] \in {"sent", "accepted", "rejected"} =>
                     txnonce[c] # 0 /\ Hash(c) \in DOMAIN dispatchers

(* The receipt of an executed call has come, or is on its way, unless the    *)
(* nonce was reset.                                                          *)
ReceiptDue == \A c \in executed : c \in resolved \/ Hash(c) \in receipts \/ resets > 0

LEMMA StepKeepsToldTheTruth ==
  ASSUME Asking, Owners, Whereabouts, ToldTheTruth, [Next]_vars
  PROVE  ToldTheTruth'
<1>. DEFINE Yes(s, c) == \E i \in 1..Len(s) : s[i].type = "accepted" /\ s[i].call = c
<1>0. /\ Channels /\ stage \in [Calls -> Stages]
      /\ \A c \in Calls : c \in executed <=> stage[c] = "accepted" \/ Yes(toApp, c)
  BY DEF Asking, Nonces, ToldTheTruth
<1>. USE DEF local, enclave, bounds
<1>1. ASSUME UNCHANGED <<executed, toApp>>,
             \A c \in Calls : stage'[c] = "accepted" <=> stage[c] = "accepted"
      PROVE  ToldTheTruth'
  BY <1>0, <1>1 DEF ToldTheTruth
<1>2. ASSUME NEW r \in ResultTypes, toApp' = Append(toApp, r), NEW c \in Calls
      PROVE  Yes(toApp', c) <=> Yes(toApp, c) \/ (r.type = "accepted" /\ r.call = c)
  <2>. DEFINE k == Len(toApp)
  <2>1. /\ k \in Nat /\ Len(toApp') = k + 1 /\ toApp'[k + 1] = r
        /\ \A i \in 1..k : toApp'[i] = toApp[i] /\ i \in 1..(k + 1)
        /\ \A i \in 1..(k + 1) : i \in 1..k \/ i = k + 1
        /\ k + 1 \in 1..(k + 1)
    BY <1>0, <1>2, Elements DEF Channels
  <2>. HIDE DEF k
  <2>2. Len(toApp) = k
    BY DEF k
  <2>. QED  BY <2>1, <2>2
<1>3. ASSUME toApp # <<>>, toApp' = Tail(toApp), NEW c \in Calls
      PROVE  Yes(toApp, c) <=> Yes(toApp', c) \/ (Head(toApp).type = "accepted" /\ Head(toApp).call = c)
  <2>. DEFINE l == Len(toApp')
  <2>1. /\ l \in Nat /\ Len(toApp) = l + 1 /\ Head(toApp) = toApp[1] /\ 1 \in 1..(l + 1)
        /\ \A i \in 1..l : toApp'[i] = toApp[i + 1] /\ i + 1 \in 1..(l + 1)
        /\ \A i \in 1..(l + 1) : i = 1 \/ (i - 1 \in 1..l /\ (i - 1) + 1 = i)
    BY <1>0, <1>3, Elements DEF Channels
  <2>. HIDE DEF l
  <2>2. Len(toApp') = l
    BY DEF l
  <2>3. ASSUME NEW i \in 1..(l + 1), i # 1 PROVE toApp'[i - 1] = toApp[i] /\ i - 1 \in 1..l
    BY <2>1, <2>3
  <2>. QED  BY <2>1, <2>2, <2>3
<1>. HIDE DEF Yes
<1>4. ASSUME NEW c \in Calls, Begin(c) \/ SignerStep(c) PROVE ToldTheTruth'
  <2>1. CASE Begin(c)
    <3>1. stage[c] = "idle" /\ UNCHANGED <<executed, toApp>>
      BY <1>4, <2>1 DEF Begin
    <3>2. \A d \in Calls : stage'[d] = "accepted" <=> stage[d] = "accepted"
      BY <1>0, <2>1, <3>1 DEF Begin, TakeNonces
    <3>. QED  BY <1>1, <3>1, <3>2
  <2>2. CASE SignerStep(c)
    <3>1. stage[c] = "signing"
      <4>1. Finishes(c) /\ \E s \in {"sent", "failed"} : stage' = [stage EXCEPT ![c] = s]
        BY <2>2 DEF SignerStep, Signed, SignerRefused
      <4>2. UNCHANGED waiting
        BY <2>2 DEF SignerStep, Signed, SignerRefused
      <4>. QED  BY <1>0, <4>1, <4>2, FinishLines DEF Whereabouts
    <3>. QED  BY <1>0, <1>1, <2>2, <3>1 DEF SignerStep, Signed, SignerRefused
  <2>. QED  BY <1>4, <2>1, <2>2
<1>5. CASE UpdateNonce \/ ErrorEvent \/ (\E h \in receipts : ReceiptEvent(h)) \/ UNCHANGED vars
  BY <1>1, <1>5 DEF UpdateNonce, ErrorEvent, ReceiptEvent, vars
<1>6. CASE EnclaveAnswersQuery
  <2>1. PICK t \in {"account", "queryError"}, n \in Nat : toApp' = Append(toApp, Result(t, NoCall, n))
    BY <1>0, <1>6 DEF EnclaveAnswersQuery, Channels
  <2>2. Result(t, NoCall, n) \in ResultTypes /\ Result(t, NoCall, n).type # "accepted"
    BY ResultKinds
  <2>3. \A c \in Calls : Yes(toApp', c) <=> Yes(toApp, c)
    BY <1>2, <2>1, <2>2
  <2>4. UNCHANGED <<executed, stage>>
    BY <1>6 DEF EnclaveAnswersQuery
  <2>. QED  BY <1>0, <2>3, <2>4 DEF ToldTheTruth, Yes
<1>7. ASSUME NEW c \in Calls, EnclaveServesTx(c) PROVE ToldTheTruth'
  <2>1. PICK t \in {"accepted", "error"} :
          /\ toApp' = Append(toApp, Result(t, c, 0))
          /\ executed' = executed \union (IF t = "accepted" THEN {c} ELSE {})
    BY <1>7 DEF EnclaveServesTx
  <2>2. /\ Result(t, c, 0) \in ResultTypes /\ Result(t, c, 0).type = t /\ Result(t, c, 0).call = c
    BY ResultKinds DEF Result
  <2>3. \A d \in Calls : Yes(toApp', d) <=> Yes(toApp, d) \/ (t = "accepted" /\ d = c)
    BY <1>2, <2>1, <2>2
  <2>4. UNCHANGED stage
    BY <1>7 DEF EnclaveServesTx
  <2>. QED  BY <1>0, <2>1, <2>3, <2>4 DEF ToldTheTruth, Yes
<1>8. CASE QueryAnswered \/ QueryFailed
  <2>1. /\ toApp # <<>> /\ toApp' = Tail(toApp) /\ Head(toApp).type # "accepted"
        /\ UNCHANGED executed
    BY <1>8 DEF QueryAnswered, QueryFailed, IsNextResult
  <2>2. \A c \in Calls : Yes(toApp', c) <=> Yes(toApp, c)
    BY <1>3, <2>1
  <2>3. \A c \in Calls : stage'[c] = "accepted" <=> stage[c] = "accepted"
    <3>1. CASE QueryFailed
      BY <1>0, <3>1 DEF QueryFailed
    <3>2. CASE QueryAnswered
      <4>1. waiting' = <<>> /\ \E n : TakeNonces(waiting, n)
        BY <3>2, Zenon DEF QueryAnswered
      <4>2. \A c \in Calls : stage'[c] = IF c \in Range(waiting) THEN "signing" ELSE stage[c]
        BY <4>1, TakeLines DEF Whereabouts, Asking, Line, OneQueryPending, Lines, TakeNonces, Range
      <4>. QED  BY <4>2 DEF Whereabouts, Lines
    <3>. QED  BY <1>8, <3>1, <3>2
  <2>. QED  BY <1>0, <2>1, <2>2, <2>3 DEF ToldTheTruth, Yes
<1>9. ASSUME NEW c \in Calls, Accepted(c) \/ Rejected(c) PROVE ToldTheTruth'
  <2>. DEFINE r == Head(toApp)
  <2>1. /\ toApp # <<>> /\ toApp' = Tail(toApp) /\ OfCall(r, c) /\ UNCHANGED executed
        /\ stage' = [stage EXCEPT ![c] = IF r.type = "accepted" THEN "accepted" ELSE "rejected"]
    BY <1>9 DEF Accepted, Rejected, IsNextResult, OfCall
  <2>2. \A d \in Calls : Yes(toApp, d) <=> Yes(toApp', d) \/ (r.type = "accepted" /\ d = c)
    BY <1>3, <2>1 DEF OfCall
  <2>3. r = toApp[1] /\ 1 \in 1..Len(toApp)
    BY <1>0, <2>1, Elements DEF Channels
  <2>4. stage[c] = "sent" /\ \A i \in 1..Len(toApp) : OfCall(toApp[i], c) => i = 1
    BY <2>1, <2>3 DEF Whereabouts, Way, OnTheWayOnce
  <2>5. Yes(toApp, c) => r.type = "accepted"
    BY <2>3, <2>4 DEF Yes, OfCall
  <2>. HIDE DEF r
  <2>. QED  BY <1>0, <2>1, <2>2, <2>4, <2>5 DEF ToldTheTruth, Yes
<1>. QED  BY <1>4, <1>5, <1>6, <1>7, <1>8, <1>9 DEF Next, EnclaveStep, Delivery

LEMMA StepKeepsRegistered ==
  ASSUME Asking, Owners, Whereabouts, NoncesStay, Registered, [Next]_vars
  PROVE  Registered'
<1>1. HashesStay
  BY StepKeepsHashes
<1>2. DOMAIN dispatchers \subseteq DOMAIN dispatchers'
  BY DEF Next, Begin, SignerStep, Signed, SignerRefused, UpdateNonce, EnclaveStep,
     EnclaveAnswersQuery, EnclaveServesTx, Delivery, QueryAnswered, QueryFailed, Accepted,
     Rejected, ErrorEvent, ReceiptEvent, promises, vars
<1>. SUFFICES ASSUME NEW c \in Calls, stage'[c] \in {"sent", "accepted", "rejected"}
              PROVE  txnonce'[c] # 0 /\ Hash(c)' \in DOMAIN dispatchers'
  BY DEF Registered
<1>3. CASE stage[c] \in {"sent", "accepted", "rejected"}
  BY <1>1, <1>2, <1>3 DEF Registered, HashesStay
<1>4. CASE Signed(c)
  <2>1. txnonce[c] # 0
    BY <1>4 DEF Signed, Finishes, Owners
  <2>2. txnonce'[c] # 0 /\ Hash(c)' = Hash(c)
    BY <1>1, <2>1 DEF HashesStay
  <2>. QED  BY <1>4, <2>2 DEF Signed
<1>5. ASSUME stage[c] \notin {"sent", "accepted", "rejected"} PROVE Signed(c)
  <2>1. stage \in [Calls -> Stages]
    BY DEF Asking, Nonces
  <2>2. ASSUME Accepted(c) \/ Rejected(c) PROVE FALSE
    <3>1. /\ toApp # <<>> /\ OfCall(Head(toApp), c)
      BY <2>2 DEF Accepted, Rejected, IsNextResult, OfCall
    <3>2. Head(toApp) = toApp[1] /\ 1 \in 1..Len(toApp)
      BY <3>1, Elements DEF Channels, Asking
    <3>. QED  BY <1>5, <3>1, <3>2 DEF Whereabouts, Way, OnTheWayOnce
  <2>3. ASSUME NEW d \in Calls, Begin(d) PROVE FALSE
    <3>1. stage'[c] \in {stage[c], "signing", "waiting", "failed"}
      BY <2>1, <2>3 DEF Begin, TakeNonces
    <3>. QED  BY <1>5, <3>1
  <2>4. ASSUME NEW d \in Calls, SignerStep(d), ~Signed(c) PROVE FALSE
    <3>1. stage'[c] \in {stage[c], "failed"}
      BY <2>1, <2>4 DEF SignerStep, Signed, SignerRefused
    <3>. QED  BY <1>5, <3>1
  <2>5. ASSUME QueryAnswered \/ QueryFailed PROVE FALSE
    <3>1. stage'[c] \in {stage[c], "signing", "failed"}
      BY <2>5 DEF QueryAnswered, QueryFailed, TakeNonces
    <3>. QED  BY <1>5, <3>1
  <2>6. ASSUME NEW d \in Calls, Accepted(d) \/ Rejected(d) PROVE FALSE
    <3>1. d = c
      BY <1>5, <2>1, <2>6 DEF Accepted, Rejected
    <3>. QED  BY <2>2, <2>6, <3>1
  <2>7. ASSUME UNCHANGED stage PROVE FALSE
    BY <1>5, <2>7
  <2>. QED  BY <2>3, <2>4, <2>5, <2>6, <2>7
              DEF Next, UpdateNonce, EnclaveStep, EnclaveAnswersQuery, EnclaveServesTx, Delivery,
                  ErrorEvent, ReceiptEvent, vars
<1>. QED  BY <1>3, <1>4, <1>5

LEMMA StepKeepsReceiptDue ==
  ASSUME Asking, Owners, Receipts, Whereabouts, ToldTheTruth, NoncesStay, Registered, ReceiptDue,
         [Next]_vars
  PROVE  ReceiptDue'
<1>1. HashesStay
  BY StepKeepsHashes
<1>. SUFFICES ASSUME NEW c \in executed', resets' = 0, c \notin resolved'
              PROVE  Hash(c)' \in receipts'
  <2>1. resets' = 0 \/ resets' > 0
    <3>1. Nonces'
      BY StepKeepsNonces
    <3>. QED  BY <3>1 DEF Nonces
  <2>. QED  BY <2>1 DEF ReceiptDue
<1>2. resets = 0 /\ executed \subseteq Calls
  BY <1>1 DEF HashesStay, Receipts
<1>3. ASSUME UNCHANGED <<executed, receipts, resolved>> PROVE Hash(c)' \in receipts'
  <2>1. Hash(c) \in receipts /\ Hash(c)' = Hash(c)
    BY <1>1, <1>2, <1>3 DEF ReceiptDue, Receipts, HashesStay
  <2>. QED  BY <1>3, <2>1
<1>4. ASSUME NEW d \in Calls, EnclaveServesTx(d) PROVE Hash(c)' \in receipts'
  <2>1. CASE UNCHANGED enclave
    BY <1>3, <1>4, <2>1 DEF EnclaveServesTx, promises, enclave
  <2>2. CASE /\ txnonce[d] = account + 1 /\ executed' = executed \union {d}
             /\ receipts' = receipts \union {Hash(d)}
    <3>1. UNCHANGED <<payload, txnonce, resolved>>
      BY <1>4 DEF EnclaveServesTx, promises
    <3>2. Hash(c)' = Hash(c)
      BY <3>1 DEF Hash
    <3>. QED  BY <1>2, <2>2, <3>1, <3>2 DEF ReceiptDue
  <2>. QED  BY <1>4, <2>1, <2>2 DEF EnclaveServesTx
<1>5. ASSUME NEW h \in receipts, ReceiptEvent(h) PROVE Hash(c)' \in receipts'
  <2>1. /\ receipts' = receipts \ {h} /\ UNCHANGED <<dispatchers, executed, txnonce, payload>>
        /\ resolved' = resolved \union ({dispatchers[g] : g \in {h} \intersect DOMAIN dispatchers})
    BY <1>5 DEF ReceiptEvent
  <2>2. Hash(c)' = Hash(c) /\ Hash(c) \in receipts /\ c \in executed
    BY <1>2, <2>1 DEF Hash, ReceiptDue
  <2>3. Hash(c) # h
    <3>1. SUFFICES ASSUME Hash(c) = h PROVE c \in resolved'
      OBVIOUS
    <3>2. c \in Calls /\ stage[c] \in {"sent", "accepted"}
      BY <2>2 DEF Receipts, ToldTheTruth, Whereabouts, Way, OnTheWayOnce, OfCall
    <3>3. txnonce[c] # 0 /\ h \in DOMAIN dispatchers
      BY <3>1, <3>2 DEF Registered
    <3>. DEFINE d == dispatchers[h]
    <3>4. d \in Calls /\ Hash(d) = Hash(c)
      BY <3>1, <3>3 DEF Receipts
    <3>. HIDE DEF d
    <3>5. txnonce[d] = txnonce[c]
      BY <3>4 DEF Hash
    <3>6. era[c] = 0 /\ era[d] = 0
      BY <1>2, <3>2, <3>4 DEF Asking, Nonces
    <3>7. c = d
      BY <3>2, <3>3, <3>4, <3>5, <3>6 DEF Asking, Nonces, DistinctNonces
    <3>. QED  BY <2>1, <3>3, <3>7 DEF d
  <2>. QED  BY <2>1, <2>2, <2>3
<1>6. CASE UpdateNonce \/ EnclaveAnswersQuery \/ QueryAnswered \/ QueryFailed \/ ErrorEvent
             \/ UNCHANGED vars
  BY <1>3, <1>6 DEF UpdateNonce, EnclaveAnswersQuery, QueryAnswered, QueryFailed, ErrorEvent,
     promises, enclave, vars
<1>7. ASSUME NEW d \in Calls, Begin(d) \/ SignerStep(d) \/ Accepted(d) \/ Rejected(d)
      PROVE  Hash(c)' \in receipts'
  BY <1>3, <1>7 DEF Begin, SignerStep, Signed, SignerRefused, Accepted, Rejected, promises, enclave
<1>. QED  BY <1>4, <1>5, <1>6, <1>7 DEF Next, EnclaveStep, Delivery
-------------------------------------------------------------------------------
(* The second layer of the inductive invariant: where the calls are.         *)
Underway == Whereabouts /\ ToldTheTruth /\ Registered /\ ReceiptDue

LEMMA InitUnderway == Init => Underway
<1>. SUFFICES ASSUME Init PROVE Underway
  OBVIOUS
<1>1. /\ waiting = <<>> /\ signing = <<>> /\ toEnclave = <<>> /\ toApp = <<>> /\ executed = {}
      /\ \A c \in Calls : stage[c] = "idle"
  BY DEF Init
<1>2. Range(<<>>) = {}
  BY DEF Range
<1>3. 1..Len(<<>>) = {}
  OBVIOUS
<1>4. Lines
  BY <1>1, <1>2 DEF Lines
<1>5. Way
  BY <1>1, <1>3 DEF Way, SentIsUnderway, Understood, OnTheWayOnce
<1>6. ToldTheTruth /\ Registered /\ ReceiptDue
  BY <1>1, <1>3 DEF ToldTheTruth, Registered, ReceiptDue
<1>. QED  BY <1>4, <1>5, <1>6 DEF Underway, Whereabouts

(* An end is an end.                                                         *)
EndsOnce == \A c \in Calls :
              stage[c] \in {"accepted", "rejected", "failed"} => stage'[c] = stage[c]

LEMMA StepKeepsUnderway == IInv /\ Underway /\ [Next]_vars => Underway' /\ EndsOnce
<1>. SUFFICES ASSUME IInv, Underway, [Next]_vars PROVE Underway' /\ EndsOnce
  OBVIOUS
<1>1. Asking /\ Owners /\ Receipts /\ NoncesStay
  BY StepKeepsCourse DEF IInv
<1>2. Whereabouts /\ ToldTheTruth /\ Registered /\ ReceiptDue
  BY DEF Underway
<1>3. Whereabouts' /\ EndsOnce
  BY <1>1, <1>2, StepKeepsWhereabouts DEF EndsOnce
<1>4. ToldTheTruth'
  BY <1>1, <1>2, StepKeepsToldTheTruth
<1>5. Registered'
  BY <1>1, <1>2, StepKeepsRegistered
<1>6. ReceiptDue'
  BY <1>1, <1>2, StepKeepsReceiptDue
<1>. QED  BY <1>3, <1>4, <1>5, <1>6 DEF Underway

(* Whatever calls, signer, enclave and errors do, the calls stay where those *)
(* who serve them look.                                                      *)
THEOREM CallsStayUnderway == Spec => [](IInv /\ Underway)
<1>1. Init => Underway
  BY InitUnderway
<1>2. IInv /\ Underway /\ [Next]_vars => Underway'
  BY StepKeepsUnderway
<1>. QED  BY <1>1, <1>2, Invariance, PTL DEF Spec

(* Everyone who has begun and not ended is where somebody looks for it: in   *)
(* the line for the nonce, with the nonce query or its answer on the way; in *)
(* the line of the signer; or with its transaction or its answer on the way. *)
(* And no message is one that would hold up those behind it.                 *)
Served ==
  /\ Lines
  /\ waiting # <<>> => \/ \E i \in 1..Len(toEnclave) : toEnclave[i] = GetAccount
                       \/ \E i \in 1..Len(toApp) : OfQuery(toApp[i])
  /\ SentIsUnderway
  /\ Understood

(* The safety part of CallsEnd: nobody waits for what will not come.         *)
THEOREM EveryCallIsServed == Spec => []Served
<1>1. ASSUME IInv, Underway PROVE Served
  <2>1. ASSUME waiting # <<>>,
               ~ \E i \in 1..Len(toEnclave) : toEnclave[i] = GetAccount,
               ~ \E i \in 1..Len(toApp) : OfQuery(toApp[i])
        PROVE  FALSE
    <3>1. Places(toEnclave, {"getAccount"}) = {}
      <4>1. \A c \in Calls : Tx(c).type = "tx"
        BY MessageKinds
      <4>. QED  BY <1>1, <2>1, <4>1 DEF Places, Underway, Whereabouts, Way, Understood
    <3>2. Places(toApp, {"account", "queryError"}) = {}
      BY <2>1 DEF Places, OfQuery
    <3>3. Queries = 0 /\ Answers = 0
      BY <3>1, <3>2, FS_EmptySet DEF Queries, Answers, Count
    <3>4. Queries + Answers = 1
      BY <1>1, <2>1 DEF IInv, Asking, OneQueryPending, Queries, Answers
    <3>. QED  BY <3>3, <3>4
  <2>. QED  BY <1>1, <2>1 DEF Served, Underway, Whereabouts, Way
<1>. QED  BY <1>1, CallsStayUnderway, PTL

(* No call is sent twice, answered twice, or answered before it is sent, and *)
(* its answer says what the enclave did with its transaction.                *)
THEOREM CallsAreAnsweredTruly == Spec => [](OnTheWayOnce /\ ToldTheTruth)
<1>1. Underway => OnTheWayOnce /\ ToldTheTruth
  BY DEF Underway, Whereabouts, Way
<1>. QED  BY <1>1, CallsStayUnderway, PTL

(* The promise of a call settles once: no late answer or failing query       *)
(* changes what the caller was told.                                         *)
THEOREM EndsAreFinal == Spec => [][EndsOnce]_vars
<1>1. IInv /\ Underway /\ [Next]_vars => [EndsOnce]_vars
  BY StepKeepsUnderway
<1>. QED  BY <1>1, CallsStayUnderway, PTL DEF Spec

(* The safety part of ReceiptsArrive: the receipt of an executed call is on  *)
(* its way and finds its entry, unless the nonce was reset.                  *)
THEOREM ReceiptsAreDue == Spec => []ReceiptDue
<1>1. Underway => ReceiptDue
  BY DEF Underway
<1>. QED  BY <1>1, CallsStayUnderway, PTL
===============================================================================

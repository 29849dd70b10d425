--------------------------- MODULE TxSignerProofs ---------------------------
(***************************************************************************)
(* For any number of jobs, batches of any size and any behaviour of the    *)
(* wallet and the node: signing sessions exclude each other, no nonce is   *)
(* used twice, none is skipped, and signing a batch is atomic; and no job  *)
(* is stuck, but for those behind a signTxBatch(), which are for ever.     *)
(***************************************************************************)
EXTENDS TxSigner, FiniteSetTheorems, TLAPS

(* What a job waits for agrees with what is known of the nonce.            *)
StageInv == \A j \in Jobs : /\ stage[j] = "nonce" => nonce = Unset
                            /\ stage[j] = "wallet" => nonce # Unset
                            /\ stage[j] = "wallet" <=> current[j] # Unset
                            /\ stage[j] = "awaitSend" => op[j] \in BatchOps

(* The cached nonce is above every nonce that was taken since the reset.   *)
TakenBelow == \A j \in Jobs \ outdated : \A n \in Taken(j) : n < nonce

(* The inductive invariant: Control does not look at the nonces' values.   *)
Control == TypeOK /\ SessionExclusive /\ StageInv
NonceInv == TakenBelow /\ DistinctNonces /\ NoSkippedNonce
IInv == Control /\ NonceInv

LEMMA RangeOfAppend ==
  ASSUME NEW S, NEW s \in Seq(S), NEW e
  PROVE  Range(Append(s, e)) = Range(s) \union {e}
<1>1. DOMAIN Append(s, e) = DOMAIN s \union {Len(s) + 1}
  OBVIOUS
<1>2. \A i \in DOMAIN s : Append(s, e)[i] = s[i]
  OBVIOUS
<1>3. Append(s, e)[Len(s) + 1] = e
  OBVIOUS
<1>4. Len(s) + 1 \notin DOMAIN s
  OBVIOUS
<1>. QED  BY <1>1, <1>2, <1>3, <1>4, Zenon DEF Range

LEMMA RangeOfEmpty == Range(<<>>) = {}
BY DEF Range

LEMMA RangeOfNonces ==
  ASSUME NEW s \in Seq(Nat)
  PROVE  Range(s) \subseteq Nat
BY DEF Range

LEMMA PendingNonceType == PendingNonces \subseteq Nat
BY DEF PendingNonces

LEMMA InitIInv == Init => IInv
<1>. SUFFICES ASSUME Init PROVE IInv
  OBVIOUS
<1>. USE JobsAssumption DEF Init
<1>1. TypeOK
  BY DEF TypeOK, AllOps, Stages, Unset
<1>2. SessionExclusive
  BY DEF SessionExclusive, InSession
<1>3. \A j \in Jobs : Taken(j) = {}
  BY RangeOfEmpty DEF Taken
<1>. QED
  BY <1>1, <1>2, <1>3 DEF IInv, Control, NonceInv, StageInv, TakenBelow, DistinctNonces, NoSkippedNonce
-----------------------------------------------------------------------------
(* Type correctness and the session discipline, action by action.          *)

LEMMA CallControl ==
  ASSUME Control, NEW j \in Jobs, NEW o \in Ops, Call(j, o)
  PROVE  Control'
<1>. USE JobsAssumption, OpsAssumption
     DEF Control, TypeOK, Call, Stages, AllOps, lock, node, Unset
<1>1. TypeOK'  OBVIOUS
<1>2. SessionExclusive'  BY DEF SessionExclusive, InSession
<1>3. StageInv'  BY DEF StageInv
<1>. QED  BY <1>1, <1>2, <1>3

LEMMA EnterControl ==
  ASSUME Control, NEW j \in Jobs, Enter(j)
  PROVE  Control'
<1>. USE JobsAssumption
     DEF Control, TypeOK, Stages, AllOps, BatchOps, lock, node, Unset
<1>1. /\ holder = NoJob /\ queue # <<>> /\ holder' = j
      /\ stage[j] \in {"awaitSign", "awaitNested"}
      /\ UNCHANGED <<op, signed, inflight, accepted, foreign, burnt, outdated>>
  BY DEF Enter, IsNextInLine
<1>2. Tail(queue) \in Seq(Jobs) /\ Append(Tail(queue), j) \in Seq(Jobs)
  BY <1>1
<1>3. queue' \in Seq(Jobs)
  BY <1>2 DEF Enter
<1>4. \/ /\ nonce # Unset
         /\ stage' = [stage EXCEPT ![j] = "wallet"]
         /\ current' = [current EXCEPT ![j] = nonce]
         /\ nonce' = nonce + 1
      \/ /\ \/ nonce = Unset /\ stage' = [stage EXCEPT ![j] = "nonce"]
            \/ \E x \in {"awaitNested", "resetting"} : stage' = [stage EXCEPT ![j] = x]
         /\ UNCHANGED <<nonce, current>>
  BY Zenon DEF Enter, BeginTx
<1>5. TypeOK'
  <2>1. nonce' \in Nat \union {Unset} /\ current' \in [Jobs -> Nat \union {Unset}]
    <3>1. CASE UNCHANGED <<nonce, current>>  BY <3>1
    <3>2. CASE nonce # Unset /\ nonce' = nonce + 1 /\ current' = [current EXCEPT ![j] = nonce]
      BY <3>2
    <3>. QED  BY <1>4, <3>1, <3>2
  <2>2. stage' \in [Jobs -> Stages]  BY <1>4
  <2>. QED  BY <1>1, <1>3, <2>1, <2>2
<1>6. SessionExclusive'  BY <1>1, <1>4 DEF SessionExclusive, InSession
<1>7. StageInv'  BY <1>1, <1>4 DEF StageInv
<1>. QED  BY <1>5, <1>6, <1>7

LEMMA AbortControl ==
  ASSUME Control, NEW j \in Jobs, Abort(j), stage[j] \in {"nonce", "wallet", "resetting"}
  PROVE  Control'
<1>. USE JobsAssumption
     DEF Control, TypeOK, Abort, Release, Stages, AllOps, lock, node, Unset
<1>1. TypeOK'
  <2>1. Range(signed[j]) \subseteq Nat  BY RangeOfNonces
  <2>2. burnt' \subseteq Nat  BY <2>1
  <2>. QED  BY <2>2
<1>2. SessionExclusive'  BY DEF SessionExclusive, InSession
<1>3. StageInv'  BY DEF StageInv
<1>. QED  BY <1>1, <1>2, <1>3

LEMMA NonceAnsweredControl ==
  ASSUME Control, NEW j \in Jobs, NonceAnswered(j)
  PROVE  Control'
<1>. USE JobsAssumption, PendingNonceType
     DEF Control, TypeOK, NonceAnswered, Stages, AllOps, lock, node, Unset
<1>1. TypeOK'  OBVIOUS
<1>2. SessionExclusive'  BY DEF SessionExclusive, InSession
<1>3. StageInv'
  <2>1. holder = j  BY DEF SessionExclusive, InSession
  <2>2. \A k \in Jobs \ {j} : stage[k] # "nonce"
    BY <2>1 DEF SessionExclusive, InSession
  <2>. QED  BY <2>2 DEF StageInv
<1>. QED  BY <1>1, <1>2, <1>3

LEMMA WalletSignedControl ==
  ASSUME Control, NEW j \in Jobs, WalletSigned(j)
  PROVE  Control'
<1>. USE JobsAssumption
     DEF Control, TypeOK, Stages, AllOps, BatchOps, lock, node, Unset
<1>. DEFINE txs == Append(signed[j], current[j])
<1>1. current[j] \in Nat /\ nonce \in Nat /\ nonce # Unset /\ stage[j] = "wallet"
  BY DEF StageInv, WalletSigned
<1>2. txs \in Seq(Nat) /\ Range(txs) \subseteq Nat
  <2>1. txs \in Seq(Nat)  BY <1>1
  <2>. HIDE DEF txs
  <2>. QED  BY <2>1, RangeOfNonces
<1>3. /\ signed' = [signed EXCEPT ![j] = txs]
      /\ UNCHANGED <<op, accepted, foreign, burnt, outdated>>
  BY SMT DEF WalletSigned
<1>4. CASE Len(txs) < SizeOf(op[j])
  <2>1. /\ stage' = [stage EXCEPT ![j] = "wallet"]
        /\ current' = [current EXCEPT ![j] = nonce]
        /\ nonce' = nonce + 1
        /\ UNCHANGED <<holder, queue, inflight>>
    BY <1>1, <1>4 DEF WalletSigned, BeginTx
  <2>. HIDE DEF txs
  <2>2. TypeOK'  BY <1>1, <1>2, <1>3, <2>1
  <2>3. SessionExclusive'  BY <1>1, <1>3, <2>1 DEF SessionExclusive, InSession
  <2>4. StageInv'  BY <1>1, <1>3, <2>1 DEF StageInv
  <2>. QED  BY <2>2, <2>3, <2>4
<1>5. CASE ~(Len(txs) < SizeOf(op[j]))
  <2>1. /\ \/ /\ op[j] = "signAndSend"
              /\ stage' = [stage EXCEPT ![j] = "sending"]
              /\ inflight' = [inflight EXCEPT ![j] = Range(txs)]
           \/ /\ op[j] # "signAndSend"
              /\ stage' = [stage EXCEPT ![j] = "signed"]
              /\ UNCHANGED inflight
        /\ current' = [current EXCEPT ![j] = Unset]
        /\ holder' = (IF holder = j THEN NoJob ELSE holder)
        /\ UNCHANGED <<nonce, queue>>
    BY <1>1, <1>5 DEF WalletSigned, Release
  <2>. HIDE DEF txs
  <2>2. TypeOK'  BY ZenonT(30), <1>1, <1>2, <1>3, <2>1
  <2>3. SessionExclusive'  BY <1>1, <1>3, <2>1 DEF SessionExclusive, InSession
  <2>4. StageInv'  BY <1>1, <1>3, <2>1 DEF StageInv
  <2>. QED  BY <2>2, <2>3, <2>4
<1>. QED  BY <1>4, <1>5

LEMMA SendControl ==
  ASSUME Control, NEW j \in Jobs, SendTx(j) \/ SendBatch(j) \/ EnterSend(j)
  PROVE  Control'
<1>. USE JobsAssumption
     DEF Control, TypeOK, IsNextInLine, Stages, AllOps, BatchOps, lock, node, Unset
<1>1. Range(signed[j]) \subseteq Nat  BY RangeOfNonces
<1>2. CASE SendTx(j)
  BY <1>1, <1>2 DEF SendTx, SessionExclusive, InSession, StageInv
<1>3. CASE SendBatch(j)
  BY <1>3 DEF SendBatch, SessionExclusive, InSession, StageInv
<1>4. CASE EnterSend(j)
  <2>1. TypeOK'
    <3>1. queue' \in Seq(Jobs)  BY <1>4 DEF EnterSend
    <3>. QED  BY <1>1, <1>4, <3>1 DEF EnterSend
  <2>2. op[j] \in BatchOps  BY <1>4 DEF StageInv, EnterSend
  <2>3. SessionExclusive'  BY <1>4, <2>2 DEF EnterSend, SessionExclusive, InSession
  <2>4. StageInv'  BY <1>4 DEF EnterSend, StageInv
  <2>. QED  BY <2>1, <2>3, <2>4
<1>. QED  BY <1>2, <1>3, <1>4

LEMMA BroadcastControl ==
  ASSUME Control, NEW j \in Jobs, NEW n \in inflight[j],
         Broadcast(j, n) \/ BroadcastRefused(j, n)
  PROVE  Control'
<1>. USE JobsAssumption
     DEF Control, TypeOK, Stages, AllOps, BatchOps, lock, node, Unset
<1>1. n \in Nat  OBVIOUS
<1>2. /\ inflight' = [inflight EXCEPT ![j] = @ \ {n}]
      /\ accepted' \in {accepted, accepted \union {n}}
      /\ UNCHANGED <<nonce, queue, op, current, signed, foreign, burnt, outdated>>
      /\ \/ UNCHANGED <<stage, holder>>
         \/ /\ stage[j] = "sending"
            /\ \E x \in {"done", "failed"} : stage' = [stage EXCEPT ![j] = x]
            /\ holder' = (IF holder = j THEN NoJob ELSE holder)
  BY Zenon DEF Broadcast, BroadcastRefused, Release
<1>3. TypeOK'
  BY <1>1, <1>2
<1>4. SessionExclusive'
  BY <1>2 DEF SessionExclusive, InSession
<1>5. StageInv'
  BY <1>2 DEF StageInv
<1>. QED  BY <1>3, <1>4, <1>5

LEMMA ResetControl ==
  ASSUME Control, NEW j \in Jobs, ResetAnswered(j)
  PROVE  Control'
<1>. USE JobsAssumption, PendingNonceType
     DEF Control, TypeOK, ResetAnswered, Release, Stages, AllOps, lock, node, Unset
<1>1. holder = j  BY DEF SessionExclusive, InSession
<1>2. TypeOK'  OBVIOUS
<1>3. SessionExclusive'  BY DEF SessionExclusive, InSession
<1>4. StageInv'
  <2>1. \A k \in Jobs \ {j} : stage[k] # "nonce"
    BY <1>1 DEF SessionExclusive, InSession
  <2>. QED  BY <2>1 DEF StageInv
<1>. QED  BY <1>2, <1>3, <1>4

LEMMA ForeignControl ==
  ASSUME Control, ForeignTx
  PROVE  Control'
<1>1. PICK n \in PendingNonces : accepted' = accepted \union {n}
  BY DEF ForeignTx
<1>2. /\ foreign' = foreign + 1
      /\ UNCHANGED <<nonce, holder, queue, stage, op, current, signed, inflight, burnt, outdated>>
  BY DEF ForeignTx, lock
<1>3. n \in Nat
  BY PendingNonceType
<1>4. TypeOK'
  BY <1>1, <1>2, <1>3 DEF Control, TypeOK
<1>5. SessionExclusive'
  BY <1>2 DEF Control, SessionExclusive, InSession
<1>6. StageInv'
  BY <1>2 DEF Control, StageInv
<1>. QED  BY <1>4, <1>5, <1>6 DEF Control

LEMMA NextControl == Control /\ [Next]_vars => Control'
<1>. SUFFICES ASSUME Control, [Next]_vars PROVE Control'
  OBVIOUS
<1>1. CASE UNCHANGED vars
  BY <1>1 DEF vars, lock, node, Control, TypeOK, SessionExclusive, InSession, StageInv
<1>2. ASSUME NEW j \in Jobs, Progress(j)
      PROVE  Control'
  BY <1>2, EnterControl, SendControl, NonceAnsweredControl, WalletSignedControl,
     AbortControl, ResetControl, BroadcastControl
     DEF Progress, NonceRefused, WalletRefused, ResetRefused
<1>3. ASSUME Next
      PROVE  Control'
  BY <1>2, <1>3, CallControl, SendControl, ForeignControl DEF Next
<1>. QED  BY <1>1, <1>3

LEMMA ControlHolds == Spec => []Control
<1>1. Init => Control  BY InitIInv DEF IInv
<1>. QED  BY <1>1, NextControl, PTL DEF Spec

(* The types of the signer, the node, the lock and the jobs.               *)
THEOREM TypeCorrect == Spec => []TypeOK
<1>1. Control => TypeOK  BY DEF Control
<1>. QED  BY <1>1, ControlHolds, PTL

(* Every state satisfies the session discipline: signing sessions, batch   *)
(* sends and resets exclude each other, and none survives a failure.       *)
THEOREM SessionsExclusive == Spec => []SessionExclusive
<1>1. Control => SessionExclusive  BY DEF Control
<1>. QED  BY <1>1, ControlHolds, PTL
-----------------------------------------------------------------------------
(* The nonces.  An action leaves them alone, takes one for its job, gives  *)
(* up those of its job, or resets them.                                    *)
LEMMA KeepNonces ==
  ASSUME TypeOK, NonceInv,
         nonce' = nonce, outdated' = outdated,
         accepted \subseteq accepted', burnt' = burnt,
         \A k \in Jobs : Taken(k)' = Taken(k)
  PROVE  NonceInv'
BY DEF NonceInv, TakenBelow, DistinctNonces, NoSkippedNonce, Unset

LEMMA TakeNonce ==
  ASSUME TypeOK, NonceInv, NEW j \in Jobs, NEW n \in Nat,
         nonce' = n + 1, outdated' = outdated, accepted' = accepted, burnt' = burnt,
         \/ nonce = n
         \/ nonce = Unset /\ 0..(n-1) \subseteq accepted
            /\ \A k \in Jobs \ outdated : Taken(k) = {},
         Taken(j)' = Taken(j) \union {n},
         \A k \in Jobs \ {j} : Taken(k)' = Taken(k)
  PROVE  NonceInv'
<1>. USE DEF TypeOK, NonceInv, Unset
<1>1. \A k \in Jobs \ outdated : \A m \in Taken(k) : m < n
  BY DEF TakenBelow
<1>2. \A k \in Jobs : Taken(k) \subseteq Nat
  BY RangeOfNonces DEF Taken
<1>3. TakenBelow'
  <2>. SUFFICES ASSUME NEW k \in Jobs \ outdated, NEW m \in Taken(k)'
                PROVE  m < n + 1
    BY DEF TakenBelow
  <2>1. m \in Taken(k) \/ m = n  OBVIOUS
  <2>. QED  BY <1>1, <1>2, <2>1
<1>4. DistinctNonces'
  <2>. SUFFICES ASSUME NEW k \in Jobs \ outdated, NEW l \in Jobs \ outdated, k # l
                PROVE  Taken(k)' \intersect Taken(l)' = {}
    BY DEF DistinctNonces
  <2>1. n \notin Taken(k) /\ n \notin Taken(l)  BY <1>1, <1>2
  <2>2. Taken(k) \intersect Taken(l) = {}  BY DEF DistinctNonces
  <2>3. Taken(k)' \subseteq Taken(k) \union {n} /\ Taken(l)' \subseteq Taken(l) \union {n}
    OBVIOUS
  <2>4. Taken(k)' = Taken(k) \/ Taken(l)' = Taken(l)
    OBVIOUS
  <2>. QED  BY <2>1, <2>2, <2>3, <2>4
<1>5. NoSkippedNonce'
  <2>1. 0..n = (0..(n-1)) \union {n}  OBVIOUS
  <2>2. 0..(n-1) \subseteq accepted \union burnt \union UNION {Taken(k) : k \in Jobs}
    BY DEF NoSkippedNonce
  <2>3. (UNION {Taken(k) : k \in Jobs}) \union {n} \subseteq UNION {Taken(k)' : k \in Jobs}
    <3>1. \A k \in Jobs : Taken(k) \subseteq Taken(k)'  OBVIOUS
    <3>2. n \in Taken(j)'  OBVIOUS
    <3>. QED  BY <3>1, <3>2
  <2>. QED  BY <2>1, <2>2, <2>3 DEF NoSkippedNonce
<1>. QED  BY <1>3, <1>4, <1>5

LEMMA AbortNonces ==
  ASSUME TypeOK, NonceInv, NEW j \in Jobs, Abort(j)
  PROVE  NonceInv'
<1>. USE DEF TypeOK, NonceInv, Abort, node
<1>1. Taken(j)' = {} /\ burnt' = burnt \union Taken(j)
  BY RangeOfEmpty DEF Taken, Unset
<1>2. \A k \in Jobs \ {j} : Taken(k)' = Taken(k)
  BY DEF Taken
<1>3. TakenBelow'
  <2>. SUFFICES ASSUME NEW k \in Jobs \ outdated, NEW m \in Taken(k)'
                PROVE  m < nonce
    BY DEF TakenBelow
  <2>1. m \in Taken(k)  BY <1>1, <1>2
  <2>. QED  BY <2>1 DEF TakenBelow
<1>5. DistinctNonces'
  <2>. SUFFICES ASSUME NEW k \in Jobs \ outdated, NEW l \in Jobs \ outdated, k # l
                PROVE  Taken(k)' \intersect Taken(l)' = {}
    BY DEF DistinctNonces
  <2>1. Taken(k)' \subseteq Taken(k) /\ Taken(l)' \subseteq Taken(l)
    BY <1>1, <1>2
  <2>. QED  BY <2>1 DEF DistinctNonces
<1>4. NoSkippedNonce'
  <2>1. UNION {Taken(k) : k \in Jobs}
           \subseteq (UNION {Taken(k)' : k \in Jobs}) \union Taken(j)
    BY <1>2
  <2>. QED  BY <1>1, <2>1 DEF NoSkippedNonce
<1>. QED  BY <1>3, <1>4, <1>5

LEMMA ResetNonces ==
  ASSUME TypeOK, StageInv, SessionExclusive, NonceInv, NEW j \in Jobs, ResetAnswered(j)
  PROVE  NonceInv'
<1>. USE DEF TypeOK, NonceInv, ResetAnswered, node
<1>1. nonce' \in Nat /\ 0..(nonce'-1) \subseteq accepted
  BY PendingNonceType DEF PendingNonces
<1>2. \A k \in Jobs : Taken(k)' = Taken(k)
  BY DEF Taken
<1>3. \A k \in Jobs : current[k] = Unset
  BY DEF StageInv, SessionExclusive, InSession
<1>4. TakenBelow'
  BY <1>1, <1>2, <1>3, RangeOfNonces DEF TakenBelow, Taken
<1>5. DistinctNonces'
  BY <1>2 DEF DistinctNonces
<1>6. NoSkippedNonce'
  BY <1>1 DEF NoSkippedNonce
<1>. QED  BY <1>4, <1>5, <1>6

(* The actions that take a nonce: the first one of a signer, of a session, *)
(* of the next transaction of a batch.                                     *)
LEMMA NonceAnsweredNonces ==
  ASSUME TypeOK, StageInv, NonceInv, NEW j \in Jobs, NonceAnswered(j)
  PROVE  NonceInv'
<1>. USE DEF TypeOK, NonceAnswered, node, lock
<1>1. PICK n \in PendingNonces : nonce' = n + 1 /\ current' = [current EXCEPT ![j] = n]
  OBVIOUS
<1>2. n \in Nat /\ 0..(n-1) \subseteq accepted
  BY PendingNonceType DEF PendingNonces
<1>3. nonce = Unset /\ current[j] = Unset
  BY DEF StageInv
<1>4. \A k \in Jobs \ outdated : Taken(k) = {}
  <2>. SUFFICES ASSUME NEW k \in Jobs \ outdated, NEW m \in Taken(k)
                PROVE  FALSE
    OBVIOUS
  <2>1. m \in Nat  BY RangeOfNonces DEF Taken
  <2>2. m < nonce  BY DEF NonceInv, TakenBelow
  <2>. QED  BY <1>3, <2>1, <2>2 DEF Unset
<1>5. Taken(j)' = Taken(j) \union {n}
  BY <1>1, <1>2, <1>3 DEF Taken, Unset
<1>6. \A k \in Jobs \ {j} : Taken(k)' = Taken(k)
  BY <1>1 DEF Taken
<1>. QED  BY <1>1, <1>2, <1>3, <1>4, <1>5, <1>6, TakeNonce

LEMMA EnterNonces ==
  ASSUME TypeOK, StageInv, NonceInv, NEW j \in Jobs, Enter(j)
  PROVE  NonceInv'
<1>. USE DEF TypeOK, node, lock
<1>1. /\ stage[j] # "wallet"
      /\ UNCHANGED <<signed, accepted, burnt, outdated>>
  BY DEF Enter
<1>2. \/ UNCHANGED <<nonce, current>>
      \/ /\ nonce # Unset /\ nonce' = nonce + 1
         /\ current' = [current EXCEPT ![j] = nonce]
  BY Zenon DEF Enter, BeginTx
<1>3. CASE UNCHANGED <<nonce, current>>
  <2>1. \A k \in Jobs : Taken(k)' = Taken(k)  BY <1>1, <1>3 DEF Taken
  <2>. QED  BY <1>1, <1>3, <2>1, KeepNonces
<1>4. CASE nonce # Unset /\ nonce' = nonce + 1 /\ current' = [current EXCEPT ![j] = nonce]
  <2>1. current[j] = Unset /\ nonce \in Nat  BY <1>1, <1>4 DEF StageInv
  <2>2. Taken(j)' = Taken(j) \union {nonce}  BY <1>1, <1>4, <2>1 DEF Taken, Unset
  <2>3. \A k \in Jobs \ {j} : Taken(k)' = Taken(k)  BY <1>1, <1>4 DEF Taken
  <2>. QED  BY <1>1, <1>4, <2>1, <2>2, <2>3, TakeNonce
<1>. QED  BY <1>2, <1>3, <1>4

LEMMA WalletSignedNonces ==
  ASSUME TypeOK, StageInv, NonceInv, NEW j \in Jobs, WalletSigned(j)
  PROVE  NonceInv'
<1>. USE DEF TypeOK, node, lock
<1>. DEFINE c == current[j]
            txs == Append(signed[j], c)
<1>1. c \in Nat /\ nonce \in Nat /\ nonce # Unset
  BY DEF StageInv, WalletSigned, Unset
<1>2. /\ signed' = [signed EXCEPT ![j] = txs]
      /\ UNCHANGED <<accepted, burnt, outdated>>
  BY SMT DEF WalletSigned
<1>3. \/ UNCHANGED nonce /\ current' = [current EXCEPT ![j] = Unset]
      \/ nonce' = nonce + 1 /\ current' = [current EXCEPT ![j] = nonce]
  BY <1>1 DEF WalletSigned, BeginTx
<1>4. Range(txs) = Range(signed[j]) \union {c}
  BY <1>1, RangeOfAppend
<1>5. Taken(j) = Range(signed[j]) \union {c}
  BY <1>1 DEF Taken, Unset
<1>. HIDE DEF txs
<1>6. signed'[j] = txs /\ \A k \in Jobs \ {j} : signed'[k] = signed[k]
  BY <1>2
<1>7. CASE UNCHANGED nonce /\ current' = [current EXCEPT ![j] = Unset]
  <2>1. \A k \in Jobs : Taken(k)' = Taken(k)
    <3>1. Taken(j)' = Taken(j)  BY <1>4, <1>5, <1>6, <1>7 DEF Taken
    <3>2. \A k \in Jobs \ {j} : Taken(k)' = Taken(k)  BY <1>6, <1>7 DEF Taken
    <3>. QED  BY <3>1, <3>2
  <2>. QED  BY <1>2, <1>7, <2>1, KeepNonces
<1>8. CASE nonce' = nonce + 1 /\ current' = [current EXCEPT ![j] = nonce]
  <2>1. Taken(j)' = Taken(j) \union {nonce}
    BY <1>1, <1>4, <1>5, <1>6, <1>8 DEF Taken, Unset
  <2>2. \A k \in Jobs \ {j} : Taken(k)' = Taken(k)  BY <1>6, <1>8 DEF Taken
  <2>. QED  BY <1>1, <1>2, <1>8, <2>1, <2>2, TakeNonce
<1>. QED  BY <1>3, <1>7, <1>8

LEMMA OtherNonces ==
  ASSUME TypeOK, NonceInv,
         UNCHANGED <<nonce, current, signed, burnt, outdated>>,
         accepted \subseteq accepted'
  PROVE  NonceInv'
<1>1. \A k \in Jobs : Taken(k)' = Taken(k)  BY DEF Taken
<1>. QED  BY <1>1, KeepNonces

LEMMA NextNonces == Control /\ NonceInv /\ [Next]_vars => NonceInv'
<1>. SUFFICES ASSUME Control, NonceInv, [Next]_vars PROVE NonceInv'
  OBVIOUS
<1>. USE DEF Control
<1>1. CASE UNCHANGED vars
  BY <1>1, OtherNonces DEF vars, node
<1>2. ASSUME NEW j \in Jobs, NEW o \in Ops, Call(j, o)
      PROVE  NonceInv'
  BY <1>2, OtherNonces DEF Call, node
<1>3. ASSUME NEW j \in Jobs, SendTx(j) \/ SendBatch(j) \/ EnterSend(j)
      PROVE  NonceInv'
  BY <1>3, OtherNonces DEF SendTx, SendBatch, EnterSend, node
<1>4. ASSUME NEW j \in Jobs, NEW n \in inflight[j], Broadcast(j, n) \/ BroadcastRefused(j, n)
      PROVE  NonceInv'
  BY <1>4, OtherNonces DEF Broadcast, BroadcastRefused, node
<1>5. CASE ForeignTx
  <2>1. PICK n \in PendingNonces : accepted' = accepted \union {n}
    BY <1>5 DEF ForeignTx
  <2>. QED  BY <1>5, <2>1, OtherNonces DEF ForeignTx
<1>6. ASSUME NEW j \in Jobs, Progress(j)
      PROVE  NonceInv'
  BY <1>3, <1>4, <1>6, EnterNonces, NonceAnsweredNonces, WalletSignedNonces,
     AbortNonces, ResetNonces
     DEF Progress, NonceRefused, WalletRefused, ResetRefused
<1>. QED  BY <1>1, <1>2, <1>3, <1>5, <1>6 DEF Next

LEMMA NoncesHold == Spec => []NonceInv
<1>1. Init => Control /\ NonceInv  BY InitIInv DEF IInv
<1>2. Control /\ NonceInv /\ [Next]_vars => (Control /\ NonceInv)'
  BY NextControl, NextNonces
<1>. QED  BY <1>1, <1>2, PTL DEF Spec

(* No two transactions are signed with the same nonce, but for those that  *)
(* a reset overtook.                                                       *)
THEOREM NoncesAreDistinct == Spec => []DistinctNonces
<1>1. NonceInv => DistinctNonces  BY DEF NonceInv
<1>. QED  BY <1>1, NoncesHold, PTL

(* Every nonce below the cached one is accepted by the node, held by a job *)
(* or given up by one that failed: none is skipped without a failure.      *)
THEOREM NoNonceIsSkipped == Spec => []NoSkippedNonce
<1>1. NonceInv => NoSkippedNonce  BY DEF NonceInv
<1>. QED  BY <1>1, NoncesHold, PTL
-----------------------------------------------------------------------------
(* Atomicity.  While a job signs a batch, its nonces follow on each other  *)
(* up to the cached one; before, it has signed nothing.                    *)
Early == {"idle", "awaitSign", "awaitNested", "nonce", "resetting"}
BatchOf(j) ==
  /\ Len(signed[j]) < SizeOf(op[j])
  /\ current[j] = nonce - 1
  /\ \A i \in 1..Len(signed[j]) : signed[j][i] = current[j] - Len(signed[j]) + i - 1
BatchInv == \A j \in Jobs : /\ stage[j] \in Early => signed[j] = <<>>
                            /\ stage[j] = "wallet" => BatchOf(j)

(* The variables of AtomicSigning.                                         *)
FirstFree(st, h, c, s, n) ==
  IF \E j \in Jobs : st[j] = "wallet" /\ h = j
  THEN LET j == CHOOSE k \in Jobs : st[k] = "wallet" /\ h = k IN c[j] - Len(s[j])
  ELSE n
Free == FirstFree(stage, holder, current, signed, nonce)
Book == [j \in Jobs |-> IF stage[j] = "wallet" THEN <<>> ELSE signed[j]]

LEMMA FreeInBatch ==
  ASSUME NEW st, NEW c, NEW s, NEW n, NEW j \in Jobs, st[j] = "wallet"
  PROVE  FirstFree(st, j, c, s, n) = c[j] - Len(s[j])
<1>1. \A k \in Jobs : st[k] = "wallet" /\ j = k <=> k = j
  OBVIOUS
<1>2. (CHOOSE k \in Jobs : st[k] = "wallet" /\ j = k) = j
  BY <1>1
<1>. QED  BY <1>2 DEF FirstFree

LEMMA FreeOtherwise ==
  ASSUME NEW st, NEW h, NEW c, NEW s, NEW n, \A j \in Jobs : ~(st[j] = "wallet" /\ h = j)
  PROVE  FirstFree(st, h, c, s, n) = n
BY DEF FirstFree

LEMMA FreeNow ==
  /\ \A j \in Jobs : stage[j] = "wallet" /\ holder = j => Free = current[j] - Len(signed[j])
  /\ (\A j \in Jobs : stage[j] # "wallet") => Free = nonce
BY FreeInBatch, FreeOtherwise DEF Free

LEMMA FreeNext ==
  /\ \A j \in Jobs : stage'[j] = "wallet" /\ holder' = j => Free' = current'[j] - Len(signed'[j])
  /\ (\A j \in Jobs : stage'[j] # "wallet") => Free' = nonce'
<1>1. Free' = FirstFree(stage', holder', current', signed', nonce')
  BY DEF Free, FirstFree
<1>. QED  BY <1>1, FreeInBatch, FreeOtherwise

(* In a state of the signer, only the holder is at the wallet.             *)
LEMMA AtTheWallet ==
  ASSUME SessionExclusive
  PROVE  \A j, k \in Jobs :
           stage[j] = "wallet" => /\ holder = j
                                  /\ k # j => stage[k] \notin {"nonce", "wallet", "resetting"}
BY DEF SessionExclusive, InSession

(* Steps that take no nonce and give none up.                              *)
LEMMA QuietStep ==
  ASSUME Control, Control', BatchInv, UNCHANGED <<nonce, current, signed>>,
         \A j \in Jobs : /\ stage'[j] = "wallet" <=> stage[j] = "wallet"
                         /\ stage'[j] \in Early => stage[j] \in Early
                         /\ stage[j] = "wallet" => op'[j] = op[j]
  PROVE  BatchInv' /\ UNCHANGED <<Free, Book>>
<1>1. BatchInv'
  BY DEF BatchInv, BatchOf
<1>2. Book' = Book
  BY DEF Book
<1>3. Free' = Free
  <2>1. CASE \E j \in Jobs : stage[j] = "wallet"
    <3>1. PICK j \in Jobs : stage[j] = "wallet" /\ stage'[j] = "wallet"
      BY <2>1
    <3>2. holder = j /\ holder' = j
      BY <3>1 DEF Control, SessionExclusive, InSession
    <3>. QED  BY <3>1, <3>2, FreeNow, FreeNext
  <2>2. CASE \A j \in Jobs : stage[j] # "wallet"
    BY <2>2, FreeNow, FreeNext
  <2>. QED  BY <2>1, <2>2
<1>. QED  BY <1>1, <1>2, <1>3

LEMMA SizeBounds == \A o \in AllOps : SizeOf(o) \in 1..BatchSize
BY BatchSizeAssumption DEF SizeOf

(* A nonce is given to the first transaction of a job.                     *)
LEMMA FirstNonce ==
  ASSUME Control, Control', BatchInv, NEW j \in Jobs, NEW n \in Nat,
         stage[j] \in Early, \A k \in Jobs : stage[k] # "wallet",
         stage' = [stage EXCEPT ![j] = "wallet"], current' = [current EXCEPT ![j] = n],
         nonce' = n + 1, UNCHANGED <<op, signed>>
  PROVE  BatchInv' /\ Free' = n /\ Free = nonce /\ Book' = Book
<1>. USE DEF Control, TypeOK
<1>1. signed[j] = <<>> /\ Len(signed[j]) = 0
  BY DEF BatchInv
<1>2. op[j] \in AllOps /\ SizeOf(op[j]) \in 1..BatchSize
  BY SizeBounds
<1>3. BatchOf(j)'
  BY <1>1, <1>2, BatchSizeAssumption DEF BatchOf
<1>4. BatchInv'
  BY <1>3 DEF BatchInv, Early
<1>5. holder' = j
  BY DEF SessionExclusive, InSession
<1>6. Free' = n
  <2>1. stage'[j] = "wallet" /\ current'[j] = n /\ signed'[j] = <<>>
    BY <1>1
  <2>2. Free' = current'[j] - Len(signed'[j])
    BY <1>5, <2>1, FreeNext
  <2>. QED  BY <1>1, <2>1, <2>2
<1>7. Free = nonce
  BY FreeNow
<1>8. Book' = Book
  BY <1>1 DEF Book
<1>. QED  BY <1>4, <1>6, <1>7, <1>8

(* What [Next] of AtomicSigning comes to.                                  *)
AtomicStep ==
  \/ Free' \in Nat /\ Book' = Book
  \/ \E k \in 1..BatchSize : Free # Unset /\ Free' = Free + k /\ Book' = Book
  \/ \E j \in Jobs, k \in 1..BatchSize :
       /\ Free # Unset /\ Free' = Free + k
       /\ Book' = [Book EXCEPT ![j] = [i \in 1..k |-> Free + i - 1]]
  \/ UNCHANGED <<Free, Book>>

LEMMA EnterAtomic ==
  ASSUME Control, Control', BatchInv, NEW j \in Jobs, Enter(j)
  PROVE  BatchInv' /\ AtomicStep
<1>1. /\ holder = NoJob /\ stage[j] \in {"awaitSign", "awaitNested"}
      /\ UNCHANGED <<op, signed>>
  BY DEF Enter, IsNextInLine
<1>2. \A k \in Jobs : stage[k] # "wallet"
  BY <1>1, AtTheWallet, JobsAssumption DEF Control
<1>3. \/ /\ \E x \in {"nonce", "awaitNested", "resetting"} : stage' = [stage EXCEPT ![j] = x]
         /\ UNCHANGED <<nonce, current>>
      \/ /\ nonce # Unset /\ nonce' = nonce + 1
         /\ stage' = [stage EXCEPT ![j] = "wallet"]
         /\ current' = [current EXCEPT ![j] = nonce]
  BY Zenon DEF Enter, BeginTx
<1>4. ASSUME NEW x \in {"nonce", "awaitNested", "resetting"}, stage' = [stage EXCEPT ![j] = x],
             UNCHANGED <<nonce, current>>
      PROVE  BatchInv' /\ AtomicStep
  <2>1. \A k \in Jobs : /\ stage'[k] # "wallet"
                        /\ stage'[k] \in Early => stage[k] \in Early
    BY <1>1, <1>2, <1>4 DEF Early, Control, TypeOK
  <2>. QED  BY <1>1, <1>2, <1>4, <2>1, QuietStep DEF AtomicStep
<1>5. ASSUME nonce # Unset, nonce' = nonce + 1, stage' = [stage EXCEPT ![j] = "wallet"],
             current' = [current EXCEPT ![j] = nonce]
      PROVE  BatchInv' /\ AtomicStep
  <2>1. nonce \in Nat /\ stage[j] \in Early
    BY <1>1, <1>5 DEF Control, TypeOK, Early
  <2>2. BatchInv' /\ Free' = nonce /\ Free = nonce /\ Book' = Book
    BY <1>1, <1>2, <1>5, <2>1, FirstNonce
  <2>. QED  BY <2>2 DEF AtomicStep
<1>. QED  BY <1>3, <1>4, <1>5

LEMMA NonceAnsweredAtomic ==
  ASSUME Control, Control', BatchInv, NEW j \in Jobs, NonceAnswered(j)
  PROVE  BatchInv' /\ AtomicStep
<1>1. PICK n \in PendingNonces : nonce' = n + 1 /\ current' = [current EXCEPT ![j] = n]
  BY DEF NonceAnswered
<1>2. /\ stage[j] = "nonce" /\ stage' = [stage EXCEPT ![j] = "wallet"]
      /\ UNCHANGED <<op, signed>>
  BY DEF NonceAnswered
<1>3. \A k \in Jobs : stage[k] # "wallet"
  BY <1>2, AtTheWallet DEF Control
<1>4. n \in Nat /\ stage[j] \in Early
  BY <1>2, PendingNonceType DEF Early
<1>5. BatchInv' /\ Free' = n /\ Book' = Book
  BY <1>1, <1>2, <1>3, <1>4, FirstNonce
<1>. QED  BY <1>4, <1>5 DEF AtomicStep

(* The nonces of a batch are one run from the first free one.              *)
LEMMA SameRun == \A x, y, i \in Int : /\ (x + 1) - (y + 1) = x - y
                                      /\ (x + 1) - (y + 1) + i - 1 = x - y + i - 1
OBVIOUS

LEMMA WalletSignedAtomic ==
  ASSUME Control, Control', BatchInv, NEW j \in Jobs, WalletSigned(j)
  PROVE  BatchInv' /\ AtomicStep
<1>. DEFINE s == signed[j]
            c == current[j]
            txs == Append(s, c)
            n == Len(s)
<1>1. /\ stage[j] = "wallet" /\ holder = j
      /\ \A k \in Jobs \ {j} : stage[k] # "wallet"
  BY AtTheWallet DEF WalletSigned, Control
<1>2. /\ c \in Nat /\ nonce \in Nat /\ nonce # Unset /\ nonce = c + 1
      /\ n < SizeOf(op[j]) /\ s \in Seq(Nat)
      /\ \A i \in 1..n : s[i] = c - n + i - 1
  <2>1. /\ n < SizeOf(op[j]) /\ c = nonce - 1
        /\ \A i \in 1..n : s[i] = c - n + i - 1
    BY <1>1 DEF BatchInv, BatchOf
  <2>2. c \in Nat \union {Unset} /\ nonce \in Nat \union {Unset} /\ s \in Seq(Nat)
    BY DEF Control, TypeOK
  <2>3. c # Unset /\ nonce # Unset
    BY <1>1 DEF Control, StageInv
  <2>4. c \in Nat /\ nonce \in Nat /\ nonce = c + 1
    BY <2>1, <2>2, <2>3 DEF Unset
  <2>. QED  BY <2>1, <2>2, <2>3, <2>4
<1>3. /\ n \in Nat /\ Len(txs) = n + 1 /\ SizeOf(op[j]) \in 1..BatchSize
      /\ SizeOf(op[j]) \in Nat
      /\ \A i \in 1..(n + 1) : txs[i] = c - n + i - 1
      /\ txs = [i \in 1..(n + 1) |-> txs[i]]
      /\ n # 0 => 1 \in 1..n /\ s[1] \in Nat
  <2>1. op[j] \in AllOps
    BY DEF Control, TypeOK
  <2>2. SizeOf(op[j]) \in 1..BatchSize /\ SizeOf(op[j]) \in Nat
    BY <2>1, SizeBounds, BatchSizeAssumption
  <2>3. /\ n \in Nat /\ Len(txs) = n + 1
        /\ n # 0 => 1 \in 1..n /\ s[1] \in Nat
    BY <1>2
  <2>4. /\ \A i \in 1..n : txs[i] = s[i]
        /\ txs[n + 1] = c
        /\ txs = [i \in 1..(n + 1) |-> txs[i]]
    BY <1>2
  <2>. HIDE DEF txs, n
  <2>5. ASSUME NEW i \in 1..(n + 1) PROVE txs[i] = c - n + i - 1
    <3>1. CASE i \in 1..n
      BY <1>2, <2>4, <3>1
    <3>2. CASE i = n + 1
      BY <1>2, <2>3, <2>4, <3>2
    <3>. QED  BY <2>3, <3>1, <3>2
  <2>. QED  BY <2>2, <2>3, <2>4, <2>5
<1>4. Free = c - n /\ Book[j] = <<>>
  BY <1>1, FreeNow DEF Book
<1>5. signed' = [signed EXCEPT ![j] = txs] /\ UNCHANGED op
  BY SMT DEF WalletSigned
<1>6. CASE Len(txs) < SizeOf(op[j])
  <2>1. /\ stage' = [stage EXCEPT ![j] = "wallet"]
        /\ current' = [current EXCEPT ![j] = nonce]
        /\ nonce' = nonce + 1 /\ holder' = holder
    BY <1>2, <1>6 DEF WalletSigned, BeginTx, lock
  <2>. HIDE DEF txs, n
  <2>2. signed'[j] = txs /\ current'[j] = c + 1 /\ stage'[j] = "wallet" /\ nonce' = c + 2
    <3>1. j \in DOMAIN signed /\ j \in DOMAIN current /\ j \in DOMAIN stage
      BY DEF Control, TypeOK
    <3>. QED  BY <1>2, <1>5, <2>1, <3>1
  <2>3. BatchOf(j)'
    <3>1. ASSUME NEW i \in 1..(n + 1) PROVE txs[i] = (c + 1) - (n + 1) + i - 1
      <4>1. c \in Int /\ n \in Int /\ i \in Int
        BY <1>2, <1>3
      <4>. QED  BY <1>3, <4>1, SameRun, Zenon
    <3>2. Len(signed'[j]) < SizeOf(op'[j]) /\ current'[j] = nonce' - 1
      BY <1>2, <1>5, <1>6, <2>2
    <3>. QED  BY <1>3, <2>2, <3>1, <3>2 DEF BatchOf
  <2>4. BatchInv'
    BY <1>1, <1>5, <2>1, <2>3 DEF BatchInv, Early
  <2>5. Free' = c - n
    <3>1. Free' = current'[j] - Len(signed'[j])
      BY <1>1, <2>1, <2>2, FreeNext
    <3>2. Free' = (c + 1) - (n + 1)
      BY <1>3, <2>2, <3>1, Zenon
    <3>3. c \in Int /\ n \in Int
      BY <1>2, <1>3
    <3>. QED  BY <3>2, <3>3, SameRun, Zenon
  <2>6. Book' = Book
    BY <1>1, <1>5, <2>1 DEF Book
  <2>. QED  BY <1>4, <2>4, <2>5, <2>6 DEF AtomicStep
<1>7. CASE ~(Len(txs) < SizeOf(op[j]))
  <2>1. /\ \E x \in {"sending", "signed"} : stage' = [stage EXCEPT ![j] = x]
        /\ UNCHANGED nonce
    BY <1>2, <1>7 DEF WalletSigned
  <2>. HIDE DEF txs, n
  <2>2. BatchInv'
    <3>1. \A k \in Jobs : /\ stage'[k] # "wallet"
                          /\ stage'[k] \in Early => stage[k] \in Early /\ signed'[k] = signed[k]
      BY <1>1, <1>5, <2>1 DEF Early, Control, TypeOK
    <3>. QED  BY <3>1 DEF BatchInv
  <2>3. Free' = nonce
    <3>1. \A k \in Jobs : stage'[k] # "wallet"
      BY <1>1, <2>1 DEF Control, TypeOK
    <3>. QED  BY <2>1, <3>1, FreeNext
  <2>4. n + 1 \in 1..BatchSize /\ Free # Unset /\ Free' = Free + (n + 1)
    <3>1. n + 1 \in 1..BatchSize
      BY <1>2, <1>3, BatchSizeAssumption
    <3>2. c - n \in Nat
      <4>1. CASE n = 0
        BY <1>2, <4>1
      <4>2. CASE n # 0
        <5>1. 1 \in 1..n /\ s[1] \in Nat
          BY <1>3, <4>2
        <5>. QED  BY SMTT(20), <1>2, <1>3, <5>1
      <4>. QED  BY <4>1, <4>2
    <3>3. \A x \in Nat : x # -1
      OBVIOUS
    <3>4. Free # Unset
      BY <1>4, <3>2, <3>3 DEF Unset
    <3>5. Free' = Free + (n + 1)
      BY <1>2, <1>3, <1>4, <2>3
    <3>. QED  BY <3>1, <3>4, <3>5
  <2>5. Book' = [Book EXCEPT ![j] = [i \in 1..(n + 1) |-> Free + i - 1]]
    <3>1. txs = [i \in 1..(n + 1) |-> Free + i - 1]
      BY <1>3, <1>4
    <3>2. Book' = [Book EXCEPT ![j] = txs]
      BY <1>1, <1>5, <2>1 DEF Book, Control, TypeOK
    <3>. QED  BY <3>1, <3>2, Zenon
  <2>. QED  BY <2>2, <2>4, <2>5 DEF AtomicStep
<1>. QED  BY <1>6, <1>7

(* A failure gives up the nonces of the batch.                             *)
LEMMA AbortAtomic ==
  ASSUME Control, Control', BatchInv, NEW j \in Jobs, Abort(j),
         stage[j] \in {"nonce", "wallet", "resetting"}
  PROVE  BatchInv' /\ AtomicStep
<1>. USE DEF Control, TypeOK
<1>1. /\ stage' = [stage EXCEPT ![j] = "failed"]
      /\ signed' = [signed EXCEPT ![j] = <<>>]
      /\ current' = [current EXCEPT ![j] = Unset]
      /\ UNCHANGED <<nonce, op>>
  BY DEF Abort
<1>2. \A k \in Jobs \ {j} : stage[k] # "wallet"
  BY AtTheWallet
<1>3. BatchInv'
  BY <1>1, <1>2 DEF BatchInv, Early, BatchOf
<1>4. Free' = nonce
  BY <1>1, <1>2, FreeNext
<1>5. CASE stage[j] # "wallet"
  <2>1. Free = nonce
    BY <1>2, <1>5, FreeNow
  <2>2. signed[j] = <<>>
    BY <1>5 DEF BatchInv, Early
  <2>3. Book' = Book
    BY <1>1, <2>2 DEF Book
  <2>. QED  BY <1>3, <1>4, <2>1, <2>3 DEF AtomicStep
<1>6. CASE stage[j] = "wallet"
  <2>1. Free' \in Nat
    BY <1>4, <1>6 DEF StageInv, Unset
  <2>2. Book' = Book
    BY <1>1, <1>6 DEF Book
  <2>. QED  BY <1>3, <2>1, <2>2 DEF AtomicStep
<1>. QED  BY <1>5, <1>6

LEMMA ResetAtomic ==
  ASSUME Control, Control', BatchInv, NEW j \in Jobs, ResetAnswered(j)
  PROVE  BatchInv' /\ AtomicStep
<1>1. /\ stage[j] = "resetting" /\ stage' = [stage EXCEPT ![j] = "done"]
      /\ nonce' \in Nat /\ UNCHANGED <<op, current, signed>>
  BY PendingNonceType DEF ResetAnswered
<1>2. \A k \in Jobs : stage[k] # "wallet"
  BY <1>1, AtTheWallet DEF Control
<1>3. \A k \in Jobs : /\ stage'[k] # "wallet"
                      /\ stage'[k] \in Early => stage[k] \in Early
  BY <1>1, <1>2 DEF Early, Control, TypeOK
<1>4. BatchInv'
  BY <1>1, <1>3 DEF BatchInv
<1>5. Free' \in Nat
  BY <1>1, <1>3, FreeNext
<1>6. Book' = Book
  BY <1>1, <1>2, <1>3 DEF Book
<1>. QED  BY <1>4, <1>5, <1>6 DEF AtomicStep

LEMMA OtherAtomic ==
  ASSUME Control, Control', BatchInv,
         \/ ForeignTx \/ UNCHANGED vars
         \/ \E j \in Jobs : \/ \E o \in Ops : Call(j, o)
                           \/ SendTx(j) \/ SendBatch(j) \/ EnterSend(j)
                           \/ \E n \in inflight[j] : Broadcast(j, n) \/ BroadcastRefused(j, n)
  PROVE  BatchInv' /\ AtomicStep
<1>1. CASE ForeignTx \/ UNCHANGED vars
  <2>1. UNCHANGED <<nonce, current, signed, stage, op>>
    BY <1>1 DEF ForeignTx, vars
  <2>. QED  BY <2>1, QuietStep DEF AtomicStep
<1>2. ASSUME NEW j \in Jobs, NEW x \in Stages \ ({"wallet"} \union (Early \ {"awaitSign"})),
             stage' = [stage EXCEPT ![j] = x], stage[j] # "wallet",
             x = "awaitSign" => stage[j] = "idle",
             \A k \in Jobs \ {j} : op'[k] = op[k], UNCHANGED <<nonce, current, signed>>
      PROVE  BatchInv' /\ AtomicStep
  <2>1. \A k \in Jobs : /\ stage'[k] = "wallet" <=> stage[k] = "wallet"
                        /\ stage'[k] \in Early => stage[k] \in Early
                        /\ stage[k] = "wallet" => op'[k] = op[k]
    BY <1>2 DEF Early, Control, TypeOK
  <2>. QED  BY <1>2, <2>1, QuietStep DEF AtomicStep
<1>3. ASSUME NEW j \in Jobs, NEW o \in Ops, Call(j, o) PROVE BatchInv' /\ AtomicStep
  <2>1. /\ stage[j] = "idle" /\ stage' = [stage EXCEPT ![j] = "awaitSign"]
        /\ op' = [op EXCEPT ![j] = o] /\ UNCHANGED <<nonce, current, signed>>
    BY <1>3 DEF Call
  <2>2. \A k \in Jobs \ {j} : op'[k] = op[k]
    BY <2>1
  <2>. QED  BY <1>2, <2>1, <2>2 DEF Stages, Early
<1>4. ASSUME NEW j \in Jobs, SendTx(j) \/ SendBatch(j) \/ EnterSend(j)
      PROVE  BatchInv' /\ AtomicStep
  <2>1. /\ stage[j] # "wallet" /\ UNCHANGED <<nonce, op, current, signed>>
        /\ \E x \in {"sending", "awaitSend"} : stage' = [stage EXCEPT ![j] = x]
    BY <1>4 DEF SendTx, SendBatch, EnterSend
  <2>. QED  BY <1>2, <2>1 DEF Stages, Early
<1>5. ASSUME NEW j \in Jobs, NEW n \in inflight[j], Broadcast(j, n) \/ BroadcastRefused(j, n)
      PROVE  BatchInv' /\ AtomicStep
  <2>1. /\ UNCHANGED <<nonce, op, current, signed>>
        /\ \/ UNCHANGED stage
           \/ /\ stage[j] = "sending"
              /\ \E x \in {"done", "failed"} : stage' = [stage EXCEPT ![j] = x]
    BY <1>5, Zenon DEF Broadcast, BroadcastRefused
  <2>2. CASE UNCHANGED stage
    BY <2>1, <2>2, QuietStep DEF AtomicStep
  <2>3. CASE stage[j] = "sending" /\ \E x \in {"done", "failed"} : stage' = [stage EXCEPT ![j] = x]
    BY <1>2, <2>1, <2>3 DEF Stages, Early
  <2>. QED  BY <2>1, <2>2, <2>3
<1>. QED  BY <1>1, <1>3, <1>4, <1>5

LEMMA NextAtomic ==
  ASSUME Control, Control', BatchInv, [Next]_vars
  PROVE  BatchInv' /\ AtomicStep
<1>1. ASSUME NEW j \in Jobs, Progress(j) PROVE BatchInv' /\ AtomicStep
  <2>1. CASE NonceRefused(j) \/ WalletRefused(j) \/ ResetRefused(j)
    BY <2>1, AbortAtomic DEF NonceRefused, WalletRefused, ResetRefused
  <2>2. CASE EnterSend(j) \/ \E n \in inflight[j] : Broadcast(j, n) \/ BroadcastRefused(j, n)
    BY <2>2, OtherAtomic
  <2>. QED  BY <1>1, <2>1, <2>2, EnterAtomic, NonceAnsweredAtomic, WalletSignedAtomic,
               ResetAtomic DEF Progress
<1>. QED  BY <1>1, OtherAtomic DEF Next

LEMMA InitAtomic ==
  ASSUME Init
  PROVE  BatchInv /\ Free = Unset /\ Book = [j \in Jobs |-> <<>>]
<1>1. Free = Unset
  BY FreeNow DEF Init
<1>. QED  BY <1>1 DEF Init, BatchInv, Book

(* Signing a batch is atomic with respect to the nonces, although it       *)
(* awaits the node and the wallet many times: the signer implements        *)
(* AtomicSigning, whatever jobs do in between.                             *)
THEOREM SigningIsAtomic == Spec => AtomicSigningSpec
<1>1. Init => Atomic!Init
  BY InitAtomic DEF Atomic!Init, Free, FirstFree, Book, Signing
<1>2. Init => Control /\ BatchInv
  BY InitIInv, InitAtomic DEF IInv
<1>3. Control /\ [Next]_vars => Control'
  BY NextControl
<1>4. Control /\ Control' /\ BatchInv /\ [Next]_vars => BatchInv' /\ AtomicStep
  BY NextAtomic
<1>5. AtomicStep => [Atomic!Next]_<<IF \E j \in Jobs : Signing(j)
                                    THEN LET j == CHOOSE k \in Jobs : Signing(k)
                                         IN  current[j] - Len(signed[j])
                                    ELSE nonce,
                                   [j \in Jobs |-> IF stage[j] = "wallet" THEN <<>> ELSE signed[j]]>>
  BY DEF AtomicStep, Atomic!Next, Atomic!Learn, Atomic!Sign, Atomic!Waste, Free, FirstFree, Book,
         Signing
<1>. QED  BY <1>1, <1>2, <1>3, <1>4, <1>5, PTL DEF Spec, AtomicSigningSpec, Atomic!Spec
-----------------------------------------------------------------------------
(* Delivery.  What the node has taken was broadcast by a job that sends or *)
(* has sent, a job is done when it has nothing left to deliver, and nonces *)
(* are given up only by a job that failed.                                 *)
Sent == {"sending", "done", "failed"}
JobDelivery(j) ==
  /\ stage[j] \notin Sent => inflight[j] = {}
  /\ inflight[j] \subseteq Range(signed[j])
  /\ stage[j] = "sending" => Range(signed[j]) \subseteq accepted \union inflight[j]
  /\ stage[j] = "done" => Range(signed[j]) \subseteq accepted
DeliveryInv ==
  /\ \A j \in Jobs : JobDelivery(j)
  /\ foreign = 0 => \A n \in accepted : \E j \in Jobs : stage[j] \in Sent /\ n \in Range(signed[j])
  /\ burnt = {} \/ \E j \in Jobs : stage[j] = "failed"

(* A job that has broadcast nothing yet goes on, sends, fails or resets.   *)
LEMMA MoveJob ==
  ASSUME DeliveryInv, NEW j \in Jobs, stage[j] \notin Sent,
         UNCHANGED <<accepted, foreign>>,
         \A k \in Jobs \ {j} : /\ stage'[k] = stage[k]
                               /\ signed'[k] = signed[k]
                               /\ inflight'[k] = inflight[k],
         \/ stage'[j] \notin Sent /\ inflight'[j] = {}
         \/ stage'[j] = "sending" /\ inflight'[j] = Range(signed'[j])
         \/ stage'[j] \in {"done", "failed"} /\ inflight'[j] = {} /\ Range(signed'[j]) = {},
         burnt' = burnt \/ stage'[j] = "failed"
  PROVE  DeliveryInv'
<1>1. ASSUME NEW k \in Jobs PROVE JobDelivery(k)'
  BY DEF DeliveryInv, JobDelivery, Sent
<1>2. foreign' = 0 => \A n \in accepted' : \E k \in Jobs : stage'[k] \in Sent /\ n \in Range(signed'[k])
  <2>. SUFFICES ASSUME foreign = 0, NEW n \in accepted
                PROVE  \E k \in Jobs : stage'[k] \in Sent /\ n \in Range(signed'[k])
    OBVIOUS
  <2>1. PICK k \in Jobs : stage[k] \in Sent /\ n \in Range(signed[k])
    BY DEF DeliveryInv
  <2>2. stage'[k] \in Sent /\ n \in Range(signed'[k])
    BY <2>1
  <2>. QED  BY <2>2
<1>3. burnt' = {} \/ \E k \in Jobs : stage'[k] = "failed"
  BY DEF DeliveryInv, Sent
<1>. QED  BY <1>1, <1>2, <1>3 DEF DeliveryInv

LEMMA BroadcastDelivery ==
  ASSUME Control, DeliveryInv, NEW j \in Jobs, NEW n \in inflight[j],
         Broadcast(j, n) \/ BroadcastRefused(j, n)
  PROVE  DeliveryInv'
<1>. USE DEF Control, TypeOK
<1>1. /\ inflight' = [inflight EXCEPT ![j] = @ \ {n}]
      /\ UNCHANGED <<signed, foreign, burnt>>
      /\ \/ accepted' = accepted \union {n} /\ stage' = stage
            /\ ~(stage[j] = "sending" /\ inflight[j] = {n})
         \/ accepted' = accepted \union {n} /\ stage' = [stage EXCEPT ![j] = "done"]
            /\ stage[j] = "sending" /\ inflight[j] = {n}
         \/ accepted' = accepted /\ stage' = stage /\ stage[j] # "sending"
         \/ accepted' = accepted /\ stage' = [stage EXCEPT ![j] = "failed"]
            /\ stage[j] = "sending"
  BY Zenon DEF Broadcast, BroadcastRefused, node
<1>2. stage[j] \in Sent /\ n \in Range(signed[j])
  BY DEF DeliveryInv, JobDelivery
<1>3. \A k \in Jobs : /\ stage[k] \in Sent => stage'[k] \in Sent
                      /\ stage[k] = "failed" => stage'[k] = "failed"
  BY <1>1 DEF Sent
<1>4. JobDelivery(j)'
  BY <1>1, <1>2 DEF DeliveryInv, JobDelivery, Sent
<1>5. ASSUME NEW k \in Jobs \ {j} PROVE JobDelivery(k)'
  BY <1>1 DEF DeliveryInv, JobDelivery
<1>6. ASSUME foreign' = 0, NEW m \in accepted'
      PROVE  \E k \in Jobs : stage'[k] \in Sent /\ m \in Range(signed'[k])
  <2>1. m \in accepted \/ m = n
    BY <1>1
  <2>2. CASE m = n
    BY <1>1, <1>2, <1>3, <2>2
  <2>3. CASE m \in accepted
    <3>1. PICK k \in Jobs : stage[k] \in Sent /\ m \in Range(signed[k])
      BY <1>1, <1>6, <2>3 DEF DeliveryInv
    <3>. QED  BY <1>1, <1>3, <3>1
  <2>. QED  BY <2>1, <2>2, <2>3
<1>7. burnt' = {} \/ \E k \in Jobs : stage'[k] = "failed"
  BY <1>1, <1>3 DEF DeliveryInv
<1>. QED  BY <1>4, <1>5, <1>6, <1>7 DEF DeliveryInv

LEMMA ProgressDelivery ==
  ASSUME Control, BatchInv, DeliveryInv, NEW j \in Jobs, Progress(j)
  PROVE  DeliveryInv'
<1>. USE DEF Control, TypeOK
<1>1. CASE Enter(j) \/ NonceAnswered(j)
  <2>1. /\ stage[j] \in {"awaitSign", "awaitNested", "nonce"}
        /\ \E x \in {"nonce", "wallet", "awaitNested", "resetting"} : stage' = [stage EXCEPT ![j] = x]
        /\ UNCHANGED <<accepted, foreign, signed, inflight, burnt>>
    BY <1>1, Zenon DEF Enter, BeginTx, NonceAnswered, node
  <2>2. inflight[j] = {}
    BY <2>1 DEF DeliveryInv, JobDelivery, Sent
  <2>. QED  BY <2>1, <2>2, MoveJob DEF Sent
<1>2. CASE EnterSend(j)
  BY <1>2, MoveJob DEF EnterSend, node, Sent
<1>3. CASE NonceRefused(j) \/ WalletRefused(j) \/ ResetRefused(j)
  <2>1. stage[j] \in {"nonce", "wallet", "resetting"} /\ Abort(j)
    BY <1>3 DEF NonceRefused, WalletRefused, ResetRefused
  <2>2. inflight[j] = {}
    BY <2>1 DEF DeliveryInv, JobDelivery, Sent
  <2>3. /\ stage' = [stage EXCEPT ![j] = "failed"]
        /\ signed' = [signed EXCEPT ![j] = <<>>]
        /\ UNCHANGED <<accepted, foreign, inflight>>
    BY <2>1 DEF Abort, node
  <2>. QED  BY <2>1, <2>2, <2>3, RangeOfEmpty, MoveJob DEF Sent
<1>4. CASE WalletSigned(j)
  <2>. DEFINE txs == Append(signed[j], current[j])
  <2>1. /\ stage[j] = "wallet" /\ nonce # Unset
        /\ signed' = [signed EXCEPT ![j] = txs]
        /\ UNCHANGED <<accepted, foreign, burnt>>
    BY <1>4, SMT DEF WalletSigned, node, StageInv
  <2>2. \/ /\ \E x \in {"wallet", "signed"} : stage' = [stage EXCEPT ![j] = x]
           /\ UNCHANGED inflight
        \/ /\ stage' = [stage EXCEPT ![j] = "sending"]
           /\ inflight' = [inflight EXCEPT ![j] = Range(txs)]
    BY <1>4, <2>1, Zenon DEF WalletSigned, BeginTx
  <2>3. inflight[j] = {}
    BY <2>1 DEF DeliveryInv, JobDelivery, Sent
  <2>. HIDE DEF txs
  <2>. QED  BY <2>1, <2>2, <2>3, MoveJob DEF Sent
<1>5. CASE ResetAnswered(j)
  <2>1. stage[j] = "resetting" /\ signed[j] = <<>> /\ inflight[j] = {}
    BY <1>5 DEF ResetAnswered, BatchInv, Early, DeliveryInv, JobDelivery, Sent
  <2>2. stage' = [stage EXCEPT ![j] = "done"] /\ UNCHANGED <<accepted, foreign, signed, inflight, burnt>>
    BY <1>5 DEF ResetAnswered, node
  <2>. QED  BY <2>1, <2>2, RangeOfEmpty, MoveJob DEF Sent
<1>6. CASE \E n \in inflight[j] : Broadcast(j, n) \/ BroadcastRefused(j, n)
  BY <1>6, BroadcastDelivery
<1>. QED  BY <1>1, <1>2, <1>3, <1>4, <1>5, <1>6 DEF Progress

LEMMA NextDelivery ==
  ASSUME Control, BatchInv, DeliveryInv, [Next]_vars
  PROVE  DeliveryInv'
<1>. USE DEF Control, TypeOK
<1>1. ASSUME NEW j \in Jobs, NEW o \in Ops, Call(j, o) PROVE DeliveryInv'
  <2>1. /\ stage[j] = "idle" /\ stage' = [stage EXCEPT ![j] = "awaitSign"]
        /\ UNCHANGED <<accepted, foreign, signed, inflight, burnt>>
    BY <1>1 DEF Call, node
  <2>2. inflight[j] = {}
    BY <2>1 DEF DeliveryInv, JobDelivery, Sent
  <2>. QED  BY <2>1, <2>2, MoveJob DEF Sent
<1>2. ASSUME NEW j \in Jobs, SendTx(j) PROVE DeliveryInv'
  BY <1>2, MoveJob DEF SendTx, node, Sent
<1>3. ASSUME NEW j \in Jobs, SendBatch(j) PROVE DeliveryInv'
  <2>1. /\ stage[j] = "signed" /\ stage' = [stage EXCEPT ![j] = "awaitSend"]
        /\ UNCHANGED <<accepted, foreign, signed, inflight, burnt>>
    BY <1>3 DEF SendBatch, node
  <2>2. inflight[j] = {}
    BY <2>1 DEF DeliveryInv, JobDelivery, Sent
  <2>. QED  BY <2>1, <2>2, MoveJob DEF Sent
<1>4. CASE ForeignTx
  <2>1. /\ foreign' = foreign + 1 /\ accepted \subseteq accepted'
        /\ UNCHANGED <<stage, signed, inflight, burnt>>
    BY <1>4 DEF ForeignTx
  <2>2. foreign' # 0
    BY <2>1
  <2>. QED  BY <2>1, <2>2 DEF DeliveryInv, JobDelivery
<1>5. CASE UNCHANGED vars
  BY <1>5 DEF vars, DeliveryInv, JobDelivery
<1>. QED  BY <1>1, <1>2, <1>3, <1>4, <1>5, ProgressDelivery DEF Next

LEMMA InitDelivery == Init => DeliveryInv
BY DEF Init, DeliveryInv, JobDelivery, Sent

(* All delivered: the nonces the node has are the ones below the cached.   *)
LEMMA AllDelivered ==
  ASSUME Control, NonceInv, BatchInv, DeliveryInv
  PROVE  DeliveredMeansCurrent
<1>. SUFFICES ASSUME \A j \in Jobs : stage[j] \in {"idle", "done"},
                     nonce # Unset, foreign = 0, outdated = {}
              PROVE  nonce \in PendingNonces
  BY DEF DeliveredMeansCurrent
<1>1. nonce \in Nat /\ accepted \subseteq Nat
  BY DEF Control, TypeOK
<1>2. burnt = {}
  BY DEF DeliveryInv
<1>3. \A j \in Jobs : Taken(j) = Range(signed[j]) /\ Taken(j) \subseteq accepted
  <2>. SUFFICES ASSUME NEW j \in Jobs
                PROVE  Taken(j) = Range(signed[j]) /\ Taken(j) \subseteq accepted
    OBVIOUS
  <2>1. current[j] = Unset
    BY DEF Control, StageInv
  <2>2. Taken(j) = Range(signed[j])
    BY <2>1 DEF Taken
  <2>3. CASE stage[j] = "idle"
    BY <2>2, <2>3, RangeOfEmpty DEF BatchInv, Early
  <2>4. CASE stage[j] = "done"
    BY <2>2, <2>4 DEF DeliveryInv, JobDelivery
  <2>. QED  BY <2>2, <2>3, <2>4
<1>4. 0..(nonce - 1) \subseteq accepted
  BY <1>2, <1>3 DEF NonceInv, NoSkippedNonce
<1>5. ASSUME NEW n \in accepted PROVE n \in 0..(nonce - 1)
  <2>1. PICK j \in Jobs : n \in Range(signed[j])
    BY DEF DeliveryInv
  <2>2. n < nonce
    BY <1>3, <2>1 DEF NonceInv, TakenBelow
  <2>. QED  BY <1>1, <2>2
<1>6. accepted = 0..(nonce - 1)
  BY <1>4, <1>5
<1>7. Cardinality(0..(nonce - 1)) = nonce
  BY <1>1, FS_Interval
<1>. QED  BY <1>1, <1>6, <1>7 DEF PendingNonces

(* When every job has been delivered, the signer and the node agree on the *)
(* next nonce (but for foreign transactions and what a reset overtook).    *)
THEOREM DeliveryKeepsPace == Spec => []DeliveredMeansCurrent
<1>1. Init => Control /\ NonceInv /\ BatchInv /\ DeliveryInv
  BY InitIInv, InitAtomic, InitDelivery DEF IInv
<1>2. Control /\ NonceInv /\ BatchInv /\ DeliveryInv /\ [Next]_vars
        => (Control /\ NonceInv /\ BatchInv /\ DeliveryInv)'
  BY NextControl, NextNonces, NextAtomic, NextDelivery
<1>3. Control /\ NonceInv /\ BatchInv /\ DeliveryInv => DeliveredMeansCurrent
  BY AllDelivered
<1>. QED  BY <1>1, <1>2, <1>3, PTL DEF Spec
-----------------------------------------------------------------------------
(* Why every job ends, up to fairness: whoever is pending is served by a   *)
(* job that can go on, a job that can go on remains so until it does, and  *)
(* each of its steps leaves it less to do.                                 *)
InLine == {"awaitSign", "awaitNested", "awaitSend"}

(* The queue holds the jobs that wait, once each; a job that sends has an  *)
(* unanswered broadcast; signTxBatch() comes no further than its own sign().*)
JobLine(j) ==
  /\ stage[j] \in InLine <=> j \in Range(queue)
  /\ stage[j] \in {"signed", "awaitSend"} => signed[j] # <<>>
  /\ stage[j] = "sending" => inflight[j] # {}
  /\ Len(signed[j]) <= BatchSize
  /\ op[j] = "signTxBatch" => stage[j] \in {"awaitSign", "awaitNested"}
LineInv ==
  /\ IsInjective(queue)
  /\ \A j \in Jobs : JobLine(j)
  /\ IsFiniteSet(accepted)

(* What a step of j needs: its turn, an answer of the node, the wallet.    *)
CanGo(j) ==
  \/ stage[j] \in InLine /\ IsNextInLine(j)
  \/ stage[j] \in {"nonce", "resetting"} /\ PendingNonces # {}
  \/ stage[j] = "wallet"
  \/ inflight[j] # {}

ServedBy(j) == IF stage[j] \notin InLine THEN j
               ELSE IF holder # NoJob THEN holder ELSE Head(queue)
NobodyIsStuck ==
  ~MutexLost => \A j \in Jobs : Pending(j) => ServedBy(j) \in Jobs /\ CanGo(ServedBy(j))

(* What is left to do for a job, counted in steps.                         *)
Unsigned(o, s) == SizeOf(o) - Len(s)
ToDo(at, o, s) ==
  IF at = "idle" THEN 3 * BatchSize + 7
  ELSE IF at = "awaitSign" THEN 3 * BatchSize + 6
  ELSE IF at = "awaitNested" THEN 3 * BatchSize + 5
  ELSE IF at = "nonce" THEN BatchSize + 4 + 2 * Unsigned(o, s)
  ELSE IF at = "wallet" THEN BatchSize + 3 + 2 * Unsigned(o, s)
  ELSE IF at = "signed" THEN BatchSize + 3
  ELSE IF at = "awaitSend" THEN BatchSize + 2
  ELSE IF at \in {"sending", "resetting"} THEN 1
  ELSE 0
Work(j) == ToDo(stage[j], op[j], signed[j]) + Cardinality(inflight[j])

KeepsTurns == \A j \in Jobs : CanGo(j) => CanGo(j)' \/ Progress(j)
RunsDown == \A j \in Jobs : /\ Work(j) \in Nat /\ Work(j)' <= Work(j)
                            /\ Progress(j) => Work(j)' < Work(j)

LostForGood ==
  MutexLost => /\ MutexLost' /\ UNCHANGED <<holder, nonce>>
               /\ \A j \in Jobs : stage[j] \in InLine => stage'[j] = stage[j]

LEMMA Appended ==
  ASSUME NEW S, NEW q \in Seq(S), IsInjective(q), NEW e \in S, e \notin Range(q)
  PROVE  IsInjective(Append(q, e)) /\ Range(Append(q, e)) = Range(q) \union {e}
<1>1. \A i \in 1..Len(q) : q[i] \in Range(q)
  BY DEF Range
<1>2. IsInjective(Append(q, e))
  BY <1>1 DEF IsInjective
<1>. QED  BY <1>2, RangeOfAppend

LEMMA Served ==
  ASSUME NEW S, NEW q \in Seq(S), IsInjective(q), q # <<>>
  PROVE  /\ Tail(q) \in Seq(S) /\ IsInjective(Tail(q))
         /\ Head(q) \in Range(q) /\ Range(Tail(q)) = Range(q) \ {Head(q)}
<1>1. /\ Tail(q) \in Seq(S) /\ Len(Tail(q)) = Len(q) - 1 /\ Len(q) \in Nat \ {0}
      /\ \A i \in 1..Len(Tail(q)) : Tail(q)[i] = q[i + 1]
      /\ Head(q) = q[1] /\ DOMAIN q = 1..Len(q) /\ DOMAIN Tail(q) = 1..Len(Tail(q))
  OBVIOUS
<1>2. IsInjective(Tail(q))
  BY <1>1 DEF IsInjective
<1>3. Head(q) \in Range(q)
  BY <1>1 DEF Range
<1>4. ASSUME NEW x \in Range(Tail(q)) PROVE x \in Range(q) \ {Head(q)}
  <2>1. PICK i \in 1..Len(Tail(q)) : x = q[i + 1]
    BY <1>1, <1>4 DEF Range
  <2>2. i + 1 \in 1..Len(q) /\ i + 1 # 1
    BY <1>1
  <2>. QED  BY <1>1, <2>1, <2>2 DEF Range, IsInjective
<1>5. ASSUME NEW x \in Range(q) \ {Head(q)} PROVE x \in Range(Tail(q))
  <2>1. PICK i \in 1..Len(q) : x = q[i]
    BY <1>1, <1>5 DEF Range
  <2>2. i - 1 \in 1..Len(Tail(q)) /\ Tail(q)[i - 1] = x
    BY <1>1, <1>5, <2>1
  <2>. QED  BY <1>1, <2>2 DEF Range
<1>. QED  BY <1>1, <1>2, <1>3, <1>4, <1>5

LEMMA NonemptyRange ==
  ASSUME NEW S, NEW q \in Seq(S), q # <<>>
  PROVE  Range(q) # {}
<1>1. 1 \in DOMAIN q
  OBVIOUS
<1>. QED  BY <1>1 DEF Range

(* There is always a first nonce that the node has no transaction for.     *)
LEMMA FirstGap ==
  ASSUME NEW A \in SUBSET Nat, IsFiniteSet(A)
  PROVE  {n \in 0..Cardinality(A) : n \notin A /\ 0..(n-1) \subseteq A} # {}
<1>. DEFINE c == Cardinality(A)
            S == {n \in 0..c : 0..(n-1) \subseteq A}
            f == [n \in S |-> n + 1]
<1>1. c \in Nat
  BY FS_CardinalityType
<1>. SUFFICES ASSUME \A n \in S : n \in A PROVE FALSE
  OBVIOUS
<1>2. ASSUME NEW n \in S PROVE n + 1 \in S
  <2>1. n \in Nat /\ 0..n \subseteq A
    BY <1>1
  <2>2. Cardinality(0..n) = n + 1
    BY <2>1, FS_Interval
  <2>3. n + 1 <= c
    BY <2>1, <2>2, FS_Subset
  <2>. QED  BY <1>1, <2>1, <2>3
<1>3. S \subseteq Nat /\ IsFiniteSet(S)
  <2>1. IsFiniteSet(0..c)
    BY <1>1, FS_Interval
  <2>. QED  BY <1>1, <2>1, FS_Subset
<1>4. 0 \in S
  BY <1>1
<1>. HIDE DEF S, c
<1>5. f \in Injection(S, S)
  BY <1>2, <1>3 DEF Injection, IsInjective
<1>6. f \in Surjection(S, S)
  BY <1>3, <1>5, FS_Injection
<1>7. PICK n \in S : f[n] = 0
  BY <1>4, <1>6 DEF Surjection
<1>. QED  BY <1>3, <1>7

LEMMA NodeAnswers ==
  /\ Control /\ LineInv => PendingNonces # {}
  /\ Control' /\ LineInv' => PendingNonces' # {}
<1>1. ASSUME Control, LineInv PROVE PendingNonces # {}
  BY <1>1, FirstGap DEF Control, TypeOK, LineInv, PendingNonces
<1>2. ASSUME Control', LineInv' PROVE PendingNonces' # {}
  BY <1>2, FirstGap DEF Control, TypeOK, LineInv, PendingNonces
<1>. QED  BY <1>1, <1>2

(* The life of a job: what one step of j does to its place, its signed     *)
(* transactions and its broadcasts, and to the line.                       *)
Signs(j) == signed'[j] = Append(signed[j], current[j])
Keeps(j) == signed'[j] = signed[j] /\ inflight'[j] = inflight[j]
From(j, from, to) == stage[j] \in from /\ stage'[j] = to
JobMove(j) ==
  \/ From(j, {"idle"}, "awaitSign") /\ Keeps(j)
  \/ /\ From(j, {"awaitSign", "awaitNested"}, "nonce") \/ From(j, {"nonce"}, "wallet")
        \/ From(j, {"awaitSign", "awaitNested"}, "wallet")
     /\ Keeps(j) /\ op'[j] = op[j]
  \/ From(j, {"awaitSign", "awaitNested"}, "resetting") /\ Keeps(j)
  \/ From(j, {"awaitSign"}, "awaitNested") /\ Keeps(j)
  \/ /\ From(j, {"nonce", "wallet", "resetting"}, "failed")
     /\ signed'[j] = <<>> /\ inflight'[j] = inflight[j]
  \/ /\ From(j, {"wallet"}, "wallet") /\ Signs(j) /\ inflight'[j] = inflight[j]
     /\ op'[j] = op[j]
  \/ From(j, {"wallet"}, "signed") /\ Signs(j) /\ inflight'[j] = inflight[j]
  \/ From(j, {"wallet"}, "sending") /\ Signs(j) /\ inflight'[j] = Range(signed'[j])
  \/ From(j, {"signed"}, "awaitSend") /\ Keeps(j)
  \/ /\ From(j, {"signed", "awaitSend"}, "sending") /\ signed'[j] = signed[j]
     /\ inflight'[j] = Range(signed'[j])
  \/ From(j, {"resetting"}, "done") /\ Keeps(j)
  \/ \E n \in inflight[j] :
       /\ inflight'[j] = inflight[j] \ {n} /\ signed'[j] = signed[j]
       /\ \/ /\ stage[j] # "sending" \/ inflight[j] # {n}
             /\ stage'[j] = stage[j]
          \/ From(j, {"sending"}, "done")
          \/ From(j, {"sending"}, "failed")

LineMove(j) ==
  \/ queue' = queue /\ {stage[j], stage'[j]} \intersect InLine = {}
  \/ queue' = Append(queue, j) /\ stage[j] \notin InLine /\ stage'[j] \in InLine
  \/ IsNextInLine(j) /\ queue' = Tail(queue) /\ stage[j] \in InLine /\ stage'[j] \notin InLine
  \/ IsNextInLine(j) /\ queue' = Append(Tail(queue), j) /\ {stage[j], stage'[j]} \subseteq InLine

StepOf(j) ==
  /\ JobMove(j) /\ LineMove(j)
  /\ holder' \in {holder, NoJob} \/ IsNextInLine(j)
  /\ op'[j] = "signTxBatch" => stage'[j] \in {"awaitSign", "awaitNested"}
  /\ \A k \in Jobs \ {j} : /\ stage'[k] = stage[k] /\ op'[k] = op[k]
                           /\ signed'[k] = signed[k] /\ inflight'[k] = inflight[k]
  /\ accepted' = accepted \/ \E n : accepted' = accepted \union {n}

(* The mutex serves a job again that waits for its own nested call: never, *)
(* since its session is open.                                              *)
LEMMA NestedNeverServed ==
  ASSUME Control, NEW j \in Jobs, stage[j] = "awaitNested"
  PROVE  holder = j /\ \A k \in Jobs : ~IsNextInLine(k)
BY JobsAssumption DEF Control, SessionExclusive, InSession, IsNextInLine

LEMMA StepOfEnter ==
  ASSUME Control, LineInv, NEW j \in Jobs, Enter(j)
  PROVE  StepOf(j)
<1>. USE DEF Control, TypeOK, InLine
<1>1. /\ IsNextInLine(j) /\ stage[j] = "awaitSign"
      /\ UNCHANGED <<op, signed, inflight, accepted>>
  BY NestedNeverServed DEF Enter, node
<1>2. \/ /\ op[j] \in {"signTx", "signAndSend", "signBatch"} /\ queue' = Tail(queue)
         /\ \E x \in {"nonce", "wallet"} : stage' = [stage EXCEPT ![j] = x]
      \/ /\ op[j] = "signTxBatch" /\ queue' = Append(Tail(queue), j)
         /\ stage' = [stage EXCEPT ![j] = "awaitNested"]
      \/ /\ op[j] = "reset" /\ queue' = Tail(queue)
         /\ stage' = [stage EXCEPT ![j] = "resetting"]
  BY <1>1, Zenon DEF Enter, BeginTx
<1>3. JobMove(j)
  BY <1>1, <1>2 DEF JobMove, From, Keeps
<1>4. LineMove(j)
  BY <1>1, <1>2 DEF LineMove
<1>. QED  BY <1>1, <1>2, <1>3, <1>4 DEF StepOf

LEMMA StepOfAbort ==
  ASSUME Control, LineInv, NEW j \in Jobs, NonceRefused(j) \/ WalletRefused(j) \/ ResetRefused(j)
  PROVE  StepOf(j)
<1>. USE DEF Control, TypeOK, InLine
<1>1. /\ stage[j] \in {"nonce", "wallet", "resetting"} /\ stage' = [stage EXCEPT ![j] = "failed"]
      /\ signed' = [signed EXCEPT ![j] = <<>>] /\ UNCHANGED <<queue, op, inflight, accepted>>
      /\ holder' \in {holder, NoJob}
  BY DEF NonceRefused, WalletRefused, ResetRefused, Abort, Release, node
<1>2. JobMove(j)
  BY <1>1 DEF JobMove, From
<1>3. op[j] # "signTxBatch"
  BY <1>1 DEF LineInv, JobLine
<1>. QED  BY <1>1, <1>2, <1>3 DEF StepOf, LineMove

LEMMA StepOfWallet ==
  ASSUME Control, LineInv, NEW j \in Jobs, WalletSigned(j)
  PROVE  StepOf(j)
<1>. USE DEF Control, TypeOK, InLine
<1>. DEFINE txs == Append(signed[j], current[j])
<1>1. /\ stage[j] = "wallet" /\ nonce # Unset
      /\ signed' = [signed EXCEPT ![j] = txs] /\ UNCHANGED <<op, accepted>>
  BY SMT DEF WalletSigned, StageInv, node
<1>2. /\ \/ stage' = [stage EXCEPT ![j] = "wallet"] /\ UNCHANGED inflight
         \/ stage' = [stage EXCEPT ![j] = "signed"] /\ UNCHANGED inflight
         \/ /\ stage' = [stage EXCEPT ![j] = "sending"]
            /\ inflight' = [inflight EXCEPT ![j] = Range(txs)]
      /\ queue' = queue /\ holder' \in {holder, NoJob}
  BY <1>1, Zenon DEF WalletSigned, BeginTx, Release, lock
<1>3. op[j] # "signTxBatch"
  BY <1>1 DEF LineInv, JobLine
<1>. HIDE DEF txs
<1>4. signed'[j] = txs /\ \A k \in Jobs \ {j} : signed'[k] = signed[k]
  BY <1>1
<1>5. JobMove(j)
  BY <1>1, <1>2, <1>4 DEF JobMove, From, Signs, txs
<1>. QED  BY <1>1, <1>2, <1>3, <1>4, <1>5 DEF StepOf, LineMove

LEMMA StepOfSend ==
  ASSUME Control, LineInv, NEW j \in Jobs, SendTx(j) \/ SendBatch(j) \/ EnterSend(j)
  PROVE  StepOf(j)
<1>. USE DEF Control, TypeOK, InLine
<1>1. op[j] # "signTxBatch"
  BY DEF LineInv, JobLine, SendTx, SendBatch, EnterSend
<1>2. CASE SendTx(j)
  BY <1>1, <1>2 DEF SendTx, StepOf, JobMove, LineMove, From, lock, node
<1>3. CASE SendBatch(j)
  BY <1>1, <1>3 DEF SendBatch, StepOf, JobMove, LineMove, From, Keeps, node
<1>4. CASE EnterSend(j)
  BY <1>1, <1>4 DEF EnterSend, StepOf, JobMove, LineMove, From, node
<1>. QED  BY <1>2, <1>3, <1>4

LEMMA StepOfBroadcast ==
  ASSUME Control, LineInv, NEW j \in Jobs, NEW n \in inflight[j],
         Broadcast(j, n) \/ BroadcastRefused(j, n), DeliveryInv
  PROVE  StepOf(j)
<1>. USE DEF Control, TypeOK, InLine
<1>1. /\ inflight' = [inflight EXCEPT ![j] = @ \ {n}] /\ UNCHANGED <<signed, op, queue>>
      /\ accepted' = accepted \/ accepted' = accepted \union {n}
      /\ \/ /\ stage' = stage /\ holder' = holder
            /\ stage[j] # "sending" \/ inflight[j] # {n}
         \/ /\ stage[j] = "sending" /\ holder' \in {holder, NoJob}
            /\ \E x \in {"done", "failed"} : stage' = [stage EXCEPT ![j] = x]
  BY Zenon DEF Broadcast, BroadcastRefused, Release, node
<1>2. stage[j] \in Sent /\ op[j] # "signTxBatch"
  BY DEF DeliveryInv, JobDelivery, LineInv, JobLine, Sent
<1>3. JobMove(j)
  BY <1>1 DEF JobMove, From
<1>. QED  BY <1>1, <1>2, <1>3 DEF StepOf, LineMove, Sent

LEMMA StepOfProgress ==
  ASSUME Control, DeliveryInv, LineInv, NEW j \in Jobs, Progress(j)
  PROVE  StepOf(j)
<1>. USE DEF Control, TypeOK, InLine
<1>1. CASE NonceAnswered(j)
  BY <1>1 DEF NonceAnswered, StepOf, JobMove, LineMove, From, Keeps, lock, node, LineInv, JobLine
<1>2. CASE ResetAnswered(j)
  BY <1>2 DEF ResetAnswered, StepOf, JobMove, LineMove, From, Keeps, Release, node, LineInv, JobLine
<1>. QED  BY <1>1, <1>2, StepOfEnter, StepOfSend, StepOfAbort, StepOfWallet, StepOfBroadcast
          DEF Progress

LEMMA Steps ==
  ASSUME Control, DeliveryInv, LineInv, [Next]_vars
  PROVE  \/ \E j \in Jobs : /\ StepOf(j)
                            /\ \/ Progress(j) \/ SendTx(j) \/ SendBatch(j)
                               \/ \E o \in Ops : Call(j, o)
         \/ /\ UNCHANGED <<holder, queue, stage, op, signed, inflight>>
            /\ accepted' = accepted \/ \E n : accepted' = accepted \union {n}
<1>. USE DEF Control, TypeOK, InLine
<1>1. ASSUME NEW j \in Jobs, NEW o \in Ops, Call(j, o) PROVE StepOf(j)
  BY <1>1 DEF Call, StepOf, JobMove, LineMove, From, Keeps, node
<1>2. CASE ForeignTx \/ UNCHANGED vars
  BY <1>2 DEF ForeignTx, vars, lock
<1>. QED  BY <1>1, <1>2, StepOfProgress, StepOfSend DEF Next

LEMMA StillFinite ==
  ASSUME IsFiniteSet(accepted),
         accepted' = accepted \/ \E n : accepted' = accepted \union {n}
  PROVE  IsFiniteSet(accepted')
<1>1. ASSUME NEW n, accepted' = accepted \union {n} PROVE IsFiniteSet(accepted')
  BY <1>1, FS_AddElement
<1>. QED  BY <1>1

LEMMA StepKeepsLine ==
  ASSUME Control, Control', BatchInv, BatchInv', DeliveryInv, LineInv, NEW j \in Jobs, StepOf(j)
  PROVE  LineInv'
<1>. USE DEF Control, TypeOK
<1>1. IsInjective(queue) /\ \A k \in Jobs : stage[k] \in InLine <=> k \in Range(queue)
  BY DEF LineInv, JobLine
<1>2. /\ IsInjective(queue')
      /\ \A k \in Jobs : stage'[k] \in InLine <=> k \in Range(queue')
  <2>1. \A k \in Jobs \ {j} : stage'[k] = stage[k]
    BY DEF StepOf
  <2>2. CASE queue' = queue /\ {stage[j], stage'[j]} \intersect InLine = {}
    BY <1>1, <2>1, <2>2
  <2>3. CASE queue' = Append(queue, j) /\ stage[j] \notin InLine /\ stage'[j] \in InLine
    <3>1. IsInjective(queue') /\ Range(queue') = Range(queue) \union {j}
      BY <1>1, <2>3, Appended
    <3>. QED  BY <1>1, <2>1, <2>3, <3>1
  <2>4. ASSUME IsNextInLine(j)
        PROVE  /\ Tail(queue) \in Seq(Jobs) /\ IsInjective(Tail(queue))
               /\ Range(Tail(queue)) = Range(queue) \ {j}
    BY <1>1, <2>4, Served DEF IsNextInLine
  <2>5. CASE IsNextInLine(j) /\ queue' = Tail(queue) /\ stage[j] \in InLine /\ stage'[j] \notin InLine
    BY <1>1, <2>1, <2>4, <2>5
  <2>6. CASE IsNextInLine(j) /\ queue' = Append(Tail(queue), j) /\ {stage[j], stage'[j]} \subseteq InLine
    <3>1. IsInjective(queue') /\ Range(queue') = (Range(queue) \ {j}) \union {j}
      <4>. DEFINE q == Tail(queue)
      <4>1. /\ q \in Seq(Jobs) /\ IsInjective(q) /\ j \notin Range(q)
            /\ Range(q) = Range(queue) \ {j} /\ queue' = Append(q, j)
        BY <2>4, <2>6
      <4>. HIDE DEF q
      <4>2. IsInjective(Append(q, j)) /\ Range(Append(q, j)) = Range(q) \union {j}
        BY <4>1, Appended
      <4>. QED  BY <4>1, <4>2
    <3>2. stage[j] \in InLine /\ stage'[j] \in InLine
      BY <2>6
    <3>3. Range(queue') = Range(queue)
      BY <1>1, <3>1, <3>2
    <3>. QED  BY <1>1, <2>1, <3>1, <3>2, <3>3
  <2>. QED  BY <2>2, <2>3, <2>5, <2>6 DEF StepOf, LineMove
<1>3. \A k \in Jobs \ {j} : JobLine(k)'
  BY <1>2 DEF StepOf, LineInv, JobLine
<1>4. signed[j] \in Seq(Nat) /\ signed'[j] \in Seq(Nat) /\ JobLine(j) /\ JobDelivery(j)
      /\ (stage[j] = "wallet" => BatchOf(j) /\ current[j] \in Nat)
  BY DEF LineInv, BatchInv, DeliveryInv, StageInv
<1>5. Len(signed'[j]) <= BatchSize
  <2>1. CASE signed'[j] \in {signed[j], <<>>}
    BY <1>4, <2>1, BatchSizeAssumption DEF JobLine
  <2>2. CASE stage[j] = "wallet" /\ Signs(j)
    <3>1. SizeOf(op[j]) \in 1..BatchSize /\ Len(signed[j]) < SizeOf(op[j])
      BY <1>4, <2>2, SizeBounds DEF BatchOf
    <3>. QED  BY <1>4, <2>2, <3>1, BatchSizeAssumption DEF Signs
  <2>. QED  BY <2>1, <2>2 DEF StepOf, JobMove, From, Keeps
<1>6. stage'[j] \in {"signed", "awaitSend"} => signed'[j] # <<>>
  <2>1. CASE Signs(j) /\ stage[j] = "wallet"
    BY <1>4, <2>1 DEF Signs
  <2>2. CASE signed'[j] = signed[j] /\ stage[j] \in {"signed", "awaitSend"}
    BY <1>4, <2>2 DEF JobLine
  <2>. QED  BY SMTT(30), <1>4, <2>1, <2>2 DEF StepOf, JobMove, From, Keeps, JobDelivery, Sent
<1>7. stage'[j] = "sending" => inflight'[j] # {}
  <2>1. CASE stage[j] = "wallet" /\ Signs(j)
    <3>1. signed'[j] # <<>>
      BY <1>4, <2>1 DEF Signs
    <3>2. Range(signed'[j]) # {}
      BY <1>4, <3>1, NonemptyRange
    <3>. QED  BY SMTT(30), <2>1, <3>2 DEF StepOf, JobMove, From, Keeps
  <2>2. CASE stage[j] \in {"signed", "awaitSend"}
    <3>1. signed[j] # <<>>
      BY <1>4, <2>2 DEF JobLine
    <3>2. Range(signed[j]) # {}
      BY <1>4, <3>1, NonemptyRange
    <3>. QED  BY <1>4, <2>2, <3>2 DEF StepOf, JobMove, From, Keeps, JobDelivery, Sent
  <2>3. CASE stage[j] = "sending"
    BY <1>4, <2>3 DEF StepOf, JobMove, From, Keeps, JobLine
  <2>. QED  BY <1>4, <2>1, <2>2, <2>3 DEF StepOf, JobMove, From, Keeps, JobDelivery, Sent
<1>8. JobLine(j)'
  BY <1>2, <1>5, <1>6, <1>7 DEF StepOf, JobLine
<1>9. IsFiniteSet(accepted')
  BY StillFinite DEF StepOf, LineInv
<1>. QED  BY <1>2, <1>3, <1>8, <1>9 DEF LineInv

Everything == Control /\ BatchInv /\ DeliveryInv /\ LineInv

LEMMA NextEverything == Everything /\ [Next]_vars => Everything'
<1>. SUFFICES ASSUME Everything, [Next]_vars PROVE Everything'
  OBVIOUS
<1>1. Control' /\ BatchInv' /\ DeliveryInv'
  BY NextControl, NextAtomic, NextDelivery DEF Everything
<1>2. CASE \E j \in Jobs : StepOf(j)
  BY <1>1, <1>2, StepKeepsLine DEF Everything
<1>3. CASE /\ UNCHANGED <<holder, queue, stage, op, signed, inflight>>
           /\ accepted' = accepted \/ \E n : accepted' = accepted \union {n}
  <2>1. IsFiniteSet(accepted')
    BY <1>3, StillFinite DEF Everything, LineInv
  <2>. QED  BY <1>1, <1>3, <2>1 DEF Everything, LineInv, JobLine
<1>. QED  BY <1>2, <1>3, Steps DEF Everything

LEMMA InitEverything == Init => Everything
<1>1. Init => LineInv
  <2>. SUFFICES ASSUME Init PROVE LineInv
    OBVIOUS
  <2>1. IsInjective(queue) /\ IsFiniteSet(accepted)
    BY FS_EmptySet DEF Init, IsInjective
  <2>. QED  BY <2>1, RangeOfEmpty, BatchSizeAssumption DEF Init, LineInv, JobLine, InLine
<1>. QED  BY <1>1, InitIInv, InitAtomic, InitDelivery DEF Everything, IInv

LEMMA EverythingHolds == Spec => []Everything
BY InitEverything, NextEverything, PTL DEF Spec

(* A job that awaits the mutex, the node, the wallet or answers to its     *)
(* broadcasts is never stuck, unless the mutex is lost to signTxBatch():   *)
(* it can go on itself, or, in line for the mutex, the job whose session   *)
(* is open or that is first in line can.  So no failure, wherever it       *)
(* happens, leaves the signer locked.                                      *)
THEOREM TheSignerIsNeverStuck == Spec => []NobodyIsStuck
<1>1. ASSUME Everything PROVE NobodyIsStuck
  <2>. SUFFICES ASSUME ~MutexLost, NEW j \in Jobs, Pending(j)
                PROVE  ServedBy(j) \in Jobs /\ CanGo(ServedBy(j))
    BY DEF NobodyIsStuck
  <2>. USE <1>1 DEF Everything
  <2>1. PendingNonces # {}
    BY NodeAnswers
  <2>2. \A k \in Jobs : /\ stage[k] \in {"nonce", "wallet", "resetting", "sending"} => CanGo(k)
                        /\ stage[k] # "awaitNested"
    BY <2>1 DEF CanGo, LineInv, JobLine, MutexLost
  <2>3. CASE stage[j] \notin InLine
    BY <2>2, <2>3 DEF ServedBy, Pending, InLine
  <2>4. CASE stage[j] \in InLine /\ holder # NoJob
    BY <2>2, <2>4 DEF ServedBy, Control, TypeOK, SessionExclusive, InSession
  <2>5. CASE stage[j] \in InLine /\ holder = NoJob
    <3>1. queue # <<>>
      BY <2>5, RangeOfEmpty DEF LineInv, JobLine
    <3>2. Head(queue) \in Range(queue) /\ Head(queue) \in Jobs
      BY <3>1, Served DEF Control, TypeOK, LineInv
    <3>. QED  BY <2>5, <3>1, <3>2 DEF ServedBy, CanGo, IsNextInLine, LineInv, JobLine
  <2>. QED  BY <2>3, <2>4, <2>5
<1>. QED  BY <1>1, EverythingHolds, PTL

(* Turns are kept: a job that can go on can still go on after any step of  *)
(* others, and of the application, until it does.                          *)
THEOREM TurnsAreKept == Spec => [][KeepsTurns]_vars
<1>1. ASSUME Everything, Everything', [Next]_vars PROVE KeepsTurns
  <2>. SUFFICES ASSUME NEW j \in Jobs, CanGo(j), ~Progress(j) PROVE CanGo(j)'
    BY DEF KeepsTurns
  <2>. USE <1>1 DEF Everything
  <2>1. PendingNonces' # {}
    BY NodeAnswers
  <2>2. CASE UNCHANGED <<holder, queue, stage, op, signed, inflight>>
    BY <2>1, <2>2 DEF CanGo, IsNextInLine
  <2>3. ASSUME NEW k \in Jobs \ {j}, StepOf(k) PROVE CanGo(j)'
    <3>1. stage'[j] = stage[j] /\ inflight'[j] = inflight[j]
      BY <2>3 DEF StepOf
    <3>2. ASSUME IsNextInLine(j) PROVE IsNextInLine(j)'
      <4>1. ~IsNextInLine(k)
        BY <3>2 DEF IsNextInLine
      <4>2. queue' \in {queue, Append(queue, k)} /\ holder' = NoJob
        BY <2>3, <3>2, <4>1 DEF StepOf, LineMove, IsNextInLine
      <4>3. queue' # <<>> /\ Head(queue') = Head(queue)
        <5>1. queue \in Seq(Jobs) /\ queue # <<>>
          BY <3>2 DEF IsNextInLine, Control, TypeOK
        <5>. QED  BY <4>2, <5>1
      <4>. QED  BY <3>2, <4>2, <4>3 DEF IsNextInLine
    <3>. QED  BY <2>1, <3>1, <3>2 DEF CanGo
  <2>4. CASE \E o \in Ops : Call(j, o)
    BY <2>4 DEF Call, CanGo, InLine
  <2>5. CASE SendTx(j) \/ SendBatch(j)
    <3>1. inflight[j] = {}
      BY <2>5 DEF SendTx, SendBatch, DeliveryInv, JobDelivery, Sent
    <3>. QED  BY <2>5, <3>1 DEF SendTx, SendBatch, CanGo, InLine
  <2>. QED  BY <2>2, <2>3, <2>4, <2>5, Steps
<1>. QED  BY <1>1, EverythingHolds, PTL DEF Spec

LEMMA RangeIsFinite ==
  ASSUME NEW s \in Seq(Nat), NEW T \in SUBSET Range(s)
  PROVE  IsFiniteSet(T) /\ Cardinality(T) \in Nat /\ Cardinality(T) <= Len(s)
<1>1. IsFiniteSet(1..Len(s)) /\ Cardinality(1..Len(s)) = Len(s)
  <2>. DEFINE n == Len(s)
  <2>1. n \in Nat
    OBVIOUS
  <2>. HIDE DEF n
  <2>2. IsFiniteSet(1..n) /\ Cardinality(1..n) = IF 1 > n THEN 0 ELSE n - 1 + 1
    BY <2>1, FS_Interval
  <2>3. Cardinality(1..n) = n
    BY <2>1, <2>2
  <2>. QED  BY <2>2, <2>3 DEF n
<1>2. s \in Surjection(1..Len(s), Range(s))
  BY DEF Surjection, Range
<1>3. IsFiniteSet(Range(s)) /\ Cardinality(Range(s)) <= Len(s)
  BY <1>1, <1>2, FS_Surjection
<1>4. IsFiniteSet(T) /\ Cardinality(T) <= Cardinality(Range(s))
  BY <1>3, FS_Subset
<1>. QED  BY <1>3, <1>4, FS_CardinalityType

(* What is left to do is a number, and small once all is signed.           *)
Bounded(at, o, s, f) ==
  /\ at \in Stages /\ o \in AllOps /\ s \in Seq(Nat) /\ f \subseteq Range(s)
  /\ Len(s) <= BatchSize
  /\ at \notin Sent => f = {}
  /\ at = "nonce" => s = <<>>
  /\ at = "wallet" => Len(s) < SizeOf(o)

LEMMA JobsAreBounded ==
  ASSUME NEW j \in Jobs
  PROVE  /\ Everything => Bounded(stage[j], op[j], signed[j], inflight[j])
         /\ Everything' => Bounded(stage'[j], op'[j], signed'[j], inflight'[j])
BY DEF Everything, Control, TypeOK, LineInv, JobLine, DeliveryInv, JobDelivery, BatchInv, BatchOf,
       Early, Bounded

LEMMA WorkType ==
  ASSUME NEW at, NEW o, NEW s, NEW f, Bounded(at, o, s, f)
  PROVE  /\ IsFiniteSet(f) /\ Cardinality(f) \in 0..Len(s) /\ Len(s) \in 0..BatchSize
         /\ at \notin Sent => Cardinality(f) = 0
         /\ at \in {"nonce", "wallet"} => Unsigned(o, s) \in 1..BatchSize
         /\ at = "wallet" => SizeOf(o) - Len(s) \in 1..BatchSize
         /\ ToDo(at, o, s) \in Nat
<1>. USE DEF Bounded
<1>1. BatchSize \in Nat /\ SizeOf(o) \in 1..BatchSize
  BY SizeBounds, BatchSizeAssumption
<1>2. IsFiniteSet(f) /\ Cardinality(f) \in 0..Len(s) /\ Len(s) \in 0..BatchSize
  BY <1>1, RangeIsFinite
<1>3. at \notin Sent => Cardinality(f) = 0
  BY FS_EmptySet
<1>4. at \in {"nonce", "wallet"} => Unsigned(o, s) \in 1..BatchSize
  BY <1>1 DEF Unsigned
<1>5. at = "wallet" => SizeOf(o) - Len(s) \in 1..BatchSize
  BY <1>4 DEF Unsigned
<1>6. ToDo(at, o, s) \in Nat
  <2>. HIDE DEF Unsigned
  <2>. QED  BY <1>1, <1>4 DEF ToDo, Stages
<1>. QED  BY <1>2, <1>3, <1>4, <1>5, <1>6

LEMMA StepRunsDown ==
  ASSUME Everything, Everything', NEW j \in Jobs, StepOf(j)
  PROVE  Work(j)' < Work(j)
<1>. DEFINE B == BatchSize
            c == Cardinality(inflight[j])
            d == Cardinality(inflight'[j])
            u == Unsigned(op[j], signed[j])
            v == Unsigned(op'[j], signed'[j])
            t == ToDo(stage[j], op[j], signed[j])
            w == ToDo(stage'[j], op'[j], signed'[j])
<1>1. /\ Bounded(stage[j], op[j], signed[j], inflight[j])
      /\ Bounded(stage'[j], op'[j], signed'[j], inflight'[j])
  BY JobsAreBounded
<1>2. /\ B \in Nat \ {0} /\ c \in 0..B /\ d \in 0..B /\ d \in 0..Len(signed'[j])
      /\ t \in Nat /\ w \in Nat
      /\ stage[j] \notin Sent => c = 0
      /\ stage'[j] \notin Sent => d = 0
      /\ stage[j] \in {"nonce", "wallet"} => u \in 1..B
      /\ stage'[j] \in {"nonce", "wallet"} => v \in 1..B
      /\ IsFiniteSet(inflight[j])
  BY <1>1, WorkType, BatchSizeAssumption
<1>3. Work(j) = t + c /\ Work(j)' = w + d
  BY DEF Work
<1>. SUFFICES w + d < t + c
  BY <1>3
<1>4. ASSUME Keeps(j) PROVE d = c /\ (op'[j] = op[j] => v = u)
  BY <1>4 DEF Keeps
<1>5. ASSUME stage[j] = "wallet", Signs(j)
      PROVE  /\ op'[j] = op[j] => v = u - 1
             /\ d <= 1 + Len(signed[j])
  <2>1. signed[j] \in Seq(Int) /\ current[j] \in Int
    BY DEF Everything, Control, TypeOK, Unset
  <2>2. Len(signed'[j]) = Len(signed[j]) + 1
    BY <1>5, <2>1 DEF Signs
  <2>3. SizeOf(op[j]) - Len(signed[j]) \in 1..B
    BY <1>1, <1>5, WorkType
  <2>4. SizeOf(op[j]) \in 1..B
    BY <1>1, SizeBounds DEF Bounded
  <2>5. op'[j] = op[j] => v = u - 1
    BY <2>1, <2>2, <2>4 DEF Unsigned
  <2>. QED  BY <1>2, <2>1, <2>2, <2>5
<1>6. c \in Nat /\ d \in Nat
  BY <1>2
<1>. HIDE DEF u, v, c, d, B, t, w
<1>7. CASE From(j, {"idle"}, "awaitSign") /\ Keeps(j)
  BY <1>2, <1>4, <1>7 DEF From, ToDo, B, t, w
<1>8. CASE /\ From(j, {"awaitSign", "awaitNested"}, "nonce") \/ From(j, {"nonce"}, "wallet")
              \/ From(j, {"awaitSign", "awaitNested"}, "wallet")
           /\ Keeps(j) /\ op'[j] = op[j]
  <2>1. CASE From(j, {"awaitSign", "awaitNested"}, "nonce")
    <3>1. w = B + 4 + 2 * v /\ v \in 1..B
      BY <1>2, <2>1 DEF From, ToDo, B, w, v
    <3>2. t \in {3 * B + 5, 3 * B + 6} /\ d = c
      BY <1>4, <1>8, <2>1 DEF From, ToDo, B, t
    <3>. QED  BY SMTT(30), <1>2, <3>1, <3>2
  <2>2. CASE From(j, {"nonce"}, "wallet")
    BY SMTT(30), <1>2, <1>4, <1>8, <2>2 DEF From, ToDo, B, t, w, u, v
  <2>3. CASE From(j, {"awaitSign", "awaitNested"}, "wallet")
    BY <1>2, <1>4, <1>8, <2>3 DEF From, ToDo, B, t, w, v
  <2>. QED  BY <1>8, <2>1, <2>2, <2>3
<1>9. CASE From(j, {"awaitSign", "awaitNested"}, "resetting") /\ Keeps(j)
  BY <1>2, <1>4, <1>9 DEF From, ToDo, B, t, w
<1>10. CASE From(j, {"awaitSign"}, "awaitNested") /\ Keeps(j)
  BY <1>2, <1>4, <1>10 DEF From, ToDo, B, t, w
<1>11. CASE /\ From(j, {"nonce", "wallet", "resetting"}, "failed")
            /\ inflight'[j] = inflight[j]
  BY <1>2, <1>11 DEF From, ToDo, B, t, w, u, c, d
<1>12. CASE /\ From(j, {"wallet"}, "wallet") /\ Signs(j) /\ inflight'[j] = inflight[j]
            /\ op'[j] = op[j]
  BY SMTT(30), <1>2, <1>5, <1>12 DEF From, ToDo, B, t, w, u, v, c, d
<1>13. CASE From(j, {"wallet"}, "signed") /\ Signs(j) /\ inflight'[j] = inflight[j]
  BY <1>2, <1>13 DEF From, ToDo, B, t, w, u, c, d
<1>14. CASE From(j, {"wallet"}, "sending") /\ Signs(j)
  BY <1>2, <1>14 DEF From, ToDo, B, t, w, u
<1>15. CASE From(j, {"signed"}, "awaitSend") /\ Keeps(j)
  BY <1>2, <1>4, <1>15 DEF From, ToDo, B, t, w
<1>16. CASE From(j, {"signed", "awaitSend"}, "sending")
  BY <1>2, <1>16 DEF From, ToDo, B, t, w
<1>17. CASE From(j, {"resetting"}, "done") /\ Keeps(j)
  BY <1>2, <1>4, <1>17 DEF From, ToDo, B, t, w
<1>18. ASSUME NEW n \in inflight[j], inflight'[j] = inflight[j] \ {n},
              signed'[j] = signed[j],
              \/ stage'[j] = stage[j]
              \/ From(j, {"sending"}, "done") \/ From(j, {"sending"}, "failed")
       PROVE  w + d < t + c
  <2>1. d = c - 1
    BY <1>2, <1>18, FS_RemoveElement DEF c, d
  <2>2. stage[j] \in Sent
    BY <1>1, <1>18 DEF Bounded
  <2>3. w <= t
    BY <1>18, <2>2 DEF From, ToDo, Sent, t, w
  <2>. QED  BY <1>2, <1>6, <2>1, <2>3
<1>. QED
  BY <1>7, <1>8, <1>9, <1>10, <1>11, <1>12, <1>13, <1>14, <1>15, <1>16, <1>17, <1>18
     DEF StepOf, JobMove

(* The work of a job only ever shrinks, and shrinks with each of its own   *)
(* steps: a job cannot go round in circles, so that it ends once it gets   *)
(* its turns.                                                              *)
THEOREM WorkRunsDown == Spec => [][RunsDown]_vars
<1>1. ASSUME Everything, Everything', [Next]_vars PROVE RunsDown
  <2>1. \A j \in Jobs : Work(j) \in Nat /\ Work(j)' \in Nat
    <3>. TAKE j \in Jobs
    <3>1. /\ Cardinality(inflight[j]) \in Nat /\ ToDo(stage[j], op[j], signed[j]) \in Nat
          /\ Cardinality(inflight'[j]) \in Nat /\ ToDo(stage'[j], op'[j], signed'[j]) \in Nat
      BY <1>1, JobsAreBounded, WorkType
    <3>. QED  BY <3>1 DEF Work
  <2>2. ASSUME NEW j \in Jobs, StepOf(j), NEW k \in Jobs
        PROVE  Work(k)' <= Work(k) /\ (j = k => Work(k)' < Work(k))
    <3>1. Work(j)' < Work(j)
      BY <1>1, <2>2, StepRunsDown
    <3>2. k # j => Work(k)' = Work(k)
      BY <2>2 DEF StepOf, Work
    <3>. QED  BY <2>1, <3>1, <3>2
  <2>3. ASSUME UNCHANGED <<stage, op, signed, inflight>>, NEW k \in Jobs
        PROVE  Work(k)' <= Work(k)
    BY <2>1, <2>3 DEF Work
  <2>4. ASSUME NEW k \in Jobs, Progress(k) PROVE StepOf(k)
    BY <1>1, <2>4, StepOfProgress DEF Everything
  <2>5. ASSUME NEW k \in Jobs PROVE Work(k)' <= Work(k)
    BY <1>1, <2>2, <2>3, Steps DEF Everything
  <2>. QED  BY <2>1, <2>2, <2>4, <2>5 DEF RunsDown
<1>. QED  BY <1>1, EverythingHolds, PTL DEF Spec

(* The application's batch call of the README, signTxBatch(), never gives  *)
(* a signed batch and never fails either, whatever the node and the wallet *)
(* answer: its own sign() waits for the session it was called in.          *)
THEOREM SessionBatchesNeverReturn ==
  Spec => [](\A j \in Jobs : op[j] = "signTxBatch" => ~Resolved(j))
<1>1. Everything => \A j \in Jobs : op[j] = "signTxBatch" => ~Resolved(j)
  BY DEF Everything, LineInv, JobLine, Resolved
<1>. QED  BY <1>1, EverythingHolds, PTL

(* Once signTxBatch() has lost the mutex, no job in line is ever served    *)
(* again and no nonce is taken, for any use of the signer from then on.    *)
THEOREM TheMutexIsLostForGood == Spec => [][LostForGood]_vars
<1>1. ASSUME Everything, [Next]_vars PROVE LostForGood
  <2>. SUFFICES ASSUME MutexLost
                PROVE  /\ MutexLost' /\ UNCHANGED <<holder, nonce>>
                       /\ \A k \in Jobs : stage[k] \in InLine => stage'[k] = stage[k]
    BY DEF LostForGood
  <2>. USE <1>1 DEF Everything
  <2>1. PICK l \in Jobs : stage[l] = "awaitNested"
    BY DEF MutexLost
  <2>2. holder = l /\ \A k \in Jobs : ~IsNextInLine(k)
    BY <2>1, NestedNeverServed
  <2>3. \A k \in Jobs : stage[k] \notin {"nonce", "wallet", "resetting"}
    BY <2>1, <2>2 DEF Control, SessionExclusive, InSession
  <2>4. UNCHANGED nonce
    BY <2>2, <2>3
       DEF Next, Progress, Call, Enter, EnterSend, NonceAnswered, NonceRefused, WalletSigned,
           WalletRefused, ResetAnswered, ResetRefused, Abort, SendTx, SendBatch, Broadcast,
           BroadcastRefused, ForeignTx, vars
  <2>5. UNCHANGED holder
    <3>1. ASSUME NEW k \in Jobs, NEW n \in inflight[k], Broadcast(k, n) \/ BroadcastRefused(k, n)
          PROVE  UNCHANGED holder
      <4>1. CASE k = l
        BY <2>1, <3>1, <4>1 DEF Broadcast, BroadcastRefused
      <4>2. CASE k # l
        BY <2>2, <3>1, <4>2 DEF Broadcast, BroadcastRefused, Release
      <4>. QED  BY <4>1, <4>2
    <3>. QED
      BY <2>2, <2>3, <3>1
         DEF Next, Progress, Call, Enter, EnterSend, NonceAnswered, NonceRefused, WalletSigned,
             WalletRefused, ResetAnswered, ResetRefused, SendTx, SendBatch, ForeignTx, lock, vars
  <2>6. ASSUME NEW k \in Jobs, stage[k] \in InLine PROVE stage'[k] = stage[k]
    BY <2>2, <2>6, Steps DEF StepOf, LineMove, JobMove, From, InLine
  <2>7. MutexLost'
    BY <2>1, <2>6 DEF MutexLost, InLine
  <2>. QED  BY <2>4, <2>5, <2>6, <2>7
<1>. QED  BY <1>1, EverythingHolds, PTL DEF Spec
=============================================================================

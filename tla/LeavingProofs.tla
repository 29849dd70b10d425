---------------------------- MODULE LeavingProofs ----------------------------
(* For any number of calls, chains and epochs, and however requests, proofs  *)
(* and shifts are delayed: leave() lets three epochs end after its request   *)
(* was taken, unless more than one of the shifts it counted came from        *)
(* before; and an undisturbed call goes on with its own exit proof.          *)
(*                                                                           *)
(* The inductive invariant has three parts: what is counted (Counts), where  *)
(* the exit proof is (Exits) and who is registered (Handlers).  On it rests  *)
(* the part of LeaveEnds that is safety (Standings): whoever waits, waits    *)
(* for something that is on its way or due.                                  *)
EXTENDS Leaving, FiniteSetTheorems, WellFoundedInduction, TLAPS

Messages == [type : {"proof"}, proof : Proofs] \union
            [type : {"phaseshift"}, epoch : Nat] \union
            [type : {"error"}, call : Leavers]

IsShift(m) == m.type = "phaseshift"

(* The shifts in s are announced in the order of their epochs, which have    *)
(* ended before epoch e.                                                     *)
Ordered(s) == \A i, j \in 1..Len(s) :
                i < j /\ IsShift(s[i]) /\ IsShift(s[j]) => s[i].epoch < s[j].epoch
Before(s, e) == \A i \in 1..Len(s) : IsShift(s[i]) => s[i].epoch < e
After(s, E) == \A i \in 1..Len(s) : IsShift(s[i]) => \A e \in E : e < s[i].epoch

(* No epoch is counted twice: what a handler has seen is older than what is  *)
(* still on its way.                                                         *)
Shifts == /\ epoch \in Nat
          /\ toApp \in Seq(Messages) /\ toEnclave \in Seq(Leavers)
          /\ Ordered(toApp) /\ Before(toApp, epoch)
          /\ seen \in [Leavers -> SUBSET Nat]
          /\ \A l \in Leavers : /\ \A e \in seen[l] : e < epoch
                                /\ After(toApp, seen[l])

(* A handler that has let enough shifts pass has seen four epochs.           *)
FourSeen == \A l \in Leavers : /\ IsFiniteSet(seen[l])
                               /\ l \in sealed => Cardinality(seen[l]) >= 4

Requests == accepted \in [Leavers -> Nat]

Counts == Shifts /\ FourSeen /\ Requests
------------------------------------------------------------------------------
LEMMA TailKeeps ==
  ASSUME NEW s \in Seq(Messages), s # <<>>, Ordered(s), NEW e, Before(s, e)
  PROVE  /\ Tail(s) \in Seq(Messages) /\ Ordered(Tail(s)) /\ Before(Tail(s), e)
         /\ \A E : After(s, E) => After(Tail(s), E)
         /\ IsShift(Head(s)) => After(Tail(s), {Head(s).epoch}) /\ Head(s).epoch < e
<1> DEFINE t == Tail(s)
<1>1. /\ t \in Seq(Messages) /\ Len(s) \in Nat \ {0} /\ Len(t) = Len(s) - 1
      /\ Head(s) = s[1] /\ 1 \in 1..Len(s)
      /\ \A i \in 1..Len(t) : t[i] = s[i + 1] /\ i + 1 \in 1..Len(s) /\ 1 < i + 1
  OBVIOUS
<1> HIDE DEF t
<1>2. Ordered(t)
  <2>1. SUFFICES ASSUME NEW i \in 1..Len(t), NEW j \in 1..Len(t), i < j,
                        IsShift(t[i]), IsShift(t[j])
                 PROVE  t[i].epoch < t[j].epoch
    BY DEF Ordered
  <2>2. i + 1 < j + 1
    BY <1>1, <2>1
  <2>3. QED
    BY <1>1, <2>1, <2>2 DEF Ordered
<1>3. Before(t, e)
  BY <1>1 DEF Before
<1>4. ASSUME NEW E, After(s, E) PROVE After(t, E)
  BY <1>1, <1>4 DEF After
<1>5. ASSUME IsShift(Head(s)) PROVE After(t, {Head(s).epoch}) /\ Head(s).epoch < e
  BY <1>1, <1>5 DEF After, Ordered, Before
<1>6. QED
  BY <1>1, <1>2, <1>3, <1>4, <1>5 DEF t

(* Messages other than shifts may be added anywhere.                         *)
LEMMA OthersKeep ==
  ASSUME NEW s \in Seq(Messages), Ordered(s), NEW e, Before(s, e),
         NEW t \in Seq(Messages), \A i \in 1..Len(t) : ~IsShift(t[i])
  PROVE  /\ s \o t \in Seq(Messages) /\ Ordered(s \o t) /\ Before(s \o t, e)
         /\ \A E : After(s, E) => After(s \o t, E)
<1> DEFINE u == s \o t
<1>1. /\ u \in Seq(Messages) /\ Len(s) \in Nat /\ Len(t) \in Nat /\ Len(u) = Len(s) + Len(t)
      /\ \A i \in 1..Len(s) : u[i] = s[i]
      /\ \A i \in 1..Len(u) : i > Len(s) => u[i] = t[i - Len(s)] /\ i - Len(s) \in 1..Len(t)
  OBVIOUS
<1> HIDE DEF u
<1>2. ASSUME NEW i \in 1..Len(u), IsShift(u[i]) PROVE i \in 1..Len(s) /\ u[i] = s[i]
  <2>1. ~(i > Len(s))
    BY <1>1, <1>2
  <2>2. i \in 1..Len(s)
    BY <1>1, <2>1
  <2>3. QED
    BY <1>1, <2>2
<1>3. Ordered(u)
  BY <1>2 DEF Ordered
<1>4. Before(u, e)
  BY <1>2 DEF Before
<1>5. ASSUME NEW E, After(s, E) PROVE After(u, E)
  BY <1>2, <1>5 DEF After
<1>6. QED
  BY <1>1, <1>3, <1>4, <1>5 DEF u

(* The shift that ends epoch e is announced after those before.              *)
LEMMA ShiftKeeps ==
  ASSUME NEW s \in Seq(Messages), Ordered(s), NEW e \in Nat, Before(s, e)
  PROVE  LET u == s \o <<ShiftEvent(e)>> IN
           /\ u \in Seq(Messages) /\ Ordered(u) /\ Before(u, e + 1)
           /\ \A E \in SUBSET Nat :
                After(s, E) /\ (\A d \in E : d < e) => After(u, E)
<1> DEFINE x == ShiftEvent(e)
           u == s \o <<x>>
           n == Len(s) + 1
<1>1. x \in Messages /\ x.epoch = e /\ IsShift(x)
  BY DEF ShiftEvent, Messages, IsShift
<1> HIDE DEF x
<1>2. /\ u \in Seq(Messages) /\ Len(s) \in Nat /\ Len(u) = n
      /\ \A i \in 1..Len(s) : u[i] = s[i]
      /\ u[n] = x
      /\ \A i \in 1..n : i \in 1..Len(s) \/ i = n
      /\ \A i \in 1..Len(s) : i < n
  BY <1>1
<1>3. \A i \in 1..Len(s) : IsShift(s[i]) => s[i].epoch \in Nat
  BY DEF IsShift, Messages
<1> HIDE DEF u, n
<1>4. Ordered(u)
  <2>1. SUFFICES ASSUME NEW i \in 1..Len(u), NEW j \in 1..Len(u), i < j,
                        IsShift(u[i]), IsShift(u[j])
                 PROVE  u[i].epoch < u[j].epoch
    BY DEF Ordered
  <2>2. i \in 1..Len(s)
    BY <1>2, <2>1
  <2>3. CASE j \in 1..Len(s)
    BY <1>2, <2>1, <2>2, <2>3 DEF Ordered
  <2>4. CASE j = n
    BY <1>1, <1>2, <2>1, <2>2, <2>4 DEF Before
  <2>5. QED
    BY <1>2, <2>3, <2>4
<1>5. Before(u, e + 1)
  BY <1>1, <1>2, <1>3 DEF Before
<1>6. ASSUME NEW E \in SUBSET Nat, After(s, E), \A d \in E : d < e PROVE After(u, E)
  BY <1>1, <1>2, <1>6 DEF After
<1>7. QED
  BY <1>2, <1>4, <1>5, <1>6 DEF u, x

LEMMA OneAndOne ==
  ASSUME NEW x \in Messages, NEW y \in Messages
  PROVE  <<x>> \o <<>> = <<x>> /\ <<x>> \o <<y>> = <<x, y>>
<1>1. Len(<<x>> \o <<>>) = 1 /\ (<<x>> \o <<>>)[1] = x
  OBVIOUS
<1>2. /\ Len(<<x>> \o <<y>>) = 2 /\ (<<x>> \o <<y>>)[1] = x
      /\ (<<x>> \o <<y>>)[2] = y
  OBVIOUS
<1>3. /\ <<x>> \o <<>> \in Seq(Messages) /\ <<x>> \o <<y>> \in Seq(Messages)
      /\ <<x>> \in Seq(Messages) /\ <<x, y>> \in Seq(Messages)
  OBVIOUS
<1>4. \A s, t \in Seq(Messages) :
         Len(s) = Len(t) /\ (\A i \in 1..Len(s) : s[i] = t[i]) => s = t
  OBVIOUS
<1>5. <<x>> \o <<>> = <<x>>
  <2> DEFINE s == <<x>> \o <<>>
             t == <<x>>
  <2>1. Len(t) = 1 /\ t[1] = x
    OBVIOUS
  <2>2. /\ s \in Seq(Messages) /\ t \in Seq(Messages)
        /\ Len(s) = 1 /\ s[1] = x
    BY <1>1, <1>3
  <2> HIDE DEF s, t
  <2>3. s = t
    BY <1>4, <2>1, <2>2
  <2>4. QED
    BY <2>3 DEF s, t
<1>6. <<x>> \o <<y>> = <<x, y>>
  <2> DEFINE s == <<x>> \o <<y>>
             t == <<x, y>>
  <2>1. Len(t) = 2 /\ t[1] = x /\ t[2] = y
    OBVIOUS
  <2>2. /\ s \in Seq(Messages) /\ t \in Seq(Messages)
        /\ Len(s) = 2 /\ s[1] = x /\ s[2] = y
    BY <1>2, <1>3
  <2> HIDE DEF s, t
  <2>3. s = t
    BY <1>4, <2>1, <2>2
  <2>4. QED
    BY <2>3 DEF s, t
<1>7. QED
  BY <1>5, <1>6

(* What is issued are proofs.                                                *)
LEMMA IssuedMessages ==
  ASSUME epoch \in Nat, NEW ps \in Issued
  PROVE  ps \in Seq(Messages) /\ \A i \in 1..Len(ps) : ~IsShift(ps[i])
<1>1. \A p \in Proofs : ProofEvent(p) \in Messages /\ ~IsShift(ProofEvent(p))
  BY DEF ProofEvent, Messages, IsShift
<1>2. \A b \in BOOLEAN : /\ [own |-> TRUE, exit |-> b, epoch |-> epoch] \in Proofs
                         /\ [own |-> FALSE, exit |-> FALSE, epoch |-> epoch] \in Proofs
  BY DEF Proofs
<1>3. PICK b \in BOOLEAN, p \in Proofs, q \in Proofs :
        ps \in {<<>>, <<ProofEvent(p)>>, <<ProofEvent(q)>>, <<ProofEvent(q), ProofEvent(p)>>}
  <2> DEFINE exit == \E l \in Leavers : accepted[l] = epoch
             p == [own |-> TRUE, exit |-> exit, epoch |-> epoch]
             q == [own |-> FALSE, exit |-> FALSE, epoch |-> epoch]
  <2>1. exit \in BOOLEAN
    OBVIOUS
  <2>2. p \in Proofs /\ q \in Proofs
    BY <1>2, <2>1
  <2> HIDE DEF exit
  <2>3. ps \in {<<>>, <<ProofEvent(p)>>} \/
        \E r \in {<<>>, <<ProofEvent(p)>>} : ps = <<ProofEvent(q)>> \o r
    BY DEF Issued, exit
  <2> HIDE DEF p, q
  <2> DEFINE P == ProofEvent(p)
             Q == ProofEvent(q)
  <2>4. ps \in {<<>>, <<P>>} \/ \E r \in {<<>>, <<P>>} : ps = <<Q>> \o r
    BY <2>3
  <2>5. P \in Messages /\ Q \in Messages
    BY <1>1, <2>2
  <2> HIDE DEF P, Q
  <2>6. <<Q>> \o <<>> = <<Q>> /\ <<Q>> \o <<P>> = <<Q, P>>
    BY <2>5, OneAndOne
  <2>7. ps \in {<<>>, <<P>>, <<Q>>, <<Q, P>>}
    BY <2>4, <2>6, Zenon
  <2>8. QED
    BY <2>1, <2>2, <2>7 DEF P, Q
<1> DEFINE x == ProofEvent(p)
           y == ProofEvent(q)
<1>4. x \in Messages /\ y \in Messages /\ ~IsShift(x) /\ ~IsShift(y)
  BY <1>1
<1>5. ps \in {<<>>, <<x>>, <<y>>, <<y, x>>}
  BY <1>3
<1> HIDE DEF x, y
<1>6. CASE ps = <<>>
  BY <1>6
<1>7. CASE ps = <<x>>
  BY <1>4, <1>7
<1>8. CASE ps = <<y>>
  BY <1>4, <1>8
<1>9. CASE ps = <<y, x>>
  BY <1>4, <1>9
<1>10. QED
  BY <1>5, <1>6, <1>7, <1>8, <1>9

(* What the end of an epoch brings to the application.                       *)
LEMMA EpochEndsKeeps == Counts /\ EpochEnds => Counts'
<1> SUFFICES ASSUME Counts, EpochEnds PROVE Counts'
  OBVIOUS
<1>1. /\ epoch' = epoch + 1 /\ UNCHANGED <<seen, sealed, toEnclave, accepted>>
      /\ \E ps \in Issued : \/ toApp' = toApp \o ps \o <<ShiftEvent(epoch)>>
                            \/ toApp' = toApp \o <<ShiftEvent(epoch)>> \o ps
  BY DEF EpochEnds, app
<1>2. PICK ps \in Issued : \/ toApp' = toApp \o ps \o <<ShiftEvent(epoch)>>
                           \/ toApp' = toApp \o <<ShiftEvent(epoch)>> \o ps
  BY <1>1
<1>3. /\ epoch \in Nat /\ toApp \in Seq(Messages) /\ Ordered(toApp) /\ Before(toApp, epoch)
      /\ \A l \in Leavers : /\ \A e \in seen[l] : e < epoch
                            /\ After(toApp, seen[l]) /\ seen[l] \in SUBSET Nat
  BY DEF Counts, Shifts
<1>4. ps \in Seq(Messages) /\ \A i \in 1..Len(ps) : ~IsShift(ps[i])
  BY <1>3, IssuedMessages
<1>5. /\ toApp' \in Seq(Messages) /\ Ordered(toApp') /\ Before(toApp', epoch + 1)
      /\ \A l \in Leavers : After(toApp', seen[l])
  <2>1. CASE toApp' = toApp \o ps \o <<ShiftEvent(epoch)>>
    <3> DEFINE s == toApp \o ps
    <3>1. /\ s \in Seq(Messages) /\ Ordered(s) /\ Before(s, epoch)
          /\ \A l \in Leavers : After(s, seen[l])
      BY <1>3, <1>4, OthersKeep
    <3> HIDE DEF s
    <3>2. toApp' = s \o <<ShiftEvent(epoch)>>
      BY <2>1 DEF s
    <3>3. QED
      BY <1>3, <3>1, <3>2, ShiftKeeps
  <2>2. CASE toApp' = toApp \o <<ShiftEvent(epoch)>> \o ps
    <3> DEFINE s == toApp \o <<ShiftEvent(epoch)>>
    <3>1. /\ s \in Seq(Messages) /\ Ordered(s) /\ Before(s, epoch + 1)
          /\ \A l \in Leavers : After(s, seen[l])
      BY <1>3, ShiftKeeps
    <3> HIDE DEF s
    <3>2. toApp' = s \o ps
      BY <2>2 DEF s
    <3>3. QED
      BY <1>4, <3>1, <3>2, OthersKeep
  <2>3. QED
    BY <1>2, <2>1, <2>2
<1>6. \A l \in Leavers : \A e \in seen[l] : e < epoch + 1
  BY <1>3
<1>7. Shifts'
  BY <1>1, <1>3, <1>5, <1>6 DEF Counts, Shifts
<1>8. QED
  BY <1>1, <1>7 DEF Counts, FourSeen, Requests

(* A shift is counted by the handlers that are called; a handler that has    *)
(* three already is over.                                                    *)
LEMMA ShiftArrivesKeeps == Counts /\ ShiftArrives => Counts'
<1> SUFFICES ASSUME Counts, ShiftArrives PROVE Counts'
  OBVIOUS
<1> DEFINE over == {l \in Called : IsDue(l)}
           e == Head(toApp).epoch
<1>1. /\ toApp # <<>> /\ IsShift(Head(toApp)) /\ toApp' = Tail(toApp)
      /\ seen' = [l \in Leavers |-> IF l \in Called THEN seen[l] \union {e} ELSE seen[l]]
      /\ sealed' = sealed \union over
      /\ UNCHANGED <<epoch, toEnclave, accepted>>
  BY DEF ShiftArrives, IsShift, enclave
<1>2. /\ toApp \in Seq(Messages) /\ Ordered(toApp) /\ Before(toApp, epoch)
      /\ seen \in [Leavers -> SUBSET Nat]
  BY DEF Counts, Shifts
<1>3. e \in Nat
  <2>1. Head(toApp) \in Messages
    BY <1>1, <1>2
  <2>2. QED
    BY <1>1, <2>1 DEF Messages, IsShift
<1>4. /\ toApp' \in Seq(Messages) /\ Ordered(toApp') /\ Before(toApp', epoch)
      /\ \A E : After(toApp, E) => After(toApp', E)
      /\ After(toApp', {e}) /\ e < epoch
  BY <1>1, <1>2, TailKeeps
<1> HIDE DEF e, over
<1>5. ASSUME NEW l \in Leavers
      PROVE  /\ \A d \in seen'[l] : d < epoch
             /\ After(toApp', seen'[l])
  BY <1>1, <1>4 DEF Counts, Shifts, After
<1>6. Shifts'
  BY <1>1, <1>2, <1>3, <1>4, <1>5 DEF Counts, Shifts
<1>7. ASSUME NEW l \in Leavers
      PROVE  IsFiniteSet(seen'[l]) /\ (l \in sealed' => Cardinality(seen'[l]) >= 4)
  <2>1. e \notin seen[l]
    <3>1. /\ After(toApp, seen[l]) /\ 1 \in 1..Len(toApp) /\ Head(toApp) = toApp[1]
      BY <1>1, <1>2 DEF Counts, Shifts
    <3>2. \A d \in seen[l] : d < e
      BY <1>1, <3>1 DEF After, e
    <3>3. QED
      BY <1>3, <3>2
  <2>2. IsFiniteSet(seen[l]) /\ Cardinality(seen[l]) \in Nat
    BY FS_CardinalityType DEF Counts, FourSeen
  <2>3. /\ IsFiniteSet(seen[l] \union {e})
        /\ Cardinality(seen[l] \union {e}) = Cardinality(seen[l]) + 1
    BY <2>1, <2>2, FS_AddElement
  <2>4. l \in over => l \in Called /\ Cardinality(seen[l]) = 3
    BY DEF over, IsDue
  <2>5. \/ seen'[l] = seen[l] \union {e}
        \/ seen'[l] = seen[l] /\ l \notin Called
    BY <1>1
  <2>6. l \in sealed => Cardinality(seen[l]) >= 4
    BY DEF Counts, FourSeen
  <2>7. QED
    BY <1>1, <2>2, <2>3, <2>4, <2>5, <2>6
<1>8. QED
  BY <1>1, <1>6, <1>7 DEF Counts, FourSeen, Requests

(* Other results and events are taken from the channel.                      *)
LEMMA DeliveryKeeps ==
  ASSUME Counts, toApp # <<>>, toApp' = Tail(toApp),
         UNCHANGED <<epoch, seen, sealed, toEnclave, accepted>>
  PROVE  Counts'
<1>1. /\ toApp' \in Seq(Messages) /\ Ordered(toApp') /\ Before(toApp', epoch)
      /\ \A E : After(toApp, E) => After(toApp', E)
  BY TailKeeps DEF Counts, Shifts
<1>2. QED
  BY <1>1 DEF Counts, Shifts, FourSeen, Requests

LEMMA EnclaveServesKeeps == Counts /\ EnclaveServes => Counts'
<1> SUFFICES ASSUME Counts, EnclaveServes PROVE Counts'
  OBVIOUS
<1> DEFINE l == Head(toEnclave)
<1>1. /\ toEnclave # <<>> /\ toEnclave' = Tail(toEnclave) /\ UNCHANGED <<epoch, seen, sealed>>
      /\ \/ accepted' = [accepted EXCEPT ![l] = epoch] /\ toApp' = toApp
         \/ toApp' = Append(toApp, ErrorResult(l)) /\ accepted' = accepted
  BY DEF EnclaveServes, app
<1>2. /\ toEnclave \in Seq(Leavers) /\ toApp \in Seq(Messages) /\ epoch \in Nat
      /\ Ordered(toApp) /\ Before(toApp, epoch)
  BY DEF Counts, Shifts
<1>3. l \in Leavers /\ toEnclave' \in Seq(Leavers)
  BY <1>1, <1>2
<1> HIDE DEF l
<1>4. Requests'
  BY <1>1, <1>2, <1>3 DEF Counts, Requests
<1>5. /\ toApp' \in Seq(Messages) /\ Ordered(toApp') /\ Before(toApp', epoch)
      /\ \A E : After(toApp, E) => After(toApp', E)
  <2>1. CASE toApp' = toApp
    BY <1>2, <2>1
  <2>2. CASE toApp' = Append(toApp, ErrorResult(l))
    <3> DEFINE x == ErrorResult(l)
               t == <<x>>
    <3>1. x \in Messages /\ ~IsShift(x)
      BY <1>3 DEF ErrorResult, Messages, IsShift
    <3> HIDE DEF x
    <3>2. /\ t \in Seq(Messages) /\ \A i \in 1..Len(t) : ~IsShift(t[i])
          /\ Append(toApp, x) = toApp \o t
      BY <1>2, <3>1
    <3>3. toApp' = toApp \o t
      BY <2>2, <3>2 DEF x
    <3> HIDE DEF t
    <3>4. QED
      BY <1>2, <3>2, <3>3, OthersKeep
  <2>3. QED
    BY <1>1, <2>1, <2>2
<1>6. Shifts'
  BY <1>1, <1>3, <1>5 DEF Counts, Shifts
<1>7. QED
  BY <1>1, <1>4, <1>6 DEF Counts, FourSeen

LEMMA CountsStep == Counts /\ [Next]_vars => Counts'
<1> SUFFICES ASSUME Counts, [Next]_vars PROVE Counts'
  OBVIOUS
<1> USE DEF app, enclave
<1>1. ASSUME UNCHANGED <<epoch, seen, sealed, toApp, toEnclave, accepted>> PROVE Counts'
  BY <1>1 DEF Counts, Shifts, FourSeen, Requests
<1>2. ASSUME NEW l \in Leavers, Leave(l) PROVE Counts'
  BY <1>1, <1>2 DEF Leave
<1>3. ASSUME NEW l \in Leavers, Exit(l) PROVE Counts'
  <2>1. toEnclave' = Append(toEnclave, l) /\ UNCHANGED <<epoch, seen, sealed, toApp, accepted>>
    BY <1>3 DEF Exit, Send
  <2>2. toEnclave' \in Seq(Leavers)
    BY <2>1 DEF Counts, Shifts
  <2>3. QED
    BY <2>1, <2>2 DEF Counts, Shifts, FourSeen, Requests
<1>4. ASSUME NEW l \in Leavers, ExitDeclined(l) \/ NoOwnProof(l) PROVE Counts'
  BY <1>1, <1>4 DEF ExitDeclined, NoOwnProof
<1>5. ASSUME NEW l \in Leavers, NEW c \in Chains, Withdraw(l, c) PROVE Counts'
  BY <1>1, <1>5 DEF Withdraw
<1>6. CASE ProofArrives
  BY <1>6, DeliveryKeeps DEF ProofArrives
<1>7. ASSUME NEW l \in Leavers, ErrorArrives(l) PROVE Counts'
  BY <1>7, DeliveryKeeps DEF ErrorArrives
<1>8. CASE UNCHANGED vars
  BY <1>1, <1>8 DEF vars
<1>9. QED
  BY <1>2, <1>3, <1>4, <1>5, <1>6, <1>7, <1>8, ShiftArrivesKeeps, EnclaveServesKeeps,
     EpochEndsKeeps DEF Next, Progress, Delivery

LEMMA CountsInit == Init => Counts
<1> SUFFICES ASSUME Init PROVE Counts
  OBVIOUS
<1>1. Shifts
  BY DEF Init, Shifts, Ordered, Before, After
<1>2. FourSeen /\ Requests
  BY FS_EmptySet DEF Init, FourSeen, Requests
<1>3. QED
  BY <1>1, <1>2 DEF Counts
------------------------------------------------------------------------------
IsProof(m) == m.type = "proof"
ExitProof(e) == ProofEvent([own |-> TRUE, exit |-> TRUE, epoch |-> e])

(* In s there is no proof, or m is the first.                                *)
NoProofs(s) == \A i \in 1..Len(s) : ~IsProof(s[i])
FirstProof(s, m) == \E i \in 1..Len(s) : s[i] = m /\ \A j \in 1..(i - 1) : ~IsProof(s[j])

Types == /\ stage \in [Leavers -> Stages]
         /\ once \subseteq Leavers
         /\ sent \in [Leavers -> Nat]
         /\ proof \in [Leavers -> Proofs]
         /\ batches \in [Leavers -> SUBSET Chains]
         /\ everyone \in BOOLEAN
         /\ epoch > 0

(* While a call waits for a proof: none is on its way before the epoch ends  *)
(* in which the request was sent; then, if the call is undisturbed, the exit *)
(* proof of that epoch is the first.                                         *)
Waits(l) ==
  /\ sent[l] <= epoch
  /\ stage[l] = "exiting" =>
       /\ l \in once
       /\ sent[l] = epoch => NoProofs(toApp)
       /\ Undisturbed(l) /\ sent[l] # epoch => FirstProof(toApp, ExitProof(sent[l]))

(* Once it has one: the epoch is over, so that a request that is taken from  *)
(* now on makes the call a disturbed one.                                    *)
HasLeft(l) == stage[l] \in {"sealing", "withdrawing", "done"}
Leaves(l) == HasLeft(l) =>
  /\ sent[l] < epoch
  /\ Undisturbed(l) => proof[l].own /\ proof[l].exit /\ proof[l].epoch = accepted[l]
  /\ stage[l] = "done" => batches[l] = Chains

Exits == Types /\ \A l \in Leavers : Waits(l) /\ Leaves(l)

(* The array of handlers has each call at most once, and only after leave(). *)
Handlers ==
  /\ sealed \subseteq Leavers
  /\ phaseshift \in Seq(Leavers) /\ IsInjective(phaseshift)
  /\ \A i \in DOMAIN phaseshift : stage[phaseshift[i]] # "idle"

IInv == Counts /\ Exits /\ Handlers
------------------------------------------------------------------------------
(* Messages are added behind those that are on their way.                    *)
LEMMA MoreAfter ==
  ASSUME NEW s \in Seq(Messages), NEW t \in Seq(Messages), NEW m
  PROVE  /\ s \o t \in Seq(Messages)
         /\ NoProofs(s) /\ NoProofs(t) => NoProofs(s \o t)
         /\ FirstProof(s, m) => FirstProof(s \o t, m)
         /\ NoProofs(s) /\ FirstProof(t, m) => FirstProof(s \o t, m)
<1> DEFINE u == s \o t
<1>1. /\ u \in Seq(Messages) /\ Len(s) \in Nat /\ Len(t) \in Nat /\ Len(u) = Len(s) + Len(t)
      /\ \A i \in 1..Len(s) : u[i] = s[i]
      /\ \A i \in 1..Len(t) : u[Len(s) + i] = t[i]
      /\ \A i \in 1..Len(u) : i > Len(s) => u[i] = t[i - Len(s)] /\ i - Len(s) \in 1..Len(t)
  OBVIOUS
<1> HIDE DEF u
<1>2. ASSUME NoProofs(s), NoProofs(t) PROVE NoProofs(u)
  <2>1. SUFFICES ASSUME NEW i \in 1..Len(u) PROVE ~IsProof(u[i])
    BY DEF NoProofs
  <2>2. CASE i > Len(s)
    BY <1>1, <1>2, <2>2 DEF NoProofs
  <2>3. CASE ~(i > Len(s))
    <3>1. i \in 1..Len(s)
      BY <1>1, <2>3
    <3>2. QED
      BY <1>1, <1>2, <3>1 DEF NoProofs
  <2>4. QED
    BY <2>2, <2>3
<1>3. ASSUME FirstProof(s, m) PROVE FirstProof(u, m)
  <2>1. PICK i \in 1..Len(s) : s[i] = m /\ \A j \in 1..(i - 1) : ~IsProof(s[j])
    BY <1>3 DEF FirstProof
  <2>2. /\ i \in 1..Len(u) /\ u[i] = m
        /\ \A j \in 1..(i - 1) : ~IsProof(u[j])
    BY <1>1, <2>1
  <2>3. QED
    BY <2>2 DEF FirstProof
<1>4. ASSUME NoProofs(s), FirstProof(t, m) PROVE FirstProof(u, m)
  <2>1. PICK i \in 1..Len(t) : t[i] = m /\ \A j \in 1..(i - 1) : ~IsProof(t[j])
    BY <1>4 DEF FirstProof
  <2>2. Len(s) + i \in 1..Len(u) /\ u[Len(s) + i] = m
    BY <1>1, <2>1
  <2>3. ASSUME NEW j \in 1..(Len(s) + i - 1) PROVE ~IsProof(u[j])
    <3>1. CASE j \in 1..Len(s)
      BY <1>1, <1>4, <3>1 DEF NoProofs
    <3>2. CASE j > Len(s)
      <4>1. j \in 1..Len(u) /\ j - Len(s) \in 1..(i - 1)
        BY <1>1, <2>1, <3>2
      <4>2. QED
        BY <1>1, <2>1, <3>2, <4>1
    <3>3. QED
      BY <1>1, <2>1, <3>1, <3>2
  <2>4. QED
    BY <2>2, <2>3 DEF FirstProof
<1>5. QED
  BY <1>1, <1>2, <1>3, <1>4 DEF u

LEMMA OneTaken ==
  ASSUME NEW s \in Seq(Messages), s # <<>>, NEW m
  PROVE  /\ Tail(s) \in Seq(Messages) /\ Head(s) \in Messages
         /\ NoProofs(s) => NoProofs(Tail(s)) /\ ~IsProof(Head(s))
         /\ FirstProof(s, m) /\ IsProof(Head(s)) => Head(s) = m
         /\ FirstProof(s, m) /\ IsProof(m) /\ ~IsProof(Head(s)) => FirstProof(Tail(s), m)
<1> DEFINE t == Tail(s)
<1>1. /\ t \in Seq(Messages) /\ Len(s) \in Nat \ {0} /\ Len(t) = Len(s) - 1
      /\ Head(s) = s[1] /\ 1 \in 1..Len(s) /\ s[1] \in Messages
      /\ \A i \in 1..Len(t) : t[i] = s[i + 1] /\ i + 1 \in 1..Len(s)
  OBVIOUS
<1> HIDE DEF t
<1>2. NoProofs(s) => NoProofs(t) /\ ~IsProof(Head(s))
  BY <1>1 DEF NoProofs
<1>3. ASSUME FirstProof(s, m), IsProof(Head(s)) PROVE Head(s) = m
  <2>1. PICK i \in 1..Len(s) : s[i] = m /\ \A j \in 1..(i - 1) : ~IsProof(s[j])
    BY <1>3 DEF FirstProof
  <2>2. i = 1
    <3>1. SUFFICES ASSUME i # 1 PROVE FALSE
      OBVIOUS
    <3>2. 1 \in 1..(i - 1)
      BY <1>1, <2>1, <3>1
    <3>3. QED
      BY <1>1, <1>3, <2>1, <3>2
  <2>3. QED
    BY <1>1, <2>1, <2>2
<1>4. ASSUME FirstProof(s, m), IsProof(m), ~IsProof(Head(s)) PROVE FirstProof(t, m)
  <2>1. PICK i \in 1..Len(s) : s[i] = m /\ \A j \in 1..(i - 1) : ~IsProof(s[j])
    BY <1>4 DEF FirstProof
  <2>2. i # 1
    BY <1>1, <1>4, <2>1
  <2>3. i - 1 \in 1..Len(t) /\ t[i - 1] = m
    BY <1>1, <2>1, <2>2
  <2>4. ASSUME NEW j \in 1..(i - 2) PROVE ~IsProof(t[j])
    <3>1. j \in 1..Len(t) /\ j + 1 \in 1..(i - 1)
      BY <1>1, <2>1, <2>4
    <3>2. QED
      BY <1>1, <2>1, <3>1
  <2>5. (i - 1) - 1 = i - 2
    OBVIOUS
  <2>6. QED
    BY <2>3, <2>4, <2>5 DEF FirstProof
<1>5. QED
  BY <1>1, <1>2, <1>3, <1>4 DEF t

LEMMA EventKinds ==
  /\ \A p \in Proofs : ProofEvent(p) \in Messages /\ IsProof(ProofEvent(p))
  /\ \A e \in Nat : /\ ShiftEvent(e) \in Messages /\ ~IsProof(ShiftEvent(e))
                    /\ ExitProof(e) \in Messages /\ IsProof(ExitProof(e))
  /\ \A l \in Leavers : ErrorResult(l) \in Messages /\ ~IsProof(ErrorResult(l))
<1>1. \A p \in Proofs : ProofEvent(p) \in Messages /\ IsProof(ProofEvent(p))
  BY DEF ProofEvent, Messages, IsProof
<1>2. \A e \in Nat : [own |-> TRUE, exit |-> TRUE, epoch |-> e] \in Proofs
  BY DEF Proofs
<1>3. \A e \in Nat : ShiftEvent(e) \in Messages /\ ~IsProof(ShiftEvent(e))
  BY DEF ShiftEvent, Messages, IsProof
<1>4. \A l \in Leavers : ErrorResult(l) \in Messages /\ ~IsProof(ErrorResult(l))
  BY DEF ErrorResult, Messages, IsProof
<1>5. QED
  BY <1>1, <1>2, <1>3, <1>4 DEF ExitProof

LEMMA OneProof ==
  ASSUME NEW m \in Messages
  PROVE  <<m>> \in Seq(Messages) /\ FirstProof(<<m>>, m) /\ (~IsProof(m) => NoProofs(<<m>>))
<1> DEFINE s == <<m>>
<1>1. s \in Seq(Messages) /\ Len(s) = 1 /\ s[1] = m /\ 1..Len(s) = {1} /\ 1..(1 - 1) = {}
  OBVIOUS
<1> HIDE DEF s
<1>2. FirstProof(s, m)
  BY <1>1 DEF FirstProof
<1>3. ~IsProof(m) => NoProofs(s)
  BY <1>1 DEF NoProofs
<1>4. QED
  BY <1>1, <1>2, <1>3 DEF s

LEMMA BasicTypes ==
  Counts => /\ epoch \in Nat /\ toApp \in Seq(Messages) /\ toEnclave \in Seq(Leavers)
          /\ accepted \in [Leavers -> Nat]
BY DEF Counts, Shifts, Requests

(* A step that is not one of l, and moves neither its epochs nor its proof.  *)
LEMMA Untouched ==
  ASSUME NEW l \in Leavers, Waits(l), Leaves(l),
         UNCHANGED <<stage[l], sent[l], proof[l], batches[l], accepted[l], everyone, epoch>>,
         stage[l] = "exiting" /\ l \in once => l \in once',
         NoProofs(toApp) => NoProofs(toApp)',
         \A m : IsProof(m) /\ FirstProof(toApp, m) => FirstProof(toApp', m),
         IsProof(ExitProof(sent[l]))
  PROVE  Waits(l)' /\ Leaves(l)'
<1>1. Undisturbed(l)' <=> Undisturbed(l)
  BY DEF Undisturbed
<1>2. ExitProof(sent'[l]) = ExitProof(sent[l])
  OBVIOUS
<1>3. Waits(l)'
  BY <1>1, <1>2 DEF Waits
<1>4. Leaves(l)'
  BY <1>1 DEF Leaves, HasLeft
<1>5. QED
  BY <1>3, <1>4

LEMMA LeaveExits ==
  ASSUME Counts, Exits, NEW l \in Leavers, Leave(l) PROVE Exits'
<1>1. /\ stage[l] = "idle" /\ stage' = [stage EXCEPT ![l] = "signing"]
      /\ UNCHANGED <<sealed, once, sent, proof, batches, accepted, everyone, epoch, toApp>>
  BY DEF Leave, enclave
<1>2. Types'
  BY <1>1 DEF Exits, Types, Stages
<1>3. ASSUME NEW k \in Leavers PROVE Waits(k)' /\ Leaves(k)'
  <2>1. Waits(k) /\ Leaves(k) /\ sent[k] \in Nat
    BY DEF Exits, Types
  <2>2. CASE k = l
    <3>1. stage'[k] = "signing" /\ sent'[k] = sent[k]
      BY <1>1, <2>2 DEF Exits, Types
    <3>2. QED
      BY <1>1, <2>1, <3>1 DEF Waits, Leaves, HasLeft
  <2>3. CASE k # l
    <3>1. stage'[k] = stage[k]
      BY <1>1, <2>3 DEF Exits, Types
    <3>2. QED
      BY <1>1, <2>1, <3>1, Untouched, EventKinds
  <2>4. QED
    BY <2>2, <2>3
<1>4. QED
  BY <1>2, <1>3 DEF Exits

LEMMA ExitExits ==
  ASSUME Counts, Exits, NEW l \in Leavers, Exit(l) PROVE Exits'
<1> DEFINE waiting == \E i \in DOMAIN toApp : toApp[i].type = "proof"
<1>1. /\ stage[l] = "signing" /\ stage' = [stage EXCEPT ![l] = "exiting"]
      /\ once' = once \union {l}
      /\ sent' = [sent EXCEPT ![l] = IF waiting THEN 0 ELSE epoch]
      /\ UNCHANGED <<sealed, proof, batches, accepted, everyone, epoch, toApp>>
  BY DEF Exit, Send, enclave
<1>2. epoch \in Nat /\ toApp \in Seq(Messages) /\ epoch > 0
  BY BasicTypes DEF Exits, Types
<1>3. ~waiting => NoProofs(toApp)
  BY <1>2 DEF NoProofs, IsProof
<1> HIDE DEF waiting
<1>4. Types'
  BY <1>1, <1>2 DEF Exits, Types, Stages
<1>5. ASSUME NEW k \in Leavers PROVE Waits(k)' /\ Leaves(k)'
  <2>1. Waits(k) /\ Leaves(k) /\ sent[k] \in Nat
    BY DEF Exits, Types
  <2>2. CASE k = l
    <3>1. /\ stage'[k] = "exiting" /\ sent'[k] = (IF waiting THEN 0 ELSE epoch)
          /\ k \in once'
      BY <1>1, <2>2 DEF Exits, Types
    <3>2. sent'[k] = 0 => ~Undisturbed(k)'
      BY DEF Undisturbed
    <3>3. Waits(k)'
      BY <1>1, <1>2, <1>3, <3>1, <3>2 DEF Waits
    <3>4. QED
      BY <3>1, <3>3 DEF Leaves, HasLeft
  <2>3. CASE k # l
    <3>1. stage'[k] = stage[k] /\ sent'[k] = sent[k]
      BY <1>1, <2>3 DEF Exits, Types
    <3>2. QED
      BY <1>1, <2>1, <3>1, Untouched, EventKinds
  <2>4. QED
    BY <2>2, <2>3
<1>6. QED
  BY <1>4, <1>5 DEF Exits

LEMMA FailureExits ==
  ASSUME Counts, Exits, NEW l \in Leavers, stage' = [stage EXCEPT ![l] = "failed"],
         UNCHANGED <<once, sent, proof, batches, accepted, everyone, epoch, toApp>>
  PROVE  Exits'
<1>1. Types'
  BY DEF Exits, Types, Stages
<1>2. ASSUME NEW k \in Leavers PROVE Waits(k)' /\ Leaves(k)'
  <2>1. Waits(k) /\ Leaves(k) /\ sent[k] \in Nat
    BY DEF Exits, Types
  <2>2. CASE k = l
    <3>1. stage'[k] = "failed"
      BY <2>2 DEF Exits, Types
    <3>2. QED
      BY <2>1, <3>1 DEF Waits, Leaves, HasLeft
  <2>3. CASE k # l
    <3>1. stage'[k] = stage[k]
      BY <2>3 DEF Exits, Types
    <3>2. QED
      BY <2>1, <3>1, Untouched, EventKinds
  <2>4. QED
    BY <2>2, <2>3
<1>3. QED
  BY <1>1, <1>2 DEF Exits

LEMMA WithdrawExits ==
  ASSUME Counts, Exits, NEW l \in Leavers, NEW c \in Chains, Withdraw(l, c) PROVE Exits'
<1>1. CASE stage' = [stage EXCEPT ![l] = "failed"] /\ UNCHANGED batches
  <2>1. UNCHANGED <<once, sent, proof, accepted, everyone, epoch, toApp>>
    BY DEF Withdraw, enclave
  <2>2. QED
    BY <1>1, <2>1, FailureExits
<1>2. CASE /\ batches' = [batches EXCEPT ![l] = @ \union {c}]
           /\ stage' = [stage EXCEPT ![l] = IF batches'[l] = Chains THEN "done" ELSE @]
  <2>1. /\ stage[l] = "withdrawing"
        /\ UNCHANGED <<once, sent, proof, accepted, everyone, epoch, toApp>>
    BY DEF Withdraw, enclave
  <2>2. stage'[l] \in {"done", "withdrawing"} /\ (stage'[l] = "done" => batches'[l] = Chains)
    BY <1>2, <2>1 DEF Exits, Types
  <2>3. /\ stage' \in [Leavers -> Stages] /\ batches' \in [Leavers -> SUBSET Chains]
        /\ \A k \in Leavers \ {l} : stage'[k] = stage[k] /\ batches'[k] = batches[k]
    BY <1>2, <2>1 DEF Exits, Types, Stages
  <2>4. Types'
    BY <2>1, <2>3 DEF Exits, Types
  <2>5. ASSUME NEW k \in Leavers PROVE Waits(k)' /\ Leaves(k)'
    <3>1. Waits(k) /\ Leaves(k) /\ sent[k] \in Nat
      BY DEF Exits, Types
    <3>2. CASE k = l
      <4>1. Waits(k)'
        BY <2>1, <2>2, <3>1, <3>2 DEF Waits
      <4>2. Undisturbed(k)' <=> Undisturbed(k)
        BY <2>1 DEF Undisturbed
      <4>3. HasLeft(k)
        BY <2>1, <3>2 DEF HasLeft
      <4>4. QED
        BY <2>1, <2>2, <3>1, <3>2, <4>1, <4>2, <4>3 DEF Leaves
    <3>3. CASE k # l
      BY <2>1, <2>3, <3>1, <3>3, Untouched, EventKinds
    <3>4. QED
      BY <3>2, <3>3
  <2>6. QED
    BY <2>4, <2>5 DEF Exits
<1>3. QED
  BY <1>1, <1>2 DEF Withdraw

(* Every call that exits takes the proof that comes first.                   *)
LEMMA ProofExits == Counts /\ Exits /\ ProofArrives => Exits'
<1> SUFFICES ASSUME Counts, Exits, ProofArrives PROVE Exits'
  OBVIOUS
<1> DEFINE p == Head(toApp).proof
           takes == {l \in once : stage[l] = "exiting"}
<1>1. /\ toApp # <<>> /\ IsProof(Head(toApp)) /\ toApp' = Tail(toApp) /\ once' = {}
      /\ proof' = [l \in Leavers |-> IF l \in takes THEN p ELSE proof[l]]
      /\ stage' = [l \in Leavers |->
                     IF l \notin takes THEN stage[l]
                     ELSE IF l \in sealed THEN "withdrawing" ELSE "sealing"]
      /\ UNCHANGED <<sealed, sent, batches, accepted, everyone, epoch>>
  BY DEF ProofArrives, IsProof, enclave
<1>2. toApp \in Seq(Messages) /\ epoch \in Nat /\ accepted \in [Leavers -> Nat]
  BY BasicTypes
<1>3. Head(toApp) \in Messages
  BY <1>1, <1>2
<1>4. p \in Proofs
  BY <1>1, <1>3 DEF Messages, IsProof
<1>5. \A m : FirstProof(toApp, m) => Head(toApp) = m
  BY <1>1, <1>2, OneTaken
<1>6. ~NoProofs(toApp)
  BY <1>1, <1>2, OneTaken
<1>7. \A e \in Nat : Head(toApp) = ExitProof(e) => p.own /\ p.exit /\ p.epoch = e
  BY DEF ExitProof, ProofEvent
<1>8. \A l \in Leavers : l \in takes <=> l \in once /\ stage[l] = "exiting"
  OBVIOUS
<1> HIDE DEF p, takes
<1>9. Types'
  BY <1>1, <1>4 DEF Exits, Types, Stages
<1>10. ASSUME NEW l \in Leavers PROVE Waits(l)' /\ Leaves(l)'
  <2>1. Waits(l) /\ Leaves(l) /\ sent[l] \in Nat
    BY DEF Exits, Types
  <2>2. Undisturbed(l)' <=> Undisturbed(l)
    BY <1>1 DEF Undisturbed
  <2>3. l \in takes <=> stage[l] = "exiting"
    BY <1>8, <2>1 DEF Waits
  <2>4. stage'[l] # "exiting"
    BY <1>1, <2>3
  <2>5. Waits(l)'
    BY <1>1, <2>1, <2>4 DEF Waits
  <2>6. CASE stage[l] = "exiting"
    <3>1. /\ stage'[l] \in {"sealing", "withdrawing"} /\ proof'[l] = p
      BY <1>1, <2>3, <2>6
    <3>2. sent[l] < epoch
      BY <1>2, <1>6, <2>1, <2>6 DEF Waits
    <3>3. Undisturbed(l) => p.own /\ p.exit /\ p.epoch = accepted[l]
      <4>1. Undisturbed(l) => FirstProof(toApp, ExitProof(sent[l])) /\ sent[l] = accepted[l]
        BY <1>2, <2>1, <2>6, <3>2 DEF Waits, Undisturbed
      <4>2. QED
        BY <1>5, <1>7, <2>1, <4>1
    <3>4. Leaves(l)'
      BY <1>1, <2>2, <3>1, <3>2, <3>3 DEF Leaves
    <3>5. QED
      BY <2>5, <3>4
  <2>7. CASE stage[l] # "exiting"
    <3>1. stage'[l] = stage[l] /\ proof'[l] = proof[l]
      BY <1>1, <2>3, <2>7
    <3>2. Leaves(l)'
      BY <1>1, <2>1, <2>2, <3>1 DEF Leaves, HasLeft
    <3>3. QED
      BY <2>5, <3>2
  <2>8. QED
    BY <2>6, <2>7
<1>11. QED
  BY <1>9, <1>10 DEF Exits

(* What is not a proof is taken from the channel.                            *)
LEMMA OtherTaken ==
  ASSUME Counts, toApp # <<>>, ~IsProof(Head(toApp)), toApp' = Tail(toApp)
  PROVE  /\ NoProofs(toApp) => NoProofs(toApp')
         /\ \A m : IsProof(m) /\ FirstProof(toApp, m) => FirstProof(toApp', m)
BY BasicTypes, OneTaken

LEMMA ShiftExits == Counts /\ Exits /\ ShiftArrives => Exits'
<1> SUFFICES ASSUME Counts, Exits, ShiftArrives PROVE Exits'
  OBVIOUS
<1> DEFINE over == {l \in Called : IsDue(l)}
<1>1. /\ toApp # <<>> /\ ~IsProof(Head(toApp)) /\ toApp' = Tail(toApp)
      /\ sealed' = sealed \union over
      /\ stage' = [l \in Leavers |->
                     IF l \in over /\ stage[l] = "sealing" THEN "withdrawing" ELSE stage[l]]
      /\ UNCHANGED <<once, sent, proof, batches, accepted, everyone, epoch>>
  BY DEF ShiftArrives, IsProof, enclave
<1> HIDE DEF over
<1>2. Types'
  BY <1>1 DEF Exits, Types, Stages
<1>3. /\ NoProofs(toApp) => NoProofs(toApp')
      /\ \A m : IsProof(m) /\ FirstProof(toApp, m) => FirstProof(toApp', m)
  BY <1>1, OtherTaken
<1>4. ASSUME NEW l \in Leavers PROVE Waits(l)' /\ Leaves(l)'
  <2>1. Waits(l) /\ Leaves(l) /\ sent[l] \in Nat
    BY DEF Exits, Types
  <2>2. CASE stage'[l] = stage[l]
    BY <1>1, <1>3, <2>1, <2>2, Untouched, EventKinds
  <2>3. CASE stage[l] = "sealing" /\ stage'[l] = "withdrawing"
    <3>1. Waits(l)'
      BY <1>1, <2>1, <2>3 DEF Waits
    <3>2. Undisturbed(l)' <=> Undisturbed(l)
      BY <1>1 DEF Undisturbed
    <3>3. Leaves(l)'
      BY <1>1, <2>1, <2>3, <3>2 DEF Leaves, HasLeft
    <3>4. QED
      BY <3>1, <3>3
  <2>4. QED
    BY <1>1, <2>2, <2>3
<1>5. QED
  BY <1>2, <1>4 DEF Exits

LEMMA ErrorExits == ASSUME Counts, Exits, NEW k \in Leavers, ErrorArrives(k) PROVE Exits'
<1>1. /\ toApp # <<>> /\ ~IsProof(Head(toApp)) /\ toApp' = Tail(toApp)
      /\ stage' = [stage EXCEPT ![k] = IF @ = "exiting" THEN "failed" ELSE @]
      /\ UNCHANGED <<once, sent, proof, batches, accepted, everyone, epoch>>
  BY EventKinds DEF ErrorArrives, enclave
<1>2. Types'
  BY <1>1 DEF Exits, Types, Stages
<1>3. /\ NoProofs(toApp) => NoProofs(toApp')
      /\ \A m : IsProof(m) /\ FirstProof(toApp, m) => FirstProof(toApp', m)
  BY <1>1, OtherTaken
<1>4. ASSUME NEW l \in Leavers PROVE Waits(l)' /\ Leaves(l)'
  <2>1. Waits(l) /\ Leaves(l) /\ sent[l] \in Nat
    BY DEF Exits, Types
  <2>2. stage'[l] = stage[l] \/ stage'[l] = "failed"
    BY <1>1 DEF Exits, Types
  <2>3. CASE stage'[l] = stage[l]
    BY <1>1, <1>3, <2>1, <2>3, Untouched, EventKinds
  <2>4. CASE stage'[l] = "failed"
    BY <1>1, <2>1, <2>4 DEF Waits, Leaves, HasLeft
  <2>5. QED
    BY <2>2, <2>3, <2>4
<1>5. QED
  BY <1>2, <1>4 DEF Exits

(* A request that is taken in a later epoch than it was sent is disturbed.   *)
LEMMA ServeExits == Counts /\ Exits /\ EnclaveServes => Exits'
<1> SUFFICES ASSUME Counts, Exits, EnclaveServes PROVE Exits'
  OBVIOUS
<1> DEFINE k == Head(toEnclave)
<1>1. /\ toEnclave # <<>>
      /\ UNCHANGED <<stage, once, sent, proof, batches, everyone, epoch>>
      /\ \/ accepted' = [accepted EXCEPT ![k] = epoch] /\ toApp' = toApp
         \/ toApp' = Append(toApp, ErrorResult(k)) /\ accepted' = accepted
  BY DEF EnclaveServes, app
<1>2. /\ toEnclave \in Seq(Leavers) /\ toApp \in Seq(Messages) /\ epoch \in Nat
      /\ accepted \in [Leavers -> Nat]
  BY BasicTypes
<1>3. k \in Leavers
  BY <1>1, <1>2
<1> HIDE DEF k
<1>4. Types'
  BY <1>1 DEF Exits, Types
<1>5. CASE accepted' = [accepted EXCEPT ![k] = epoch] /\ toApp' = toApp
  <2>1. ASSUME NEW l \in Leavers PROVE Waits(l)' /\ Leaves(l)'
    <3>1. Waits(l) /\ Leaves(l) /\ sent[l] \in Nat
      BY DEF Exits, Types
    <3>2. CASE l = k /\ sent[l] # epoch
      <4>1. accepted'[l] = epoch
        BY <1>2, <1>5, <3>2
      <4>2. ~Undisturbed(l)'
        BY <1>1, <3>2, <4>1 DEF Undisturbed
      <4>3. Waits(l)'
        BY <1>1, <1>5, <3>1, <4>2 DEF Waits
      <4>4. Leaves(l)'
        BY <1>1, <3>1, <4>2 DEF Leaves, HasLeft
      <4>5. QED
        BY <4>3, <4>4
    <3>3. CASE l = k /\ sent[l] = epoch
      <4>1. ~HasLeft(l)
        BY <1>2, <3>1, <3>3 DEF Leaves
      <4>2. Leaves(l)'
        BY <1>1, <4>1 DEF Leaves, HasLeft
      <4>3. Waits(l)'
        BY <1>1, <1>5, <3>1, <3>3 DEF Waits
      <4>4. QED
        BY <4>2, <4>3
    <3>4. CASE l # k
      <4>1. accepted'[l] = accepted[l]
        BY <1>2, <1>5, <3>4
      <4>2. QED
        BY <1>1, <1>5, <3>1, <4>1, Untouched, EventKinds
    <3>5. QED
      BY <3>2, <3>3, <3>4
  <2>2. QED
    BY <1>4, <2>1 DEF Exits
<1>6. CASE toApp' = Append(toApp, ErrorResult(k)) /\ accepted' = accepted
  <2> DEFINE m == ErrorResult(k)
  <2>1. m \in Messages /\ ~IsProof(m)
    BY <1>3, EventKinds
  <2> HIDE DEF m
  <2>2. toApp' = toApp \o <<m>>
    BY <1>2, <1>6, <2>1 DEF m
  <2>3. <<m>> \in Seq(Messages) /\ NoProofs(<<m>>)
    BY <2>1, OneProof
  <2>4. /\ NoProofs(toApp) => NoProofs(toApp')
        /\ \A x : FirstProof(toApp, x) => FirstProof(toApp', x)
    BY <1>2, <2>2, <2>3, MoreAfter
  <2>5. ASSUME NEW l \in Leavers PROVE Waits(l)' /\ Leaves(l)'
    <3>1. Waits(l) /\ Leaves(l) /\ sent[l] \in Nat
      BY DEF Exits, Types
    <3>2. QED
      BY <1>1, <1>6, <2>4, <3>1, Untouched, EventKinds
  <2>6. QED
    BY <1>4, <2>5 DEF Exits
<1>7. QED
  BY <1>1, <1>5, <1>6

LEMMA IssuedToLeaver ==
  ASSUME ~everyone, NEW l \in Leavers, accepted[l] = epoch, NEW ps \in Issued
  PROVE  ps = <<ExitProof(epoch)>>
<1> DEFINE exit == \E k \in Leavers : accepted[k] = epoch
<1>1. exit <=> TRUE
  OBVIOUS
<1>2. ps = <<ProofEvent([own |-> TRUE, exit |-> exit, epoch |-> epoch])>>
  BY <1>1 DEF Issued
<1>3. exit = TRUE
  BY <1>1
<1> HIDE DEF exit
<1>4. QED
  BY <1>2, <1>3 DEF ExitProof

(* The end of the epoch in which a request was sent and taken brings the     *)
(* exit proof; later ones bring theirs after it.                             *)
LEMMA EpochExits == Counts /\ Exits /\ EpochEnds => Exits'
<1> SUFFICES ASSUME Counts, Exits, EpochEnds PROVE Exits'
  OBVIOUS
<1>1. /\ epoch' = epoch + 1
      /\ UNCHANGED <<stage, once, sent, proof, batches, everyone, accepted>>
      /\ \E ps \in Issued : \/ toApp' = toApp \o ps \o <<ShiftEvent(epoch)>>
                            \/ toApp' = toApp \o <<ShiftEvent(epoch)>> \o ps
  BY DEF EpochEnds, app
<1>2. PICK ps \in Issued : \/ toApp' = toApp \o ps \o <<ShiftEvent(epoch)>>
                           \/ toApp' = toApp \o <<ShiftEvent(epoch)>> \o ps
  BY <1>1
<1>3. toApp \in Seq(Messages) /\ epoch \in Nat /\ accepted \in [Leavers -> Nat]
  BY BasicTypes
<1>4. ps \in Seq(Messages)
  BY <1>3, IssuedMessages
<1> DEFINE shift == <<ShiftEvent(epoch)>>
           u == toApp \o ps
           v == toApp \o shift
<1>5. shift \in Seq(Messages) /\ NoProofs(shift)
  BY <1>3, EventKinds, OneProof
<1>6. toApp' = u \o shift \/ toApp' = v \o ps
  BY <1>2
<1> HIDE DEF shift
<1>7. ASSUME NEW m, FirstProof(toApp, m) PROVE FirstProof(toApp', m)
  <2>1. /\ u \in Seq(Messages) /\ FirstProof(u, m)
        /\ v \in Seq(Messages) /\ FirstProof(v, m)
    BY <1>3, <1>4, <1>5, <1>7, MoreAfter
  <2> HIDE DEF u, v
  <2>2. FirstProof(u \o shift, m)
    BY <1>5, <2>1, MoreAfter
  <2>3. FirstProof(v \o ps, m)
    BY <1>4, <2>1, MoreAfter
  <2>4. QED
    BY <1>6, <2>2, <2>3
<1>8. ASSUME NEW m, NoProofs(toApp), FirstProof(ps, m) PROVE FirstProof(toApp', m)
  <2>1. /\ u \in Seq(Messages) /\ FirstProof(u, m)
        /\ v \in Seq(Messages) /\ NoProofs(v)
    BY <1>3, <1>4, <1>5, <1>8, MoreAfter
  <2> HIDE DEF u, v
  <2>2. FirstProof(u \o shift, m)
    BY <1>5, <2>1, MoreAfter
  <2>3. FirstProof(v \o ps, m)
    BY <1>4, <1>8, <2>1, MoreAfter
  <2>4. QED
    BY <1>6, <2>2, <2>3
<1>9. Types'
  BY <1>1, <1>3 DEF Exits, Types
<1>10. ASSUME NEW l \in Leavers PROVE Waits(l)' /\ Leaves(l)'
  <2>1. Waits(l) /\ Leaves(l) /\ sent[l] \in Nat
    BY DEF Exits, Types
  <2>2. Undisturbed(l)' <=> Undisturbed(l)
    BY <1>1 DEF Undisturbed
  <2>3. sent'[l] = sent[l] /\ sent[l] < epoch' /\ ExitProof(sent'[l]) = ExitProof(sent[l])
    BY <1>1, <1>3, <2>1 DEF Waits
  <2>4. Leaves(l)'
    BY <1>1, <1>3, <2>1, <2>2, <2>3 DEF Leaves, HasLeft
  <2>5. ASSUME stage[l] = "exiting", Undisturbed(l)
        PROVE  FirstProof(toApp', ExitProof(sent[l]))
    <3>1. CASE sent[l] # epoch
      BY <1>7, <2>1, <2>5, <3>1 DEF Waits
    <3>2. CASE sent[l] = epoch
      <4>1. NoProofs(toApp)
        BY <2>1, <2>5, <3>2 DEF Waits
      <4>2. ps = <<ExitProof(epoch)>>
        BY <1>3, <2>5, <3>2, IssuedToLeaver DEF Undisturbed
      <4>3. FirstProof(ps, ExitProof(epoch))
        BY <1>3, <4>2, EventKinds, OneProof
      <4>4. QED
        BY <1>8, <3>2, <4>1, <4>3
    <3>3. QED
      BY <3>1, <3>2
  <2>6. Waits(l)'
    BY <1>1, <1>3, <2>1, <2>2, <2>3, <2>5 DEF Waits
  <2>7. QED
    BY <2>4, <2>6
<1>11. QED
  BY <1>9, <1>10 DEF Exits

UpTo(K, i) == {j \in K : j <= i}

(* The places of a set of indices are 1, 2, ..., in its order.               *)
LEMMA Places ==
  ASSUME NEW N \in Nat, NEW K \in SUBSET (1..N)
  PROVE  /\ Cardinality(K) \in Nat
         /\ \A i \in K : Cardinality(UpTo(K, i)) \in 1..Cardinality(K)
         /\ \A n \in 1..Cardinality(K) : \E i \in K : Cardinality(UpTo(K, i)) = n
<1> DEFINE place(i) == Cardinality(UpTo(K, i))
<1>0. \A j \in K : j \in Nat /\ 1 <= j /\ j <= N
  OBVIOUS
<1>1. IsFiniteSet(K) /\ Cardinality(K) \in Nat
  <2>1. IsFiniteSet(1..N)
    BY 1 \in Int, N \in Int, FS_Interval
  <2>2. QED
    BY <2>1, FS_Subset, FS_CardinalityType
<1>2. ASSUME NEW i \in Nat
      PROVE  /\ IsFiniteSet(UpTo(K, i)) /\ place(i) \in Nat /\ place(i) <= Cardinality(K)
  <2>1. UpTo(K, i) \subseteq K
    BY DEF UpTo
  <2>2. QED
    BY <1>1, <2>1, FS_Subset, FS_CardinalityType
<1>3. ASSUME NEW i \in Nat, i + 1 \in K PROVE place(i + 1) = place(i) + 1
  <2>1. \A j \in K : j <= i + 1 <=> j <= i \/ j = i + 1
    BY <1>0
  <2>2. ~(i + 1 <= i)
    OBVIOUS
  <2>3. UpTo(K, i + 1) = UpTo(K, i) \union {i + 1} /\ i + 1 \notin UpTo(K, i)
    BY ONLY <1>3, <2>1, <2>2, Zenon DEF UpTo
  <2>4. QED
    BY <1>2, <2>3, FS_AddElement
<1>4. ASSUME NEW i \in Nat, i + 1 \notin K PROVE place(i + 1) = place(i)
  <2>1. \A j \in K : j <= i + 1 <=> j <= i
    BY <1>0, <1>4
  <2>2. UpTo(K, i + 1) = UpTo(K, i)
    BY ONLY <2>1, Zenon DEF UpTo
  <2>3. QED
    BY <2>2
<1>5. place(0) = 0
  <2>1. \A j \in K : ~(j <= 0)
    BY <1>0
  <2>2. UpTo(K, 0) = {}
    BY ONLY <2>1, Zenon DEF UpTo
  <2>3. QED
    BY <2>2, FS_EmptySet
<1>6. place(N) = Cardinality(K)
  <2>1. UpTo(K, N) = K
    BY <1>0 DEF UpTo
  <2>2. QED
    BY <2>1
<1> HIDE DEF place
<1>7. ASSUME NEW i \in K PROVE place(i) \in 1..Cardinality(K)
  <2>1. i - 1 \in Nat /\ (i - 1) + 1 = i /\ i \in Nat
    OBVIOUS
  <2>2. place(i) = place(i - 1) + 1
    BY <1>3, <2>1
  <2>3. QED
    BY <1>1, <1>2, <2>1, <2>2
<1>8. ASSUME NEW n \in 1..Cardinality(K) PROVE \E i \in K : place(i) = n
  <2> DEFINE T == {i \in 0..N : place(i) >= n}
             R == OpToRel(<, Nat)
  <2>1. N \in T /\ T \subseteq Nat
    BY <1>1, <1>6
  <2> HIDE DEF T, R
  <2>2. PICK i \in T : \A j \in T : ~(<<j, i>> \in R)
    BY <2>1, WFMin, NatLessThanWellFounded, Zenon DEF R
  <2>3. \A j \in T : ~(j < i)
    BY <2>1, <2>2 DEF R, OpToRel
  <2>4. i \in 0..N /\ place(i) >= n
    BY <2>2 DEF T
  <2>5. i # 0
    BY <1>1, <1>5, <2>4
  <2>6. i - 1 \in Nat /\ i - 1 \in 0..N /\ (i - 1) + 1 = i /\ i - 1 < i
    BY <2>4, <2>5
  <2>7. ~(place(i - 1) >= n)
    BY <2>3, <2>6 DEF T
  <2>8. place(i - 1) \in Nat /\ place(i) \in Nat
    BY <1>2, <2>4, <2>6
  <2>9. i \in K
    <3>1. SUFFICES ASSUME i \notin K PROVE FALSE
      OBVIOUS
    <3>2. place(i) = place(i - 1)
      BY <1>4, <2>6, <3>1
    <3>3. QED
      BY <2>4, <2>7, <3>2
  <2>10. place(i) = place(i - 1) + 1
    BY <1>3, <2>6, <2>9
  <2>11. place(i) = n
    BY <1>1, <2>4, <2>7, <2>8, <2>10
  <2>12. QED
    BY <2>9, <2>11
<1>9. QED
  BY <1>1, <1>7, <1>8 DEF place

(* What is left of an array without repetitions has none either.             *)
LEMMA WithoutTypes ==
  ASSUME NEW X, NEW s \in Seq(X), IsInjective(s), NEW S
  PROVE  /\ Without(s, S) \in Seq(X) /\ IsInjective(Without(s, S))
         /\ \A n \in DOMAIN Without(s, S) : \E i \in DOMAIN s : Without(s, S)[n] = s[i]
<1> DEFINE kept == {i \in DOMAIN s : s[i] \notin S}
           place(i) == Cardinality({j \in kept : j <= i})
           at(n) == CHOOSE i \in kept : place(i) = n
           t == Without(s, S)
<1>1. /\ Len(s) \in Nat /\ DOMAIN s = 1..Len(s) /\ kept \in SUBSET (1..Len(s))
      /\ \A i \in 1..Len(s) : s[i] \in X
  OBVIOUS
<1>2. \A i : place(i) = Cardinality(UpTo(kept, i))
  BY DEF UpTo
<1>3. t = [n \in 1..Cardinality(kept) |-> s[at(n)]]
  BY DEF Without
<1> HIDE DEF t, kept, place
<1>4. /\ Cardinality(kept) \in Nat
      /\ \A n \in 1..Cardinality(kept) : \E i \in kept : place(i) = n
  BY <1>1, <1>2, Places
<1>5. \A n \in 1..Cardinality(kept) : at(n) \in kept /\ place(at(n)) = n
  BY <1>4
<1> HIDE DEF at
<1>6. t \in [1..Cardinality(kept) -> X]
  BY <1>1, <1>3, <1>5
<1>7. t \in Seq(X)
  BY <1>4, <1>6
<1>8. DOMAIN t = 1..Cardinality(kept)
  BY <1>3
<1>9. ASSUME NEW m \in 1..Cardinality(kept), NEW n \in 1..Cardinality(kept), t[m] = t[n]
      PROVE  m = n
  <2>1. at(m) \in DOMAIN s /\ at(n) \in DOMAIN s /\ s[at(m)] = s[at(n)]
    BY <1>1, <1>3, <1>5, <1>9
  <2>2. at(m) = at(n)
    BY <2>1 DEF IsInjective
  <2>3. QED
    BY <1>5, <2>2
<1>10. \A n \in DOMAIN t : \E i \in DOMAIN s : t[n] = s[i]
  BY <1>1, <1>3, <1>5, <1>8
<1>11. IsInjective(t)
  BY <1>8, <1>9 DEF IsInjective
<1>12. QED
  BY <1>7, <1>10, <1>11 DEF t

LEMMA LeaveHandlers ==
  ASSUME Exits, Handlers, NEW l \in Leavers, Leave(l) PROVE Handlers'
<1>1. /\ stage[l] = "idle" /\ stage' = [stage EXCEPT ![l] = "signing"]
      /\ phaseshift' = Append(phaseshift, l) /\ sealed' = sealed
  BY DEF Leave
<1>2. phaseshift \in Seq(Leavers) /\ IsInjective(phaseshift)
  BY DEF Handlers
<1> DEFINE n == Len(phaseshift) + 1
           t == Append(phaseshift, l)
<1>3. /\ t \in Seq(Leavers) /\ DOMAIN t = 1..n /\ n \in Nat /\ t[n] = l
      /\ DOMAIN phaseshift = 1..(n - 1)
      /\ \A i \in 1..(n - 1) : t[i] = phaseshift[i]
      /\ \A i \in 1..n : i \in 1..(n - 1) \/ i = n
  BY <1>2
<1> HIDE DEF t, n
<1>4. \A i \in 1..(n - 1) : phaseshift[i] \in Leavers /\ stage[phaseshift[i]] # "idle"
  BY <1>2, <1>3 DEF Handlers
<1>5. \A i \in 1..(n - 1) : t[i] # l
  BY <1>1, <1>3, <1>4
<1>6. ASSUME NEW i \in 1..n, NEW j \in 1..n, t[i] = t[j] PROVE i = j
  <2>1. CASE i \in 1..(n - 1) /\ j \in 1..(n - 1)
    <3>1. phaseshift[i] = phaseshift[j]
      BY <1>3, <1>6, <2>1
    <3>2. QED
      BY <1>2, <1>3, <2>1, <3>1 DEF IsInjective
  <2>2. CASE i = n \/ j = n
    BY <1>3, <1>5, <1>6, <2>2
  <2>3. QED
    BY <1>3, <2>1, <2>2
<1>7. IsInjective(t)
  BY <1>3, <1>6 DEF IsInjective
<1>8. \A k \in Leavers : stage[k] # "idle" \/ k = l => stage'[k] # "idle"
  BY <1>1 DEF Exits, Types
<1>9. \A i \in DOMAIN t : t[i] \in Leavers /\ (stage[t[i]] # "idle" \/ t[i] = l)
  BY <1>3, <1>4
<1>10. \A i \in DOMAIN t : stage'[t[i]] # "idle"
  BY <1>8, <1>9
<1>11. phaseshift' = t
  BY <1>1 DEF t
<1>12. QED
  BY <1>1, <1>3, <1>7, <1>10, <1>11 DEF Handlers

LEMMA ShiftHandlers ==
  ASSUME Exits, Handlers, ShiftArrives PROVE Handlers'
<1> DEFINE over == {l \in Called : IsDue(l)}
<1>1. /\ phaseshift' = Without(phaseshift, over)
      /\ sealed' = sealed \union over
      /\ stage' = [l \in Leavers |->
                     IF l \in over /\ stage[l] = "sealing" THEN "withdrawing" ELSE stage[l]]
  BY DEF ShiftArrives
<1>2. over \subseteq Leavers
  <2>1. ASSUME NEW l \in Called PROVE \E i \in DOMAIN phaseshift : l = phaseshift[i]
    BY DEF Called
  <2>2. \A i \in DOMAIN phaseshift : phaseshift[i] \in Leavers
    BY DEF Handlers
  <2>3. QED
    BY <2>1, <2>2
<1> HIDE DEF over
<1>3. phaseshift \in Seq(Leavers) /\ IsInjective(phaseshift)
  BY DEF Handlers
<1>4. /\ phaseshift' \in Seq(Leavers) /\ IsInjective(phaseshift')
      /\ \A n \in DOMAIN phaseshift' : \E i \in DOMAIN phaseshift : phaseshift'[n] = phaseshift[i]
  BY <1>1, <1>3, WithoutTypes
<1>5. \A i \in DOMAIN phaseshift : phaseshift[i] \in Leavers /\ stage[phaseshift[i]] # "idle"
  BY DEF Handlers
<1>6. \A l \in Leavers : stage[l] # "idle" => stage'[l] # "idle"
  BY <1>1
<1>7. QED
  BY <1>1, <1>2, <1>4, <1>5, <1>6 DEF Handlers

LEMMA OtherHandlers ==
  ASSUME Handlers, UNCHANGED <<phaseshift, sealed>>,
         \A l \in Leavers : stage[l] # "idle" => stage'[l] # "idle"
  PROVE  Handlers'
<1>1. \A i \in DOMAIN phaseshift : phaseshift[i] \in Leavers
  BY DEF Handlers
<1>2. QED
  BY <1>1 DEF Handlers

LEMMA ExitsStep == Counts /\ Exits /\ [Next]_vars => Exits'
<1> SUFFICES ASSUME Counts, Exits, [Next]_vars PROVE Exits'
  OBVIOUS
<1>1. ASSUME NEW l \in Leavers, ExitDeclined(l) \/ NoOwnProof(l) PROVE Exits'
  <2>1. /\ stage' = [stage EXCEPT ![l] = "failed"]
        /\ UNCHANGED <<once, sent, proof, batches, accepted, everyone, epoch, toApp>>
    BY <1>1 DEF ExitDeclined, NoOwnProof, enclave
  <2>2. QED
    BY <2>1, FailureExits
<1>2. CASE UNCHANGED vars
  <2>1. UNCHANGED <<stage, once, sent, proof, batches, accepted, everyone, epoch, toApp>>
    BY <1>2 DEF vars, app, enclave
  <2>2. Types'
    BY <2>1 DEF Exits, Types
  <2>3. ASSUME NEW l \in Leavers PROVE Waits(l)' /\ Leaves(l)'
    <3>1. Waits(l) /\ Leaves(l) /\ sent[l] \in Nat
      BY DEF Exits, Types
    <3>2. QED
      BY <2>1, <3>1, Untouched, EventKinds
  <2>4. QED
    BY <2>2, <2>3 DEF Exits
<1>3. ASSUME NEW l \in Leavers, Leave(l) \/ Progress(l) PROVE Exits'
  BY <1>1, <1>3, LeaveExits, ExitExits, WithdrawExits DEF Progress
<1>4. ASSUME Delivery PROVE Exits'
  BY <1>4, ProofExits, ShiftExits, ErrorExits DEF Delivery
<1>5. QED
  BY <1>2, <1>3, <1>4, ServeExits, EpochExits DEF Next

LEMMA HandlersStep == Exits /\ Handlers /\ [Next]_vars => Handlers'
<1> SUFFICES ASSUME Exits, Handlers, [Next]_vars PROVE Handlers'
  OBVIOUS
<1>1. stage \in [Leavers -> Stages]
  BY DEF Exits, Types
<1>2. ASSUME NEW l \in Leavers, NEW x, x # "idle", stage' = [stage EXCEPT ![l] = x]
      PROVE  \A k \in Leavers : stage[k] # "idle" => stage'[k] # "idle"
  BY <1>1, <1>2
<1>3. ASSUME NEW l \in Leavers, Progress(l) PROVE Handlers'
  <2>1. UNCHANGED <<phaseshift, sealed>>
    BY <1>3 DEF Progress, Exit, ExitDeclined, NoOwnProof, Withdraw
  <2>2. \E x \in Stages : x # "idle" /\ stage' = [stage EXCEPT ![l] = x]
    <3>1. CASE Exit(l)
      BY <3>1 DEF Exit, Stages
    <3>2. CASE ExitDeclined(l) \/ NoOwnProof(l)
      BY <3>2 DEF ExitDeclined, NoOwnProof, Stages
    <3>3. ASSUME NEW c \in Chains, Withdraw(l, c)
          PROVE  \E x \in Stages : x # "idle" /\ stage' = [stage EXCEPT ![l] = x]
      <4>1. stage[l] = "withdrawing"
        BY <3>3 DEF Withdraw
      <4>2. \/ stage' = [stage EXCEPT ![l] = "failed"]
            \/ stage' = [stage EXCEPT ![l] = IF batches'[l] = Chains THEN "done" ELSE @]
        BY <3>3 DEF Withdraw
      <4>3. QED
        BY <4>1, <4>2 DEF Stages
    <3>4. QED
      BY <1>3, <3>1, <3>2, <3>3 DEF Progress
  <2>3. QED
    BY <1>2, <2>1, <2>2, OtherHandlers
<1>4. CASE ProofArrives
  <2>1. UNCHANGED <<phaseshift, sealed>>
    BY <1>4 DEF ProofArrives
  <2>2. \A k \in Leavers : stage[k] # "idle" => stage'[k] # "idle"
    BY <1>4 DEF ProofArrives
  <2>3. QED
    BY <2>1, <2>2, OtherHandlers
<1>5. ASSUME NEW l \in Leavers, ErrorArrives(l) PROVE Handlers'
  <2>1. /\ UNCHANGED <<phaseshift, sealed>>
        /\ stage' = [stage EXCEPT ![l] = IF @ = "exiting" THEN "failed" ELSE @]
    BY <1>5 DEF ErrorArrives
  <2>2. \A k \in Leavers : stage[k] # "idle" => stage'[k] # "idle"
    BY <1>1, <2>1
  <2>3. QED
    BY <2>1, <2>2, OtherHandlers
<1>6. CASE EnclaveServes \/ EpochEnds \/ UNCHANGED vars
  <2>1. UNCHANGED <<phaseshift, sealed, stage>>
    BY <1>6 DEF EnclaveServes, EpochEnds, vars, app
  <2>2. QED
    BY <2>1, OtherHandlers
<1>7. ASSUME NEW l \in Leavers, Leave(l) \/ Progress(l) PROVE Handlers'
  BY <1>3, <1>7, LeaveHandlers
<1>8. ASSUME Delivery PROVE Handlers'
  BY <1>4, <1>5, <1>8, ShiftHandlers DEF Delivery
<1>9. QED
  BY <1>6, <1>7, <1>8 DEF Next

LEMMA InitHolds == Init => IInv
<1> SUFFICES ASSUME Init PROVE IInv
  OBVIOUS
<1>1. Types
  BY DEF Init, Types, Stages, NoProof, Proofs
<1>2. ASSUME NEW l \in Leavers PROVE Waits(l) /\ Leaves(l)
  BY DEF Init, Waits, Leaves, HasLeft
<1>3. Handlers
  <2>1. phaseshift \in Seq(Leavers) /\ DOMAIN phaseshift = {} /\ sealed = {}
    BY DEF Init
  <2>2. QED
    BY <2>1 DEF Handlers, IsInjective
<1>4. QED
  BY <1>1, <1>2, <1>3, CountsInit DEF IInv, Exits

(* What shifts and proofs have been counted, who may still be waiting, and   *)
(* whose handlers are registered: every step keeps all three together.       *)
THEOREM Invariance == Spec => []IInv
<1>1. IInv /\ [Next]_vars => IInv'
  BY CountsStep, ExitsStep, HandlersStep DEF IInv
<1>2. QED
  BY <1>1, InitHolds, PTL DEF Spec
------------------------------------------------------------------------------
(* Handlers, requests, proofs and batches are what they are meant to be: in  *)
(* particular no call's handler is twice in the array of #always, though     *)
(* handlers take themselves off while emit() walks along it.                 *)
THEOREM TypeCorrect == Spec => []TypeOK
<1>1. IInv => TypeOK
  BY DEF IInv, Counts, Shifts, Requests, Exits, Types, Handlers, TypeOK
<1>2. QED
  BY <1>1, Invariance, PTL

(* A call during whose request no epoch ended, and whose session gets only   *)
(* its own account's proofs, goes on with the exit proof of that request,    *)
(* and what it returns has withdrawals for every chain.                      *)
THEOREM LeavesWithOwnProof == Spec => []OwnProof
<1>1. IInv => OwnProof
  BY DEF IInv, Exits, Leaves, HasLeft, OwnProof
<1>2. QED
  BY <1>1, Invariance, PTL

(* Of four epochs that have ended, at most one of them before the request    *)
(* was taken, three ended since.                                             *)
LEMMA ThreeSince ==
  ASSUME Counts, NEW l \in Leavers, l \in sealed, Cardinality(Early(l)) <= 1
  PROVE  epoch >= accepted[l] + 3
<1> DEFINE since == seen[l] \ Early(l)
           a == accepted[l]
<1>1. /\ epoch \in Nat /\ a \in Nat /\ seen[l] \subseteq Nat
      /\ \A e \in seen[l] : e < epoch
      /\ IsFiniteSet(seen[l]) /\ Cardinality(seen[l]) >= 4
  BY DEF Counts, Shifts, FourSeen, Requests
<1>2. Early(l) \in SUBSET seen[l] /\ since \in SUBSET seen[l]
  BY DEF Early
<1>3. IsFiniteSet(Early(l)) /\ IsFiniteSet(since)
  BY <1>1, <1>2, FS_Subset
<1>4. /\ Cardinality(Early(l)) \in Nat /\ Cardinality(since) \in Nat
      /\ Cardinality(seen[l]) \in Nat
  BY <1>1, <1>3, FS_CardinalityType
<1>5. seen[l] = Early(l) \union since /\ Early(l) \intersect since = {}
  BY <1>2
<1>6. Cardinality(seen[l]) = Cardinality(Early(l)) + Cardinality(since)
  <2>1. Cardinality(Early(l) \intersect since) = 0
    BY <1>5, FS_EmptySet
  <2>2. Cardinality(Early(l) \union since) =
          Cardinality(Early(l)) + Cardinality(since) - Cardinality(Early(l) \intersect since)
    BY <1>3, FS_Union
  <2>3. Cardinality(seen[l]) = Cardinality(Early(l) \union since)
    BY <1>5, Zenon
  <2>4. \A x, y, z, n : x \in Nat /\ y \in Nat /\ n = 0 /\ z = x + y - n => z = x + y
    OBVIOUS
  <2>5. QED
    BY ONLY <1>4, <2>1, <2>2, <2>3, <2>4, Zenon
<1>7. Cardinality(since) >= 3
  BY <1>1, <1>4, <1>6
<1>8. since \in SUBSET (a..(epoch - 1))
  BY <1>1 DEF Early
<1>9. a \in Int /\ epoch - 1 \in Int
  BY <1>1
<1>10. /\ IsFiniteSet(a..(epoch - 1))
       /\ Cardinality(a..(epoch - 1)) = IF a > epoch - 1 THEN 0 ELSE (epoch - 1) - a + 1
  BY ONLY <1>9, FS_Interval, Zenon
<1>11. Cardinality(since) <= Cardinality(a..(epoch - 1))
  BY <1>8, <1>10, FS_Subset
<1> HIDE DEF since
<1>12. QED
  BY <1>1, <1>4, <1>7, <1>9, <1>10, <1>11

(* When leave() has counted enough shifts, the two further epochs that the   *)
(* README asks for have ended since the one that took its request, unless    *)
(* two or more of the shifts that it counted were of earlier epochs.         *)
THEOREM WaitsLongEnough == Spec => []NotTooEarly
<1>1. IInv => NotTooEarly
  BY ThreeSince DEF IInv, NotTooEarly, Ready
<1>2. QED
  BY <1>1, Invariance, PTL
------------------------------------------------------------------------------
(* Why every leave() ends, up to fairness.  While a call waits for a proof,  *)
(* its request, an error, or a proof is on its way, or the epoch that took   *)
(* the request has not ended and will bring one.                             *)
Asked(s, l) == \E i \in 1..Len(s) : s[i] = l
IsAnswer(m, l) == m = ErrorResult(l) \/ IsProof(m)
Answered(s, l) == \E i \in 1..Len(s) : IsAnswer(s[i], l)
InHand(l) == Asked(toEnclave, l) \/ Answered(toApp, l) \/ accepted[l] = epoch

(* Who has begun is registered until it has let its shifts pass: three, and  *)
(* the one that it accepts.                                                  *)
Registered == \A l \in Leavers :
                /\ l \in Range(phaseshift) <=> stage[l] # "idle" /\ l \notin sealed
                /\ l \in sealed => stage[l] # "idle"
                /\ Cardinality(seen[l]) = 4 <=> l \in sealed
                /\ Cardinality(seen[l]) <= 4

(* Where each call stands.                                                   *)
Standing(l) == /\ stage[l] = "exiting" => InHand(l)
               /\ stage[l] = "sealing" => l \notin sealed
               /\ stage[l] = "withdrawing" => l \in sealed /\ batches[l] # Chains
               /\ stage[l] \in {"idle", "signing", "exiting", "sealing"} => batches[l] = {}
Standings == Registered /\ \A l \in Leavers : Standing(l)

(* No step takes a call back to where it was.                                *)
Rank(s) == IF s = "idle" THEN 0 ELSE IF s = "signing" THEN 1 ELSE IF s = "exiting" THEN 2
           ELSE IF s = "sealing" THEN 3 ELSE IF s = "withdrawing" THEN 4 ELSE 5
GoesOn == \A l \in Leavers : /\ stage'[l] = stage[l] \/ Rank(stage'[l]) > Rank(stage[l])
                             /\ seen[l] \subseteq seen'[l] /\ batches[l] \subseteq batches'[l]
                             /\ l \in sealed => l \in sealed' /\ seen'[l] = seen[l]

LEMMA MoreAsked ==
  ASSUME NEW s \in Seq(Leavers), NEW k \in Leavers
  PROVE  /\ Asked(Append(s, k), k)
         /\ \A l \in Leavers : Asked(s, l) => Asked(Append(s, k), l)
<1>. DEFINE t == Append(s, k)
<1>1. /\ Len(s) \in Nat /\ Len(t) = Len(s) + 1 /\ t[Len(s) + 1] = k /\ Len(s) + 1 \in 1..Len(t)
      /\ \A i \in 1..Len(s) : t[i] = s[i] /\ i \in 1..Len(t)
  OBVIOUS
<1>. HIDE DEF t
<1>. QED  BY <1>1 DEF Asked, t

LEMMA AskedTaken ==
  ASSUME NEW s \in Seq(Leavers), s # <<>>
  PROVE  \A l \in Leavers : Asked(s, l) => Asked(Tail(s), l) \/ Head(s) = l
<1>. DEFINE t == Tail(s)
<1>1. /\ Len(s) \in Nat /\ Len(t) = Len(s) - 1 /\ Head(s) = s[1]
      /\ \A i \in 1..Len(s) : i = 1 \/ (i - 1 \in 1..Len(t) /\ t[i - 1] = s[i])
  OBVIOUS
<1>. HIDE DEF t
<1>. QED  BY <1>1 DEF Asked, t

LEMMA MoreAnswers ==
  ASSUME NEW s \in Seq(Messages), NEW t \in Seq(Messages), NEW l
  PROVE  Answered(s, l) \/ Answered(t, l) => Answered(s \o t, l)
<1>. DEFINE u == s \o t
<1>1. /\ Len(s) \in Nat /\ Len(t) \in Nat /\ Len(u) = Len(s) + Len(t)
      /\ \A i \in 1..Len(s) : u[i] = s[i] /\ i \in 1..Len(u)
      /\ \A i \in 1..Len(t) : u[Len(s) + i] = t[i] /\ Len(s) + i \in 1..Len(u)
  OBVIOUS
<1>. HIDE DEF u
<1>. QED  BY <1>1 DEF Answered, u

LEMMA AnswerTaken ==
  ASSUME NEW s \in Seq(Messages), s # <<>>, NEW l
  PROVE  Answered(s, l) => Answered(Tail(s), l) \/ IsAnswer(Head(s), l)
<1>. DEFINE t == Tail(s)
<1>1. /\ Len(s) \in Nat /\ Len(t) = Len(s) - 1 /\ Head(s) = s[1]
      /\ \A i \in 1..Len(s) : i = 1 \/ (i - 1 \in 1..Len(t) /\ t[i - 1] = s[i])
  OBVIOUS
<1>. HIDE DEF t
<1>. QED  BY <1>1 DEF Answered, t

LEMMA OneAnswer ==
  ASSUME NEW m \in Messages, NEW l, IsAnswer(m, l)
  PROVE  <<m>> \in Seq(Messages) /\ Answered(<<m>>, l)
<1>1. <<m>> \in Seq(Messages) /\ Len(<<m>>) = 1 /\ <<m>>[1] = m /\ 1 \in 1..1
  OBVIOUS
<1>. QED  BY <1>1 DEF Answered

(* The end of the epoch that took a request brings a proof.                  *)
LEMMA IssuedProof ==
  ASSUME epoch \in Nat, NEW l \in Leavers, accepted[l] = epoch, NEW ps \in Issued, NEW x
  PROVE  Answered(ps, x)
<1>. DEFINE exit == \E k \in Leavers : accepted[k] = epoch
            P == ProofEvent([own |-> TRUE, exit |-> exit, epoch |-> epoch])
            Q == ProofEvent([own |-> FALSE, exit |-> FALSE, epoch |-> epoch])
<1>1. exit /\ exit \in BOOLEAN
  OBVIOUS
<1>2. ps = <<P>> \/ ps = <<Q>> \o <<P>>
  BY <1>1 DEF Issued
<1>. HIDE DEF exit
<1>3. /\ [own |-> TRUE, exit |-> exit, epoch |-> epoch] \in Proofs
      /\ [own |-> FALSE, exit |-> FALSE, epoch |-> epoch] \in Proofs
  BY <1>1 DEF Proofs
<1>4. P \in Messages /\ Q \in Messages /\ IsAnswer(P, x)
  BY <1>3, EventKinds DEF IsAnswer
<1>. HIDE DEF P, Q
<1>5. <<P>> \in Seq(Messages) /\ <<Q>> \in Seq(Messages) /\ Answered(<<P>>, x)
  BY <1>4, OneAnswer
<1>6. Answered(<<Q>> \o <<P>>, x)
  BY <1>5, MoreAnswers
<1>. QED  BY <1>2, <1>5, <1>6
------------------------------------------------------------------------------
LEMMA RangeAppended ==
  ASSUME NEW X, NEW s \in Seq(X), NEW x \in X
  PROVE  Range(Append(s, x)) = Range(s) \union {x}
<1>. DEFINE t == Append(s, x)
<1>1. /\ DOMAIN s = 1..Len(s) /\ Len(s) \in Nat /\ DOMAIN t = 1..(Len(s) + 1)
      /\ t[Len(s) + 1] = x /\ \A i \in 1..Len(s) : t[i] = s[i] /\ i \in 1..(Len(s) + 1)
      /\ \A i \in 1..(Len(s) + 1) : i \in 1..Len(s) \/ i = Len(s) + 1
      /\ Len(s) + 1 \in 1..(Len(s) + 1)
  OBVIOUS
<1>. HIDE DEF t
<1>2. \A y : y \in Range(t) <=> y \in Range(s) \/ y = x
  BY <1>1 DEF Range
<1>. QED  BY <1>2 DEF t

(* Different elements have different places.                                 *)
LEMMA PlacesDiffer ==
  ASSUME NEW N \in Nat, NEW K \in SUBSET (1..N), NEW i \in K, NEW j \in K,
         Cardinality(UpTo(K, i)) = Cardinality(UpTo(K, j))
  PROVE  i = j
<1>1. \A k \in K : k \in Nat
  OBVIOUS
<1>2. IsFiniteSet(K)
  <2>1. IsFiniteSet(1..N)
    BY 1 \in Int, N \in Int, FS_Interval
  <2>. QED  BY <2>1, FS_Subset
<1>3. ASSUME NEW k \in K, NEW l \in K, k < l
      PROVE  Cardinality(UpTo(K, k)) # Cardinality(UpTo(K, l))
  <2>1. UpTo(K, k) \subseteq UpTo(K, l) /\ l \in UpTo(K, l) /\ l \notin UpTo(K, k)
    <3>1. \A m \in K : m <= k => m <= l
      BY <1>1, <1>3
    <3>2. l <= l /\ ~(l <= k)
      BY <1>1, <1>3
    <3>. QED  BY <3>1, <3>2, Zenon DEF UpTo
  <2>2. UpTo(K, l) \subseteq K
    BY DEF UpTo
  <2>3. IsFiniteSet(UpTo(K, k)) /\ IsFiniteSet(UpTo(K, l))
    BY <1>2, <2>1, <2>2, FS_Subset
  <2>4. /\ Cardinality(UpTo(K, k) \union {l}) = Cardinality(UpTo(K, k)) + 1
        /\ Cardinality(UpTo(K, k)) \in Nat /\ Cardinality(UpTo(K, l)) \in Nat
    BY <2>1, <2>3, FS_AddElement, FS_CardinalityType
  <2>5. Cardinality(UpTo(K, k) \union {l}) <= Cardinality(UpTo(K, l))
    BY <2>1, <2>3, FS_Subset
  <2>. QED  BY <2>4, <2>5
<1>. QED  BY <1>1, <1>3

(* Exactly the elements of S are taken out of an array.                      *)
LEMMA WithoutRange ==
  ASSUME NEW X, NEW s \in Seq(X), NEW S
  PROVE  Range(Without(s, S)) = Range(s) \ S
<1>. DEFINE kept == {i \in DOMAIN s : s[i] \notin S}
            place(i) == Cardinality({j \in kept : j <= i})
            at(n) == CHOOSE i \in kept : place(i) = n
            t == Without(s, S)
<1>1. Len(s) \in Nat /\ DOMAIN s = 1..Len(s) /\ kept \in SUBSET (1..Len(s))
  OBVIOUS
<1>2. \A i : place(i) = Cardinality(UpTo(kept, i))
  BY DEF UpTo
<1>3. t = [n \in 1..Cardinality(kept) |-> s[at(n)]]
  BY DEF Without
<1>4. \A i \in kept : s[i] \notin S /\ i \in DOMAIN s
  OBVIOUS
<1>5. \A i \in DOMAIN s : s[i] \notin S => i \in kept
  OBVIOUS
<1>. HIDE DEF t, kept, place
<1>6. /\ \A i \in kept : place(i) \in 1..Cardinality(kept)
      /\ \A n \in 1..Cardinality(kept) : \E i \in kept : place(i) = n
  BY <1>1, <1>2, Places
<1>7. \A i \in kept, j \in kept : place(i) = place(j) => i = j
  BY <1>1, <1>2, PlacesDiffer
<1>8. \A n \in 1..Cardinality(kept) : at(n) \in kept /\ place(at(n)) = n
  BY <1>6
<1>. HIDE DEF at
<1>9. ASSUME NEW x \in Range(t) PROVE x \in Range(s) \ S
  BY <1>3, <1>4, <1>8, <1>9 DEF Range
<1>10. ASSUME NEW x \in Range(s) \ S PROVE x \in Range(t)
  <2>1. PICK i \in kept : s[i] = x
    BY <1>5, <1>10 DEF Range
  <2>2. at(place(i)) = i /\ place(i) \in 1..Cardinality(kept)
    BY <1>6, <1>7, <1>8
  <2>. QED  BY <1>3, <2>1, <2>2 DEF Range
<1>. QED  BY <1>9, <1>10 DEF t
------------------------------------------------------------------------------
(* A step that moves no handler.                                             *)
LEMMA SameRegistered ==
  ASSUME Registered, UNCHANGED <<phaseshift, seen, sealed>>,
         \A l \in Leavers : stage'[l] = "idle" <=> stage[l] = "idle"
  PROVE  Registered'
BY DEF Registered

LEMMA LeaveStands ==
  ASSUME IInv, Standings, NEW l \in Leavers, Leave(l)
  PROVE  Standings' /\ GoesOn
<1>1. /\ stage[l] = "idle" /\ stage' = [stage EXCEPT ![l] = "signing"]
      /\ phaseshift' = Append(phaseshift, l)
      /\ UNCHANGED <<seen, sealed, batches, toEnclave, toApp, accepted, epoch>>
  BY DEF Leave, enclave
<1>2. /\ stage \in [Leavers -> Stages] /\ phaseshift \in Seq(Leavers)
      /\ Registered /\ \A k \in Leavers : Standing(k)
  BY DEF IInv, Exits, Types, Handlers, Standings
<1>3. Range(phaseshift') = Range(phaseshift) \union {l}
  BY <1>1, <1>2, RangeAppended
<1>4. Registered'
  BY <1>1, <1>2, <1>3 DEF Registered
<1>5. \A k \in Leavers : Standing(k)'
  BY <1>1, <1>2 DEF Standing, InHand, Asked, Answered, IsAnswer
<1>6. GoesOn
  BY <1>1, <1>2 DEF GoesOn, Rank
<1>. QED  BY <1>4, <1>5, <1>6 DEF Standings

LEMMA ProgressStands ==
  ASSUME IInv, Standings, NEW l \in Leavers, Progress(l)
  PROVE  Standings' /\ GoesOn
<1>1. /\ stage \in [Leavers -> Stages] /\ batches \in [Leavers -> SUBSET Chains]
      /\ toEnclave \in Seq(Leavers)
      /\ Registered /\ \A k \in Leavers : Standing(k)
  BY BasicTypes DEF IInv, Exits, Types, Standings
<1>2. ASSUME UNCHANGED <<phaseshift, seen, sealed, toApp, accepted, epoch>>,
             \A k \in Leavers \ {l} : stage'[k] = stage[k] /\ batches'[k] = batches[k],
             \A k \in Leavers : Asked(toEnclave, k) => Asked(toEnclave', k),
             (stage[l] # "idle" /\ Rank(stage'[l]) > Rank(stage[l])) \/ stage'[l] = stage[l],
             stage'[l] # "idle" \/ stage[l] = "idle",
             batches[l] \subseteq batches'[l], Standing(l)'
      PROVE  Standings' /\ GoesOn
  <2>1. \A k \in Leavers : stage'[k] = "idle" <=> stage[k] = "idle"
    BY <1>2 DEF Rank
  <2>2. Registered'
    BY <1>1, <1>2, <2>1, SameRegistered
  <2>3. ASSUME NEW k \in Leavers, k # l PROVE Standing(k)'
    <3>1. InHand(k) => InHand(k)'
      BY <1>2 DEF InHand, Answered, IsAnswer, Asked
    <3>. QED  BY <1>1, <1>2, <2>3, <3>1 DEF Standing
  <2>4. GoesOn
    BY <1>2 DEF GoesOn
  <2>. QED  BY <1>2, <2>2, <2>3, <2>4 DEF Standings
<1>3. CASE Exit(l)
  <2>1. /\ stage[l] = "signing" /\ stage' = [stage EXCEPT ![l] = "exiting"]
        /\ toEnclave' = Append(toEnclave, l)
        /\ UNCHANGED <<phaseshift, seen, sealed, toApp, accepted, epoch, batches>>
    BY <1>3 DEF Exit, Send, enclave
  <2>2. Asked(toEnclave', l) /\ \A k \in Leavers : Asked(toEnclave, k) => Asked(toEnclave', k)
    BY <1>1, <2>1, MoreAsked
  <2>3. Standing(l)'
    BY <1>1, <2>1, <2>2 DEF Standing, InHand, Asked
  <2>. QED  BY <1>1, <1>2, <2>1, <2>2, <2>3 DEF Rank
<1>4. CASE ExitDeclined(l) \/ NoOwnProof(l)
  <2>1. /\ stage[l] \in {"signing", "withdrawing"} /\ stage' = [stage EXCEPT ![l] = "failed"]
        /\ UNCHANGED <<phaseshift, seen, sealed, toEnclave, toApp, accepted, epoch, batches>>
    BY <1>4 DEF ExitDeclined, NoOwnProof, enclave
  <2>2. Standing(l)'
    BY <1>1, <2>1 DEF Standing
  <2>3. \A k \in Leavers : Asked(toEnclave, k) => Asked(toEnclave', k)
    BY <2>1 DEF Asked
  <2>. QED  BY <1>1, <1>2, <2>1, <2>2, <2>3 DEF Rank
<1>5. ASSUME NEW c \in Chains, Withdraw(l, c) PROVE Standings' /\ GoesOn
  <2>1. /\ stage[l] = "withdrawing"
        /\ UNCHANGED <<phaseshift, seen, sealed, toEnclave, toApp, accepted, epoch>>
        /\ \/ /\ batches' = [batches EXCEPT ![l] = @ \union {c}]
              /\ stage' = [stage EXCEPT ![l] = IF batches'[l] = Chains THEN "done" ELSE @]
           \/ stage' = [stage EXCEPT ![l] = "failed"] /\ UNCHANGED batches
    BY <1>5 DEF Withdraw, enclave
  <2>2. /\ \A k \in Leavers \ {l} : stage'[k] = stage[k] /\ batches'[k] = batches[k]
        /\ batches[l] \subseteq batches'[l]
        /\ \/ stage'[l] \in {"done", "failed"}
           \/ stage'[l] = "withdrawing" /\ batches'[l] # Chains
    BY <1>1, <2>1
  <2>3. Standing(l)'
    BY <1>1, <2>1, <2>2 DEF Standing
  <2>4. \A k \in Leavers : Asked(toEnclave, k) => Asked(toEnclave', k)
    BY <2>1 DEF Asked
  <2>. QED  BY <1>2, <2>1, <2>2, <2>3, <2>4 DEF Rank
<1>. QED  BY <1>3, <1>4, <1>5 DEF Progress

LEMMA ProofStands == ASSUME IInv, Standings, ProofArrives PROVE Standings' /\ GoesOn
<1>1. /\ UNCHANGED <<phaseshift, seen, sealed, batches>>
      /\ stage' = [l \in Leavers |->
                     IF ~(l \in once /\ stage[l] = "exiting") THEN stage[l]
                     ELSE IF l \in sealed THEN "withdrawing" ELSE "sealing"]
  BY DEF ProofArrives
<1>2. Registered /\ \A l \in Leavers : Standing(l)
  BY DEF Standings
<1>3. \A l \in Leavers : stage[l] = "exiting" => l \in once
  BY DEF IInv, Exits, Waits
<1>4. \A l \in Leavers :
        stage'[l] = IF stage[l] # "exiting" THEN stage[l]
                    ELSE IF l \in sealed THEN "withdrawing" ELSE "sealing"
  BY <1>1, <1>3
<1>5. Registered'
  BY <1>1, <1>2, <1>4, SameRegistered
<1>6. \A l \in Leavers : Standing(l)'
  BY <1>1, <1>2, <1>4, ChainsAssumption DEF Standing
<1>7. GoesOn
  BY <1>1, <1>4 DEF GoesOn, Rank
<1>. QED  BY <1>5, <1>6, <1>7 DEF Standings

LEMMA ErrorStands ==
  ASSUME IInv, Standings, NEW k \in Leavers, ErrorArrives(k)
  PROVE  Standings' /\ GoesOn
<1>1. /\ toApp # <<>> /\ Head(toApp) = ErrorResult(k) /\ toApp' = Tail(toApp)
      /\ stage' = [stage EXCEPT ![k] = IF @ = "exiting" THEN "failed" ELSE @]
      /\ UNCHANGED <<phaseshift, seen, sealed, batches, toEnclave, accepted, epoch>>
  BY DEF ErrorArrives, enclave
<1>2. /\ stage \in [Leavers -> Stages] /\ toApp \in Seq(Messages)
      /\ Registered /\ \A l \in Leavers : Standing(l)
  BY BasicTypes DEF IInv, Exits, Types, Standings
<1>3. \A l \in Leavers : \/ stage'[l] = stage[l] /\ (l # k \/ stage[l] # "exiting")
                         \/ l = k /\ stage[l] = "exiting" /\ stage'[l] = "failed"
  BY <1>1, <1>2
<1>4. \A l \in Leavers : l # k => ~IsAnswer(Head(toApp), l)
  <2>1. \A l \in Leavers : l # k => ErrorResult(k) # ErrorResult(l)
    BY DEF ErrorResult
  <2>. QED  BY <1>1, <2>1, EventKinds DEF IsAnswer
<1>5. \A l \in Leavers : l # k /\ InHand(l) => InHand(l)'
  <2>1. \A l \in Leavers : l # k /\ Answered(toApp, l) => Answered(toApp', l)
    BY <1>1, <1>2, <1>4, AnswerTaken
  <2>. QED  BY <1>1, <2>1 DEF InHand, Asked, Answered, IsAnswer
<1>6. Registered'
  BY <1>1, <1>2, <1>3, SameRegistered
<1>7. \A l \in Leavers : Standing(l)'
  BY <1>1, <1>2, <1>3, <1>5 DEF Standing
<1>8. GoesOn
  BY <1>1, <1>3 DEF GoesOn, Rank
<1>. QED  BY <1>6, <1>7, <1>8 DEF Standings

LEMMA ServeStands == ASSUME IInv, Standings, EnclaveServes PROVE Standings' /\ GoesOn
<1>. DEFINE k == Head(toEnclave)
<1>1. /\ toEnclave # <<>> /\ toEnclave' = Tail(toEnclave)
      /\ \/ accepted' = [accepted EXCEPT ![k] = epoch] /\ toApp' = toApp
         \/ toApp' = Append(toApp, ErrorResult(k)) /\ accepted' = accepted
      /\ UNCHANGED <<stage, phaseshift, seen, sealed, batches, epoch>>
  BY DEF EnclaveServes, app
<1>2. /\ toEnclave \in Seq(Leavers) /\ toApp \in Seq(Messages) /\ accepted \in [Leavers -> Nat]
      /\ Registered /\ \A l \in Leavers : Standing(l)
  BY BasicTypes DEF IInv, Standings
<1>3. k \in Leavers
  BY <1>1, <1>2
<1>4. \A l \in Leavers : Asked(toEnclave, l) => Asked(toEnclave', l) \/ k = l
  BY <1>1, <1>2, AskedTaken
<1>. HIDE DEF k
<1>6. ASSUME NEW l \in Leavers, InHand(l) PROVE InHand(l)'
  <2>1. CASE accepted' = [accepted EXCEPT ![k] = epoch] /\ toApp' = toApp
    <3>1. accepted[l] = epoch \/ l = k => accepted'[l] = epoch'
      BY <1>1, <1>2, <2>1
    <3>2. Answered(toApp, l) => Answered(toApp, l)'
      BY <2>1 DEF Answered, IsAnswer
    <3>. QED  BY <1>4, <1>6, <3>1, <3>2 DEF InHand, Asked
  <2>2. CASE toApp' = Append(toApp, ErrorResult(k)) /\ accepted' = accepted
    <3>. DEFINE m == ErrorResult(k)
    <3>1. m \in Messages /\ (l = k => IsAnswer(m, l))
      BY <1>3, EventKinds DEF IsAnswer
    <3>2. <<m>> \in Seq(Messages) /\ (l = k => Answered(<<m>>, l))
      BY <3>1, OneAnswer
    <3>. HIDE DEF m
    <3>3. toApp' = toApp \o <<m>>
      BY <1>2, <2>2, <3>1 DEF m
    <3>4. Answered(toApp, l) \/ l = k => Answered(toApp', l)
      BY <1>2, <3>2, <3>3, MoreAnswers
    <3>. QED  BY <1>1, <1>4, <1>6, <2>2, <3>4 DEF InHand, Asked, Answered, IsAnswer
  <2>. QED  BY <1>1, <2>1, <2>2
<1>7. Registered'
  BY <1>1, <1>2, SameRegistered
<1>8. \A l \in Leavers : Standing(l)'
  BY <1>1, <1>2, <1>6 DEF Standing
<1>9. GoesOn
  BY <1>1 DEF GoesOn
<1>. QED  BY <1>7, <1>8, <1>9 DEF Standings

(* A handler that is called counts one epoch more; with four it goes.        *)
LEMMA ShiftStands == ASSUME IInv, Standings, ShiftArrives PROVE Standings' /\ GoesOn
<1>. DEFINE over == {l \in Called : IsDue(l)}
            e == Head(toApp).epoch
<1>1. /\ toApp # <<>> /\ IsShift(Head(toApp)) /\ toApp' = Tail(toApp)
      /\ seen' = [l \in Leavers |-> IF l \in Called THEN seen[l] \union {e} ELSE seen[l]]
      /\ phaseshift' = Without(phaseshift, over)
      /\ sealed' = sealed \union over
      /\ stage' = [l \in Leavers |->
                     IF l \in over /\ stage[l] = "sealing" THEN "withdrawing" ELSE stage[l]]
      /\ UNCHANGED <<batches, toEnclave, accepted, epoch>>
  BY DEF ShiftArrives, IsShift, enclave
<1>2. /\ toApp \in Seq(Messages) /\ phaseshift \in Seq(Leavers)
      /\ Registered /\ \A l \in Leavers : Standing(l)
  BY BasicTypes DEF IInv, Handlers, Standings
<1>3. \A l \in Called : l \in Range(phaseshift) /\ l \in Leavers
  <2>1. \A l \in Called : \E i \in DOMAIN phaseshift : l = phaseshift[i]
    BY DEF Called
  <2>. QED  BY <1>2, <2>1 DEF Range
<1>4. \A l \in Leavers : l \in over <=> l \in Called /\ Cardinality(seen[l]) = 3
  BY DEF IsDue
<1>5. Range(phaseshift') = Range(phaseshift) \ over
  BY <1>1, <1>2, WithoutRange
<1>6. e \in Nat
  <2>1. Head(toApp) \in Messages
    BY <1>1, <1>2
  <2>. QED  BY <1>1, <2>1 DEF Messages, IsShift
<1>7. ~IsProof(Head(toApp)) /\ \A l \in Leavers : Head(toApp) # ErrorResult(l)
  BY <1>1 DEF IsProof, IsShift, ErrorResult
<1>. HIDE DEF over, e
<1>8. ASSUME NEW l \in Leavers
      PROVE  /\ IsFiniteSet(seen[l]) /\ Cardinality(seen[l]) \in Nat
             /\ Cardinality(seen[l] \union {e}) = Cardinality(seen[l]) + 1
  <2>1. e \notin seen[l]
    <3>1. After(toApp, seen[l]) /\ 1 \in 1..Len(toApp) /\ Head(toApp) = toApp[1]
      BY <1>1, <1>2 DEF IInv, Counts, Shifts
    <3>2. \A d \in seen[l] : d < e
      BY <1>1, <3>1 DEF After, e
    <3>. QED  BY <1>6, <3>2
  <2>2. IsFiniteSet(seen[l])
    BY DEF IInv, Counts, FourSeen
  <2>. QED  BY <2>1, <2>2, FS_AddElement, FS_CardinalityType
<1>9. ASSUME NEW l \in Leavers
      PROVE  /\ l \in Range(phaseshift') <=> stage'[l] # "idle" /\ l \notin sealed'
             /\ l \in sealed' => stage'[l] # "idle"
             /\ Cardinality(seen'[l]) = 4 <=> l \in sealed'
             /\ Cardinality(seen'[l]) <= 4
  <2>1. /\ l \in Range(phaseshift) <=> stage[l] # "idle" /\ l \notin sealed
        /\ l \in sealed => stage[l] # "idle"
        /\ Cardinality(seen[l]) = 4 <=> l \in sealed
        /\ Cardinality(seen[l]) <= 4
    BY <1>2 DEF Registered
  <2>2. stage'[l] = "idle" <=> stage[l] = "idle"
    BY <1>1
  <2>3. CASE l \in Called
    <3>1. l \notin sealed /\ Cardinality(seen[l]) <= 3 /\ seen'[l] = seen[l] \union {e}
      <4>1. l \notin sealed
        BY <1>3, <2>1, <2>3
      <4>2. Cardinality(seen[l]) # 4 /\ Cardinality(seen[l]) <= 4 /\ Cardinality(seen[l]) \in Nat
        BY <1>8, <2>1, <4>1
      <4>3. Cardinality(seen[l]) <= 3
        BY <4>2
      <4>4. seen'[l] = seen[l] \union {e}
        BY <1>1, <2>3
      <4>. QED  BY <4>1, <4>3, <4>4
    <3>2. Cardinality(seen'[l]) = Cardinality(seen[l]) + 1
      BY <1>8, <3>1
    <3>3. l \in sealed' <=> Cardinality(seen[l]) = 3
      BY <1>1, <1>4, <2>3, <3>1
    <3>4. l \in Range(phaseshift') <=> Cardinality(seen[l]) # 3
      BY <1>3, <1>4, <1>5, <2>3
    <3>5. stage'[l] # "idle"
      BY <1>3, <2>1, <2>2, <2>3
    <3>. QED  BY <1>8, <3>1, <3>2, <3>3, <3>4, <3>5
  <2>4. CASE l \notin Called
    <3>1. seen'[l] = seen[l] /\ l \notin over
      BY <1>1, <1>4, <2>4
    <3>2. /\ l \in sealed' <=> l \in sealed
          /\ l \in Range(phaseshift') <=> l \in Range(phaseshift)
      BY <1>1, <1>5, <3>1
    <3>. QED  BY <2>1, <2>2, <3>1, <3>2
  <2>. QED  BY <2>3, <2>4
<1>10. Registered'
  BY <1>9 DEF Registered
<1>11. \A l \in Leavers : InHand(l) => InHand(l)'
  <2>1. \A l \in Leavers : Answered(toApp, l) => Answered(toApp', l)
    BY <1>1, <1>2, <1>7, AnswerTaken DEF IsAnswer
  <2>. QED  BY <1>1, <2>1 DEF InHand, Asked, Answered, IsAnswer
<1>12. ASSUME NEW l \in Leavers PROVE Standing(l)'
  <2>1. \/ stage'[l] = stage[l] /\ (stage[l] # "sealing" \/ l \notin over)
        \/ stage[l] = "sealing" /\ stage'[l] = "withdrawing" /\ l \in over
    BY <1>1
  <2>. QED  BY <1>1, <1>2, <1>11, <2>1, ChainsAssumption DEF Standing
<1>13. GoesOn
  <2>1. \A l \in Leavers : stage'[l] = stage[l] \/ Rank(stage'[l]) > Rank(stage[l])
    BY <1>1 DEF Rank
  <2>2. \A l \in Leavers : l \in sealed => l \notin Called
    BY <1>2, <1>3 DEF Registered
  <2>. QED  BY <1>1, <2>1, <2>2 DEF GoesOn
<1>. QED  BY <1>10, <1>12, <1>13 DEF Standings

(* The epoch that took the request brings a proof when it ends.              *)
LEMMA EpochStands == ASSUME IInv, Standings, EpochEnds PROVE Standings' /\ GoesOn
<1>1. /\ epoch' = epoch + 1
      /\ UNCHANGED <<stage, phaseshift, seen, sealed, batches, toEnclave, accepted>>
      /\ \E ps \in Issued : \/ toApp' = toApp \o ps \o <<ShiftEvent(epoch)>>
                            \/ toApp' = toApp \o <<ShiftEvent(epoch)>> \o ps
  BY DEF EpochEnds, app
<1>2. PICK ps \in Issued : \/ toApp' = toApp \o ps \o <<ShiftEvent(epoch)>>
                           \/ toApp' = toApp \o <<ShiftEvent(epoch)>> \o ps
  BY <1>1
<1>3. /\ toApp \in Seq(Messages) /\ epoch \in Nat
      /\ Registered /\ \A l \in Leavers : Standing(l)
  BY BasicTypes DEF IInv, Standings
<1>. DEFINE shift == <<ShiftEvent(epoch)>>
<1>4. ps \in Seq(Messages) /\ shift \in Seq(Messages)
  BY <1>3, IssuedMessages, EventKinds
<1>5. toApp' = (toApp \o ps) \o shift \/ toApp' = (toApp \o shift) \o ps
  BY <1>2
<1>. HIDE DEF shift
<1>6. \A l \in Leavers : Answered(toApp, l) \/ Answered(ps, l) => Answered(toApp', l)
  <2>. DEFINE u == toApp \o ps
              v == toApp \o shift
  <2>1. u \in Seq(Messages) /\ v \in Seq(Messages)
    BY <1>3, <1>4
  <2>2. \A l \in Leavers : /\ Answered(toApp, l) \/ Answered(ps, l) => Answered(u, l)
                           /\ Answered(toApp, l) => Answered(v, l)
    BY <1>3, <1>4, MoreAnswers
  <2>3. toApp' = u \o shift \/ toApp' = v \o ps
    BY <1>5
  <2>. HIDE DEF u, v
  <2>4. \A l \in Leavers : /\ Answered(u, l) => Answered(u \o shift, l)
                           /\ Answered(v, l) \/ Answered(ps, l) => Answered(v \o ps, l)
    BY <1>4, <2>1, MoreAnswers
  <2>. QED  BY <2>2, <2>3, <2>4
<1>7. \A l \in Leavers : InHand(l) => InHand(l)'
  <2>1. \A l \in Leavers : accepted[l] = epoch => Answered(ps, l)
    BY <1>3, IssuedProof
  <2>. QED  BY <1>1, <1>6, <2>1 DEF InHand, Asked, Answered, IsAnswer
<1>8. Registered'
  BY <1>1, <1>3, SameRegistered
<1>9. \A l \in Leavers : Standing(l)'
  BY <1>1, <1>3, <1>7 DEF Standing
<1>10. GoesOn
  BY <1>1 DEF GoesOn
<1>. QED  BY <1>8, <1>9, <1>10 DEF Standings

LEMMA StepStands == IInv /\ Standings /\ [Next]_vars => Standings' /\ [GoesOn]_vars
<1>. SUFFICES ASSUME IInv, Standings, [Next]_vars PROVE Standings' /\ [GoesOn]_vars
  OBVIOUS
<1>1. CASE UNCHANGED vars
  <2>1. UNCHANGED <<stage, phaseshift, seen, sealed, batches, toEnclave, toApp, accepted, epoch>>
    BY <1>1 DEF vars, app, enclave
  <2>2. Registered'
    BY <2>1, SameRegistered DEF Standings
  <2>3. \A l \in Leavers : Standing(l)'
    BY <2>1 DEF Standings, Standing, InHand, Asked, Answered, IsAnswer
  <2>. QED  BY <1>1, <2>2, <2>3 DEF Standings
<1>2. CASE Delivery
  BY <1>2, ProofStands, ShiftStands, ErrorStands DEF Delivery
<1>. QED
  BY <1>1, <1>2, LeaveStands, ProgressStands, ServeStands, EpochStands DEF Next

LEMMA InitStands == Init => Standings
<1>. SUFFICES ASSUME Init PROVE Standings
  OBVIOUS
<1>1. Range(phaseshift) = {}
  BY DEF Init, Range
<1>2. Registered
  BY <1>1, FS_EmptySet DEF Init, Registered
<1>. QED  BY <1>2 DEF Init, Standings, Standing

(* Every call stands where its next step can reach it.                       *)
THEOREM CallsKeepStanding == Spec => [](IInv /\ Standings)
<1>. QED  BY InitStands, StepStands, Invariance, PTL DEF Spec

(* The safety part of LeaveEnds: a call that waits for its proof takes the   *)
(* next one, and its request, an error or a proof is on its way, or due at   *)
(* the end of the epoch; a call that waits for shifts is still registered    *)
(* and has fewer than four; and a call that withdraws has a chain left.      *)
Served ==
  \A l \in Leavers :
    /\ stage[l] = "exiting" => l \in once /\ InHand(l)
    /\ stage[l] = "sealing" => l \in Range(phaseshift) /\ Cardinality(seen[l]) < 4
    /\ stage[l] = "withdrawing" => \E c \in Chains : c \notin batches[l]

THEOREM EveryLeaveIsServed == Spec => []Served
<1>1. ASSUME IInv, Standings PROVE Served
  <2>. SUFFICES ASSUME NEW l \in Leavers
                PROVE  /\ stage[l] = "exiting" => l \in once /\ InHand(l)
                       /\ stage[l] = "sealing" =>
                            l \in Range(phaseshift) /\ Cardinality(seen[l]) < 4
                       /\ stage[l] = "withdrawing" => \E c \in Chains : c \notin batches[l]
    BY DEF Served
  <2>1. /\ Registered /\ Standing(l) /\ Waits(l) /\ batches[l] \subseteq Chains
        /\ Cardinality(seen[l]) \in Nat
    BY <1>1, FS_CardinalityType DEF IInv, Exits, Types, Standings, Counts, FourSeen
  <2>2. stage[l] = "exiting" => l \in once /\ InHand(l)
    BY <2>1 DEF Waits, Standing
  <2>3. ASSUME stage[l] = "sealing"
        PROVE  l \in Range(phaseshift) /\ Cardinality(seen[l]) < 4
    <3>1. /\ l \notin sealed /\ l \in Range(phaseshift)
          /\ Cardinality(seen[l]) # 4 /\ Cardinality(seen[l]) <= 4
      BY <2>1, <2>3 DEF Registered, Standing
    <3>. QED  BY <2>1, <3>1
  <2>4. stage[l] = "withdrawing" => \E c \in Chains : c \notin batches[l]
    BY <2>1 DEF Standing
  <2>. QED  BY <2>2, <2>3, <2>4
<1>. QED  BY <1>1, CallsKeepStanding, PTL

(* However emit() skips handlers while others take themselves off, a handler *)
(* counts exactly four epochs, no one twice, before it lets its call go on,  *)
(* and is called no more after that.                                         *)
ExactlyFour == \A l \in Leavers : /\ Cardinality(seen[l]) <= 4
                                  /\ l \in sealed <=> Cardinality(seen[l]) = 4
                                  /\ l \in sealed => l \notin Range(phaseshift)

THEOREM HandlersCountToFour == Spec => []ExactlyFour
<1>1. Standings => ExactlyFour
  BY DEF Standings, Registered, ExactlyFour
<1>. QED  BY <1>1, CallsKeepStanding, PTL

(* No call goes back: neither a late proof nor a late error nor another      *)
(* shift changes what a call that has gone on has achieved.                  *)
THEOREM CallsGoOn == Spec => [][GoesOn]_vars
<1>. QED  BY StepStands, CallsKeepStanding, PTL DEF Spec
==============================================================================

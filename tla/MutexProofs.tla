----------------------------- MODULE MutexProofs -----------------------------
(* That the mutex lets one session in at a time, for any number of callers  *)
(* and whatever the order of their continuations in the microtask queue,    *)
(* and that it is a fair lock: nobody who has joined the line is overtaken, *)
(* and no caller is ever forgotten.                                         *)
EXTENDS Mutex, FiniteSetTheorems, SequenceTheorems, TLAPS

(* Which continuations a caller at a stage may have in the queue.           *)
Fits(m, st) == \/ m.kind = "call" /\ st[m.caller] = "calling"
               \/ m.kind = "resume" /\ st[m.caller] \in {"calling", "waiting"}
               \/ m.kind = "enter" /\ st[m.caller] = "entering"
               \/ m.kind = "leave" /\ st[m.caller] = "leaving"

NotQueued(c, q) == \A i \in 1..Len(q) : q[i].caller # c
NotAwaiting(c, w) == \A i \in 1..Len(w) : w[i] # c
Free(c, q, w) == NotQueued(c, q) /\ NotAwaiting(c, w)

(* A queue, a line of waiters and the stages go together: every caller has  *)
(* one continuation at most, which fits its stage, or is in line once.      *)
Consistent(q, w, st) ==
  /\ q \in Seq(Microtasks) /\ w \in Seq(Callers) /\ st \in [Callers -> Stages]
  /\ \A i, j \in 1..Len(q) : q[i].caller = q[j].caller => i = j
  /\ \A i \in 1..Len(q) : Fits(q[i], st)
  /\ \A i, j \in 1..Len(w) : w[i] = w[j] => i = j
  /\ \A i \in 1..Len(w) : st[w[i]] = "waiting" /\ NotQueued(w[i], q)

(* The mutex is locked by the caller that is inside, or by nobody.          *)
Exclusive == /\ locked \in BOOLEAN /\ sessionId \in Callers \union {NoCaller}
             /\ \A c \in Callers : Inside(c) <=> Owned(c)

IInv == Consistent(microtasks, waiters, stage) /\ Exclusive /\ NoLostWakeup
-----------------------------------------------------------------------------
LEMMA MicrotaskType ==
  ASSUME NEW c \in Callers, NEW k \in Kinds
  PROVE  /\ Microtask(k, c) \in Microtasks
         /\ Microtask(k, c).kind = k /\ Microtask(k, c).caller = c
BY DEF Microtask, Microtasks

LEMMA StageIsFree ==
  ASSUME NEW q, NEW w, NEW st, Consistent(q, w, st),
         NEW c \in Callers, st[c] \in {"idle", "inside"}
  PROVE  Free(c, q, w)
BY DEF Consistent, Free, NotQueued, NotAwaiting, Fits, Stages

LEMMA Pop ==
  ASSUME NEW q, NEW w, NEW st, Consistent(q, w, st), q # <<>>,
         NEW c, Head(q).caller = c
  PROVE  Consistent(Tail(q), w, st) /\ Free(c, Tail(q), w)
<1> DEFINE t == Tail(q)
<1>1. q \in Seq(Microtasks) /\ Len(q) \in Nat \ {0}
  BY DEF Consistent
<1>2. /\ t \in Seq(Microtasks) /\ Len(t) = Len(q) - 1
      /\ \A i \in 1..Len(t) : i + 1 \in 1..Len(q) /\ t[i] = q[i + 1]
  BY <1>1
<1>3. Head(q) = q[1] /\ 1 \in 1..Len(q)
  BY <1>1
<1> HIDE DEF t
<1>4. NotQueued(c, t)
  BY <1>1, <1>2, <1>3 DEF Consistent, NotQueued
<1>5. NotAwaiting(c, w)
  BY <1>1, <1>3 DEF Consistent, NotQueued, NotAwaiting
<1>6. Consistent(t, w, st)
  <2>1. \A i, j \in 1..Len(t) : t[i].caller = t[j].caller => i = j
    <3>1. SUFFICES ASSUME NEW i \in 1..Len(t), NEW j \in 1..Len(t),
                          t[i].caller = t[j].caller
                   PROVE  i = j
      OBVIOUS
    <3>2. /\ i + 1 \in 1..Len(q) /\ j + 1 \in 1..Len(q)
          /\ q[i + 1].caller = q[j + 1].caller
      BY <1>2, <3>1
    <3>3. i + 1 = j + 1
      BY <3>2 DEF Consistent
    <3>4. QED
      BY <1>1, <1>2, <3>3
  <2>2. \A i \in 1..Len(t) : Fits(t[i], st)
    BY <1>2 DEF Consistent
  <2>3. \A i \in 1..Len(w) : NotQueued(w[i], t)
    BY <1>2 DEF Consistent, NotQueued
  <2>4. QED
    BY <1>2, <2>1, <2>2, <2>3 DEF Consistent
<1>7. QED
  BY <1>4, <1>5, <1>6 DEF Free, t

LEMMA Restage ==
  ASSUME NEW q, NEW w, NEW st, Consistent(q, w, st),
         NEW c \in Callers, Free(c, q, w), NEW s \in Stages
  PROVE  Consistent(q, w, [st EXCEPT ![c] = s])
<1> DEFINE st2 == [st EXCEPT ![c] = s]
<1>1. st2 \in [Callers -> Stages] /\ \A d \in Callers : d # c => st2[d] = st[d]
  BY DEF Consistent
<1> HIDE DEF st2
<1>2. \A i \in 1..Len(q) : q[i].caller \in Callers /\ q[i].caller # c
  <2>1. q \in Seq(Microtasks)
    BY DEF Consistent
  <2>2. \A i \in 1..Len(q) : q[i] \in Microtasks
    BY <2>1
  <2>3. \A i \in 1..Len(q) : q[i].caller \in Callers
    BY <2>2 DEF Microtasks
  <2>4. QED
    BY <2>3 DEF Free, NotQueued
<1>3. \A i \in 1..Len(q) : Fits(q[i], st2)
  BY <1>1, <1>2 DEF Consistent, Fits
<1>4. \A i \in 1..Len(w) : w[i] \in Callers /\ w[i] # c
  BY DEF Consistent, Free, NotAwaiting
<1>5. \A i \in 1..Len(w) : st2[w[i]] = "waiting"
  BY <1>1, <1>4 DEF Consistent
<1>6. Consistent(q, w, st2)
  BY <1>1, <1>3, <1>5 DEF Consistent
<1>7. QED
  BY <1>6 DEF st2

LEMMA Push ==
  ASSUME NEW q, NEW w, NEW st, Consistent(q, w, st),
         NEW c \in Callers, Free(c, q, w), NEW k \in Kinds, Fits(Microtask(k, c), st)
  PROVE  Consistent(Append(q, Microtask(k, c)), w, st)
<1> DEFINE m == Microtask(k, c)
           a == Append(q, m)
<1>1. m \in Microtasks /\ m.caller = c
  BY MicrotaskType
<1>2. q \in Seq(Microtasks) /\ Len(q) \in Nat
  BY DEF Consistent
<1> HIDE DEF m
<1>3. /\ a \in Seq(Microtasks) /\ Len(a) = Len(q) + 1
      /\ \A i \in 1..Len(q) : a[i] = q[i]
      /\ a[Len(q) + 1] = m
  BY <1>1, <1>2
<1>4. \A i \in 1..Len(a) : i \in 1..Len(q) \/ i = Len(q) + 1
  BY <1>2, <1>3
<1> HIDE DEF a
<1>5. \A i, j \in 1..Len(a) : a[i].caller = a[j].caller => i = j
  BY <1>1, <1>3, <1>4 DEF Consistent, Free, NotQueued
<1>6. \A i \in 1..Len(a) : Fits(a[i], st)
  BY <1>3, <1>4 DEF Consistent, m
<1>7. \A i \in 1..Len(w) : NotQueued(w[i], a)
  BY <1>1, <1>3, <1>4 DEF Consistent, Free, NotQueued, NotAwaiting
<1>8. Consistent(a, w, st)
  BY <1>3, <1>5, <1>6, <1>7 DEF Consistent
<1>9. QED
  BY <1>8 DEF a, m

LEMMA JoinLine ==
  ASSUME NEW q, NEW w, NEW st, Consistent(q, w, st),
         NEW c \in Callers, Free(c, q, w), st[c] = "waiting"
  PROVE  Consistent(q, Append(w, c), st)
<1> DEFINE a == Append(w, c)
<1>1. w \in Seq(Callers) /\ Len(w) \in Nat
  BY DEF Consistent
<1>2. /\ a \in Seq(Callers) /\ Len(a) = Len(w) + 1
      /\ \A i \in 1..Len(w) : a[i] = w[i]
      /\ a[Len(w) + 1] = c
  BY <1>1
<1>3. \A i \in 1..Len(a) : i \in 1..Len(w) \/ i = Len(w) + 1
  BY <1>1, <1>2
<1> HIDE DEF a
<1>4. \A i, j \in 1..Len(a) : a[i] = a[j] => i = j
  BY <1>2, <1>3 DEF Consistent, Free, NotAwaiting
<1>5. \A i \in 1..Len(a) : st[a[i]] = "waiting" /\ NotQueued(a[i], q)
  BY <1>2, <1>3 DEF Consistent, Free
<1>6. Consistent(q, a, st)
  BY <1>2, <1>4, <1>5 DEF Consistent
<1>7. QED
  BY <1>6 DEF a

(* unlock() wakes the whole line.                                           *)
LEMMA WakeLine ==
  ASSUME NEW q, NEW w, NEW st, Consistent(q, w, st)
  PROVE  Consistent(q \o MicrotasksOf("resume", w), <<>>, st)
<1> DEFINE r == MicrotasksOf("resume", w)
           a == q \o r
<1>1. q \in Seq(Microtasks) /\ Len(q) \in Nat /\ w \in Seq(Callers) /\ Len(w) \in Nat
  BY DEF Consistent
<1>2. \A i \in 1..Len(w) : /\ w[i] \in Callers
                           /\ Microtask("resume", w[i]) \in Microtasks
                           /\ Microtask("resume", w[i]).kind = "resume"
                           /\ Microtask("resume", w[i]).caller = w[i]
  BY <1>1, MicrotaskType DEF Kinds
<1>3. r \in Seq(Microtasks) /\ Len(r) = Len(w)
  BY <1>1, <1>2 DEF MicrotasksOf
<1>4. \A i \in 1..Len(w) : r[i] = Microtask("resume", w[i])
  BY DEF MicrotasksOf
<1> HIDE DEF r
<1>5. /\ a \in Seq(Microtasks) /\ Len(a) = Len(q) + Len(w)
      /\ \A i \in 1..Len(q) : a[i] = q[i]
      /\ \A i \in 1..Len(w) : a[Len(q) + i] = r[i]
  BY <1>1, <1>3
<1> HIDE DEF a
<1>6. \A i \in 1..Len(a) :
        \/ i \in 1..Len(q) /\ a[i] = q[i]
        \/ /\ i - Len(q) \in 1..Len(w)
           /\ a[i].kind = "resume" /\ a[i].caller = w[i - Len(q)]
  <2>1. TAKE i \in 1..Len(a)
  <2>2. CASE i <= Len(q)
    BY <1>1, <1>5, <2>2
  <2>3. CASE i > Len(q)
    <3>1. i - Len(q) \in 1..Len(w) /\ i = Len(q) + (i - Len(q))
      BY <1>1, <1>5, <2>3
    <3>2. QED
      BY ZenonT(30), <1>2, <1>4, <1>5, <3>1
  <2>4. QED
    BY <1>1, <2>2, <2>3
<1>7. \A i, j \in 1..Len(a) : a[i].caller = a[j].caller => i = j
  <2>1. SUFFICES ASSUME NEW i \in 1..Len(a), NEW j \in 1..Len(a), a[i].caller = a[j].caller
                 PROVE  i = j
    OBVIOUS
  <2>2. CASE i \in 1..Len(q) /\ j \in 1..Len(q)
    BY <1>5, <2>1, <2>2 DEF Consistent
  <2>3. CASE i \notin 1..Len(q) /\ j \notin 1..Len(q)
    <3>1. i - Len(q) \in 1..Len(w) /\ j - Len(q) \in 1..Len(w)
      BY <1>6, <2>3
    <3>2. w[i - Len(q)] = w[j - Len(q)]
      BY <1>6, <2>1, <2>3
    <3>3. i - Len(q) = j - Len(q)
      BY <3>1, <3>2 DEF Consistent
    <3>4. QED
      BY <1>1, <3>3
  <2>4. CASE i \in 1..Len(q) /\ j \notin 1..Len(q)
    <3>1. j - Len(q) \in 1..Len(w) /\ a[j].caller = w[j - Len(q)]
      BY <1>6, <2>4
    <3>2. NotQueued(w[j - Len(q)], q)
      BY <3>1 DEF Consistent
    <3>3. q[i].caller # w[j - Len(q)]
      BY <2>4, <3>2 DEF NotQueued
    <3>4. QED
      BY <1>5, <2>1, <2>4, <3>1, <3>3
  <2>5. CASE i \notin 1..Len(q) /\ j \in 1..Len(q)
    <3>1. i - Len(q) \in 1..Len(w) /\ a[i].caller = w[i - Len(q)]
      BY <1>6, <2>5
    <3>2. NotQueued(w[i - Len(q)], q)
      BY <3>1 DEF Consistent
    <3>3. q[j].caller # w[i - Len(q)]
      BY <2>5, <3>2 DEF NotQueued
    <3>4. QED
      BY <1>5, <2>1, <2>5, <3>1, <3>3
  <2>6. QED
    BY <2>2, <2>3, <2>4, <2>5
<1>8. \A i \in 1..Len(a) : Fits(a[i], st)
  BY SMTT(20), <1>6 DEF Consistent, Fits
<1>9. Consistent(a, <<>>, st)
  <2>1. <<>> \in Seq(Callers) /\ Len(<<>>) = 0
    OBVIOUS
  <2>2. QED
    BY <1>5, <1>7, <1>8, <2>1 DEF Consistent
<1>10. QED
  BY <1>9 DEF a, r
-----------------------------------------------------------------------------
LEMMA InitHolds == Init => IInv
<1> SUFFICES ASSUME Init PROVE IInv
  OBVIOUS
<1>1. Consistent(microtasks, waiters, stage)
  BY DEF Init, Consistent, Stages
<1>2. locked = FALSE /\ \A c \in Callers : stage[c] = "idle"
  BY DEF Init
<1>3. Exclusive
  BY <1>2, Zenon DEF Init, Exclusive, Inside, Owned
<1>4. QED
  BY <1>1, <1>3 DEF IInv, Init, NoLostWakeup

(* What a step of one caller does to who is inside.                         *)
LEMMA OthersStay ==
  ASSUME IInv, NEW c \in Callers, NEW s \in Stages, stage' = [stage EXCEPT ![c] = s],
         UNCHANGED <<locked, sessionId>>, Inside(c) <=> Inside(c)'
  PROVE  Exclusive'
<1>1. \A d \in Callers : d # c => stage'[d] = stage[d]
  BY DEF IInv, Consistent
<1>2. \A d \in Callers : Inside(d)' <=> Inside(d)
  BY <1>1 DEF Inside
<1>3. QED
  BY <1>2, Zenon DEF IInv, Exclusive, Owned

(* A continuation is put into the queue by a caller that has none there.    *)
LEMMA ScheduleKeeps ==
  ASSUME IInv, NEW c \in Callers, NEW s \in Stages, NEW k \in Kinds,
         \/ s = "calling" /\ k = "call" /\ stage[c] = "idle"
         \/ s = "leaving" /\ k = "leave" /\ stage[c] = "inside",
         stage' = [stage EXCEPT ![c] = s],
         microtasks' = Append(microtasks, Microtask(k, c)),
         UNCHANGED <<locked, sessionId, waiters>>
  PROVE  IInv'
<1>1. Free(c, microtasks, waiters)
  BY StageIsFree DEF IInv
<1>2. Consistent(microtasks, waiters, stage')
  BY <1>1, Restage DEF IInv
<1>3. stage'[c] = s
  BY DEF IInv, Consistent
<1>4. Fits(Microtask(k, c), stage')
  BY <1>3, MicrotaskType DEF Fits
<1>5. Consistent(microtasks', waiters', stage')
  BY <1>1, <1>2, <1>4, Push
<1>6. Exclusive'
  BY <1>3, OthersStay DEF Inside
<1>7. NoLostWakeup'
  BY DEF IInv, NoLostWakeup
<1>8. QED
  BY <1>5, <1>6, <1>7 DEF IInv

(* The caller at the head of the queue has nothing else to come.            *)
LEMMA NextIsFree ==
  ASSUME IInv, NEW c \in Callers, NEW k \in Kinds, IsNext(k, c)
  PROVE  /\ Consistent(Tail(microtasks), waiters, stage)
         /\ Free(c, Tail(microtasks), waiters)
         /\ Fits(Microtask(k, c), stage)
<1>1. Head(microtasks).caller = c
  BY MicrotaskType DEF IsNext
<1>2. Fits(Head(microtasks), stage)
  BY DEF IInv, Consistent, IsNext
<1>3. QED
  BY <1>1, <1>2, Pop DEF IInv, IsNext

(* lock() finds the mutex taken: get in line.                               *)
LEMMA WaitKeeps ==
  ASSUME IInv, NEW c \in Callers, IsNext("call", c) \/ IsNext("resume", c), locked,
         waiters' = Append(waiters, c), stage' = [stage EXCEPT ![c] = "waiting"],
         microtasks' = Tail(microtasks), UNCHANGED <<locked, sessionId>>
  PROVE  IInv'
<1>1. PICK k \in {"call", "resume"} : IsNext(k, c)
  OBVIOUS
<1>2. k \in Kinds /\ "waiting" \in Stages
  BY DEF Kinds, Stages
<1>3. /\ Consistent(Tail(microtasks), waiters, stage)
      /\ Free(c, Tail(microtasks), waiters)
      /\ Fits(Microtask(k, c), stage)
  BY <1>1, <1>2, NextIsFree
<1>4. stage[c] \in {"calling", "waiting"} /\ stage'[c] = "waiting"
  BY <1>2, <1>3, MicrotaskType DEF Fits, IInv, Consistent
<1>5. Consistent(microtasks', waiters, stage')
  BY <1>2, <1>3, Restage
<1>6. Consistent(microtasks', waiters', stage')
  BY <1>3, <1>4, <1>5, JoinLine
<1>7. Exclusive'
  BY <1>2, <1>4, OthersStay DEF Inside
<1>8. NoLostWakeup'
  BY DEF NoLostWakeup
<1>9. QED
  BY <1>6, <1>7, <1>8 DEF IInv

LEMMA RunCallKeeps ==
  ASSUME IInv, NEW c \in Callers, RunCall(c)
  PROVE  IInv'
<1>1. CASE locked
  BY <1>1, WaitKeeps DEF RunCall
<1>2. CASE ~locked
  <2>1. /\ IsNext("call", c) /\ microtasks' = Append(Tail(microtasks), Microtask("resume", c))
        /\ UNCHANGED <<locked, sessionId, waiters, stage>>
    BY <1>2 DEF RunCall
  <2>2. "call" \in Kinds /\ "resume" \in Kinds
    BY DEF Kinds
  <2>3. /\ Consistent(Tail(microtasks), waiters, stage)
        /\ Free(c, Tail(microtasks), waiters)
        /\ Fits(Microtask("call", c), stage)
    BY <2>1, <2>2, NextIsFree
  <2>4. Fits(Microtask("resume", c), stage)
    BY <2>2, <2>3, MicrotaskType DEF Fits
  <2>5. Consistent(microtasks', waiters', stage')
    BY <2>1, <2>2, <2>3, <2>4, Push
  <2>6. Exclusive' /\ NoLostWakeup'
    BY <2>1 DEF IInv, Exclusive, NoLostWakeup, Inside, Owned
  <2>7. QED
    BY <2>5, <2>6 DEF IInv
<1>3. QED
  BY <1>1, <1>2

LEMMA RunResumeKeeps ==
  ASSUME IInv, NEW c \in Callers, RunResume(c)
  PROVE  IInv'
<1>1. CASE locked
  BY <1>1, WaitKeeps DEF RunResume
<1>2. CASE ~locked
  <2>1. /\ IsNext("resume", c) /\ microtasks' = Append(Tail(microtasks), Microtask("enter", c))
        /\ stage' = [stage EXCEPT ![c] = "entering"]
        /\ locked' = TRUE /\ sessionId' = c /\ waiters' = waiters
    BY <1>2 DEF RunResume
  <2>2. "resume" \in Kinds /\ "enter" \in Kinds /\ "entering" \in Stages
    BY DEF Kinds, Stages
  <2>3. /\ Consistent(Tail(microtasks), waiters, stage)
        /\ Free(c, Tail(microtasks), waiters)
    BY <2>1, <2>2, NextIsFree
  <2>4. Consistent(Tail(microtasks), waiters, stage')
    BY <2>1, <2>2, <2>3, Restage
  <2>5. stage'[c] = "entering" /\ \A d \in Callers : d # c => stage'[d] = stage[d]
    BY <2>1 DEF IInv, Consistent
  <2>6. Fits(Microtask("enter", c), stage')
    BY <2>2, <2>5, MicrotaskType DEF Fits
  <2>7. Consistent(microtasks', waiters', stage')
    BY <2>1, <2>2, <2>3, <2>4, <2>6, Push
  <2>8. \A d \in Callers : ~Inside(d)
    BY <1>2 DEF IInv, Exclusive, Owned
  <2>9. \A d \in Callers : Inside(d)' <=> d = c
    BY <2>5, <2>8 DEF Inside
  <2>10. Exclusive' /\ NoLostWakeup'
    BY <2>1, <2>9, Zenon DEF Exclusive, NoLostWakeup, Owned
  <2>11. QED
    BY <2>7, <2>10 DEF IInv
<1>3. QED
  BY <1>1, <1>2

LEMMA RunEnterKeeps ==
  ASSUME IInv, NEW c \in Callers, RunEnter(c)
  PROVE  IInv'
<1>1. /\ IsNext("enter", c) /\ microtasks' = Tail(microtasks)
      /\ stage' = [stage EXCEPT ![c] = "inside"]
      /\ UNCHANGED <<locked, sessionId, waiters>>
  BY DEF RunEnter
<1>2. "enter" \in Kinds /\ "inside" \in Stages
  BY DEF Kinds, Stages
<1>3. /\ Consistent(Tail(microtasks), waiters, stage)
      /\ Free(c, Tail(microtasks), waiters)
      /\ Fits(Microtask("enter", c), stage)
  BY <1>1, <1>2, NextIsFree
<1>4. Consistent(microtasks', waiters', stage')
  BY <1>1, <1>2, <1>3, Restage
<1>5. stage[c] = "entering" /\ stage'[c] = "inside"
  BY <1>1, <1>2, <1>3, MicrotaskType DEF Fits, IInv, Consistent
<1>6. Exclusive'
  BY <1>1, <1>2, <1>5, OthersStay DEF Inside
<1>7. NoLostWakeup'
  BY <1>1 DEF IInv, NoLostWakeup
<1>8. QED
  BY <1>4, <1>6, <1>7 DEF IInv

LEMMA RunLeaveKeeps ==
  ASSUME IInv, NEW c \in Callers, RunLeave(c)
  PROVE  IInv'
<1>1. /\ IsNext("leave", c) /\ Owned(c) /\ stage' = [stage EXCEPT ![c] = "idle"]
      /\ microtasks' = Tail(microtasks) \o MicrotasksOf("resume", waiters)
      /\ waiters' = <<>> /\ locked' = FALSE /\ sessionId' = sessionId
  BY DEF RunLeave
<1>2. "leave" \in Kinds /\ "idle" \in Stages
  BY DEF Kinds, Stages
<1>3. /\ Consistent(Tail(microtasks), waiters, stage)
      /\ Free(c, Tail(microtasks), waiters)
  BY <1>1, <1>2, NextIsFree
<1>4. Consistent(Tail(microtasks), waiters, stage')
  BY <1>1, <1>2, <1>3, Restage
<1>5. Consistent(microtasks', waiters', stage')
  BY <1>1, <1>4, WakeLine
<1>6. stage'[c] = "idle" /\ \A d \in Callers : d # c => stage'[d] = stage[d]
  BY <1>1 DEF IInv, Consistent
<1>7. \A d \in Callers : Inside(d) => d = c
  BY <1>1, Zenon DEF IInv, Exclusive, Owned
<1>8. \A d \in Callers : ~Inside(d)'
  BY <1>6, <1>7 DEF Inside
<1>9. Exclusive' /\ NoLostWakeup'
  BY <1>1, <1>8, Zenon DEF IInv, Exclusive, NoLostWakeup, Owned
<1>10. QED
  BY <1>5, <1>9 DEF IInv

LEMMA StepKeeps == IInv /\ [Next]_vars => IInv'
<1> SUFFICES ASSUME IInv, [Next]_vars PROVE IInv'
  OBVIOUS
<1>1. CASE UNCHANGED vars
  BY <1>1 DEF vars, IInv, Exclusive, NoLostWakeup, Inside, Owned
<1>2. ASSUME NEW c \in Callers, ScheduleCall(c) PROVE IInv'
  <2>1. "calling" \in Stages /\ "call" \in Kinds
    BY DEF Stages, Kinds
  <2>2. QED
    BY <1>2, <2>1, ScheduleKeeps DEF ScheduleCall
<1>3. ASSUME NEW c \in Callers, SettleSession(c) PROVE IInv'
  <2>1. "leaving" \in Stages /\ "leave" \in Kinds
    BY DEF Stages, Kinds
  <2>2. QED
    BY <1>3, <2>1, ScheduleKeeps DEF SettleSession
<1>4. QED
  BY <1>1, <1>2, <1>3, RunCallKeeps, RunResumeKeeps, RunEnterKeeps, RunLeaveKeeps
     DEF Next, RunMicrotask
-----------------------------------------------------------------------------
(* Each caller is in one place only: the queue, the line or the session.    *)
THEOREM Invariance == Spec => []IInv
<1>1. QED
  BY InitHolds, StepKeeps, PTL DEF Spec

(* However many callers are woken at once, one of them gets the lock.       *)
THEOREM OneAtATime == Spec => []MutualExclusion
<1>1. IInv => MutualExclusion
  BY DEF IInv, Exclusive, Owned, MutualExclusion
<1>2. QED
  BY <1>1, Invariance, PTL

(* unlock() in the finally block of session() never finds another's lock,   *)
(* and leaves nobody waiting for a promise that is settled.                 *)
THEOREM UnlockIsSafe == Spec => [](UnlockOwned /\ NoLostWakeup)
<1>1. IInv => UnlockOwned /\ NoLostWakeup
  BY DEF IInv, Exclusive, UnlockOwned, Inside
<1>2. QED
  BY <1>1, Invariance, PTL
-----------------------------------------------------------------------------
(* The woken callers, as LineOf takes them from a queue and the stages.      *)
WokenIn(m, st) == m.kind = "resume" /\ st[m.caller] = "waiting"
Line(q, w, st) ==
  LET at == {i \in DOMAIN q : WokenIn(q[i], st)}
      ahead == {i \in DOMAIN q : \A j \in at : i < j}
      n == Cardinality(ahead)
  IN  w \o [i \in 1..Cardinality(at) |-> q[n + i].caller]

(* They stand in the queue from a + 1 to b, behind callers that have yet to  *)
(* begin lock(), and in front of everybody once the mutex is locked again.   *)
Block(a, b, q, st, lk) ==
  /\ a <= b /\ b <= Len(q)
  /\ \A i \in 1..Len(q) : WokenIn(q[i], st) <=> a < i /\ i <= b
  /\ a < b => \A i \in 1..a : q[i].kind = "call"
  /\ lk /\ a < b => a = 0

(* The callers of such a block, in the order of the queue.                   *)
Part(q, a, b) == [i \in 1..(b - a) |-> q[a + i].caller]

LEMMA QueueTypes ==
  ASSUME NEW q \in Seq(Microtasks)
  PROVE  /\ Len(q) \in Nat /\ DOMAIN q = 1..Len(q)
         /\ \A i \in 1..Len(q) : q[i].kind \in Kinds /\ q[i].caller \in Callers
<1>1. \A i \in 1..Len(q) : q[i] \in Microtasks
  OBVIOUS
<1>2. \A m \in Microtasks : m.kind \in Kinds /\ m.caller \in Callers
  BY DEF Microtasks
<1>3. QED
  BY <1>1, <1>2

LEMMA PartType ==
  ASSUME NEW q \in Seq(Microtasks), NEW a \in Nat, NEW b \in Nat, a <= b, b <= Len(q)
  PROVE  /\ Part(q, a, b) \in Seq(Callers) /\ Len(Part(q, a, b)) = b - a
         /\ \A i \in 1..(b - a) : Part(q, a, b)[i] = q[a + i].caller
<1>1. \A i \in 1..(b - a) : a + i \in 1..Len(q)
  BY QueueTypes
<1>2. \A i \in 1..(b - a) : q[a + i].caller \in Callers
  BY <1>1, QueueTypes
<1>3. b - a \in Nat
  OBVIOUS
<1>4. QED
  BY <1>2, <1>3 DEF Part

LEMMA LineIs ==
  ASSUME NEW q \in Seq(Microtasks), NEW w, NEW st, NEW lk,
         NEW a \in Nat, NEW b \in Nat, Block(a, b, q, st, lk)
  PROVE  Line(q, w, st) = w \o Part(q, a, b)
<1> DEFINE at == {i \in DOMAIN q : WokenIn(q[i], st)}
           ahead == {i \in DOMAIN q : \A j \in at : i < j}
<1>1. Len(q) \in Nat /\ DOMAIN q = 1..Len(q) /\ a <= b /\ b <= Len(q)
  BY QueueTypes DEF Block
<1>2. at = (a + 1)..b
  <2>1. \A i \in 1..Len(q) : i \in at <=> a < i /\ i <= b
    BY <1>1 DEF Block
  <2>2. at \subseteq 1..Len(q)
    BY <1>1
  <2> HIDE DEF at
  <2>3. \A i \in (a + 1)..b : i \in 1..Len(q) /\ a < i /\ i <= b
    BY <1>1
  <2>4. \A i \in 1..Len(q) : a < i /\ i <= b => i \in (a + 1)..b
    BY <1>1
  <2>5. \A i : i \in at <=> i \in (a + 1)..b
    BY ONLY <2>1, <2>2, <2>3, <2>4, Zenon
  <2>6. QED
    BY ONLY <2>5, Zenon
<1>3. Cardinality(at) = b - a
  <2>1. a + 1 \in Int /\ b \in Int
    OBVIOUS
  <2>2. Cardinality((a + 1)..b) = IF a + 1 > b THEN 0 ELSE b - (a + 1) + 1
    BY <2>1, FS_Interval
  <2> HIDE DEF at
  <2>3. Cardinality(at) = Cardinality((a + 1)..b)
    BY <1>2
  <2>4. QED
    BY <1>1, <2>2, <2>3
<1>4. a < b => Cardinality(ahead) = a
  <2>1. SUFFICES ASSUME a < b PROVE Cardinality(ahead) = a
    OBVIOUS
  <2>2. ahead = 1..a
    BY <1>1, <1>2, <2>1
  <2>3. Cardinality(1..a) = IF 1 > a THEN 0 ELSE a - 1 + 1
    BY 1 \in Int, a \in Int, FS_Interval
  <2> HIDE DEF ahead
  <2>4. Cardinality(ahead) = Cardinality(1..a)
    BY <2>2
  <2>5. QED
    BY <2>1, <2>3, <2>4
<1>5. Line(q, w, st) = w \o [i \in 1..Cardinality(at) |-> q[Cardinality(ahead) + i].caller]
  BY DEF Line
<1> HIDE DEF at, ahead
<1>6. [i \in 1..Cardinality(at) |-> q[Cardinality(ahead) + i].caller] = Part(q, a, b)
  <2>1. CASE a < b
    BY <1>3, <1>4, <2>1 DEF Part
  <2>2. CASE ~(a < b)
    <3>1. 1..Cardinality(at) = {} /\ 1..(b - a) = {}
      BY <1>1, <1>3, <2>2
    <3>2. QED
      BY <3>1 DEF Part
  <2>3. QED
    BY <2>1, <2>2
<1>7. QED
  BY <1>5, <1>6

LEMMA NoBlock ==
  ASSUME NEW q \in Seq(Microtasks), NEW st, NEW a \in Nat, NEW lk,
         \A i \in 1..Len(q) : ~WokenIn(q[i], st)
  PROVE  /\ Block(0, 0, q, st, lk) /\ Part(q, a, a) = <<>>
         /\ \A w \in Seq(Callers) : Line(q, w, st) = w
<1>1. Len(q) \in Nat
  BY QueueTypes
<1>2. Block(0, 0, q, st, lk)
  BY <1>1 DEF Block
<1>3. \A n \in Nat : 1..(n - n) = {}
  OBVIOUS
<1>4. \A n \in Nat : Part(q, n, n) = <<>>
  BY <1>3 DEF Part
<1>5. ASSUME NEW w \in Seq(Callers) PROVE Line(q, w, st) = w
  <2>1. Line(q, w, st) = w \o Part(q, 0, 0)
    BY <1>2, LineIs
  <2>2. Part(q, 0, 0) = <<>>
    BY <1>4
  <2>3. QED
    BY <2>1, <2>2, ConcatEmptySeq
<1>6. QED
  BY <1>2, <1>4, <1>5

(* Nobody is about to check the lock, or nobody behind one who has taken it. *)
NoResume(q) == \A i \in 1..Len(q) : q[i].kind # "resume"
EnterLast(q) == \A i, j \in 1..Len(q) : q[i].kind = "enter" /\ q[j].kind = "resume" => j < i

(* Who is nowhere in the queue may change stage.                             *)
LEMMA BlockRestage ==
  ASSUME NEW q \in Seq(Microtasks), NEW w, NEW st \in [Callers -> Stages], NEW lk,
         NEW a \in Nat, NEW b \in Nat, Block(a, b, q, st, lk),
         NEW c \in Callers, NotQueued(c, q), NEW s \in Stages
  PROVE  Block(a, b, q, [st EXCEPT ![c] = s], lk)
<1> DEFINE st2 == [st EXCEPT ![c] = s]
<1>1. \A d \in Callers : d # c => st2[d] = st[d]
  OBVIOUS
<1>2. \A i \in 1..Len(q) : q[i].caller \in Callers /\ q[i].caller # c
  BY QueueTypes DEF NotQueued
<1> HIDE DEF st2
<1>3. \A i \in 1..Len(q) : WokenIn(q[i], st2) <=> WokenIn(q[i], st)
  BY <1>1, <1>2 DEF WokenIn
<1>4. Block(a, b, q, st2, lk)
  BY <1>3 DEF Block
<1>5. QED
  BY <1>4 DEF st2

(* Who is not woken may be appended.                                         *)
LEMMA BlockAppend ==
  ASSUME NEW q \in Seq(Microtasks), NEW st, NEW lk,
         NEW a \in Nat, NEW b \in Nat, Block(a, b, q, st, lk),
         NEW m \in Microtasks, ~WokenIn(m, st)
  PROVE  /\ Append(q, m) \in Seq(Microtasks)
         /\ Block(a, b, Append(q, m), st, lk)
         /\ Part(Append(q, m), a, b) = Part(q, a, b)
<1> DEFINE t == Append(q, m)
<1>1. Len(q) \in Nat /\ a <= b /\ b <= Len(q)
  BY QueueTypes DEF Block
<1>2. /\ t \in Seq(Microtasks) /\ Len(t) = Len(q) + 1
      /\ \A i \in 1..Len(q) : t[i] = q[i]
      /\ t[Len(q) + 1] = m
  OBVIOUS
<1> HIDE DEF t
<1>3. \A i \in 1..Len(t) : i \in 1..Len(q) \/ (i = Len(q) + 1 /\ ~(i <= b))
  BY <1>1, <1>2
<1>4. \A i \in 1..Len(t) : WokenIn(t[i], st) <=> a < i /\ i <= b
  BY <1>2, <1>3 DEF Block
<1>5. a < b => \A i \in 1..a : t[i].kind = "call"
  BY <1>1, <1>2 DEF Block
<1>6. Block(a, b, t, st, lk)
  BY <1>1, <1>2, <1>4, <1>5 DEF Block
<1>7. Part(t, a, b) = Part(q, a, b)
  <2>1. \A i \in 1..(b - a) : a + i \in 1..Len(q)
    BY <1>1
  <2>2. \A i \in 1..(b - a) : t[a + i].caller = q[a + i].caller
    BY <1>2, <2>1
  <2>3. QED
    BY <2>2 DEF Part
<1>8. QED
  BY <1>2, <1>6, <1>7 DEF t

LEMMA TailOfQueue ==
  ASSUME NEW q \in Seq(Microtasks), q # <<>>
  PROVE  /\ Tail(q) \in Seq(Microtasks) /\ Len(q) \in Nat \ {0} /\ Len(Tail(q)) = Len(q) - 1
         /\ \A i \in 1..Len(Tail(q)) : i + 1 \in 1..Len(q) /\ Tail(q)[i] = q[i + 1]
         /\ 1 \in 1..Len(q) /\ Head(q) = q[1]
         /\ EnterLast(q) => EnterLast(Tail(q))
         /\ EnterLast(q) /\ Head(q).kind = "enter" => NoResume(Tail(q))
         /\ NoResume(q) => NoResume(Tail(q))
<1> DEFINE t == Tail(q)
<1>1. /\ t \in Seq(Microtasks) /\ Len(q) \in Nat \ {0} /\ Len(t) = Len(q) - 1
      /\ \A i \in 1..Len(t) : i + 1 \in 1..Len(q) /\ t[i] = q[i + 1]
      /\ 1 \in 1..Len(q) /\ Head(q) = q[1]
  OBVIOUS
<1> HIDE DEF t
<1>2. ASSUME EnterLast(q) PROVE EnterLast(t)
  <2>1. SUFFICES ASSUME NEW i \in 1..Len(t), NEW j \in 1..Len(t),
                        t[i].kind = "enter", t[j].kind = "resume"
                 PROVE  j < i
    BY DEF EnterLast
  <2>2. /\ i + 1 \in 1..Len(q) /\ j + 1 \in 1..Len(q)
        /\ q[i + 1].kind = "enter" /\ q[j + 1].kind = "resume"
    BY <1>1, <2>1
  <2>3. j + 1 < i + 1
    BY <1>2, <2>2 DEF EnterLast
  <2>4. QED
    BY <2>3
<1>3. ASSUME EnterLast(q), Head(q).kind = "enter" PROVE NoResume(t)
  <2>1. SUFFICES ASSUME NEW j \in 1..Len(t), t[j].kind = "resume" PROVE FALSE
    BY DEF NoResume
  <2>2. j + 1 \in 1..Len(q) /\ q[j + 1].kind = "resume" /\ q[1].kind = "enter"
    BY <1>1, <1>3, <2>1
  <2>3. j + 1 < 1
    BY <1>1, <1>3, <2>2 DEF EnterLast
  <2>4. QED
    BY <1>1, <2>3
<1>4. NoResume(q) => NoResume(t)
  BY <1>1 DEF NoResume
<1>5. QED
  BY <1>1, <1>2, <1>3, <1>4 DEF t

(* The head of the queue, in front of the woken ones, is served.             *)
LEMMA BlockTail ==
  ASSUME NEW q \in Seq(Microtasks), q # <<>>, NEW st, NEW lk,
         NEW a \in Nat, NEW b \in Nat, Block(a, b, q, st, lk), a < b, a # 0
  PROVE  /\ a - 1 \in Nat /\ b - 1 \in Nat
         /\ Block(a - 1, b - 1, Tail(q), st, lk)
         /\ Part(Tail(q), a - 1, b - 1) = Part(q, a, b)
<1> DEFINE t == Tail(q)
<1>1. /\ t \in Seq(Microtasks) /\ Len(q) \in Nat \ {0} /\ Len(t) = Len(q) - 1
      /\ \A i \in 1..Len(t) : i + 1 \in 1..Len(q) /\ t[i] = q[i + 1]
  BY TailOfQueue
<1>2. b <= Len(q) /\ a - 1 \in Nat /\ b - 1 \in Nat /\ (b - 1) - (a - 1) = b - a
  BY DEF Block
<1> HIDE DEF t
<1>3. ASSUME NEW i \in 1..Len(t) PROVE WokenIn(t[i], st) <=> a - 1 < i /\ i <= b - 1
  <2>1. WokenIn(q[i + 1], st) <=> a < i + 1 /\ i + 1 <= b
    BY <1>1, <1>3 DEF Block
  <2>2. (a < i + 1 <=> a - 1 < i) /\ (i + 1 <= b <=> i <= b - 1)
    OBVIOUS
  <2>3. QED
    BY <1>1, <2>1, <2>2
<1>4. ASSUME NEW i \in 1..(a - 1) PROVE t[i].kind = "call"
  <2>1. i \in 1..Len(t) /\ i + 1 \in 1..a
    BY <1>1, <1>2, <1>4
  <2>2. QED
    BY <1>1, <2>1 DEF Block
<1>5. ~lk
  BY DEF Block
<1>6. Block(a - 1, b - 1, t, st, lk)
  BY <1>1, <1>2, <1>3, <1>4, <1>5 DEF Block
<1>7. Part(t, a - 1, b - 1) = Part(q, a, b)
  <2>1. ASSUME NEW i \in 1..(b - a) PROVE t[(a - 1) + i].caller = q[a + i].caller
    <3>1. (a - 1) + i \in 1..Len(t) /\ ((a - 1) + i) + 1 = a + i
      BY <1>1, <1>2, <2>1
    <3>2. QED
      BY <1>1, <3>1
  <2>2. QED
    BY <1>2, <2>1 DEF Part
<1>8. QED
  BY <1>2, <1>6, <1>7 DEF t

(* The first of the woken ones rechecks.                                     *)
LEMMA BlockFirst ==
  ASSUME NEW q \in Seq(Microtasks), q # <<>>, NEW st, NEW lk,
         NEW b \in Nat, Block(0, b, q, st, lk), 0 < b
  PROVE  /\ b - 1 \in Nat
         /\ \A l : Block(0, b - 1, Tail(q), st, l)
         /\ Part(q, 0, b) = <<Head(q).caller>> \o Part(Tail(q), 0, b - 1)
         /\ Head(q).caller \in Callers
<1> DEFINE t == Tail(q)
<1>1. /\ t \in Seq(Microtasks) /\ Len(q) \in Nat \ {0} /\ Len(t) = Len(q) - 1
      /\ \A i \in 1..Len(t) : i + 1 \in 1..Len(q) /\ t[i] = q[i + 1]
      /\ 1 \in 1..Len(q) /\ Head(q) = q[1]
  BY TailOfQueue
<1>2. b <= Len(q) /\ b - 1 \in Nat
  BY DEF Block
<1> HIDE DEF t
<1>3. ASSUME NEW i \in 1..Len(t) PROVE WokenIn(t[i], st) <=> 0 < i /\ i <= b - 1
  <2>1. WokenIn(q[i + 1], st) <=> 0 < i + 1 /\ i + 1 <= b
    BY <1>1, <1>3 DEF Block
  <2>2. (0 < i + 1 /\ 0 < i) /\ (i + 1 <= b <=> i <= b - 1)
    BY <1>1, <1>2
  <2>3. QED
    BY <1>1, <2>1, <2>2
<1>4. ASSUME NEW l PROVE Block(0, b - 1, t, st, l)
  BY <1>1, <1>2, <1>3 DEF Block
<1>5. Head(q).caller \in Callers
  BY <1>1, QueueTypes
<1>6. Part(q, 0, b) = <<Head(q).caller>> \o Part(t, 0, b - 1)
  <2> DEFINE s == Part(q, 0, b)
             h == <<Head(q).caller>>
             r == Part(t, 0, b - 1)
  <2>0. ASSUME NEW p \in Seq(Microtasks), NEW n \in Nat, n <= Len(p)
        PROVE  LET x == Part(p, 0, n) IN
                 x \in Seq(Callers) /\ Len(x) = n /\ \A i \in 1..n : x[i] = p[i].caller
    <3> DEFINE x == Part(p, 0, n)
    <3>1. x \in Seq(Callers) /\ Len(x) = n - 0 /\ \A i \in 1..(n - 0) : x[i] = p[0 + i].caller
      <4>1. /\ p \in Seq(Microtasks) /\ 0 \in Nat /\ n \in Nat
            /\ 0 <= n /\ n <= Len(p)
        BY <2>0
      <4>2. QED
        BY ONLY <4>1, PartType
    <3> HIDE DEF x
    <3>2. n - 0 = n /\ \A i \in 1..n : 0 + i = i
      OBVIOUS
    <3>3. x \in Seq(Callers) /\ Len(x) = n /\ \A i \in 1..n : x[i] = p[i].caller
      BY <3>1, <3>2
    <3>4. QED
      BY <3>3 DEF x
  <2>1. s \in Seq(Callers) /\ Len(s) = b /\ \A i \in 1..b : s[i] = q[i].caller
    BY <1>1, <1>2, <2>0
  <2>2. r \in Seq(Callers) /\ Len(r) = b - 1 /\ \A i \in 1..(b - 1) : r[i] = t[i].caller
    <3>1. b - 1 <= Len(t)
      BY <1>1, <1>2
    <3>2. QED
      BY <1>1, <1>2, <2>0, <3>1
  <2>3. h \in Seq(Callers) /\ Len(h) = 1 /\ h[1] = q[1].caller
    BY <1>1, <1>5
  <2> HIDE DEF s, h, r
  <2>4. /\ h \o r \in Seq(Callers) /\ Len(h \o r) = b
        /\ \A i \in 1..b : (h \o r)[i] = IF i <= 1 THEN h[i] ELSE r[i - 1]
    <3> DEFINE x == h \o r
    <3>1. /\ x \in Seq(Callers) /\ Len(x) = Len(h) + Len(r)
          /\ \A i \in 1..(Len(h) + Len(r)) : x[i] = IF i <= Len(h) THEN h[i] ELSE r[i - Len(h)]
      BY ONLY <2>2, <2>3, ConcatProperties, Zenon
    <3>2. Len(h) + Len(r) = b
      BY <1>2, <2>2, <2>3
    <3> HIDE DEF x
    <3>3. QED
      BY <2>3, <3>1, <3>2 DEF x
  <2>5. ASSUME NEW i \in 1..b PROVE s[i] = (h \o r)[i]
    <3>1. CASE i = 1
      BY <2>1, <2>3, <2>4, <3>1
    <3>2. CASE i # 1
      <4>1. i - 1 \in 1..(b - 1) /\ i - 1 \in 1..Len(t) /\ (i - 1) + 1 = i /\ ~(i <= 1)
        BY <1>1, <1>2, <2>5, <3>2
      <4>2. s[i] = q[i].caller /\ (h \o r)[i] = t[i - 1].caller
        BY <2>1, <2>2, <2>4, <2>5, <4>1
      <4>3. t[i - 1] = q[i]
        BY <1>1, <4>1
      <4>4. QED
        BY <4>2, <4>3
    <3>3. QED
      BY <3>1, <3>2
  <2>6. s = h \o r
    BY <2>1, <2>4, <2>5, SeqEqual
  <2>7. QED
    BY <2>6 DEF s, h, r
<1>7. QED
  BY <1>2, <1>4, <1>5, <1>6 DEF t

(* unlock() puts the line of waiters behind the calls that are queued.       *)
LEMMA BlockWoken ==
  ASSUME NEW q \in Seq(Microtasks), NEW w \in Seq(Callers), NEW st,
         \A i \in 1..Len(q) : q[i].kind = "call",
         \A i \in 1..Len(w) : st[w[i]] = "waiting"
  PROVE  LET r == q \o MicrotasksOf("resume", w) IN
           /\ r \in Seq(Microtasks)
           /\ Block(Len(q), Len(r), r, st, FALSE)
           /\ Part(r, Len(q), Len(r)) = w
           /\ EnterLast(r)
<1> DEFINE u == MicrotasksOf("resume", w)
           r == q \o u
<1>1. Len(q) \in Nat /\ Len(w) \in Nat /\ \A i \in 1..Len(w) : w[i] \in Callers
  BY QueueTypes
<1>2. u = [i \in 1..Len(w) |-> Microtask("resume", w[i])]
  BY DEF MicrotasksOf
<1>3. \A i \in 1..Len(w) : /\ Microtask("resume", w[i]) \in Microtasks
                           /\ Microtask("resume", w[i]).kind = "resume"
                           /\ Microtask("resume", w[i]).caller = w[i]
  BY <1>1, MicrotaskType DEF Kinds
<1>4. /\ u \in Seq(Microtasks) /\ Len(u) = Len(w)
      /\ \A i \in 1..Len(w) : u[i].kind = "resume" /\ u[i].caller = w[i]
  BY <1>1, <1>2, <1>3
<1> HIDE DEF u
<1>5. /\ r \in Seq(Microtasks) /\ Len(r) = Len(q) + Len(w)
      /\ \A i \in 1..Len(r) : r[i] = IF i <= Len(q) THEN q[i] ELSE u[i - Len(q)]
  <2>1. /\ r \in Seq(Microtasks) /\ Len(r) = Len(q) + Len(u)
        /\ \A i \in 1..(Len(q) + Len(u)) : r[i] = IF i <= Len(q) THEN q[i] ELSE u[i - Len(q)]
    <3>1. q \in Seq(Microtasks) /\ u \in Seq(Microtasks)
      BY <1>4
    <3>2. QED
      BY ONLY <3>1, ConcatProperties, Zenon DEF r
  <2> HIDE DEF r
  <2>2. QED
    BY <1>4, <2>1
<1> HIDE DEF r
<1>6. \A i \in 1..Len(q) : i \in 1..Len(r) /\ r[i].kind = "call"
  BY <1>1, <1>5
<1>7. ASSUME NEW i \in 1..Len(r), ~(i <= Len(q))
      PROVE  i - Len(q) \in 1..Len(w) /\ r[i].kind = "resume" /\ r[i].caller = w[i - Len(q)]
  <2>1. i - Len(q) \in 1..Len(w)
    BY <1>1, <1>5, <1>7
  <2>2. QED
    BY <1>4, <1>5, <1>7, <2>1
<1>8. ASSUME NEW i \in 1..Len(r)
      PROVE  /\ r[i].kind \in {"call", "resume"}
             /\ WokenIn(r[i], st) <=> Len(q) < i /\ i <= Len(r)
  <2>1. CASE i <= Len(q)
    <3>1. i \in 1..Len(q) /\ ~(Len(q) < i)
      BY <1>1, <2>1
    <3>2. QED
      BY <1>6, <3>1 DEF WokenIn
  <2>2. CASE ~(i <= Len(q))
    <3>1. Len(q) < i /\ i <= Len(r)
      BY <1>1, <1>5, <2>2
    <3>2. QED
      BY <1>7, <2>2, <3>1 DEF WokenIn
  <2>3. QED
    BY <2>1, <2>2
<1>9. Block(Len(q), Len(r), r, st, FALSE)
  BY <1>1, <1>5, <1>6, <1>8 DEF Block
<1>10. Part(r, Len(q), Len(r)) = w
  <2> DEFINE p == Part(r, Len(q), Len(r))
  <2>1. /\ p \in Seq(Callers) /\ Len(p) = Len(w)
        /\ \A i \in 1..Len(w) : p[i] = r[Len(q) + i].caller
    <3>1. Len(r) \in Nat /\ Len(q) <= Len(r) /\ Len(r) - Len(q) = Len(w)
      BY <1>1, <1>5
    <3>2. /\ p \in Seq(Callers) /\ Len(p) = Len(r) - Len(q)
          /\ \A i \in 1..(Len(r) - Len(q)) : p[i] = r[Len(q) + i].caller
      <4> DEFINE n == Len(q)
                 k == Len(r)
      <4>1. n \in Nat /\ k \in Nat /\ n <= k /\ k <= Len(r) /\ r \in Seq(Microtasks)
        BY <1>1, <1>5, <3>1
      <4>2. p = Part(r, n, k)
        OBVIOUS
      <4> HIDE DEF n, k, p
      <4>3. /\ p \in Seq(Callers) /\ Len(p) = k - n
            /\ \A i \in 1..(k - n) : p[i] = r[n + i].caller
        BY ONLY <4>1, <4>2, PartType
      <4>4. QED
        BY <4>3 DEF n, k
    <3> HIDE DEF p
    <3>3. QED
      BY <3>1, <3>2
  <2> HIDE DEF p
  <2>2. ASSUME NEW i \in 1..Len(w) PROVE p[i] = w[i]
    <3>1. Len(q) + i \in 1..Len(r) /\ ~(Len(q) + i <= Len(q)) /\ (Len(q) + i) - Len(q) = i
      BY <1>1, <1>5, <2>2
    <3>2. QED
      BY <1>7, <2>1, <3>1
  <2>3. QED
    BY <2>1, <2>2, SeqEqual DEF p
<1>11. EnterLast(r)
  BY <1>8 DEF EnterLast
<1>12. QED
  BY <1>5, <1>9, <1>10, <1>11 DEF r, u

(* The woken callers stand together in the queue, no caller rechecks the lock *)
(* after one that has taken it, and none while another is inside: then who    *)
(* rechecks next is the head of the line.                                     *)
Order ==
  /\ \E a, b \in Nat : Block(a, b, microtasks, stage, locked)
  /\ EnterLast(microtasks)
  /\ \A c \in Callers : stage[c] \in {"inside", "leaving"} => NoResume(microtasks)
  /\ locked => sessionId \in Callers

(* The variables of FairLock in the state of the mutex, and its steps.       *)
Holder == IF locked THEN sessionId ELSE NoCaller
Arriving == {c \in Callers : stage[c] = "calling"}
Implements == [FairQueue!Next]_(FairQueue!lockVars)

(* LineOf is Line, before and after a step.                                  *)
LEMMA LineDef == /\ LineOf = Line(microtasks, waiters, stage)
                 /\ LineOf' = Line(microtasks', waiters', stage')
BY DEF LineOf, Line, WokenAt, Ahead, Woken, WokenIn

LEMMA LineNow ==
  ASSUME microtasks \in Seq(Microtasks), NEW lk, NEW a \in Nat, NEW b \in Nat,
         Block(a, b, microtasks, stage, lk)
  PROVE  LineOf = waiters \o Part(microtasks, a, b)
BY LineDef, LineIs

LEMMA LineNext ==
  ASSUME microtasks' \in Seq(Microtasks), NEW lk, NEW a \in Nat, NEW b \in Nat,
         Block(a, b, microtasks', stage', lk)
  PROVE  LineOf' = waiters' \o Part(microtasks', a, b)
<1> DEFINE q == microtasks'
           st == stage'
           w == waiters'
<1>1. q \in Seq(Microtasks) /\ Block(a, b, q, st, lk) /\ LineOf' = Line(q, w, st)
  BY LineDef
<1> HIDE DEF q, st, w
<1>2. Line(q, w, st) = w \o Part(q, a, b)
  BY ONLY <1>1, a \in Nat, b \in Nat, LineIs
<1>3. QED
  BY <1>1, <1>2 DEF q, w

LEMMA Stutters ==
  ASSUME LineOf' = LineOf, Holder' = Holder, Arriving' = Arriving PROVE Implements
BY DEF Implements, FairQueue!lockVars, Holder, Arriving

LEMMA Arrives ==
  ASSUME NEW c \in Callers, c # Holder, c \notin Arriving,
         \A i \in DOMAIN LineOf : LineOf[i] # c,
         Arriving' = Arriving \union {c}, LineOf' = LineOf, Holder' = Holder
  PROVE  Implements
<1>1. FairQueue!Arrive(c)
  BY DEF FairQueue!Arrive, FairQueue!InLine, Holder, Arriving
<1>2. QED
  BY <1>1 DEF Implements, FairQueue!Next

LEMMA Joins ==
  ASSUME NEW c \in Callers, c \in Arriving, Holder # NoCaller,
         Arriving' = Arriving \ {c}, LineOf' = Append(LineOf, c), Holder' = Holder
  PROVE  Implements
<1>1. FairQueue!Join(c)
  BY DEF FairQueue!Join, Holder, Arriving
<1>2. QED
  BY <1>1 DEF Implements, FairQueue!Next

LEMMA AcquiresDirectly ==
  ASSUME NEW c \in Callers, c \in Arriving, Holder = NoCaller, LineOf = <<>>,
         Arriving' = Arriving \ {c}, LineOf' = LineOf, Holder' = c
  PROVE  Implements
<1>1. FairQueue!AcquireDirectly(c)
  BY DEF FairQueue!AcquireDirectly, Holder, Arriving
<1>2. QED
  BY <1>1 DEF Implements, FairQueue!Next

LEMMA AcquiresInTurn ==
  ASSUME NEW c \in Callers, Holder = NoCaller, LineOf # <<>>, c = Head(LineOf),
         LineOf' = Tail(LineOf), Holder' = c, Arriving' = Arriving
  PROVE  Implements
<1>1. FairQueue!AcquireInTurn(c)
  BY DEF FairQueue!AcquireInTurn, Holder, Arriving
<1>2. QED
  BY <1>1 DEF Implements, FairQueue!Next

LEMMA Releases ==
  ASSUME NEW c \in Callers, Holder = c, Holder' = NoCaller, LineOf' = LineOf,
         Arriving' = Arriving
  PROVE  Implements
<1>1. FairQueue!Release(c)
  BY DEF FairQueue!Release, Holder, Arriving
<1>2. QED
  BY <1>1 DEF Implements, FairQueue!Next

LEMMA LineWaits ==
  ASSUME NEW q, NEW w, NEW st, NEW lk, Consistent(q, w, st),
         NEW a \in Nat, NEW b \in Nat, Block(a, b, q, st, lk)
  PROVE  /\ Line(q, w, st) \in Seq(Callers)
         /\ \A i \in DOMAIN Line(q, w, st) : st[Line(q, w, st)[i]] = "waiting"
<1> DEFINE p == Part(q, a, b)
           line == w \o p
<1>1. q \in Seq(Microtasks) /\ w \in Seq(Callers) /\ a <= b /\ b <= Len(q)
  BY DEF Consistent, Block
<1>2. /\ p \in Seq(Callers) /\ Len(p) = b - a
      /\ \A i \in 1..(b - a) : p[i] = q[a + i].caller
  BY <1>1, PartType
<1>3. ASSUME NEW i \in 1..(b - a) PROVE st[p[i]] = "waiting"
  <2>1. a + i \in 1..Len(q) /\ a < a + i /\ a + i <= b
    BY <1>1, QueueTypes
  <2>2. WokenIn(q[a + i], st)
    BY <2>1 DEF Block
  <2>3. QED
    BY <1>2, <2>2 DEF WokenIn
<1> HIDE DEF p
<1>4. /\ line \in Seq(Callers) /\ DOMAIN line = 1..(Len(w) + Len(p)) /\ Len(w) \in Nat
      /\ \A i \in 1..(Len(w) + Len(p)) :
           line[i] = IF i <= Len(w) THEN w[i] ELSE p[i - Len(w)]
  <2>1. w \in Seq(Callers) /\ p \in Seq(Callers)
    BY <1>1, <1>2
  <2>2. /\ line \in Seq(Callers) /\ Len(line) = Len(w) + Len(p)
        /\ \A i \in 1..(Len(w) + Len(p)) :
             line[i] = IF i <= Len(w) THEN w[i] ELSE p[i - Len(w)]
    BY ONLY <2>1, ConcatProperties, Zenon DEF line
  <2> HIDE DEF line
  <2>3. Len(w) \in Nat /\ DOMAIN line = 1..Len(line)
    BY <2>1, <2>2
  <2>4. QED
    BY <2>2, <2>3
<1> HIDE DEF line
<1>5. ASSUME NEW i \in 1..(Len(w) + Len(p)) PROVE st[line[i]] = "waiting"
  <2>1. CASE i <= Len(w)
    <3>1. i \in 1..Len(w)
      BY <1>4, <2>1
    <3>2. QED
      BY <1>4, <2>1, <3>1 DEF Consistent
  <2>2. CASE ~(i <= Len(w))
    <3>1. i - Len(w) \in 1..(b - a)
      BY <1>2, <1>4, <2>2
    <3>2. QED
      BY <1>3, <1>4, <2>2, <3>1
  <2>3. QED
    BY <2>1, <2>2
<1>6. Line(q, w, st) = line
  BY <1>1, LineIs DEF line, p
<1>7. QED
  BY <1>4, <1>5, <1>6

(* A caller that schedules its call or leaves its session is not in line.    *)
LEMMA ScheduleInOrder ==
  ASSUME IInv, Order, NEW c \in Callers, NEW s \in Stages, NEW k \in Kinds,
         \/ s = "calling" /\ k = "call" /\ stage[c] = "idle"
         \/ s = "leaving" /\ k = "leave" /\ stage[c] = "inside",
         stage' = [stage EXCEPT ![c] = s],
         microtasks' = Append(microtasks, Microtask(k, c)),
         UNCHANGED <<locked, sessionId, waiters>>
  PROVE  Order' /\ LineOf' = LineOf
<1> DEFINE m == Microtask(k, c)
<1>1. PICK a \in Nat, b \in Nat : Block(a, b, microtasks, stage, locked)
  BY DEF Order
<1>2. /\ microtasks \in Seq(Microtasks) /\ waiters \in Seq(Callers)
      /\ stage \in [Callers -> Stages]
  BY DEF IInv, Consistent
<1>3. NotQueued(c, microtasks)
  BY StageIsFree DEF IInv, Free
<1>4. Block(a, b, microtasks, stage', locked)
  BY <1>1, <1>2, <1>3, BlockRestage
<1>5. m \in Microtasks /\ m.kind = k
  BY MicrotaskType
<1>6. m.kind # "resume" /\ m.kind # "enter"
  BY <1>5
<1>7. ~WokenIn(m, stage')
  BY <1>6 DEF WokenIn
<1> HIDE DEF m
<1>8. microtasks' = Append(microtasks, m)
  BY DEF m
<1>9. /\ microtasks' \in Seq(Microtasks) /\ Block(a, b, microtasks', stage', locked)
      /\ Part(microtasks', a, b) = Part(microtasks, a, b)
  BY <1>2, <1>4, <1>5, <1>7, <1>8, BlockAppend
<1>10. LineOf' = LineOf
  <2>1. LineOf' = waiters \o Part(microtasks', a, b)
    BY <1>9, LineNext
  <2>2. LineOf = waiters \o Part(microtasks, a, b)
    BY <1>1, <1>2, LineNow
  <2>3. QED
    BY <1>9, <2>1, <2>2
<1>11. /\ Len(microtasks) \in Nat /\ Len(microtasks') = Len(microtasks) + 1
       /\ \A i \in 1..Len(microtasks) : microtasks'[i] = microtasks[i]
       /\ microtasks'[Len(microtasks) + 1] = m
  BY <1>2, <1>5, <1>8
<1>12. \A i \in 1..Len(microtasks') :
         \/ i \in 1..Len(microtasks) /\ microtasks'[i] = microtasks[i]
         \/ microtasks'[i].kind # "resume" /\ microtasks'[i].kind # "enter"
  BY <1>6, <1>11
<1>13. EnterLast(microtasks')
  BY <1>12 DEF Order, EnterLast
<1>14. NoResume(microtasks) => NoResume(microtasks')
  BY <1>12 DEF NoResume
<1>15. ASSUME NEW d \in Callers, stage'[d] \in {"inside", "leaving"}
       PROVE  \E e \in Callers : stage[e] \in {"inside", "leaving"}
  BY <1>2, <1>15
<1>16. QED
  BY <1>9, <1>10, <1>13, <1>14, <1>15 DEF Order

LEMMA HolderType ==
  ASSUME IInv, Order
  PROVE  /\ locked <=> Holder # NoCaller
         /\ \A c \in Callers : Inside(c) <=> c = Holder
<1>1. locked => sessionId \in Callers
  BY DEF Order
<1>2. \A c \in Callers : Inside(c) <=> locked /\ sessionId = c
  BY DEF IInv, Exclusive, Owned
<1>3. QED
  BY <1>1, <1>2, NoCallerAssumption, Zenon DEF Holder

LEMMA ScheduleCallImplements ==
  ASSUME IInv, Order, NEW c \in Callers, ScheduleCall(c) PROVE Order' /\ Implements
<1>1. "calling" \in Stages /\ "call" \in Kinds
  BY DEF Stages, Kinds
<1>2. Order' /\ LineOf' = LineOf
  BY <1>1, ScheduleInOrder DEF ScheduleCall
<1>3. c # Holder /\ c \notin Arriving
  BY HolderType DEF ScheduleCall, Inside, Arriving
<1>4. Arriving' = Arriving \union {c}
  BY DEF ScheduleCall, IInv, Consistent, Arriving
<1>5. Holder' = Holder
  BY DEF ScheduleCall, Holder
<1>6. \A i \in DOMAIN LineOf : LineOf[i] # c
  <2>1. PICK a \in Nat, b \in Nat : Block(a, b, microtasks, stage, locked)
    BY DEF Order
  <2>2. \A i \in DOMAIN LineOf : stage[LineOf[i]] = "waiting"
    BY <2>1, LineWaits, LineDef DEF IInv
  <2>3. QED
    BY <2>2 DEF ScheduleCall
<1>7. QED
  BY <1>2, <1>3, <1>4, <1>5, <1>6, Arrives

LEMMA SettleSessionImplements ==
  ASSUME IInv, Order, NEW c \in Callers, SettleSession(c) PROVE Order' /\ Implements
<1>1. "leaving" \in Stages /\ "leave" \in Kinds
  BY DEF Stages, Kinds
<1>2. Order' /\ LineOf' = LineOf
  BY <1>1, ScheduleInOrder DEF SettleSession
<1>3. Arriving' = Arriving
  BY DEF SettleSession, IInv, Consistent, Arriving
<1>4. Holder' = Holder
  BY DEF SettleSession, Holder
<1>5. QED
  BY <1>2, <1>3, <1>4, Stutters

(* What is known when a caller's continuation is served.                     *)
LEMMA Serving ==
  ASSUME IInv, Order, NEW c \in Callers, NEW k \in Kinds, IsNext(k, c)
  PROVE  /\ microtasks \in Seq(Microtasks) /\ waiters \in Seq(Callers)
         /\ stage \in [Callers -> Stages] /\ microtasks # <<>>
         /\ Head(microtasks) = microtasks[1] /\ 1 \in 1..Len(microtasks)
         /\ Tail(microtasks) \in Seq(Microtasks)
         /\ microtasks[1].kind = k /\ microtasks[1].caller = c
         /\ NotQueued(c, Tail(microtasks))
         /\ Fits(Microtask(k, c), stage)
         /\ EnterLast(Tail(microtasks))
         /\ k = "enter" => NoResume(Tail(microtasks))
<1>1. microtasks \in Seq(Microtasks) /\ waiters \in Seq(Callers) /\ stage \in [Callers -> Stages]
  BY DEF IInv, Consistent
<1>2. microtasks # <<>> /\ Head(microtasks) = Microtask(k, c)
  BY DEF IsNext
<1>3. Head(microtasks).kind = k /\ Head(microtasks).caller = c
  BY <1>2, MicrotaskType
<1>4. NotQueued(c, Tail(microtasks)) /\ Fits(Microtask(k, c), stage)
  BY NextIsFree DEF Free
<1>5. EnterLast(microtasks)
  BY DEF Order
<1>6. QED
  BY <1>1, <1>2, <1>3, <1>4, <1>5, TailOfQueue

(* Whoever is not woken and is served while the mutex is locked, or whose    *)
(* lock() has begun before, has no woken caller behind.                      *)
LEMMA NoneWoken ==
  ASSUME IInv, Order, NEW c \in Callers, NEW k \in Kinds, IsNext(k, c),
         ~WokenIn(microtasks[1], stage), locked \/ k # "call"
  PROVE  /\ \A i \in 1..Len(microtasks) : ~WokenIn(microtasks[i], stage)
         /\ \A i \in 1..Len(Tail(microtasks)) : ~WokenIn(Tail(microtasks)[i], stage)
         /\ LineOf = waiters
<1>1. PICK a \in Nat, b \in Nat : Block(a, b, microtasks, stage, locked)
  BY DEF Order
<1>2. /\ microtasks \in Seq(Microtasks) /\ microtasks # <<>> /\ 1 \in 1..Len(microtasks)
      /\ microtasks[1].kind = k /\ waiters \in Seq(Callers)
  BY Serving
<1>3. ~(a < b)
  <2>1. SUFFICES ASSUME a < b PROVE FALSE
    OBVIOUS
  <2>2. a # 0
    BY <1>1, <1>2, <2>1 DEF Block
  <2>3. 1 \in 1..a
    BY <2>2
  <2>4. k = "call"
    BY <1>1, <1>2, <2>1, <2>3 DEF Block
  <2>5. QED
    BY <1>1, <2>1, <2>2, <2>4 DEF Block
<1>4. \A i \in 1..Len(microtasks) : ~WokenIn(microtasks[i], stage)
  BY <1>1, <1>2, <1>3, QueueTypes DEF Block
<1>5. \A i \in 1..Len(Tail(microtasks)) : ~WokenIn(Tail(microtasks)[i], stage)
  BY <1>2, <1>4, TailOfQueue
<1>6. LineOf = waiters
  BY <1>2, <1>4, NoBlock, LineDef
<1>7. QED
  BY <1>4, <1>5, <1>6

(* lock() finds the mutex taken: a new caller joins the line, a woken one    *)
(* keeps its place in it.                                                    *)
LEMMA WaitImplements ==
  ASSUME IInv, Order, NEW c \in Callers, IsNext("call", c) \/ IsNext("resume", c), locked,
         waiters' = Append(waiters, c), stage' = [stage EXCEPT ![c] = "waiting"],
         microtasks' = Tail(microtasks), UNCHANGED <<locked, sessionId>>
  PROVE  Order' /\ Implements
<1> DEFINE t == Tail(microtasks)
<1>1. PICK k \in {"call", "resume"} : IsNext(k, c)
  OBVIOUS
<1>2. k \in Kinds /\ "waiting" \in Stages
  BY DEF Kinds, Stages
<1>3. /\ microtasks \in Seq(Microtasks) /\ waiters \in Seq(Callers)
      /\ stage \in [Callers -> Stages] /\ microtasks # <<>>
      /\ Head(microtasks) = microtasks[1] /\ 1 \in 1..Len(microtasks)
      /\ t \in Seq(Microtasks)
      /\ microtasks[1].kind = k /\ microtasks[1].caller = c
      /\ NotQueued(c, t) /\ Fits(Microtask(k, c), stage) /\ EnterLast(t)
  BY <1>1, <1>2, Serving
<1>4. /\ stage[c] \in {"calling", "waiting"} /\ stage'[c] = "waiting"
      /\ stage[c] = "waiting" => k = "resume"
      /\ \A d \in Callers : d # c => stage'[d] = stage[d]
  BY <1>1, <1>2, <1>3, MicrotaskType DEF Fits
<1>5. Holder' = Holder /\ Holder # NoCaller
  BY HolderType DEF Holder
<1>6. WokenIn(microtasks[1], stage) <=> stage[c] = "waiting"
  BY <1>3, <1>4 DEF WokenIn
<1> HIDE DEF t
<1>7. microtasks' = t
  BY DEF t
<1>8. /\ \A d \in Callers : stage'[d] \in {"inside", "leaving"} => NoResume(t)
      /\ locked' => sessionId' \in Callers
  <2>1. ASSUME NEW d \in Callers, stage'[d] \in {"inside", "leaving"} PROVE NoResume(t)
    <3>1. stage[d] \in {"inside", "leaving"}
      BY <1>4, <2>1
    <3>2. NoResume(microtasks)
      BY <3>1 DEF Order
    <3>3. QED
      BY <1>3, <3>2, TailOfQueue DEF t
  <2>2. QED
    BY <2>1 DEF Order
<1>9. CASE stage[c] = "calling"
  <2>1. /\ \A i \in 1..Len(t) : ~WokenIn(t[i], stage)
        /\ LineOf = waiters
    BY <1>1, <1>2, <1>6, <1>9, NoneWoken DEF t
  <2>2. Block(0, 0, t, stage, locked)
    BY <1>3, <2>1, NoBlock
  <2>3. Block(0, 0, t, stage', locked)
    BY <1>2, <1>3, <2>2, BlockRestage
  <2>4. LineOf' = waiters' \o Part(t, 0, 0)
    BY <1>3, <1>7, <2>3, LineNext
  <2>5. Part(t, 0, 0) = <<>>
    BY <1>3, <2>1, NoBlock
  <2>6. waiters' \in Seq(Callers)
    BY <1>3
  <2>7. LineOf' = Append(LineOf, c)
    BY <2>1, <2>4, <2>5, <2>6, ConcatEmptySeq
  <2>8. Arriving' = Arriving \ {c} /\ c \in Arriving
    BY <1>4, <1>9 DEF Arriving
  <2>9. Implements
    BY <1>5, <2>7, <2>8, Joins
  <2>10. Order'
    BY <1>3, <1>7, <1>8, <2>3 DEF Order
  <2>11. QED
    BY <2>9, <2>10
<1>10. CASE stage[c] = "waiting"
  <2>1. PICK a \in Nat, b \in Nat : Block(a, b, microtasks, stage, locked)
    BY DEF Order
  <2>2. a = 0 /\ 0 < b
    BY <1>3, <1>6, <1>10, <2>1 DEF Block
  <2>3. /\ b - 1 \in Nat
        /\ Block(0, b - 1, t, stage, locked)
        /\ Part(microtasks, 0, b) = <<c>> \o Part(t, 0, b - 1)
    BY <1>3, <2>1, <2>2, BlockFirst DEF t
  <2>4. Block(0, b - 1, t, stage', locked)
    BY <1>2, <1>3, <2>3, BlockRestage
  <2>5. LineOf = waiters \o (<<c>> \o Part(t, 0, b - 1))
    BY <1>3, <2>1, <2>2, <2>3, LineNow
  <2>6. LineOf' = waiters' \o Part(t, 0, b - 1)
    BY <1>3, <1>7, <2>3, <2>4, LineNext
  <2>7. LineOf' = LineOf
    <3> DEFINE p == Part(t, 0, b - 1)
    <3>1. p \in Seq(Callers)
      BY <1>3, <2>3, PartType DEF Block
    <3> HIDE DEF p
    <3>2. <<c>> \in Seq(Callers) /\ Append(waiters, c) = waiters \o <<c>>
      BY <1>3, AppendIsConcat
    <3>3. (waiters \o <<c>>) \o p = waiters \o (<<c>> \o p)
      <4>1. waiters \in Seq(Callers)
        BY <1>3
      <4>2. QED
        BY ONLY <4>1, <3>1, <3>2, ConcatAssociative
    <3>4. QED
      BY <2>5, <2>6, <3>2, <3>3 DEF p
  <2>8. Arriving' = Arriving
    BY <1>4, <1>10 DEF Arriving
  <2>9. Implements
    BY <1>5, <2>7, <2>8, Stutters
  <2>10. Order'
    BY <1>3, <1>7, <1>8, <2>3, <2>4 DEF Order
  <2>11. QED
    BY <2>9, <2>10
<1>11. QED
  BY <1>4, <1>9, <1>10

(* A caller is served and puts its next continuation behind all others.      *)
LEMMA AppendKinds ==
  ASSUME NEW t \in Seq(Microtasks), NEW m \in Microtasks, EnterLast(t), m.kind # "leave"
  PROVE  /\ m.kind = "resume" /\ (\A i \in 1..Len(t) : t[i].kind # "enter")
              => EnterLast(Append(t, m))
         /\ m.kind = "enter" => EnterLast(Append(t, m))
<1> DEFINE u == Append(t, m)
<1>1. /\ Len(t) \in Nat /\ Len(u) = Len(t) + 1
      /\ \A i \in 1..Len(t) : u[i] = t[i]
      /\ u[Len(t) + 1] = m
  OBVIOUS
<1> HIDE DEF u
<1>2. \A i \in 1..Len(u) : i \in 1..Len(t) \/ i = Len(t) + 1
  BY <1>1
<1>3. ASSUME m.kind = "resume", \A i \in 1..Len(t) : t[i].kind # "enter" PROVE EnterLast(u)
  BY <1>1, <1>2, <1>3 DEF EnterLast
<1>4. ASSUME m.kind = "enter" PROVE EnterLast(u)
  <2>1. SUFFICES ASSUME NEW i \in 1..Len(u), NEW j \in 1..Len(u),
                        u[i].kind = "enter", u[j].kind = "resume"
                 PROVE  j < i
    BY DEF EnterLast
  <2>2. j \in 1..Len(t) /\ t[j].kind = "resume"
    BY <1>1, <1>2, <1>4, <2>1
  <2>3. CASE i \in 1..Len(t)
    BY <1>1, <2>1, <2>2, <2>3 DEF EnterLast
  <2>4. CASE i = Len(t) + 1
    BY <1>1, <2>2, <2>4
  <2>5. QED
    BY <1>2, <2>3, <2>4
<1>5. QED
  BY <1>3, <1>4 DEF u

(* While the mutex is free, nobody is inside: no enter or leave is queued.   *)
LEMMA FreeMutex ==
  ASSUME IInv, Order, ~locked
  PROVE  /\ \A i \in 1..Len(microtasks) : microtasks[i].kind \in {"call", "resume"}
         /\ \A c \in Callers : ~Inside(c)
         /\ waiters = <<>> /\ Holder = NoCaller
<1>1. \A c \in Callers : ~Inside(c)
  BY Zenon DEF IInv, Exclusive, Owned
<1>2. \A i \in 1..Len(microtasks) : microtasks[i].caller \in Callers /\ Fits(microtasks[i], stage)
  BY QueueTypes DEF IInv, Consistent
<1>3. \A i \in 1..Len(microtasks) : microtasks[i].kind \in {"call", "resume"}
  BY <1>1, <1>2 DEF Fits, Inside
<1>4. waiters = <<>> /\ Holder = NoCaller
  BY DEF IInv, NoLostWakeup, Holder
<1>5. QED
  BY <1>1, <1>3, <1>4

(* lock() finds the mutex free: it will look again behind the woken ones.    *)
LEMMA RunCallImplements ==
  ASSUME IInv, Order, NEW c \in Callers, RunCall(c) PROVE Order' /\ Implements
<1>1. CASE locked
  BY <1>1, WaitImplements DEF RunCall
<1>2. CASE ~locked
  <2> DEFINE t == Tail(microtasks)
             m == Microtask("resume", c)
  <2>1. /\ IsNext("call", c) /\ microtasks' = Append(t, m)
        /\ UNCHANGED <<locked, sessionId, waiters, stage>>
    BY <1>2 DEF RunCall
  <2>2. "call" \in Kinds /\ "resume" \in Kinds
    BY DEF Kinds
  <2>3. /\ microtasks \in Seq(Microtasks) /\ waiters \in Seq(Callers)
        /\ stage \in [Callers -> Stages] /\ microtasks # <<>>
        /\ 1 \in 1..Len(microtasks) /\ t \in Seq(Microtasks)
        /\ microtasks[1].kind = "call" /\ Fits(Microtask("call", c), stage) /\ EnterLast(t)
    BY <2>1, <2>2, Serving
  <2>4. stage[c] = "calling"
    BY <2>2, <2>3, MicrotaskType DEF Fits
  <2>5. m \in Microtasks /\ m.kind = "resume" /\ m.caller = c
    BY <2>2, MicrotaskType
  <2>6. ~WokenIn(m, stage) /\ ~WokenIn(microtasks[1], stage)
    BY <2>3, <2>4, <2>5 DEF WokenIn
  <2>7. \A i \in 1..Len(t) : t[i].kind # "enter"
    BY <1>2, <2>3, FreeMutex, TailOfQueue
  <2> HIDE DEF t, m
  <2>8. microtasks' \in Seq(Microtasks) /\ EnterLast(microtasks')
    <3>1. /\ t \in Seq(Microtasks) /\ m \in Microtasks /\ m.kind = "resume"
          /\ EnterLast(t) /\ \A i \in 1..Len(t) : t[i].kind # "enter"
      BY <2>3, <2>5, <2>7
    <3>2. EnterLast(Append(t, m)) /\ Append(t, m) \in Seq(Microtasks)
      BY ONLY <3>1, AppendKinds
    <3>3. QED
      BY <2>1, <3>2
  <2>9. PICK a \in Nat, b \in Nat : Block(a, b, microtasks, stage, locked)
    BY DEF Order
  <2>10. \E d, e \in Nat : /\ Block(d, e, t, stage, locked)
                           /\ Part(t, d, e) = Part(microtasks, a, b)
    <3>1. CASE a < b
      <4>1. a # 0
        BY <2>3, <2>6, <2>9, <3>1 DEF Block
      <4>2. QED
        BY <2>3, <2>9, <3>1, <4>1, BlockTail DEF t
    <3>2. CASE ~(a < b)
      <4>1. a = b /\ \A i \in 1..Len(microtasks) : ~WokenIn(microtasks[i], stage)
        BY <2>3, <2>9, <3>2, QueueTypes DEF Block
      <4>2. \A i \in 1..Len(t) : ~WokenIn(t[i], stage)
        BY <2>3, <4>1, TailOfQueue DEF t
      <4>3. Block(0, 0, t, stage, locked) /\ Part(t, 0, 0) = <<>>
        BY <2>3, <4>2, NoBlock
      <4>4. Part(microtasks, a, b) = <<>>
        BY <2>3, <4>1, NoBlock
      <4>5. QED
        BY <4>3, <4>4
    <3>3. QED
      BY <3>1, <3>2
  <2>11. PICK d \in Nat, e \in Nat : /\ Block(d, e, t, stage, locked)
                                     /\ Part(t, d, e) = Part(microtasks, a, b)
    BY <2>10
  <2>12. /\ Block(d, e, microtasks', stage, locked)
         /\ Part(microtasks', d, e) = Part(t, d, e)
    <3>1. /\ t \in Seq(Microtasks) /\ d \in Nat /\ e \in Nat /\ Block(d, e, t, stage, locked)
          /\ m \in Microtasks /\ ~WokenIn(m, stage)
      BY <2>3, <2>5, <2>6, <2>11
    <3>2. /\ Block(d, e, Append(t, m), stage, locked)
          /\ Part(Append(t, m), d, e) = Part(t, d, e)
      BY ONLY <3>1, BlockAppend
    <3>3. QED
      BY <2>1, <3>2
  <2>13. LineOf' = LineOf
    <3>1. LineOf = waiters \o Part(microtasks, a, b)
      BY <2>3, <2>9, LineNow
    <3>2. Block(d, e, microtasks', stage', locked)
      BY <2>1, <2>12
    <3>3. LineOf' = waiters' \o Part(microtasks', d, e)
      BY <2>8, <3>2, LineNext
    <3>4. QED
      BY <2>1, <2>11, <2>12, <3>1, <3>3
  <2>14. Implements
    BY <2>1, <2>13, Stutters DEF Holder, Arriving
  <2>15. \A k \in Callers : stage[k] \notin {"inside", "leaving"}
    BY <1>2, FreeMutex DEF Inside
  <2>16. Order'
    BY <1>2, <2>1, <2>8, <2>12, <2>15 DEF Order
  <2>17. QED
    BY <2>14, <2>16
<1>3. QED
  BY <1>1, <1>2

(* The first to recheck takes the free mutex: a woken one in its turn, a new *)
(* one if nobody is in line.                                                 *)
LEMMA RunResumeImplements ==
  ASSUME IInv, Order, NEW c \in Callers, RunResume(c) PROVE Order' /\ Implements
<1>1. CASE locked
  BY <1>1, WaitImplements DEF RunResume
<1>2. CASE ~locked
  <2> DEFINE t == Tail(microtasks)
             m == Microtask("enter", c)
  <2>1. /\ IsNext("resume", c) /\ microtasks' = Append(t, m)
        /\ stage' = [stage EXCEPT ![c] = "entering"]
        /\ locked' = TRUE /\ sessionId' = c /\ waiters' = waiters
    BY <1>2 DEF RunResume
  <2>2. "resume" \in Kinds /\ "enter" \in Kinds /\ "entering" \in Stages
    BY DEF Kinds, Stages
  <2>3. /\ microtasks \in Seq(Microtasks) /\ waiters \in Seq(Callers)
        /\ stage \in [Callers -> Stages] /\ microtasks # <<>>
        /\ Head(microtasks) = microtasks[1]
        /\ 1 \in 1..Len(microtasks) /\ t \in Seq(Microtasks)
        /\ microtasks[1].kind = "resume" /\ microtasks[1].caller = c
        /\ NotQueued(c, t)
        /\ Fits(Microtask("resume", c), stage) /\ EnterLast(t)
    BY <2>1, <2>2, Serving
  <2>4. stage[c] \in {"calling", "waiting"}
    BY <2>2, <2>3, MicrotaskType DEF Fits
  <2>5. stage'[c] = "entering" /\ \A d \in Callers : d # c => stage'[d] = stage[d]
    BY <2>1, <2>3
  <2>6. m \in Microtasks /\ m.kind = "enter"
    BY <2>2, MicrotaskType
  <2>7. ~WokenIn(m, stage')
    BY <2>6 DEF WokenIn
  <2>8. WokenIn(microtasks[1], stage) <=> stage[c] = "waiting"
    BY <2>3, <2>4 DEF WokenIn
  <2>9. waiters = <<>> /\ Holder = NoCaller
    BY <1>2, FreeMutex
  <2>10. Holder' = c
    BY <2>1 DEF Holder
  <2> HIDE DEF t, m
  <2>11. microtasks' \in Seq(Microtasks) /\ EnterLast(microtasks')
    <3>1. t \in Seq(Microtasks) /\ m \in Microtasks /\ m.kind = "enter" /\ EnterLast(t)
      BY <2>3, <2>6
    <3>2. EnterLast(Append(t, m)) /\ Append(t, m) \in Seq(Microtasks)
      BY ONLY <3>1, AppendKinds
    <3>3. QED
      BY <2>1, <3>2
  <2>12. \A d \in Callers : stage'[d] \notin {"inside", "leaving"}
    BY <1>2, <2>5, FreeMutex DEF Inside
  <2>13. ASSUME NEW e \in Nat, Block(0, e, t, stage, TRUE)
         PROVE  Order' /\ LineOf' = Part(t, 0, e)
    <3>1. Block(0, e, t, stage', TRUE)
      BY <2>1, <2>2, <2>3, <2>13, BlockRestage
    <3>2. Block(0, e, microtasks', stage', TRUE) /\ Part(microtasks', 0, e) = Part(t, 0, e)
      <4> DEFINE st == stage'
                 lk == TRUE
      <4>1. /\ t \in Seq(Microtasks) /\ e \in Nat /\ Block(0, e, t, st, lk)
            /\ m \in Microtasks /\ ~WokenIn(m, st)
        BY <2>3, <2>6, <2>7, <2>13, <3>1
      <4> HIDE DEF st, lk
      <4>2. 0 \in Nat
        OBVIOUS
      <4>3. /\ Block(0, e, Append(t, m), st, lk)
            /\ Part(Append(t, m), 0, e) = Part(t, 0, e)
        BY ONLY <4>1, <4>2, BlockAppend
      <4>4. QED
        BY <2>1, <4>3 DEF st, lk
    <3>3. LineOf' = waiters' \o Part(microtasks', 0, e)
      BY <2>11, <3>2, LineNext
    <3>4. Part(t, 0, e) \in Seq(Callers)
      BY <2>3, <2>13, PartType DEF Block
    <3>5. LineOf' = Part(t, 0, e)
      BY <2>1, <2>9, <3>2, <3>3, <3>4, ConcatEmptySeq
    <3>6. Block(0, e, microtasks', stage', locked')
      BY <2>1, <3>2
    <3>7. Order'
      BY <2>1, <2>11, <2>12, <3>6 DEF Order
    <3>8. QED
      BY <3>5, <3>7
  <2>14. CASE stage[c] = "calling"
    <3>1. /\ \A i \in 1..Len(t) : ~WokenIn(t[i], stage)
          /\ LineOf = waiters
      BY <2>1, <2>2, <2>8, <2>14, NoneWoken DEF t
    <3>2. Block(0, 0, t, stage, TRUE) /\ Part(t, 0, 0) = <<>>
      BY <2>3, <3>1, NoBlock
    <3>3. Order' /\ LineOf' = <<>>
      BY <2>13, <3>2
    <3>4. Arriving' = Arriving \ {c} /\ c \in Arriving
      BY <2>5, <2>14 DEF Arriving
    <3>5. QED
      BY <2>9, <2>10, <3>1, <3>3, <3>4, AcquiresDirectly
  <2>15. CASE stage[c] = "waiting"
    <3>1. PICK a \in Nat, b \in Nat : Block(a, b, microtasks, stage, locked)
      BY DEF Order
    <3>2. a = 0 /\ 0 < b
      <4>1. a < 1 /\ 1 <= b
        BY <2>3, <2>8, <2>15, <3>1 DEF Block
      <4>2. QED
        BY <4>1
    <3>3. /\ b - 1 \in Nat
          /\ Block(0, b - 1, t, stage, TRUE)
          /\ Part(microtasks, 0, b) = <<c>> \o Part(t, 0, b - 1)
      BY <2>3, <3>1, <3>2, BlockFirst DEF t
    <3>4. Order' /\ LineOf' = Part(t, 0, b - 1)
      BY <2>13, <3>3
    <3>5. Part(t, 0, b - 1) \in Seq(Callers)
      BY <2>3, <3>3, PartType DEF Block
    <3>6. LineOf = <<c>> \o Part(t, 0, b - 1)
      <4>1. LineOf = waiters \o Part(microtasks, 0, b)
        BY <2>3, <3>1, <3>2, LineNow
      <4>2. <<c>> \o Part(t, 0, b - 1) \in Seq(Callers)
        BY <3>5
      <4>3. QED
        BY <2>9, <3>3, <4>1, <4>2, ConcatEmptySeq
    <3>7. LineOf # <<>> /\ c = Head(LineOf) /\ LineOf' = Tail(LineOf)
      <4> DEFINE p == Part(t, 0, b - 1)
      <4>1. p \in Seq(Callers)
        BY <3>5
      <4> HIDE DEF p
      <4>2. <<c>> \o p # <<>> /\ c = Head(<<c>> \o p) /\ p = Tail(<<c>> \o p)
        BY <4>1
      <4>3. QED
        BY <3>4, <3>6, <4>2 DEF p
    <3>8. Arriving' = Arriving
      BY <2>5, <2>15 DEF Arriving
    <3>9. QED
      BY <2>9, <2>10, <3>4, <3>7, <3>8, AcquiresInTurn
  <2>16. QED
    BY <2>4, <2>14, <2>15
<1>3. QED
  BY <1>1, <1>2

LEMMA RunEnterImplements ==
  ASSUME IInv, Order, NEW c \in Callers, RunEnter(c) PROVE Order' /\ Implements
<1> DEFINE t == Tail(microtasks)
<1>1. /\ IsNext("enter", c) /\ microtasks' = t
      /\ stage' = [stage EXCEPT ![c] = "inside"]
      /\ UNCHANGED <<locked, sessionId, waiters>>
  BY DEF RunEnter
<1>2. "enter" \in Kinds /\ "inside" \in Stages
  BY DEF Kinds, Stages
<1>3. /\ microtasks \in Seq(Microtasks) /\ waiters \in Seq(Callers)
      /\ stage \in [Callers -> Stages]
      /\ t \in Seq(Microtasks) /\ microtasks[1].kind = "enter"
      /\ NotQueued(c, t) /\ Fits(Microtask("enter", c), stage)
      /\ EnterLast(t) /\ NoResume(t)
  BY <1>1, <1>2, Serving
<1>4. stage[c] = "entering"
  BY <1>2, <1>3, MicrotaskType DEF Fits
<1>5. ~WokenIn(microtasks[1], stage)
  BY <1>3 DEF WokenIn
<1>6. LineOf = waiters
  BY <1>1, <1>2, <1>5, NoneWoken
<1> HIDE DEF t
<1>7. \A i \in 1..Len(t) : ~WokenIn(t[i], stage')
  BY <1>3 DEF NoResume, WokenIn
<1>8. Block(0, 0, t, stage', locked) /\ LineOf' = waiters
  BY <1>1, <1>3, <1>7, NoBlock, LineDef
<1>9. Arriving' = Arriving
  BY <1>1, <1>3, <1>4 DEF Arriving
<1>10. Implements
  BY <1>1, <1>6, <1>8, <1>9, Stutters DEF Holder
<1>11. Order'
  BY <1>1, <1>3, <1>8 DEF Order
<1>12. QED
  BY <1>10, <1>11

(* unlock() wakes the whole line, in its order.                              *)
LEMMA RunLeaveImplements ==
  ASSUME IInv, Order, NEW c \in Callers, RunLeave(c) PROVE Order' /\ Implements
<1> DEFINE t == Tail(microtasks)
<1>1. /\ IsNext("leave", c) /\ Owned(c) /\ stage' = [stage EXCEPT ![c] = "idle"]
      /\ microtasks' = t \o MicrotasksOf("resume", waiters)
      /\ waiters' = <<>> /\ locked' = FALSE /\ sessionId' = sessionId
  BY DEF RunLeave
<1>2. "leave" \in Kinds
  BY DEF Kinds
<1>3. /\ microtasks \in Seq(Microtasks) /\ waiters \in Seq(Callers)
      /\ stage \in [Callers -> Stages] /\ microtasks # <<>>
      /\ t \in Seq(Microtasks) /\ microtasks[1].kind = "leave"
      /\ NotQueued(c, t) /\ Fits(Microtask("leave", c), stage)
  BY <1>1, <1>2, Serving
<1>4. stage[c] = "leaving"
  BY <1>2, <1>3, MicrotaskType DEF Fits
<1>5. stage'[c] = "idle" /\ \A d \in Callers : d # c => stage'[d] = stage[d]
  BY <1>1, <1>3
<1>6. Holder = c /\ Holder' = NoCaller /\ \A d \in Callers : Inside(d) => d = c
  BY <1>1, HolderType DEF Owned, Holder
<1>7. NoResume(t)
  BY <1>3, <1>4, TailOfQueue DEF Order
<1>8. \A i \in 1..Len(t) : t[i].kind = "call"
  <2>1. TAKE i \in 1..Len(t)
  <2>2. t[i].caller \in Callers /\ t[i].caller # c
    BY <1>3, QueueTypes DEF NotQueued
  <2>3. Fits(t[i], stage)
    BY <1>3, TailOfQueue DEF IInv, Consistent
  <2>4. ~Inside(t[i].caller)
    BY <1>6, <2>2
  <2>5. QED
    BY <1>7, <2>3, <2>4 DEF NoResume, Fits, Inside
<1>9. \A i \in 1..Len(waiters) : stage'[waiters[i]] = "waiting"
  <2>1. TAKE i \in 1..Len(waiters)
  <2>2. waiters[i] \in Callers /\ stage[waiters[i]] = "waiting"
    BY <1>3 DEF IInv, Consistent
  <2>3. QED
    BY <1>4, <1>5, <2>2
<1>10. ~WokenIn(microtasks[1], stage)
  BY <1>3 DEF WokenIn
<1>11. LineOf = waiters
  BY <1>1, <1>2, <1>10, NoneWoken
<1> HIDE DEF t
<1>12. /\ microtasks' \in Seq(Microtasks)
       /\ Block(Len(t), Len(microtasks'), microtasks', stage', FALSE)
       /\ Part(microtasks', Len(t), Len(microtasks')) = waiters
       /\ EnterLast(microtasks')
  <2> DEFINE st == stage'
             r == t \o MicrotasksOf("resume", waiters)
  <2>1. /\ t \in Seq(Microtasks) /\ waiters \in Seq(Callers)
        /\ \A i \in 1..Len(t) : t[i].kind = "call"
        /\ \A i \in 1..Len(waiters) : st[waiters[i]] = "waiting"
    BY <1>3, <1>8, <1>9
  <2> HIDE DEF st
  <2>2. /\ r \in Seq(Microtasks) /\ Block(Len(t), Len(r), r, st, FALSE)
        /\ Part(r, Len(t), Len(r)) = waiters /\ EnterLast(r)
    BY ONLY <2>1, BlockWoken
  <2>3. microtasks' = r
    BY <1>1 DEF t
  <2> HIDE DEF r
  <2>4. QED
    BY <2>2, <2>3 DEF st
<1>13. Len(t) \in Nat /\ Len(microtasks') \in Nat
  BY <1>3, <1>12
<1>14. LineOf' = LineOf
  <2>1. LineOf' = waiters' \o waiters
    BY <1>12, <1>13, LineNext
  <2>2. QED
    BY <1>1, <1>3, <1>11, <2>1, ConcatEmptySeq
<1>15. Arriving' = Arriving
  BY <1>4, <1>5 DEF Arriving
<1>16. \A d \in Callers : stage'[d] \notin {"inside", "leaving"}
  BY <1>5, <1>6 DEF Inside
<1>17. Order'
  BY <1>1, <1>12, <1>13, <1>16 DEF Order
<1>18. Implements
  BY <1>6, <1>14, <1>15, Releases
<1>19. QED
  BY <1>17, <1>18

LEMMA StepImplements == IInv /\ Order /\ [Next]_vars => Order' /\ Implements
<1> SUFFICES ASSUME IInv, Order, [Next]_vars PROVE Order' /\ Implements
  OBVIOUS
<1>1. CASE UNCHANGED vars
  <2>1. LineOf' = LineOf
    BY <1>1, LineDef DEF vars
  <2>2. Order'
    BY <1>1 DEF vars, Order
  <2>3. QED
    BY <1>1, <2>1, <2>2, Stutters DEF vars, Holder, Arriving
<1>2. QED
  BY <1>1, ScheduleCallImplements, SettleSessionImplements, RunCallImplements,
     RunResumeImplements, RunEnterImplements, RunLeaveImplements DEF Next, RunMicrotask

LEMMA InitImplements == Init => Order /\ FairQueue!Init
<1> SUFFICES ASSUME Init PROVE Order /\ FairQueue!Init
  OBVIOUS
<1>1. microtasks = <<>> /\ waiters = <<>> /\ ~locked
  BY DEF Init
<1>2. <<>> \in Seq(Microtasks) /\ <<>> \in Seq(Callers) /\ 1..Len(<<>>) = {}
  OBVIOUS
<1>3. Block(0, 0, microtasks, stage, locked) /\ LineOf = <<>>
  BY <1>1, <1>2, NoBlock, LineDef
<1>4. Order
  BY <1>1, <1>2, <1>3 DEF Order, EnterLast, NoResume
<1>5. {c \in Callers : stage[c] = "calling"} = {}
  BY DEF Init
<1>6. FairQueue!Init
  BY <1>1, <1>3, <1>5 DEF FairQueue!Init
<1>7. QED
  BY <1>4, <1>6

(* The mutex is a fair lock, though unlock() wakes every waiter at once and  *)
(* each rechecks in a microtask of its own: those who lose wait again in the *)
(* order they were in, and a new caller does not get in before them.         *)
THEOREM ImplementsFairLock == Spec => FairQueueSpec
<1>1. Spec => [](IInv /\ Order)
  BY InitHolds, StepKeeps, InitImplements, StepImplements, PTL DEF Spec
<1>2. IInv /\ Order /\ [Next]_vars => [FairQueue!Next]_(FairQueue!lockVars)
  BY StepImplements DEF Implements
<1>3. QED
  BY <1>1, <1>2, InitImplements, PTL DEF Spec, FairQueueSpec, FairQueue!Spec
-------------------------------------------------------------------------------
(* Nobody is lost: whoever is neither idle nor inside has a continuation in   *)
(* the queue, or is in the line of those who await the session.               *)
Queued(c, q) == \E i \in 1..Len(q) : q[i].caller = c
Awaits(c, w) == \E i \in 1..Len(w) : w[i] = c
Placed(c, q, w, st) ==
  /\ st \in {"calling", "entering", "leaving"} => Queued(c, q)
  /\ st = "waiting" => Queued(c, q) \/ Awaits(c, w)
NobodyIsLost == \A c \in Callers : Placed(c, microtasks, waiters, stage[c])

LEMMA AppendQueues ==
  ASSUME NEW q \in Seq(Microtasks), NEW m \in Microtasks
  PROVE  /\ Queued(m.caller, Append(q, m))
         /\ \A c : Queued(c, q) => Queued(c, Append(q, m))
<1> DEFINE a == Append(q, m)
<1>1. /\ Len(q) \in Nat /\ Len(a) = Len(q) + 1 /\ a[Len(q) + 1] = m
      /\ \A i \in 1..Len(q) : a[i] = q[i]
  OBVIOUS
<1> HIDE DEF a
<1>2. Len(q) + 1 \in 1..Len(a) /\ \A i \in 1..Len(q) : i \in 1..Len(a)
  BY <1>1
<1>3. Queued(m.caller, a)
  BY <1>1, <1>2 DEF Queued
<1>4. \A c : Queued(c, q) => Queued(c, a)
  BY <1>1, <1>2 DEF Queued
<1>5. QED
  BY <1>3, <1>4 DEF a

LEMMA AppendAwaits ==
  ASSUME NEW w \in Seq(Callers), NEW d \in Callers
  PROVE  /\ Awaits(d, Append(w, d))
         /\ \A c : Awaits(c, w) => Awaits(c, Append(w, d))
<1> DEFINE a == Append(w, d)
<1>1. /\ Len(w) \in Nat /\ Len(a) = Len(w) + 1 /\ a[Len(w) + 1] = d
      /\ \A i \in 1..Len(w) : a[i] = w[i]
  OBVIOUS
<1> HIDE DEF a
<1>2. Len(w) + 1 \in 1..Len(a) /\ \A i \in 1..Len(w) : i \in 1..Len(a)
  BY <1>1
<1>3. Awaits(d, a) /\ \A c : Awaits(c, w) => Awaits(c, a)
  BY <1>1, <1>2 DEF Awaits
<1>4. QED
  BY <1>3 DEF a

LEMMA TailQueues ==
  ASSUME NEW q \in Seq(Microtasks), q # <<>>
  PROVE  \A c : Queued(c, q) => Queued(c, Tail(q)) \/ c = Head(q).caller
<1> DEFINE t == Tail(q)
<1>1. /\ Len(q) \in Nat \ {0} /\ Head(q) = q[1] /\ Len(t) = Len(q) - 1
      /\ \A i \in 1..Len(t) : t[i] = q[i + 1]
  OBVIOUS
<1> HIDE DEF t
<1>2. \A i \in 1..Len(q) : i = 1 \/ (i - 1 \in 1..Len(t) /\ t[i - 1] = q[i])
  BY <1>1
<1>3. ASSUME NEW c, Queued(c, q), c # Head(q).caller PROVE Queued(c, t)
  <2>1. PICK i \in 1..Len(q) : q[i].caller = c
    BY <1>3 DEF Queued
  <2>2. i # 1
    BY <1>1, <1>3, <2>1
  <2>3. QED
    BY <1>2, <2>1, <2>2 DEF Queued
<1>4. QED
  BY <1>3 DEF t

(* unlock() puts everybody who awaits the session into the queue.             *)
LEMMA WakingQueues ==
  ASSUME NEW q \in Seq(Microtasks), NEW w \in Seq(Callers)
  PROVE  \A c : Queued(c, q) \/ Awaits(c, w) => Queued(c, q \o MicrotasksOf("resume", w))
<1> DEFINE r == MicrotasksOf("resume", w)
           a == q \o r
<1>1. Len(q) \in Nat /\ Len(w) \in Nat /\ \A i \in 1..Len(w) : w[i] \in Callers
  OBVIOUS
<1>2. \A i \in 1..Len(w) : /\ Microtask("resume", w[i]) \in Microtasks
                           /\ Microtask("resume", w[i]).caller = w[i]
  BY <1>1, MicrotaskType DEF Kinds
<1>3. r \in Seq(Microtasks) /\ Len(r) = Len(w)
  BY <1>1, <1>2 DEF MicrotasksOf
<1>4. \A i \in 1..Len(w) : r[i].caller = w[i]
  BY <1>2 DEF MicrotasksOf
<1> HIDE DEF r
<1>5. /\ Len(a) = Len(q) + Len(w)
      /\ \A i \in 1..Len(q) : a[i] = q[i]
      /\ \A i \in 1..Len(w) : a[Len(q) + i] = r[i]
  BY SMTT(30), <1>1, <1>3
<1> HIDE DEF a
<1>6. \A i \in 1..Len(q) : i \in 1..Len(a)
  BY <1>1, <1>5
<1>7. \A i \in 1..Len(w) : Len(q) + i \in 1..Len(a)
  BY <1>1, <1>5
<1>8. ASSUME NEW c, Queued(c, q) PROVE Queued(c, a)
  BY <1>5, <1>6, <1>8 DEF Queued
<1>9. ASSUME NEW c, Awaits(c, w) PROVE Queued(c, a)
  <2>1. PICK i \in 1..Len(w) : w[i] = c
    BY <1>9 DEF Awaits
  <2>2. Len(q) + i \in 1..Len(a) /\ a[Len(q) + i] = r[i] /\ r[i].caller = c
    BY <1>4, <1>5, <1>7, <2>1
  <2>3. QED
    BY <2>2 DEF Queued
<1>10. QED
  BY <1>8, <1>9 DEF a, r

(* A step of a caller d moves d only, and keeps the places of the others.     *)
LEMMA OthersKeepPlaces ==
  ASSUME IInv, NobodyIsLost, NEW d \in Callers, NEW s,
         stage' = stage \/ stage' = [stage EXCEPT ![d] = s],
         \A c \in Callers : c # d =>
           /\ Queued(c, microtasks) => Queued(c, microtasks')
           /\ Awaits(c, waiters) => Queued(c, microtasks') \/ Awaits(c, waiters'),
         Placed(d, microtasks', waiters', stage'[d])
  PROVE  NobodyIsLost'
<1>1. stage \in [Callers -> Stages]
  BY DEF IInv, Consistent
<1>2. ASSUME NEW c \in Callers, c # d PROVE Placed(c, microtasks', waiters', stage'[c])
  <2>1. stage'[c] = stage[c]
    BY <1>1, <1>2
  <2>2. Placed(c, microtasks, waiters, stage[c])
    BY DEF NobodyIsLost
  <2>3. QED
    BY <1>2, <2>1, <2>2 DEF Placed
<1>3. \A c \in Callers : Placed(c, microtasks', waiters', stage'[c])
  BY <1>2
<1>4. QED
  BY <1>3 DEF NobodyIsLost

(* The caller whose continuation runs goes to one of the places.              *)
LEMMA HeadMoves ==
  ASSUME IInv, NobodyIsLost, NEW d \in Callers, NEW k \in Kinds, IsNext(k, d), NEW s \in Stages,
         stage' = stage \/ stage' = [stage EXCEPT ![d] = s],
         \/ /\ waiters' = Append(waiters, d) /\ microtasks' = Tail(microtasks)
            /\ stage'[d] = "waiting"
         \/ /\ waiters' = waiters
            /\ \E j \in Kinds : microtasks' = Append(Tail(microtasks), Microtask(j, d))
         \/ /\ waiters' = waiters /\ microtasks' = Tail(microtasks)
            /\ stage'[d] \in {"idle", "inside"}
         \/ /\ waiters' = <<>> /\ stage'[d] = "idle"
            /\ microtasks' = Tail(microtasks) \o MicrotasksOf("resume", waiters)
  PROVE  NobodyIsLost'
<1>1. /\ microtasks \in Seq(Microtasks) /\ microtasks # <<>> /\ Head(microtasks).caller = d
      /\ waiters \in Seq(Callers) /\ Tail(microtasks) \in Seq(Microtasks)
  BY MicrotaskType DEF IInv, Consistent, IsNext
<1>2. \A c : Queued(c, microtasks) /\ c # d => Queued(c, Tail(microtasks))
  BY <1>1, TailQueues
<1>3. CASE waiters' = Append(waiters, d) /\ microtasks' = Tail(microtasks) /\ stage'[d] = "waiting"
  <2>1. Awaits(d, waiters') /\ \A c : Awaits(c, waiters) => Awaits(c, waiters')
    BY <1>1, <1>3, AppendAwaits
  <2>2. Placed(d, microtasks', waiters', stage'[d])
    BY <1>3, <2>1 DEF Placed
  <2>3. QED
    BY <1>2, <1>3, <2>1, <2>2, OthersKeepPlaces
<1>4. ASSUME NEW j \in Kinds, waiters' = waiters,
             microtasks' = Append(Tail(microtasks), Microtask(j, d))
      PROVE  NobodyIsLost'
  <2>1. Microtask(j, d) \in Microtasks /\ Microtask(j, d).caller = d
    BY MicrotaskType
  <2>2. Queued(d, microtasks') /\ \A c : Queued(c, Tail(microtasks)) => Queued(c, microtasks')
    BY <1>1, <1>4, <2>1, AppendQueues
  <2>3. Placed(d, microtasks', waiters', stage'[d])
    BY <2>2 DEF Placed
  <2>4. QED
    BY <1>2, <1>4, <2>2, <2>3, OthersKeepPlaces
<1>5. CASE waiters' = waiters /\ microtasks' = Tail(microtasks) /\ stage'[d] \in {"idle", "inside"}
  <2>1. Placed(d, microtasks', waiters', stage'[d])
    BY <1>5 DEF Placed
  <2>2. QED
    BY <1>2, <1>5, <2>1, OthersKeepPlaces
<1>6. CASE /\ waiters' = <<>> /\ stage'[d] = "idle"
           /\ microtasks' = Tail(microtasks) \o MicrotasksOf("resume", waiters)
  <2>1. \A c : Queued(c, Tail(microtasks)) \/ Awaits(c, waiters) => Queued(c, microtasks')
    BY <1>1, <1>6, WakingQueues
  <2>2. Placed(d, microtasks', waiters', stage'[d])
    BY <1>6 DEF Placed
  <2>3. QED
    BY <1>2, <1>6, <2>1, <2>2, OthersKeepPlaces
<1>7. QED
  BY <1>3, <1>4, <1>5, <1>6

LEMMA StepLosesNobody == IInv /\ NobodyIsLost /\ [Next]_vars => NobodyIsLost'
<1> SUFFICES ASSUME IInv, NobodyIsLost, [Next]_vars PROVE NobodyIsLost'
  OBVIOUS
<1>1. /\ stage \in [Callers -> Stages] /\ microtasks \in Seq(Microtasks)
      /\ {"call", "resume", "enter", "leave"} \subseteq Kinds
      /\ {"idle", "calling", "waiting", "entering", "inside", "leaving"} \subseteq Stages
  BY DEF IInv, Consistent, Kinds, Stages
<1>2. CASE UNCHANGED vars
  BY <1>2 DEF vars, NobodyIsLost
<1>3. ASSUME NEW c \in Callers, NEW k \in Kinds, NEW s, stage' = [stage EXCEPT ![c] = s],
             microtasks' = Append(microtasks, Microtask(k, c)), waiters' = waiters
      PROVE  NobodyIsLost'
  <2>1. Microtask(k, c) \in Microtasks /\ Microtask(k, c).caller = c
    BY MicrotaskType
  <2>2. Queued(c, microtasks') /\ \A d : Queued(d, microtasks) => Queued(d, microtasks')
    BY <1>1, <1>3, <2>1, AppendQueues
  <2>3. Placed(c, microtasks', waiters', stage'[c])
    BY <2>2 DEF Placed
  <2>4. QED
    BY <1>3, <2>2, <2>3, OthersKeepPlaces
<1>4. ASSUME NEW c \in Callers, ScheduleCall(c) \/ SettleSession(c) PROVE NobodyIsLost'
  BY <1>1, <1>3, <1>4 DEF ScheduleCall, SettleSession
<1>5. ASSUME NEW c \in Callers, RunCall(c) PROVE NobodyIsLost'
  <2>1. /\ IsNext("call", c)
        /\ \/ /\ waiters' = Append(waiters, c) /\ microtasks' = Tail(microtasks)
              /\ stage' = [stage EXCEPT ![c] = "waiting"] /\ stage'[c] = "waiting"
           \/ /\ waiters' = waiters /\ stage' = stage
              /\ microtasks' = Append(Tail(microtasks), Microtask("resume", c))
    BY <1>1, <1>5 DEF RunCall
  <2>2. QED
    BY <1>1, <2>1, HeadMoves
<1>6. ASSUME NEW c \in Callers, RunResume(c) PROVE NobodyIsLost'
  <2>1. /\ IsNext("resume", c)
        /\ \/ /\ waiters' = Append(waiters, c) /\ microtasks' = Tail(microtasks)
              /\ stage' = [stage EXCEPT ![c] = "waiting"] /\ stage'[c] = "waiting"
           \/ /\ waiters' = waiters /\ stage' = [stage EXCEPT ![c] = "entering"]
              /\ microtasks' = Append(Tail(microtasks), Microtask("enter", c))
    BY <1>1, <1>6 DEF RunResume
  <2>2. QED
    BY <1>1, <2>1, HeadMoves
<1>7. ASSUME NEW c \in Callers, RunEnter(c) PROVE NobodyIsLost'
  <2>1. /\ IsNext("enter", c) /\ waiters' = waiters /\ microtasks' = Tail(microtasks)
        /\ stage' = [stage EXCEPT ![c] = "inside"] /\ stage'[c] = "inside"
    BY <1>1, <1>7 DEF RunEnter
  <2>2. QED
    BY <1>1, <2>1, HeadMoves
<1>8. ASSUME NEW c \in Callers, RunLeave(c) PROVE NobodyIsLost'
  <2>1. /\ IsNext("leave", c) /\ waiters' = <<>>
        /\ microtasks' = Tail(microtasks) \o MicrotasksOf("resume", waiters)
        /\ stage' = [stage EXCEPT ![c] = "idle"] /\ stage'[c] = "idle"
    BY <1>1, <1>8 DEF RunLeave
  <2>2. QED
    BY <1>1, <2>1, HeadMoves
<1>9. QED
  BY <1>2, <1>4, <1>5, <1>6, <1>7, <1>8 DEF Next, RunMicrotask

LEMMA MutexInvariance == Spec => [](IInv /\ Order /\ NobodyIsLost)
<1>1. Init => NobodyIsLost
  BY DEF Init, NobodyIsLost, Placed
<1>2. QED
  BY <1>1, InitHolds, StepKeeps, InitImplements, StepImplements, StepLosesNobody, PTL DEF Spec

(* Somebody always acts, the first half of the safety part of NoStarvation:   *)
(* as long as anybody is on the way into a session or out of it, a            *)
(* continuation is in the queue, or one caller is inside its session and      *)
(* will unlock.  Nobody waits for a wakeup that nobody owes.                  *)
SomebodyActs ==
  (\E c \in Callers : stage[c] \notin {"idle", "inside"}) =>
    microtasks # <<>> \/ \E h \in Callers : stage[h] = "inside" /\ Owned(h)

THEOREM NobodyIsForgotten == Spec => []SomebodyActs
<1>1. ASSUME IInv, Order, NobodyIsLost PROVE SomebodyActs
  <2>1. SUFFICES ASSUME NEW c \in Callers, stage[c] \notin {"idle", "inside"}, microtasks = <<>>
                 PROVE  \E h \in Callers : stage[h] = "inside" /\ Owned(h)
    BY DEF SomebodyActs
  <2>2. \A d \in Callers : ~Queued(d, microtasks)
    BY <2>1 DEF Queued
  <2>3. stage \in [Callers -> Stages]
    BY <1>1 DEF IInv, Consistent
  <2>4. Awaits(c, waiters)
    BY <1>1, <2>1, <2>2, <2>3 DEF NobodyIsLost, Placed, Stages
  <2>5. waiters # <<>>
    BY <2>4 DEF Awaits
  <2>6. locked /\ sessionId \in Callers
    BY <1>1, <2>5 DEF IInv, NoLostWakeup, Order
  <2>7. Inside(sessionId) /\ Owned(sessionId)
    BY <1>1, <2>6 DEF IInv, Exclusive, Owned
  <2>8. stage[sessionId] = "inside"
    BY <1>1, <2>2, <2>6, <2>7 DEF NobodyIsLost, Placed, Inside
  <2>9. QED
    BY <2>6, <2>7, <2>8
<1>2. IInv /\ Order /\ NobodyIsLost => SomebodyActs
  BY <1>1
<1>3. QED
  BY <1>2, MutexInvariance, PTL

(* The second half: the line only moves up.  It changes in no other way than  *)
(* that a caller joins it at its end while the mutex is taken, or its head    *)
(* takes the lock; and while anybody is in line, nobody else takes it.        *)
LineMovesUp ==
  /\ \/ LineOf' = LineOf
     \/ locked /\ \E c \in Callers : LineOf' = Append(LineOf, c)
     \/ ~locked /\ locked' /\ sessionId' = Head(LineOf) /\ LineOf' = Tail(LineOf)
  /\ ~locked /\ locked' /\ LineOf # <<>> => sessionId' = Head(LineOf)

THEOREM NobodyIsOvertaken == Spec => [][LineMovesUp]_vars
<1>1. ASSUME IInv, Order, Order', [Next]_vars, Implements PROVE [LineMovesUp]_vars
  <2>1. /\ locked <=> Holder # NoCaller
        /\ locked => Holder = sessionId
    BY <1>1, HolderType DEF Holder
  <2>2. /\ locked' <=> Holder' # NoCaller
        /\ locked' => Holder' = sessionId'
    BY <1>1, NoCallerAssumption DEF Order, Holder
  <2>3. CASE UNCHANGED FairQueue!lockVars
    BY <2>1, <2>2, <2>3 DEF FairQueue!lockVars, Holder, LineMovesUp
  <2>4. ASSUME NEW c \in Callers,
               FairQueue!Arrive(c) \/ FairQueue!Join(c) \/ FairQueue!AcquireDirectly(c)
                 \/ FairQueue!AcquireInTurn(c) \/ FairQueue!Release(c)
        PROVE  LineMovesUp
    <3>1. CASE FairQueue!Arrive(c)
      BY <2>1, <2>2, <3>1 DEF FairQueue!Arrive, Holder, LineMovesUp
    <3>2. CASE FairQueue!Join(c)
      BY <2>1, <2>2, <3>2 DEF FairQueue!Join, Holder, LineMovesUp
    <3>3. CASE FairQueue!AcquireDirectly(c)
      BY <2>1, <2>2, <3>3 DEF FairQueue!AcquireDirectly, Holder, LineMovesUp
    <3>4. CASE FairQueue!AcquireInTurn(c)
      BY <2>1, <2>2, <3>4, NoCallerAssumption DEF FairQueue!AcquireInTurn, Holder, LineMovesUp
    <3>5. CASE FairQueue!Release(c)
      BY <2>1, <2>2, <3>5 DEF FairQueue!Release, Holder, LineMovesUp
    <3>6. QED
      BY <2>4, <3>1, <3>2, <3>3, <3>4, <3>5
  <2>5. QED
    BY <1>1, <2>3, <2>4 DEF Implements, FairQueue!Next
<1>2. IInv /\ Order /\ [Next]_vars => [LineMovesUp]_vars
  BY <1>1, StepImplements
<1>3. QED
  BY <1>2, MutexInvariance, PTL DEF Spec
=============================================================================

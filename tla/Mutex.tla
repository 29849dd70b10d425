-------------------------------- MODULE Mutex --------------------------------
(***************************************************************************)
(* The class Mutex of ledger/backend/transaction/index.ts, which gives one *)
(* signing session at a time exclusive use of an L1 signer's nonces.       *)
(*                                                                         *)
(* A JavaScript program has one thread; what interleaves are the           *)
(* continuations of its asynchronous functions.  A settled promise appends *)
(* the continuations that await it to the microtask queue, in the order in *)
(* which they began to wait, and the queue is served first in, first out.  *)
(* `microtasks' is that queue, restricted to the four continuations that   *)
(* touch the mutex:                                                        *)
(*   call    the caller's own code reaches lock()                          *)
(*   resume  the continuation of `await this.#session' in lock()           *)
(*   enter   the continuation of `await this.lock()' in session()          *)
(*   leave   the finally block of session(), which calls unlock()          *)
(***************************************************************************)
EXTENDS Naturals, Sequences, FiniteSets

CONSTANTS Callers,    \* the asynchronous activities that use the mutex
          NoCaller

ASSUME NoCallerAssumption == NoCaller \notin Callers

VARIABLES locked,      \* this.#session !== undefined
          sessionId,   \* the caller whose lock() stored this.#sessionId last
          waiters,     \* the callers that await the current #session promise
          microtasks,  \* the microtask queue
          stage        \* where each caller is

vars == <<locked, sessionId, waiters, microtasks, stage>>

Stages == {"idle", "calling", "waiting", "entering", "inside", "leaving"}
Kinds == {"call", "resume", "enter", "leave"}
Microtasks == [kind : Kinds, caller : Callers]

Microtask(k, c) == [kind |-> k, caller |-> c]

(* The reactions of a promise that is settled, in the order of the awaits. *)
MicrotasksOf(k, cs) == [i \in 1..Len(cs) |-> Microtask(k, cs[i])]

Init == /\ locked = FALSE
        /\ sessionId = NoCaller
        /\ waiters = <<>>
        /\ microtasks = <<>>
        /\ stage = [c \in Callers |-> "idle"]

Owned(c) == locked /\ sessionId = c

(* The step of a caller in an await of something other than the mutex:     *)
(* its code will reach lock(), or the logic of its session has settled.    *)
ScheduleCall(c) ==
  /\ stage[c] = "idle"
  /\ stage' = [stage EXCEPT ![c] = "calling"]
  /\ microtasks' = Append(microtasks, Microtask("call", c))
  /\ UNCHANGED <<locked, sessionId, waiters>>

SettleSession(c) ==
  /\ stage[c] = "inside"
  /\ stage' = [stage EXCEPT ![c] = "leaving"]
  /\ microtasks' = Append(microtasks, Microtask("leave", c))
  /\ UNCHANGED <<locked, sessionId, waiters>>

IsNext(k, c) == microtasks # <<>> /\ Head(microtasks) = Microtask(k, c)

(* lock() up to its first await: awaiting undefined resumes one microtask  *)
(* later, awaiting the session promise resumes when it is settled.         *)
RunCall(c) ==
  /\ IsNext("call", c)
  /\ IF locked
     THEN /\ waiters' = Append(waiters, c)
          /\ stage' = [stage EXCEPT ![c] = "waiting"]
          /\ microtasks' = Tail(microtasks)
     ELSE /\ microtasks' = Append(Tail(microtasks), Microtask("resume", c))
          /\ UNCHANGED <<waiters, stage>>
  /\ UNCHANGED <<locked, sessionId>>

(* Mutant: lock() takes the lock without checking it again.                *)
RunResumeWithoutRecheck(c) ==
  /\ IsNext("resume", c)
  /\ locked' = TRUE
  /\ sessionId' = c
  /\ stage' = [stage EXCEPT ![c] = "entering"]
  /\ microtasks' = Append(Tail(microtasks), Microtask("enter", c))
  /\ UNCHANGED waiters

(* Mutant: a caller that finds the lock taken goes to the front of the line. *)
RunResumeToFront(c) ==
  /\ IsNext("resume", c)
  /\ IF locked
     THEN /\ waiters' = <<c>> \o waiters
          /\ stage' = [stage EXCEPT ![c] = "waiting"]
          /\ microtasks' = Tail(microtasks)
          /\ UNCHANGED <<locked, sessionId>>
     ELSE /\ locked' = TRUE
          /\ sessionId' = c
          /\ stage' = [stage EXCEPT ![c] = "entering"]
          /\ microtasks' = Append(Tail(microtasks), Microtask("enter", c))
          /\ UNCHANGED waiters

(* The loop condition of lock(): await the new session, or take the lock.  *)
RunResume(c) ==
  /\ IsNext("resume", c)
  /\ IF locked
     THEN /\ waiters' = Append(waiters, c)
          /\ stage' = [stage EXCEPT ![c] = "waiting"]
          /\ microtasks' = Tail(microtasks)
          /\ UNCHANGED <<locked, sessionId>>
     ELSE /\ locked' = TRUE
          /\ sessionId' = c
          /\ stage' = [stage EXCEPT ![c] = "entering"]
          /\ microtasks' = Append(Tail(microtasks), Microtask("enter", c))
          /\ UNCHANGED waiters

RunEnter(c) ==
  /\ IsNext("enter", c)
  /\ stage' = [stage EXCEPT ![c] = "inside"]
  /\ microtasks' = Tail(microtasks)
  /\ UNCHANGED <<locked, sessionId, waiters>>

(* Mutant: unlock() clears the session, but does not settle its promise.   *)
RunLeaveWakingNobody(c) ==
  /\ IsNext("leave", c)
  /\ Owned(c)
  /\ locked' = FALSE
  /\ microtasks' = Tail(microtasks)
  /\ stage' = [stage EXCEPT ![c] = "idle"]
  /\ UNCHANGED <<waiters, sessionId>>

(* unlock(): the session id is kept; all waiters are woken.                *)
RunLeave(c) ==
  /\ IsNext("leave", c)
  /\ Owned(c)
  /\ locked' = FALSE
  /\ microtasks' = Tail(microtasks) \o MicrotasksOf("resume", waiters)
  /\ waiters' = <<>>
  /\ stage' = [stage EXCEPT ![c] = "idle"]
  /\ UNCHANGED sessionId

RunMicrotask == \E c \in Callers : \/ RunCall(c)
                                   \/ RunResume(c)
                                   \/ RunEnter(c)
                                   \/ RunLeave(c)

Next == \/ \E c \in Callers : ScheduleCall(c) \/ SettleSession(c)
        \/ RunMicrotask

(* The runtime serves its microtask queue, and the logic of a session      *)
(* settles.                                                                *)
Spec == Init /\ [][Next]_vars
FairSpec == /\ Spec
            /\ WF_vars(RunMicrotask)
            /\ \A c \in Callers : WF_vars(SettleSession(c))
-----------------------------------------------------------------------------
TypeOK == /\ locked \in BOOLEAN
          /\ sessionId \in Callers \union {NoCaller}
          /\ waiters \in Seq(Callers)
          /\ microtasks \in Seq(Microtasks)
          /\ stage \in [Callers -> Stages]

Inside(c) == stage[c] \in {"entering", "inside", "leaving"}

(* No two callers are in a session at once, though every waiter is woken   *)
(* by each unlock and rechecks the lock in a continuation of its own.      *)
MutualExclusion == \A c, d \in Callers : Inside(c) /\ Inside(d) => c = d

(* unlock() never throws out of session()'s finally block: the session id  *)
(* stored last is still the leaver's own.                                  *)
UnlockOwned == \A c \in Callers : stage[c] = "leaving" => Owned(c)

(* No wake-up is lost: while the mutex is free nobody is left awaiting a   *)
(* promise that has already been settled.                                  *)
NoLostWakeup == ~locked => waiters = <<>>

(* Every caller that reaches lock() gets its session, also against others  *)
(* that lock and unlock for ever.                                          *)
NoStarvation == \A c \in Callers : stage[c] = "calling" ~> stage[c] = "inside"

(* The mutex implements the fair lock.  In line are the waiters and then   *)
(* the callers that the last unlock has woken and that have not rechecked  *)
(* yet: whoever of these finds the lock taken waits behind those that did  *)
(* so before.  Their continuations stand together in the queue.            *)
Woken(m) == m.kind = "resume" /\ stage[m.caller] = "waiting"
WokenAt == {i \in DOMAIN microtasks : Woken(microtasks[i])}
Ahead == {i \in DOMAIN microtasks : \A j \in WokenAt : i < j}
LineOf == LET n == Cardinality(Ahead)
          IN  waiters \o [i \in 1..Cardinality(WokenAt) |-> microtasks[n + i].caller]

FairQueue == INSTANCE FairLock WITH
               holder <- IF locked THEN sessionId ELSE NoCaller,
               queue <- LineOf,
               arriving <- {c \in Callers : stage[c] = "calling"}
FairQueueSpec == FairQueue!Spec
=============================================================================

------------------------------ MODULE FairLock ------------------------------
(***************************************************************************)
(* What the signing mutex of the L1 transaction signer promises: at most   *)
(* one caller holds it, and a caller that has joined the queue is served   *)
(* in the order of the queue.  A caller whose lock() has begun but has not *)
(* yet been queued ("arriving") has no place in the order: whoever is      *)
(* queued first goes first.  It may only take the free lock directly while *)
(* the queue is empty.                                                     *)
(***************************************************************************)
EXTENDS Sequences

CONSTANTS Callers, NoCaller

VARIABLES holder,    \* the caller in the critical section, or NoCaller
          queue,     \* the callers waiting in line
          arriving   \* the callers that have asked but are not yet in line

lockVars == <<holder, queue, arriving>>

Init == /\ holder = NoCaller
        /\ queue = <<>>
        /\ arriving = {}

InLine(c) == \E i \in DOMAIN queue : queue[i] = c

Arrive(c) == /\ c # holder /\ c \notin arriving /\ ~InLine(c)
             /\ arriving' = arriving \union {c}
             /\ UNCHANGED <<holder, queue>>

Join(c) == /\ c \in arriving
           /\ holder # NoCaller
           /\ arriving' = arriving \ {c}
           /\ queue' = Append(queue, c)
           /\ UNCHANGED holder

AcquireDirectly(c) == /\ holder = NoCaller /\ queue = <<>>
                      /\ c \in arriving
                      /\ arriving' = arriving \ {c}
                      /\ holder' = c
                      /\ UNCHANGED queue

AcquireInTurn(c) == /\ holder = NoCaller /\ queue # <<>>
                    /\ c = Head(queue)
                    /\ holder' = c
                    /\ queue' = Tail(queue)
                    /\ UNCHANGED arriving

Release(c) == /\ holder = c
              /\ holder' = NoCaller
              /\ UNCHANGED <<queue, arriving>>

Next == \E c \in Callers : \/ Arrive(c)
                           \/ Join(c)
                           \/ AcquireDirectly(c)
                           \/ AcquireInTurn(c)
                           \/ Release(c)

Spec == Init /\ [][Next]_lockVars
=============================================================================

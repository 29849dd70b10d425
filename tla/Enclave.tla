------------------------------- MODULE Enclave -------------------------------
(***************************************************************************)
(* The connection to the enclave (class Enclave of connection.ts over      *)
(* EnclaveWSProvider of provider.ts): sockets, reconnection, calls and     *)
(* their answers, and the subscriptions that every new socket needs.       *)
(*                                                                         *)
(* Sockets are numbered in the order in which they are made.  The handlers *)
(* stay attached to a socket that the provider has let go, so its last     *)
(* events still reach the enclave object.  A handler and the continuations *)
(* that it wakes are one step; handlers of emitted events are not modelled *)
(* as running inside it.  The socket and the enclave behind it, which      *)
(* serves the requests of a connection in order, are external.             *)
(***************************************************************************)
EXTENDS Naturals, FiniteSets, Sequences

CONSTANTS Addresses, Everyone,  \* whom subscribe() may be called for
          MaxSockets,           \* sockets ever made
          MaxConnects,          \* calls of connect() by the application
          MaxDisconnects,       \* calls of disconnect()
          MaxFailures,          \* sockets that fail by themselves
          MaxAccountCalls,      \* calls besides subscriptions
          RemoteCloses,         \* may the operator close a connection in order
          Refuses               \* may the enclave answer with an error

ASSUME EveryoneAssumption == Everyone \notin Addresses
ASSUME BoundsAssumption ==
  {MaxSockets, MaxConnects, MaxDisconnects, MaxFailures, MaxAccountCalls} \subseteq Nat
ASSUME FlagsAssumption == {RemoteCloses, Refuses} \subseteq BOOLEAN

Who == Addresses \union {Everyone}
Topics == ({"tx", "bp"} \X Who) \union {<<"ps", Everyone>>, <<"account", Everyone>>}
NoSocket == 0
Sockets == 1..MaxSockets
SocketStates == {"none", "connecting", "open",
                 "aborting",  \* closed while connecting: error and close event due
                 "closing",   \* closed while open: close event due
                 "failed",    \* error event delivered: close event due
                 "closed"}

VARIABLES
  sock,           \* the state of every socket
  ws,             \* provider: the current socket
  initialized,    \* provider: may send
  opened,         \* #opened
  subscribed,     \* #globallySubscribed (Everyone) and #individuallySubscribed
  phaseShifts,    \* #phaseShiftSubscribed
  timers,         \* reconnection timers that run
  calls,          \* #calls: what each pending call id asks, and which
                  \* subscribe() awaits it
  nextID,         \* #id
  awaiting,       \* what each subscribe() awaits: a topic's kind, or its state
  wire,           \* what is in transit on each socket: answers, then requests
  active,         \* enclave: what is subscribed through each socket
  wanted,         \* the application's last word was connect()
  everOpen,       \* some socket has been open
  connects, disconnects, failures, accountCalls

provider == <<sock, ws, initialized>>
requests == <<calls, nextID, awaiting, wire>>
subscriptions == <<subscribed, phaseShifts>>
history == <<wanted, everOpen>>
bounds == <<connects, disconnects, failures, accountCalls>>
vars == <<provider, opened, subscriptions, timers, requests, active, history, bounds>>

Request(t, w) == [topic |-> t, by |-> w]
Nobody == "nobody"
ASSUME NobodyAssumption == Nobody \notin Who

Init == /\ sock = [s \in Sockets |-> "none"]
        /\ ws = NoSocket /\ initialized = FALSE /\ opened = FALSE
        /\ subscribed = {} /\ phaseShifts = FALSE
        /\ timers = 0
        /\ calls = [i \in {} |-> 0] /\ nextID = 0
        /\ awaiting = [w \in Who |-> "idle"]
        /\ wire = [s \in Sockets |-> <<>>]
        /\ active = [s \in Sockets |-> {}]
        /\ wanted = FALSE /\ everOpen = FALSE
        /\ connects = 0 /\ disconnects = 0 /\ failures = 0 /\ accountCalls = 0
-----------------------------------------------------------------------------
(* provider.close() on the sockets sk; ws.close() is asynchronous.         *)
Closed(sk) == [s \in Sockets |->
                 IF s # ws THEN sk[s]
                 ELSE CASE sk[s] = "connecting" -> "aborting"
                        [] sk[s] = "open" -> "closing"
                        [] OTHER -> sk[s]]

Unmade == {s \in Sockets : sock[s] = "none"}

(* Mutant: the old socket is let go without being closed.                  *)
NewSocketLeavingOld ==
  \E s \in Unmade :
    /\ \A r \in Unmade : s <= r
    /\ sock' = [sock EXCEPT ![s] = "connecting"]
    /\ ws' = s /\ initialized' = FALSE

(* provider.connect(): the old socket is closed, a new one is made.        *)
NewSocket ==
  \E s \in Unmade :
    /\ \A r \in Unmade : s <= r
    /\ sock' = [Closed(sock) EXCEPT ![s] = "connecting"]
    /\ ws' = s
    /\ initialized' = (IF ws = NoSocket THEN initialized ELSE FALSE)

LetGo(sk) == /\ sock' = Closed(sk)
             /\ ws' = NoSocket
             /\ initialized' = (IF ws = NoSocket THEN initialized ELSE FALSE)

(* sendCall() of several requests in turn.  An entry is made for each      *)
(* before it is sent; what is sent on a socket that is not open is lost.   *)
(* rest is the wire, and pending are the calls, without what is settled.   *)
Send(reqs, rest, pending) ==
  /\ nextID' = nextID + Len(reqs)
  /\ LET fresh == nextID..(nextID + Len(reqs) - 1)
     IN  calls' = [i \in fresh \union DOMAIN pending |->
                     IF i \in fresh THEN reqs[i - nextID + 1] ELSE pending[i]]
  /\ LET msgs == [k \in DOMAIN reqs |->
                   [id |-> nextID + k - 1, topic |-> reqs[k].topic, kind |-> "request"]]
         sent == {s \in Sockets : s = ws' /\ initialized' /\ sock'[s] = "open"}
     IN  wire' = [s \in Sockets |-> IF s \in sent THEN rest[s] \o msgs ELSE rest[s]]

(* A caller whose send throws gets the exception.                          *)
AwaitOrFail(w, t) == awaiting' = [awaiting EXCEPT ![w] = IF initialized' THEN t ELSE "failed"]
-----------------------------------------------------------------------------
Connect ==
  /\ connects < MaxConnects
  /\ connects' = connects + 1
  /\ wanted' = TRUE
  /\ NewSocket
  /\ UNCHANGED <<opened, subscriptions, timers, requests, active, everOpen,
                 disconnects, failures, accountCalls>>

Disconnect ==
  /\ disconnects < MaxDisconnects
  /\ disconnects' = disconnects + 1
  /\ wanted' = FALSE
  /\ LetGo(sock)
  /\ UNCHANGED <<opened, subscriptions, timers, requests, active, everOpen,
                 connects, failures, accountCalls>>

Subscribe(w) ==
  /\ awaiting[w] = "idle"
  /\ subscribed' = subscribed \union {w}
  /\ UNCHANGED provider
  /\ Send(<<Request(<<"tx", w>>, w)>>, wire, calls)
  /\ AwaitOrFail(w, "tx")
  /\ UNCHANGED <<opened, phaseShifts, timers, active, history, bounds>>

(* Any other call, of which only that it is answered matters here.         *)
GetAccount ==
  /\ accountCalls < MaxAccountCalls
  /\ accountCalls' = accountCalls + 1
  /\ UNCHANGED provider
  /\ Send(<<Request(<<"account", Everyone>>, Nobody)>>, wire, calls)
  /\ UNCHANGED <<awaiting, opened, subscriptions, timers, active, history,
                 connects, disconnects, failures>>

(* The reconnection timer fires: connect(), whatever happened since.       *)
Reconnect ==
  /\ timers > 0
  /\ timers' = timers - 1
  /\ NewSocket
  /\ UNCHANGED <<opened, subscriptions, requests, active, history, bounds>>
-----------------------------------------------------------------------------
SubscriptionsOf(W) == {<<k, w>> : k \in {"tx", "bp"}, w \in W}

(* Mutant: only the subscription for everyone is renewed.                  *)
WishedGlobally ==
  SubscriptionsOf(subscribed \intersect {Everyone})
    \union (IF phaseShifts THEN {<<"ps", Everyone>>} ELSE {})

(* What a new socket has to subscribe: what subscribe() has noted.         *)
Wished == SubscriptionsOf(subscribed)
          \union (IF phaseShifts THEN {<<"ps", Everyone>>} ELSE {})

Renewals(T) == CHOOSE q \in [1..Cardinality(T) -> {Request(t, Nobody) : t \in T}] :
                 \A t \in T : \E i \in DOMAIN q : q[i].topic = t

(* Mutant: call ids start anew with each connection.                       *)
OpenEventNumberingAnew(s) ==
  /\ sock[s] = "connecting"
  /\ sock' = [sock EXCEPT ![s] = "open"]
  /\ initialized' = TRUE /\ opened' = TRUE /\ everOpen' = TRUE
  /\ nextID' = 0
  /\ UNCHANGED <<ws, calls, wire, awaiting, subscriptions, timers, active, wanted, bounds>>

(* onOpen(): every subscription is renewed, and nobody awaits the answers. *)
(* A socket that was aborted says so before a later one can have opened.   *)
OpenEvent(s) ==
  /\ sock[s] = "connecting"
  /\ \A r \in Sockets : sock[r] # "aborting"
  /\ sock' = [sock EXCEPT ![s] = "open"]
  /\ initialized' = TRUE /\ opened' = TRUE /\ everOpen' = TRUE
  /\ UNCHANGED ws
  /\ Send(Renewals(Wished), wire, calls)
  /\ UNCHANGED <<awaiting, subscriptions, timers, active, wanted, bounds>>

Fails(s) == \/ /\ sock[s] \in {"connecting", "open", "closing"}
               /\ failures < MaxFailures
               /\ failures' = failures + 1
            \/ sock[s] = "aborting" /\ UNCHANGED failures

(* Mutant: an error of a connection that was open is not followed up.      *)
ErrorEventWithoutTimer(s) ==
  /\ Fails(s)
  /\ LetGo([sock EXCEPT ![s] = "failed"])
  /\ UNCHANGED <<timers, opened, subscriptions, requests, active, history,
                 connects, disconnects, accountCalls>>

(* onError(): a timer if #opened, and the provider lets go of its current  *)
(* socket, whichever socket the error is of.                               *)
ErrorEvent(s) ==
  /\ Fails(s)
  /\ timers' = timers + (IF opened THEN 1 ELSE 0)
  /\ LetGo([sock EXCEPT ![s] = "failed"])
  /\ UNCHANGED <<opened, subscriptions, requests, active, history,
                 connects, disconnects, accountCalls>>

(* onClose(): what is in transit on the socket is lost.                    *)
CloseEvent(s) ==
  /\ sock[s] \in {"failed", "closing"} \/ (RemoteCloses /\ sock[s] = "open")
  /\ sock' = [sock EXCEPT ![s] = "closed"]
  /\ opened' = FALSE
  /\ wire' = [wire EXCEPT ![s] = <<>>]
  /\ active' = [active EXCEPT ![s] = {}]
  /\ UNCHANGED <<ws, initialized, subscriptions, timers, calls, nextID, awaiting,
                 history, bounds>>

EnclaveAnswers(s) ==
  /\ sock[s] = "open"
  /\ \E i \in DOMAIN wire[s] :
       /\ wire[s][i].kind = "request"
       /\ \A j \in 1..(i - 1) : wire[s][j].kind # "request"
       /\ \/ /\ wire' = [wire EXCEPT ![s][i].kind = "answer"]
             /\ active' = [active EXCEPT ![s] = @ \union {wire[s][i].topic}]
          \/ /\ Refuses
             /\ wire' = [wire EXCEPT ![s][i].kind = "error"]
             /\ UNCHANGED active
  /\ UNCHANGED <<provider, opened, subscriptions, timers, calls, nextID, awaiting,
                 history, bounds>>
-----------------------------------------------------------------------------
(* The application's subscribe() goes on to its next topic, or is done.    *)
Continue(w, last, rest, pending) ==
  \/ /\ last = "tx"
     /\ Send(<<Request(<<"bp", w>>, w)>>, rest, pending)
     /\ AwaitOrFail(w, "bp")
     /\ UNCHANGED phaseShifts
  \/ /\ last = "bp" /\ ~phaseShifts
     /\ phaseShifts' = TRUE
     /\ Send(<<Request(<<"ps", Everyone>>, w)>>, rest, pending)
     /\ AwaitOrFail(w, "ps")
  \/ /\ last = "ps" \/ (last = "bp" /\ phaseShifts)
     /\ awaiting' = [awaiting EXCEPT ![w] = "done"]
     /\ Send(<<>>, rest, pending)
     /\ UNCHANGED phaseShifts

(* onMessage(): the answer settles the pending call of its id, and the     *)
(* subscribe() that awaits it goes on.                                     *)
AnswerEvent(s) ==
  /\ sock[s] \in {"open", "closing"}
  /\ wire[s] # <<>>
  /\ LET m == Head(wire[s])
         by == calls[m.id].by
         rest == [wire EXCEPT ![s] = Tail(@)]
         pending == [i \in DOMAIN calls \ {m.id} |-> calls[i]]
     IN  /\ m.kind # "request"
         /\ m.id \in DOMAIN calls
         /\ UNCHANGED provider
         /\ \/ /\ by = Nobody
               /\ Send(<<>>, rest, pending)
               /\ UNCHANGED <<awaiting, phaseShifts>>
            \/ /\ by # Nobody /\ m.kind = "error"
               /\ awaiting' = [awaiting EXCEPT ![by] = "failed"]
               /\ Send(<<>>, rest, pending)
               /\ UNCHANGED phaseShifts
            \/ /\ by # Nobody /\ m.kind = "answer"
               /\ Continue(by, awaiting[by], rest, pending)
  /\ UNCHANGED <<opened, subscribed, timers, active, history, bounds>>

SocketEvent(s) == \/ OpenEvent(s) \/ ErrorEvent(s) \/ CloseEvent(s)
                  \/ EnclaveAnswers(s) \/ AnswerEvent(s)

Next == \/ Connect \/ Disconnect \/ GetAccount \/ Reconnect
        \/ \E w \in Who : Subscribe(w)
        \/ \E s \in Sockets : SocketEvent(s)

Spec == Init /\ [][Next]_vars

(* Timers fire, a socket that connects opens or fails, one that closes has *)
(* closed, and one that was aborted says so.                               *)
FairSpec == /\ Spec
            /\ WF_vars(Reconnect)
            /\ \A s \in Sockets :
                 /\ WF_vars(OpenEvent(s))
                 /\ WF_vars(ErrorEvent(s) /\ sock[s] = "aborting")
                 /\ WF_vars(CloseEvent(s) /\ sock[s] # "open")
-----------------------------------------------------------------------------
Messages == [id : Nat, topic : Topics, kind : {"request", "answer", "error"}]

TypeOK ==
  /\ sock \in [Sockets -> SocketStates]
  /\ ws \in Sockets \union {NoSocket}
  /\ {initialized, opened, phaseShifts, wanted, everOpen} \subseteq BOOLEAN
  /\ subscribed \subseteq Who
  /\ timers \in Nat
  /\ nextID \in Nat /\ DOMAIN calls \subseteq 0..(nextID - 1)
  /\ \A i \in DOMAIN calls : calls[i] \in [topic : Topics, by : Who \union {Nobody}]
  /\ awaiting \in [Who -> {"idle", "tx", "bp", "ps", "done", "failed"}]
  /\ wire \in [Sockets -> Seq(Messages)]
  /\ active \in [Sockets -> SUBSET Topics]
  /\ connects \in 0..MaxConnects /\ disconnects \in 0..MaxDisconnects
  /\ failures \in 0..MaxFailures /\ accountCalls \in 0..MaxAccountCalls

(* However connect(), disconnect(), timers and errors follow each other,   *)
(* there is at most one connection, and it is the provider's: nothing is   *)
(* received twice.                                                         *)
OneConnection == \A s \in Sockets : sock[s] \in {"connecting", "open"} => s = ws

(* A message settles the call it answers, also when it comes late, from a  *)
(* connection that has been replaced since.                                *)
AnswerMatchesCall ==
  \A s \in Sockets : \A i \in DOMAIN wire[s] :
    LET m == wire[s][i] IN m.id \in DOMAIN calls /\ calls[m.id].topic = m.topic

(* Through an open connection flows what was ever subscribed to: each      *)
(* subscription is active there, or requested there, or a subscribe() in   *)
(* progress is about to request it.                                        *)
RequestedVia(s) == {wire[s][i].topic : i \in DOMAIN wire[s]}
ComingVia(s) == {<<"bp", w>> : w \in {v \in Who : \E i \in DOMAIN wire[s] :
                                       /\ wire[s][i].topic = <<"tx", v>>
                                       /\ calls[wire[s][i].id].by = v}}
OpenMeansSubscribed ==
  ws # NoSocket /\ sock[ws] = "open" /\ ~Refuses =>
    SubscriptionsOf(subscribed) \union {t \in {<<"ps", Everyone>>} : phaseShifts}
      \subseteq active[ws] \union RequestedVia(ws) \union ComingVia(ws)

CurrentOpen == ws # NoSocket /\ sock[ws] = "open"

(* A connection that was lost is re-established, for as long as the        *)
(* application wants one.                                                  *)
Reestablished == (wanted /\ everOpen) ~> (CurrentOpen \/ ~wanted)
=============================================================================

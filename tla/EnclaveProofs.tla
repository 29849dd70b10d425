---------------------------- MODULE EnclaveProofs ----------------------------
(* For any number of sockets, accounts and calls, and any order of          *)
(* connect(), disconnect(), timers and socket events: the connection never  *)
(* has two sockets at once, answers find the calls they answer, what was    *)
(* subscribed to flows through the socket that is open, and a connection    *)
(* that was lost while #opened was set is on its way back.                  *)
EXTENDS Enclave, FiniteSetTheorems, TLAPS

Live(sk) == {s \in Sockets : sk[s] \in {"connecting", "open"}}

(* The sockets and the provider's reference to one of them.                 *)
Provider == /\ sock \in [Sockets -> SocketStates]
            /\ ws \in Sockets \union {NoSocket}
            /\ Live(sock) \subseteq {ws}

(* What provider.close() leaves alive of sockets like these: nothing.       *)
LEMMA ClosedLeavesNothing ==
  ASSUME NEW sk \in [Sockets -> SocketStates], Live(sk) \subseteq {ws}
  PROVE  Closed(sk) \in [Sockets -> SocketStates] /\ Live(Closed(sk)) = {}
<1>1. Closed(sk) \in [Sockets -> SocketStates]
  BY DEF Closed, SocketStates
<1>2. ASSUME NEW s \in Sockets, Closed(sk)[s] \in {"connecting", "open"}
      PROVE  FALSE
  <2>1. CASE s = ws
    BY <1>2, <2>1 DEF Closed, SocketStates
  <2>2. CASE s # ws
    <3>1. sk[s] \in {"connecting", "open"}
      BY <1>2, <2>2 DEF Closed
    <3>2. QED
      BY <2>2, <3>1 DEF Live
  <2>3. QED
    BY <2>1, <2>2
<1>3. QED
  BY <1>1, <1>2 DEF Live

(* provider.connect() as connect() and the timer use it.                    *)
LEMMA NewSocketKeepsProvider == Provider /\ NewSocket => Provider'
<1> SUFFICES ASSUME Provider, NewSocket PROVE Provider'
  OBVIOUS
<1>1. Closed(sock) \in [Sockets -> SocketStates] /\ Live(Closed(sock)) = {}
  BY ClosedLeavesNothing DEF Provider
<1>2. PICK s \in Unmade : /\ sock' = [Closed(sock) EXCEPT ![s] = "connecting"]
                          /\ ws' = s
  BY DEF NewSocket
<1>3. s \in Sockets
  BY DEF Unmade
<1>4. sock' \in [Sockets -> SocketStates]
  BY <1>1, <1>2, <1>3 DEF SocketStates
<1>5. Live(sock') \subseteq {ws'}
  BY <1>1, <1>2, <1>3 DEF Live
<1>6. QED
  BY <1>2, <1>3, <1>4, <1>5 DEF Provider

(* provider.close(), also when the socket that reports an error is another. *)
LEMMA LetGoKeepsProvider ==
  ASSUME NEW sk \in [Sockets -> SocketStates], Live(sk) \subseteq {ws}, LetGo(sk)
  PROVE  Provider'
<1>1. sock' \in [Sockets -> SocketStates] /\ Live(sock') = {}
  BY ClosedLeavesNothing DEF LetGo
<1>2. ws' = NoSocket
  BY DEF LetGo
<1>3. QED
  BY <1>1, <1>2 DEF Provider

(* A socket event that makes no other socket live.                          *)
LEMMA SocketStepKeepsProvider ==
  ASSUME Provider, ws' = ws,
         NEW s \in Sockets, NEW st \in SocketStates,
         st \in {"connecting", "open"} => s \in Live(sock),
         sock' = [sock EXCEPT ![s] = st]
  PROVE  Provider'
<1>1. sock' \in [Sockets -> SocketStates]
  BY DEF Provider
<1>2. Live(sock') \subseteq Live(sock)
  BY DEF Live, Provider
<1>3. QED
  BY <1>1, <1>2 DEF Provider

LEMMA ProviderInit == Init => Provider
  BY DEF Init, Provider, Live, SocketStates, NoSocket

LEMMA ProviderStep == Provider /\ [Next]_vars => Provider'
<1> SUFFICES ASSUME Provider, [Next]_vars PROVE Provider'
  OBVIOUS
<1>1. CASE Connect \/ Reconnect
  BY <1>1, NewSocketKeepsProvider DEF Connect, Reconnect
<1>2. CASE Disconnect
  BY <1>2, LetGoKeepsProvider DEF Disconnect, Provider
<1>3. ASSUME UNCHANGED <<sock, ws>> PROVE Provider'
  BY <1>3 DEF Provider, Live
<1>4. CASE GetAccount
  BY <1>3, <1>4 DEF GetAccount, provider
<1>5. CASE \E w \in Who : Subscribe(w)
  BY <1>3, <1>5 DEF Subscribe, provider
<1>6. ASSUME NEW s \in Sockets, SocketEvent(s) PROVE Provider'
  <2>1. CASE OpenEvent(s)
    <3>1. sock[s] = "connecting" /\ sock' = [sock EXCEPT ![s] = "open"] /\ ws' = ws
      BY <2>1 DEF OpenEvent
    <3>2. s \in Live(sock)
      BY <3>1 DEF Live
    <3>3. QED
      BY <3>1, <3>2, SocketStepKeepsProvider DEF SocketStates
  <2>2. CASE ErrorEvent(s)
    <3> DEFINE sk == [sock EXCEPT ![s] = "failed"]
    <3>1. sk \in [Sockets -> SocketStates]
      BY DEF Provider, SocketStates
    <3>2. Live(sk) \subseteq {ws}
      BY DEF Provider, Live
    <3>3. LetGo(sk)
      BY <2>2 DEF ErrorEvent
    <3> HIDE DEF sk
    <3>4. QED
      BY <3>1, <3>2, <3>3, LetGoKeepsProvider
  <2>3. CASE CloseEvent(s)
    <3>1. sock' = [sock EXCEPT ![s] = "closed"] /\ ws' = ws
      BY <2>3 DEF CloseEvent
    <3>2. QED
      BY <3>1, SocketStepKeepsProvider DEF SocketStates
  <2>4. CASE EnclaveAnswers(s)
    BY <1>3, <2>4 DEF EnclaveAnswers, provider
  <2>5. CASE AnswerEvent(s)
    <3>1. UNCHANGED provider
      BY <2>5 DEF AnswerEvent
    <3>2. QED
      BY <1>3, <3>1 DEF provider
  <2>6. QED
    BY <1>6, <2>1, <2>2, <2>3, <2>4, <2>5 DEF SocketEvent
<1>7. CASE UNCHANGED vars
  BY <1>3, <1>7 DEF vars, provider
<1>8. QED
  BY <1>1, <1>2, <1>4, <1>5, <1>6, <1>7 DEF Next

(* However connect(), disconnect(), the reconnection timers and the events  *)
(* of old and new sockets follow each other, no two connections exist at    *)
(* once and the one that does is the provider's.                            *)
THEOREM OneConnectionAtATime == Spec => []OneConnection
<1>1. Provider => OneConnection
  BY DEF Provider, OneConnection, Live
<1>2. QED
  BY <1>1, ProviderInit, ProviderStep, PTL DEF Spec
-----------------------------------------------------------------------------
(* Calls and answers.  Every message in transit, request or answer, carries *)
(* the id of a pending call of its topic, and no two carry the same.        *)
Entries == [topic : Topics, by : Who \union {Nobody}]
Wires(wr, cs, n) ==
  /\ wr \in [Sockets -> Seq(Messages)]
  /\ n \in Nat /\ DOMAIN cs \subseteq 0..(n - 1)
  /\ \A i \in DOMAIN cs : cs[i] \in Entries
  /\ \A s \in Sockets : \A i \in 1..Len(wr[s]) :
       wr[s][i].id \in DOMAIN cs /\ cs[wr[s][i].id].topic = wr[s][i].topic
  /\ \A s, t \in Sockets : \A i \in 1..Len(wr[s]), j \in 1..Len(wr[t]) :
       wr[s][i].id = wr[t][j].id => s = t /\ i = j
CallInv == Wires(wire, calls, nextID)

(* What sendCall() adds: one entry per request, and its message, if the     *)
(* provider's socket is open.                                               *)
Fresh(reqs) == nextID..(nextID + Len(reqs) - 1)
Sent(reqs, k) == [id |-> nextID + k - 1, topic |-> reqs[k].topic, kind |-> "request"]
Extended(new, old, reqs) ==
  /\ new \in Seq(Messages)
  /\ Len(new) = Len(old) + Len(reqs)
  /\ \A i \in 1..Len(old) : new[i] = old[i]
  /\ \A k \in 1..Len(reqs) : new[Len(old) + k] = Sent(reqs, k)
  /\ \A i \in 1..Len(new) : \/ i \in 1..Len(old)
                            \/ i - Len(old) \in 1..Len(reqs) /\ new[i] = Sent(reqs, i - Len(old))

LEMMA ExtendedWire ==
  ASSUME nextID \in Nat, NEW reqs \in Seq(Entries), NEW old \in Seq(Messages),
         NEW msgs, msgs = [k \in DOMAIN reqs |-> Sent(reqs, k)]
  PROVE  Extended(old \o msgs, old, reqs)
<1>1. DOMAIN reqs = 1..Len(reqs) /\ Len(reqs) \in Nat
  OBVIOUS
<1>2. ASSUME NEW k \in 1..Len(reqs) PROVE Sent(reqs, k) \in Messages
  <2>0. reqs[k] \in Entries
    BY <1>1, <1>2
  <2>1. reqs[k].topic \in Topics
    BY <2>0 DEF Entries
  <2>2. nextID + k - 1 \in Nat
    BY <1>2
  <2>. QED  BY <2>1, <2>2 DEF Sent, Messages
<1>3. msgs \in Seq(Messages) /\ Len(msgs) = Len(reqs) /\ \A k \in 1..Len(reqs) : msgs[k] = Sent(reqs, k)
  <2>1. msgs \in [1..Len(reqs) -> Messages] /\ \A k \in 1..Len(reqs) : msgs[k] = Sent(reqs, k)
    BY <1>1, <1>2
  <2>. QED  BY <1>1, <2>1
<1>. HIDE DEF Messages
<1>4. /\ old \o msgs \in Seq(Messages) /\ Len(old \o msgs) = Len(old) + Len(msgs)
      /\ Len(old) \in Nat
      /\ \A i \in 1..(Len(old) + Len(msgs)) :
           (old \o msgs)[i] = IF i <= Len(old) THEN old[i] ELSE msgs[i - Len(old)]
  BY <1>3
<1>5. \A i \in 1..Len(old) : (old \o msgs)[i] = old[i]
  BY <1>3, <1>4
<1>6. \A k \in 1..Len(reqs) : (old \o msgs)[Len(old) + k] = Sent(reqs, k)
  <2>. SUFFICES ASSUME NEW k \in 1..Len(reqs) PROVE (old \o msgs)[Len(old) + k] = Sent(reqs, k)
    OBVIOUS
  <2>1. Len(old) + k \in 1..(Len(old) + Len(msgs)) /\ ~(Len(old) + k <= Len(old))
        /\ Len(old) + k - Len(old) = k
    BY <1>1, <1>3, <1>4
  <2>. QED  BY <1>3, <1>4, <2>1
<1>7. \A i \in 1..Len(old \o msgs) :
        \/ i \in 1..Len(old)
        \/ i - Len(old) \in 1..Len(reqs) /\ (old \o msgs)[i] = Sent(reqs, i - Len(old))
  <2>. SUFFICES ASSUME NEW i \in 1..Len(old \o msgs), i \notin 1..Len(old)
                PROVE  i - Len(old) \in 1..Len(reqs) /\ (old \o msgs)[i] = Sent(reqs, i - Len(old))
    OBVIOUS
  <2>1. i - Len(old) \in 1..Len(reqs) /\ i \in 1..(Len(old) + Len(msgs)) /\ ~(i <= Len(old))
    BY <1>1, <1>3, <1>4
  <2>. QED  BY <1>3, <1>4, <2>1
<1>. QED  BY <1>3, <1>4, <1>5, <1>6, <1>7 DEF Extended

Added(reqs, rest, pending) ==
  /\ nextID' = nextID + Len(reqs)
  /\ DOMAIN calls' = Fresh(reqs) \union DOMAIN pending
  /\ \A i \in DOMAIN pending : calls'[i] = pending[i] /\ i < nextID
  /\ \A k \in 1..Len(reqs) : nextID + k - 1 \in Fresh(reqs) /\ calls'[nextID + k - 1] = reqs[k]
  /\ \A i \in Fresh(reqs) : i - nextID + 1 \in 1..Len(reqs) /\ calls'[i] = reqs[i - nextID + 1]
  /\ DOMAIN wire' = Sockets
  /\ \A s \in Sockets :
       IF s = ws' /\ initialized' /\ sock'[s] = "open"
       THEN Extended(wire'[s], rest[s], reqs) ELSE wire'[s] = rest[s]

LEMMA SendFacts ==
  ASSUME nextID \in Nat, NEW reqs \in Seq(Entries), NEW rest \in [Sockets -> Seq(Messages)],
         NEW pending, DOMAIN pending \subseteq 0..(nextID - 1), Send(reqs, rest, pending)
  PROVE  Added(reqs, rest, pending)
<1>. DEFINE msgs == [k \in DOMAIN reqs |-> Sent(reqs, k)]
<1>1. Len(reqs) \in Nat
  OBVIOUS
<1>2. nextID' = nextID + Len(reqs)
  BY DEF Send
<1>3. calls' = [i \in Fresh(reqs) \union DOMAIN pending |->
                  IF i \in Fresh(reqs) THEN reqs[i - nextID + 1] ELSE pending[i]]
  BY DEF Send, Fresh
<1>4. wire' = [s \in Sockets |-> IF s = ws' /\ initialized' /\ sock'[s] = "open"
                                 THEN rest[s] \o msgs ELSE rest[s]]
  BY Zenon DEF Send, Sent
<1>. HIDE DEF msgs
<1>5. \A i \in DOMAIN pending : i < nextID /\ i \notin Fresh(reqs)
  BY <1>1 DEF Fresh
<1>6. \A k \in 1..Len(reqs) : nextID + k - 1 \in Fresh(reqs) /\ (nextID + k - 1) - nextID + 1 = k
  BY <1>1 DEF Fresh
<1>7. \A i \in Fresh(reqs) : i - nextID + 1 \in 1..Len(reqs)
  BY <1>1 DEF Fresh
<1>8. ASSUME NEW s \in Sockets PROVE Extended(rest[s] \o msgs, rest[s], reqs)
  BY ExtendedWire DEF msgs
<1>. QED  BY <1>2, <1>3, <1>4, <1>5, <1>6, <1>7, <1>8 DEF Added

LEMMA SendKeepsCalls ==
  ASSUME NEW reqs \in Seq(Entries), NEW rest, NEW pending,
         Wires(rest, pending, nextID), Send(reqs, rest, pending)
  PROVE  CallInv'
<1>1. /\ rest \in [Sockets -> Seq(Messages)] /\ nextID \in Nat
      /\ DOMAIN pending \subseteq 0..(nextID - 1)
  BY DEF Wires
<1>2. Added(reqs, rest, pending)
  BY <1>1, SendFacts
<1>3. Len(reqs) \in Nat /\ \A k \in 1..Len(reqs) : reqs[k] \in Entries
  OBVIOUS
<1>4. nextID' \in Nat /\ DOMAIN calls' \subseteq 0..(nextID' - 1)
  BY <1>1, <1>2, <1>3 DEF Added, Fresh
<1>5. \A i \in DOMAIN calls' : calls'[i] \in Entries
  BY <1>2, <1>3 DEF Added, Wires
<1>6. wire' \in [Sockets -> Seq(Messages)]
  <2>1. wire' = [s \in Sockets |-> wire'[s]]
    BY Zenon DEF Send
  <2>2. \A s \in Sockets : wire'[s] \in Seq(Messages)
    BY <1>1, <1>2 DEF Added, Extended
  <2>. QED  BY <2>1, <2>2
(* A message is an old one, or a new one with a fresh id on the only socket. *)
<1>. DEFINE Old(s, i) == i \in 1..Len(rest[s]) /\ wire'[s][i] = rest[s][i]
            New(s, i) == LET k == i - Len(rest[s]) IN
                           s = ws' /\ k \in 1..Len(reqs) /\ wire'[s][i] = Sent(reqs, k)
<1>7. \A s \in Sockets : \A i \in 1..Len(wire'[s]) : Old(s, i) \/ New(s, i)
  BY <1>2 DEF Added, Extended
<1>8. \A s \in Sockets, i \in Nat : New(s, i) =>
        /\ wire'[s][i].id = nextID + (i - Len(rest[s])) - 1
        /\ wire'[s][i].topic = reqs[i - Len(rest[s])].topic
  BY DEF Sent
<1>9. \A s \in Sockets, i \in Nat : Old(s, i) =>
        /\ wire'[s][i].id \in DOMAIN pending
        /\ pending[wire'[s][i].id].topic = wire'[s][i].topic
  BY DEF Wires
<1>10. ASSUME NEW s \in Sockets, NEW i \in 1..Len(wire'[s])
       PROVE  wire'[s][i].id \in DOMAIN calls' /\ calls'[wire'[s][i].id].topic = wire'[s][i].topic
  <2>1. CASE Old(s, i)
    BY <1>2, <1>9, <2>1 DEF Added
  <2>2. CASE New(s, i)
    <3>. DEFINE k == i - Len(rest[s])
    <3>1. /\ k \in 1..Len(reqs)
          /\ wire'[s][i].id = nextID + k - 1 /\ wire'[s][i].topic = reqs[k].topic
      BY <1>8, <2>2
    <3>2. nextID + k - 1 \in DOMAIN calls' /\ calls'[nextID + k - 1] = reqs[k]
      BY <1>2, <3>1 DEF Added
    <3>. QED  BY <3>1, <3>2
  <2>. QED  BY <1>7, <2>1, <2>2
<1>11. ASSUME NEW s \in Sockets, NEW t \in Sockets, NEW i \in 1..Len(wire'[s]), NEW j \in 1..Len(wire'[t]),
              wire'[s][i].id = wire'[t][j].id
       PROVE  s = t /\ i = j
  <2>1. CASE Old(s, i) /\ Old(t, j)
    <3>1. i \in 1..Len(rest[s]) /\ j \in 1..Len(rest[t]) /\ rest[s][i].id = rest[t][j].id
      BY <1>11, <2>1
    <3>. QED  BY <3>1 DEF Wires
  <2>2. CASE New(s, i) /\ New(t, j)
    <3>1. s = t /\ Len(rest[s]) \in Nat /\ nextID \in Nat /\ i \in Int /\ j \in Int
      BY <1>1, <2>2
    <3>2. i \in Nat /\ j \in Nat
      OBVIOUS
    <3>3. /\ wire'[s][i].id = nextID + (i - Len(rest[s])) - 1
          /\ wire'[t][j].id = nextID + (j - Len(rest[t])) - 1
      BY <1>8, <2>2, <3>2
    <3>. DEFINE n == Len(rest[s])
    <3>4. nextID + (i - n) - 1 = nextID + (j - n) - 1 /\ n \in Nat
      BY <1>11, <3>1, <3>3
    <3>. HIDE DEF New, n
    <3>5. i = j
      BY <3>1, <3>4
    <3>. QED  BY <3>1, <3>5
  <2>3. ASSUME NEW u \in Sockets, NEW v \in Sockets, NEW a \in Nat, NEW b \in Nat,
               Old(u, a), New(v, b)
        PROVE  wire'[u][a].id # wire'[v][b].id
    <3>1. wire'[u][a].id \in Nat /\ wire'[u][a].id < nextID
      <4>1. wire'[u][a].id \in DOMAIN pending
        BY <1>9, <2>3
      <4>. QED  BY <1>1, <1>2, <4>1 DEF Added
    <3>2. wire'[v][b].id \in Int /\ wire'[v][b].id >= nextID
      <4>. DEFINE k == b - Len(rest[v])
      <4>1. k \in 1..Len(reqs) /\ wire'[v][b].id = nextID + k - 1
        BY <1>8, <2>3
      <4>. HIDE DEF k
      <4>. QED  BY <1>1, <1>3, <4>1
    <3>. QED  BY <1>1, <3>1, <3>2
  <2>. QED  BY <1>7, <1>11, <2>1, <2>2, <2>3
<1>. HIDE DEF Old, New
<1>. QED  BY <1>4, <1>5, <1>6, <1>10, <1>11 DEF CallInv, Wires

(* onMessage() takes the answer off the wire and its call out of the map.   *)
Without(s) == [wire EXCEPT ![s] = Tail(@)]
Unsettled(c) == [i \in DOMAIN calls \ {c} |-> calls[i]]

LEMMA SettledCall ==
  ASSUME CallInv, NEW s \in Sockets, wire[s] # <<>>
  PROVE  /\ Wires(Without(s), Unsettled(Head(wire[s]).id), nextID)
         /\ Len(Without(s)[s]) = Len(wire[s]) - 1
         /\ \A i \in 1..Len(Without(s)[s]) : i + 1 \in 1..Len(wire[s]) /\ Without(s)[s][i] = wire[s][i + 1]
         /\ \A t \in Sockets \ {s} : Without(s)[t] = wire[t]
<1>. DEFINE m == Head(wire[s])
            rest == Without(s)
<1>1. wire \in [Sockets -> Seq(Messages)]
  BY DEF CallInv, Wires
<1>. HIDE DEF Messages
<1>2. /\ m = wire[s][1] /\ 1 \in 1..Len(wire[s])
      /\ Tail(wire[s]) \in Seq(Messages) /\ Len(Tail(wire[s])) = Len(wire[s]) - 1
      /\ \A i \in 1..Len(Tail(wire[s])) : i + 1 \in 1..Len(wire[s]) /\ Tail(wire[s])[i] = wire[s][i + 1]
  BY <1>1
<1>3. /\ rest \in [Sockets -> Seq(Messages)] /\ rest[s] = Tail(wire[s])
      /\ \A t \in Sockets \ {s} : rest[t] = wire[t]
  BY <1>1, <1>2 DEF Without
<1>. HIDE DEF m, rest
(* What is left was on the wire before, somewhere behind the answer.        *)
<1>. DEFINE Was(t, i) == IF t = s THEN i + 1 ELSE i
<1>4. \A t \in Sockets : \A i \in 1..Len(rest[t]) :
        /\ Was(t, i) \in 1..Len(wire[t]) /\ rest[t][i] = wire[t][Was(t, i)]
        /\ t = s => Was(t, i) # 1
  <2>. SUFFICES ASSUME NEW t \in Sockets, NEW i \in 1..Len(rest[t])
                PROVE  /\ Was(t, i) \in 1..Len(wire[t]) /\ rest[t][i] = wire[t][Was(t, i)]
                       /\ t = s => Was(t, i) # 1
    OBVIOUS
  <2>1. CASE t = s
    <3>1. i \in 1..Len(Tail(wire[s])) /\ rest[t][i] = Tail(wire[s])[i]
      BY <1>3, <2>1
    <3>2. i + 1 # 1
      OBVIOUS
    <3>. QED  BY <1>2, <2>1, <3>1, <3>2
  <2>2. CASE t # s
    BY <1>3, <2>2
  <2>. QED  BY <2>1, <2>2
<1>. HIDE DEF Was
<1>10. /\ \A t \in Sockets : \A i \in 1..Len(wire[t]) :
            wire[t][i].id \in DOMAIN calls /\ calls[wire[t][i].id].topic = wire[t][i].topic
       /\ \A t, u \in Sockets : \A i \in 1..Len(wire[t]), j \in 1..Len(wire[u]) :
            wire[t][i].id = wire[u][j].id => t = u /\ i = j
  BY DEF CallInv, Wires
<1>5. \A t \in Sockets : \A i \in 1..Len(rest[t]) : rest[t][i].id # m.id
  <2>. SUFFICES ASSUME NEW t \in Sockets, NEW i \in 1..Len(rest[t]), rest[t][i].id = m.id
                PROVE  FALSE
    OBVIOUS
  <2>1. t = s /\ Was(t, i) = 1
    BY <1>2, <1>4, <1>10
  <2>. QED  BY <1>4, <2>1
<1>6. ASSUME NEW t \in Sockets, NEW i \in 1..Len(rest[t])
      PROVE  /\ rest[t][i].id \in DOMAIN Unsettled(m.id)
             /\ Unsettled(m.id)[rest[t][i].id].topic = rest[t][i].topic
  <2>1. rest[t][i].id \in DOMAIN calls /\ calls[rest[t][i].id].topic = rest[t][i].topic
    BY <1>4, <1>10
  <2>. QED  BY <1>5, <2>1 DEF Unsettled
<1>7. ASSUME NEW t \in Sockets, NEW u \in Sockets, NEW i \in 1..Len(rest[t]), NEW j \in 1..Len(rest[u]),
             rest[t][i].id = rest[u][j].id
      PROVE  t = u /\ i = j
  <2>1. t = u /\ Was(t, i) = Was(u, j)
    <3>1. /\ Was(t, i) \in 1..Len(wire[t]) /\ rest[t][i] = wire[t][Was(t, i)]
          /\ Was(u, j) \in 1..Len(wire[u]) /\ rest[u][j] = wire[u][Was(u, j)]
      BY <1>4
    <3>2. wire[t][Was(t, i)].id = wire[u][Was(u, j)].id
      BY <1>7, <3>1
    <3>. QED  BY <1>10, <3>1, <3>2
  <2>. QED  BY <2>1 DEF Was
<1>8. /\ nextID \in Nat /\ DOMAIN Unsettled(m.id) \subseteq 0..(nextID - 1)
      /\ \A i \in DOMAIN Unsettled(m.id) : Unsettled(m.id)[i] \in Entries
  BY DEF Unsettled, CallInv, Wires
<1>9. Wires(rest, Unsettled(m.id), nextID)
  BY <1>3, <1>6, <1>7, <1>8 DEF Wires
<1>. QED  BY <1>2, <1>3, <1>9 DEF m, rest

(* The enclave turns a request into its answer; a closed socket forgets.    *)
Marked(s, i, k) ==
  \A t \in Sockets : /\ Len(wire'[t]) = Len(wire[t])
                     /\ \A j \in 1..Len(wire[t]) :
                          /\ wire'[t][j].id = wire[t][j].id
                          /\ wire'[t][j].topic = wire[t][j].topic
                          /\ wire'[t][j].kind = IF t = s /\ j = i THEN k ELSE wire[t][j].kind

LEMMA MarkedCall ==
  ASSUME CallInv, UNCHANGED <<calls, nextID>>,
         NEW s \in Sockets, NEW i \in DOMAIN wire[s], NEW k \in {"answer", "error"},
         wire' = [wire EXCEPT ![s][i].kind = k]
  PROVE  /\ CallInv'
         /\ wire' \in [Sockets -> Seq(Messages)]
         /\ Marked(s, i, k)
<1>1. wire \in [Sockets -> Seq(Messages)]
  BY DEF CallInv, Wires
<1>2. wire[s] \in Seq(Messages) /\ i \in 1..Len(wire[s]) /\ wire[s][i] \in Messages
  BY <1>1
<1>. DEFINE m == [wire[s][i] EXCEPT !.kind = k]
<1>3. m \in Messages /\ m.id = wire[s][i].id /\ m.topic = wire[s][i].topic /\ m.kind = k
  BY <1>2 DEF Messages
<1>4. wire' = [wire EXCEPT ![s] = [wire[s] EXCEPT ![i] = m]]
  OBVIOUS
<1>. HIDE DEF m
<1>5. /\ [wire[s] EXCEPT ![i] = m] \in Seq(Messages)
      /\ Len([wire[s] EXCEPT ![i] = m]) = Len(wire[s])
      /\ \A j \in 1..Len(wire[s]) :
           [wire[s] EXCEPT ![i] = m][j] = IF j = i THEN m ELSE wire[s][j]
  BY <1>2, <1>3
<1>6. wire' \in [Sockets -> Seq(Messages)]
  BY <1>1, <1>4, <1>5
<1>7. \A t \in Sockets : /\ Len(wire'[t]) = Len(wire[t])
                         /\ \A j \in 1..Len(wire[t]) :
                              wire'[t][j] = IF t = s /\ j = i THEN m ELSE wire[t][j]
  BY <1>1, <1>4, <1>5
<1>8. \A t \in Sockets : \A j \in 1..Len(wire[t]) :
        wire'[t][j].id = wire[t][j].id /\ wire'[t][j].topic = wire[t][j].topic
  BY <1>3, <1>7
<1>9. CallInv'
  <2>1. \A t \in Sockets : \A j \in 1..Len(wire'[t]) :
          /\ j \in 1..Len(wire[t])
          /\ wire'[t][j].id = wire[t][j].id /\ wire'[t][j].topic = wire[t][j].topic
    BY <1>7, <1>8
  <2>2. /\ nextID' \in Nat /\ DOMAIN calls' \subseteq 0..(nextID' - 1)
        /\ \A c \in DOMAIN calls' : calls'[c] \in Entries
    BY DEF CallInv, Wires
  <2>3. ASSUME NEW t \in Sockets, NEW j \in 1..Len(wire'[t])
        PROVE  /\ wire'[t][j].id \in DOMAIN calls'
               /\ calls'[wire'[t][j].id].topic = wire'[t][j].topic
    BY <2>1 DEF CallInv, Wires
  <2>4. ASSUME NEW t \in Sockets, NEW u \in Sockets, NEW j \in 1..Len(wire'[t]),
               NEW l \in 1..Len(wire'[u]), wire'[t][j].id = wire'[u][l].id
        PROVE  t = u /\ j = l
    <3>1. j \in 1..Len(wire[t]) /\ l \in 1..Len(wire[u]) /\ wire[t][j].id = wire[u][l].id
      BY <2>1, <2>4
    <3>. QED  BY <3>1 DEF CallInv, Wires
  <2>. QED  BY <1>6, <2>2, <2>3, <2>4 DEF CallInv, Wires
<1>. QED  BY <1>3, <1>6, <1>7, <1>8, <1>9 DEF Marked

LEMMA ForgottenCalls ==
  ASSUME CallInv, UNCHANGED <<calls, nextID>>, NEW s \in Sockets,
         wire' = [wire EXCEPT ![s] = <<>>]
  PROVE  CallInv'
<1>1. wire \in [Sockets -> Seq(Messages)]
  BY DEF CallInv, Wires
<1>2. /\ wire' \in [Sockets -> Seq(Messages)] /\ Len(wire'[s]) = 0
      /\ \A t \in Sockets \ {s} : wire'[t] = wire[t]
  BY <1>1
<1>3. \A t \in Sockets : \A i \in 1..Len(wire'[t]) : t # s /\ wire'[t] = wire[t]
  BY <1>2
<1>. QED  BY <1>2, <1>3 DEF CallInv, Wires

(* onOpen() renews every subscription that was noted.                       *)
LEMMA RenewalsAreAll ==
  ASSUME NEW T \in SUBSET Topics, IsFiniteSet(T)
  PROVE  /\ Renewals(T) \in Seq(Entries)
         /\ \A t \in T : \E i \in 1..Len(Renewals(T)) : Renewals(T)[i].topic = t
         /\ \A i \in 1..Len(Renewals(T)) : Renewals(T)[i].by = Nobody
<1>. DEFINE n == Cardinality(T)
            R == {Request(t, Nobody) : t \in T}
<1>1. n \in Nat /\ ExistsBijection(1..n, T)
  BY FS_CardinalityType
<1>2. PICK b : b \in Bijection(1..n, T)
  BY <1>1 DEF ExistsBijection
<1>3. b \in [1..n -> T] /\ \A t \in T : \E i \in 1..n : b[i] = t
  BY <1>2 DEF Bijection, Surjection
<1>. DEFINE q == [i \in 1..n |-> Request(b[i], Nobody)]
<1>4. q \in [1..n -> R] /\ \A t \in T : \E i \in DOMAIN q : q[i].topic = t
  BY <1>3 DEF Request
<1>5. /\ Renewals(T) \in [1..n -> R]
      /\ \A t \in T : \E i \in DOMAIN Renewals(T) : Renewals(T)[i].topic = t
  BY <1>4 DEF Renewals
<1>6. \A r \in R : r \in Entries /\ r.by = Nobody
  BY DEF Request, Entries
<1>. HIDE DEF n, R
<1>7. Renewals(T) \in Seq(R) /\ Len(Renewals(T)) = n /\ DOMAIN Renewals(T) = 1..n
  BY <1>1, <1>5
<1>8. Renewals(T) \in Seq(Entries)
  BY <1>6, <1>7
<1>. QED  BY <1>5, <1>6, <1>7, <1>8

(* The other types, and that only finitely much is subscribed to.           *)
Types ==
  /\ initialized \in BOOLEAN /\ opened \in BOOLEAN /\ phaseShifts \in BOOLEAN
  /\ wanted \in BOOLEAN /\ everOpen \in BOOLEAN
  /\ subscribed \subseteq Who /\ IsFiniteSet(subscribed)
  /\ timers \in Nat
  /\ awaiting \in [Who -> {"idle", "tx", "bp", "ps", "done", "failed"}]
  /\ active \in [Sockets -> SUBSET Topics]
  /\ connects \in 0..MaxConnects /\ disconnects \in 0..MaxDisconnects
  /\ failures \in 0..MaxFailures /\ accountCalls \in 0..MaxAccountCalls

LEMMA WishedIsFinite == Types => Wished \subseteq Topics /\ IsFiniteSet(Wished)
<1>. SUFFICES ASSUME Types PROVE Wished \subseteq Topics /\ IsFiniteSet(Wished)
  OBVIOUS
<1>1. Wished \subseteq Topics
  BY DEF Wished, SubscriptionsOf, Topics, Types, Who
<1>2. SubscriptionsOf(subscribed) = {"tx", "bp"} \X subscribed
  BY DEF SubscriptionsOf
<1>3. IsFiniteSet({"tx", "bp"})
  <2>1. {"tx", "bp"} = {"tx"} \union {"bp"}
    OBVIOUS
  <2>2. IsFiniteSet({"tx"} \union {"bp"})
    BY FS_Singleton, FS_AddElement, Zenon
  <2>. QED  BY <2>1, <2>2, Zenon
<1>4. IsFiniteSet(SubscriptionsOf(subscribed))
  BY <1>2, <1>3, FS_Product DEF Types
<1>5. /\ IsFiniteSet(SubscriptionsOf(subscribed) \union {})
      /\ IsFiniteSet(SubscriptionsOf(subscribed) \union {<<"ps", Everyone>>})
  BY <1>4, FS_AddElement, Zenon
<1>. QED  BY <1>1, <1>5, Zenon DEF Wished

LEMMA RequestsAreEntries ==
  /\ \A w \in Who : /\ Request(<<"tx", w>>, w) \in Entries /\ Request(<<"bp", w>>, w) \in Entries
                    /\ Request(<<"ps", Everyone>>, w) \in Entries
  /\ Request(<<"account", Everyone>>, Nobody) \in Entries
BY DEF Request, Entries, Topics

LEMMA OneRequest == \A e \in Entries : <<e>> \in Seq(Entries)
OBVIOUS

LEMMA BoundsAreNaturals ==
  /\ MaxConnects \in Nat /\ MaxDisconnects \in Nat /\ MaxFailures \in Nat
  /\ MaxAccountCalls \in Nat /\ MaxSockets \in Nat
BY BoundsAssumption, Zenon

LEMMA NextCalls ==
  ASSUME Types, CallInv, [Next]_vars
  PROVE  CallInv'
<1>1. ASSUME UNCHANGED <<calls, nextID, wire>> PROVE CallInv'
  BY <1>1 DEF CallInv
<1>2. CASE Connect \/ Disconnect \/ Reconnect
  BY <1>1, <1>2 DEF Connect, Disconnect, Reconnect, requests
<1>3. CASE GetAccount
  <2>1. Send(<<Request(<<"account", Everyone>>, Nobody)>>, wire, calls)
    BY <1>3 DEF GetAccount
  <2>2. <<Request(<<"account", Everyone>>, Nobody)>> \in Seq(Entries)
    BY RequestsAreEntries, OneRequest, Zenon
  <2>. QED  BY <2>1, <2>2, SendKeepsCalls DEF CallInv
<1>4. ASSUME NEW w \in Who, Subscribe(w) PROVE CallInv'
  <2>1. Send(<<Request(<<"tx", w>>, w)>>, wire, calls)
    BY <1>4 DEF Subscribe
  <2>2. <<Request(<<"tx", w>>, w)>> \in Seq(Entries)
    BY RequestsAreEntries, OneRequest, Zenon
  <2>. QED  BY <2>1, <2>2, SendKeepsCalls DEF CallInv
<1>5. ASSUME NEW s \in Sockets, OpenEvent(s) PROVE CallInv'
  <2>1. Send(Renewals(Wished), wire, calls)
    BY <1>5 DEF OpenEvent
  <2>2. Renewals(Wished) \in Seq(Entries)
    BY WishedIsFinite, RenewalsAreAll
  <2>. QED  BY <2>1, <2>2, SendKeepsCalls DEF CallInv
<1>6. ASSUME NEW s \in Sockets, ErrorEvent(s) PROVE CallInv'
  BY <1>1, <1>6 DEF ErrorEvent, requests
<1>7. ASSUME NEW s \in Sockets, CloseEvent(s) PROVE CallInv'
  BY <1>7, ForgottenCalls DEF CloseEvent
<1>8. ASSUME NEW s \in Sockets, EnclaveAnswers(s) PROVE CallInv'
  <2>1. /\ UNCHANGED <<calls, nextID>>
        /\ \E i \in DOMAIN wire[s], k \in {"answer", "error"} :
             wire' = [wire EXCEPT ![s][i].kind = k]
    BY <1>8 DEF EnclaveAnswers
  <2>. QED  BY <2>1, MarkedCall
<1>9. ASSUME NEW s \in Sockets, AnswerEvent(s) PROVE CallInv'
  <2>. DEFINE m == Head(wire[s])
              by == calls[m.id].by
              rest == Without(s)
              pending == Unsettled(m.id)
  <2>1. /\ wire[s] # <<>> /\ m.id \in DOMAIN calls
        /\ \/ Send(<<>>, rest, pending)
           \/ by # Nobody /\ Continue(by, awaiting[by], rest, pending)
    BY <1>9 DEF AnswerEvent, Without, Unsettled
  <2>2. Wires(rest, pending, nextID) /\ by \in Who \union {Nobody}
    BY <2>1, SettledCall DEF CallInv, Wires, Entries
  <2>. HIDE DEF m, by, rest, pending
  <2>3. \/ Send(<<>>, rest, pending)
        \/ by \in Who /\ Send(<<Request(<<"bp", by>>, by)>>, rest, pending)
        \/ by \in Who /\ Send(<<Request(<<"ps", Everyone>>, by)>>, rest, pending)
    BY <2>1, <2>2 DEF Continue
  <2>4. PICK reqs \in Seq(Entries) : Send(reqs, rest, pending)
    <3>1. <<>> \in Seq(Entries)
      OBVIOUS
    <3>2. by \in Who => /\ <<Request(<<"bp", by>>, by)>> \in Seq(Entries)
                        /\ <<Request(<<"ps", Everyone>>, by)>> \in Seq(Entries)
      BY RequestsAreEntries, OneRequest, Zenon
    <3>. QED  BY <2>3, <3>1, <3>2
  <2>. QED  BY <2>2, <2>4, SendKeepsCalls
<1>10. CASE UNCHANGED vars
  BY <1>1, <1>10 DEF vars, requests
<1>. QED  BY <1>2, <1>3, <1>4, <1>5, <1>6, <1>7, <1>8, <1>9, <1>10 DEF Next, SocketEvent

LEMMA NextTypes ==
  ASSUME Types, CallInv, [Next]_vars
  PROVE  Types'
<1>. USE DEF Types
<1>1. CASE Connect \/ Disconnect \/ Reconnect
  <2>1. initialized' \in BOOLEAN
    BY <1>1 DEF Connect, Disconnect, Reconnect, NewSocket, LetGo
  <2>2. CASE Connect
    BY <2>1, <2>2, BoundsAreNaturals DEF Connect, subscriptions, requests
  <2>3. CASE Disconnect
    <3>1. wanted' \in BOOLEAN
      BY <2>3, Zenon DEF Disconnect
    <3>. QED  BY <2>1, <2>3, <3>1, BoundsAreNaturals DEF Disconnect, subscriptions, requests
  <2>4. CASE Reconnect
    BY <2>1, <2>4 DEF Reconnect, subscriptions, requests, history, bounds
  <2>. QED  BY <1>1, <2>2, <2>3, <2>4
<1>2. CASE GetAccount
  BY <1>2, BoundsAreNaturals DEF GetAccount, subscriptions, provider, history
<1>3. ASSUME NEW w \in Who, Subscribe(w) PROVE Types'
  <2>1. IsFiniteSet(subscribed')
    BY <1>3, FS_AddElement DEF Subscribe
  <2>2. awaiting' \in [Who -> {"idle", "tx", "bp", "ps", "done", "failed"}]
    BY <1>3 DEF Subscribe, AwaitOrFail
  <2>. QED  BY <1>3, <2>1, <2>2 DEF Subscribe, provider, history, bounds
<1>4. ASSUME NEW s \in Sockets, OpenEvent(s) PROVE Types'
  BY <1>4 DEF OpenEvent, subscriptions, bounds
<1>5. ASSUME NEW s \in Sockets, ErrorEvent(s) PROVE Types'
  <2>1. initialized' \in BOOLEAN
    BY <1>5 DEF ErrorEvent, LetGo
  <2>2. failures' \in 0..MaxFailures
    BY <1>5, BoundsAreNaturals DEF ErrorEvent, Fails
  <2>3. timers' \in Nat
    BY <1>5 DEF ErrorEvent
  <2>. QED  BY <1>5, <2>1, <2>2, <2>3 DEF ErrorEvent, subscriptions, requests, history
<1>6. ASSUME NEW s \in Sockets, CloseEvent(s) PROVE Types'
  BY <1>6 DEF CloseEvent, subscriptions, history, bounds
<1>7. ASSUME NEW s \in Sockets, EnclaveAnswers(s) PROVE Types'
  <2>1. \E i \in DOMAIN wire[s] :
          active' \in {active, [active EXCEPT ![s] = @ \union {wire[s][i].topic}]}
    BY <1>7, Zenon DEF EnclaveAnswers
  <2>2. \A i \in DOMAIN wire[s] : wire[s][i].topic \in Topics
    <3>1. wire[s] \in Seq(Messages)
      BY DEF CallInv, Wires
    <3>2. \A i \in DOMAIN wire[s] : wire[s][i] \in Messages
      BY <3>1
    <3>. QED  BY <3>2 DEF Messages
  <2>3. active' \in [Sockets -> SUBSET Topics]
    BY <2>1, <2>2
  <2>. QED  BY <1>7, <2>3 DEF EnclaveAnswers, provider, subscriptions, history, bounds
<1>8. ASSUME NEW s \in Sockets, AnswerEvent(s) PROVE Types'
  <2>. DEFINE by == calls[Head(wire[s]).id].by
  <2>1. /\ UNCHANGED <<provider, opened, subscribed, timers, active, history, bounds>>
        /\ \/ UNCHANGED <<awaiting, phaseShifts>>
           \/ awaiting' = [awaiting EXCEPT ![by] = "failed"] /\ UNCHANGED phaseShifts
           \/ \E rest, pending : Continue(by, awaiting[by], rest, pending)
    BY <1>8, Zenon DEF AnswerEvent
  <2>. HIDE DEF by
  <2>2. /\ awaiting' \in [Who -> {"idle", "tx", "bp", "ps", "done", "failed"}]
        /\ phaseShifts' \in BOOLEAN
    BY <2>1 DEF Continue, AwaitOrFail
  <2>. QED  BY <2>1, <2>2 DEF provider, history, bounds
<1>9. CASE UNCHANGED vars
  BY <1>9 DEF vars, provider, subscriptions, requests, history, bounds
<1>. QED  BY <1>1, <1>2, <1>3, <1>4, <1>5, <1>6, <1>7, <1>8, <1>9 DEF Next, SocketEvent

LEMMA InitCalls == Init => Types /\ CallInv
<1>. SUFFICES ASSUME Init PROVE Types /\ CallInv
  OBVIOUS
<1>1. Types
  <2>1. /\ initialized \in BOOLEAN /\ opened \in BOOLEAN /\ phaseShifts \in BOOLEAN
        /\ wanted \in BOOLEAN /\ everOpen \in BOOLEAN
    BY Zenon DEF Init
  <2>2. subscribed \subseteq Who /\ IsFiniteSet(subscribed)
    BY FS_EmptySet DEF Init
  <2>. QED  BY <2>1, <2>2, BoundsAreNaturals DEF Init, Types
<1>2. CallInv
  BY DEF Init, CallInv, Wires
<1>. QED  BY <1>1, <1>2

LEMMA CallsHold == Spec => [](Provider /\ Types /\ CallInv)
<1>1. Init => Provider /\ Types /\ CallInv
  BY ProviderInit, InitCalls
<1>2. Provider /\ Types /\ CallInv /\ [Next]_vars => (Provider /\ Types /\ CallInv)'
  BY ProviderStep, NextTypes, NextCalls
<1>. QED  BY <1>1, <1>2, PTL DEF Spec

(* The types of sockets, calls, wires and subscriptions.                    *)
THEOREM TypeCorrect == Spec => []TypeOK
<1>1. Provider /\ Types /\ CallInv => TypeOK
  BY DEF Provider, Types, CallInv, Wires, Entries, TypeOK
<1>. QED  BY <1>1, CallsHold, PTL

(* An answer finds the call it answers pending, also when it comes late,    *)
(* from a connection that has been replaced since.                          *)
THEOREM AnswersFindTheirCalls == Spec => []AnswerMatchesCall
<1>1. ASSUME Provider, Types, CallInv PROVE AnswerMatchesCall
  <2>1. \A s \in Sockets : DOMAIN wire[s] = 1..Len(wire[s])
    BY <1>1 DEF CallInv, Wires
  <2>. QED  BY <1>1, <2>1 DEF CallInv, Wires, AnswerMatchesCall
<1>. QED  BY <1>1, CallsHold, PTL
-----------------------------------------------------------------------------
(* Subscriptions.  An answer in transit tells of a topic that is active on  *)
(* its socket; of each subscribe() at most one request is in transit, the   *)
(* one it awaits; and the provider may send when its socket is open.        *)
Kinds(wr, ac) ==
  \A s \in Sockets : \A i \in 1..Len(wr[s]) :
    /\ wr[s][i].kind = "answer" => wr[s][i].topic \in ac[s]
    /\ wr[s][i].kind = "error" => Refuses
TopicsOf(w) == {<<"tx", w>>, <<"bp", w>>, <<"ps", Everyone>>}
Owned(wr, cs, aw) ==
  /\ \A s \in Sockets : \A i \in 1..Len(wr[s]) :
       LET w == cs[wr[s][i].id].by
       IN  w # Nobody => wr[s][i].topic \in TopicsOf(w) /\ aw[w] = wr[s][i].topic[1]
  /\ \A s, t \in Sockets : \A i \in 1..Len(wr[s]), j \in 1..Len(wr[t]) :
       cs[wr[s][i].id].by # Nobody /\ cs[wr[s][i].id].by = cs[wr[t][j].id].by => s = t /\ i = j

LEMMA OwnedMeans ==
  ASSUME NEW wr, NEW cs, NEW aw, Owned(wr, cs, aw),
         NEW s \in Sockets, NEW i \in 1..Len(wr[s]), cs[wr[s][i].id].by # Nobody
  PROVE  /\ wr[s][i].topic \in TopicsOf(cs[wr[s][i].id].by)
         /\ aw[cs[wr[s][i].id].by] = wr[s][i].topic[1]
         /\ \A t \in Sockets : \A j \in 1..Len(wr[t]) :
              cs[wr[s][i].id].by = cs[wr[t][j].id].by => s = t /\ i = j
BY DEF Owned

Ready == ws \in Sockets /\ sock[ws] = "open" => initialized
WireInv == Kinds(wire, active) /\ Owned(wire, calls, awaiting) /\ Ready

Carried(t, s) ==
  \/ t \in active[s]
  \/ \E i \in 1..Len(wire[s]) : wire[s][i].topic = t
  \/ \E w \in Who : /\ t = <<"bp", w>>
                    /\ \E i \in 1..Len(wire[s]) : /\ wire[s][i].topic = <<"tx", w>>
                                                 /\ calls[wire[s][i].id].by = w
Flows == ~Refuses /\ ws \in Sockets /\ sock[ws] = "open" => \A t \in Wished : Carried(t, ws)

(* The wire after sendCall(): what was on it, and what is put on it, which  *)
(* is all of the requests if the socket is open.                            *)
Kept(rest, pending, s, i) ==
  /\ i \in 1..Len(rest[s]) /\ i \in 1..Len(wire'[s])
  /\ wire'[s][i] = rest[s][i] /\ calls'[rest[s][i].id] = pending[rest[s][i].id]
Put(reqs, s, i, k) ==
  /\ s = ws' /\ initialized' /\ i \in 1..Len(wire'[s]) /\ k \in 1..Len(reqs)
  /\ wire'[s][i].kind = "request" /\ wire'[s][i].topic = reqs[k].topic
  /\ calls'[wire'[s][i].id] = reqs[k]
Line(reqs, rest, pending) ==
  \A s \in Sockets :
    /\ Len(rest[s]) \in Nat
    /\ \A i \in 1..Len(rest[s]) : Kept(rest, pending, s, i)
    /\ \A i \in 1..Len(wire'[s]) : \/ Kept(rest, pending, s, i)
                                   \/ Put(reqs, s, i, i - Len(rest[s]))
    /\ s = ws' /\ initialized' /\ sock'[s] = "open" =>
         \A k \in 1..Len(reqs) : Put(reqs, s, Len(rest[s]) + k, k)

LEMMA SendLines ==
  ASSUME NEW reqs \in Seq(Entries), NEW rest, NEW pending,
         Wires(rest, pending, nextID), Send(reqs, rest, pending)
  PROVE  Line(reqs, rest, pending)
<1>1. /\ rest \in [Sockets -> Seq(Messages)] /\ nextID \in Nat
      /\ DOMAIN pending \subseteq 0..(nextID - 1)
      /\ \A s \in Sockets : \A i \in 1..Len(rest[s]) : rest[s][i].id \in DOMAIN pending
  BY DEF Wires
<1>2. Added(reqs, rest, pending)
  BY <1>1, SendFacts
<1>3. \A k \in 1..Len(reqs) : /\ Sent(reqs, k).kind = "request" /\ Sent(reqs, k).topic = reqs[k].topic
                              /\ calls'[Sent(reqs, k).id] = reqs[k]
  BY <1>2 DEF Added, Sent
<1>4. \A s \in Sockets : Len(rest[s]) \in Nat
  BY <1>1
<1>5. ASSUME NEW s \in Sockets
      PROVE  /\ \A i \in 1..Len(rest[s]) : Kept(rest, pending, s, i)
             /\ \A i \in 1..Len(wire'[s]) : \/ Kept(rest, pending, s, i)
                                            \/ Put(reqs, s, i, i - Len(rest[s]))
             /\ s = ws' /\ initialized' /\ sock'[s] = "open" =>
                  \A k \in 1..Len(reqs) : Put(reqs, s, Len(rest[s]) + k, k)
  <2>1. CASE ~(s = ws' /\ initialized' /\ sock'[s] = "open")
    <3>1. wire'[s] = rest[s]
      BY <1>2, <2>1 DEF Added
    <3>2. \A i \in 1..Len(rest[s]) : Kept(rest, pending, s, i)
      BY <1>1, <1>2, <3>1 DEF Added, Kept
    <3>. QED  BY <2>1, <3>1, <3>2
  <2>2. CASE s = ws' /\ initialized' /\ sock'[s] = "open"
    <3>1. Extended(wire'[s], rest[s], reqs) /\ Len(reqs) \in Nat
      BY <1>2, <2>2 DEF Added
    <3>2. /\ \A i \in 1..Len(rest[s]) : i \in 1..Len(wire'[s]) /\ wire'[s][i] = rest[s][i]
          /\ \A k \in 1..Len(reqs) : /\ Len(rest[s]) + k \in 1..Len(wire'[s])
                                     /\ wire'[s][Len(rest[s]) + k] = Sent(reqs, k)
          /\ \A i \in 1..Len(wire'[s]) :
               i \in 1..Len(rest[s]) \/ (i - Len(rest[s]) \in 1..Len(reqs)
                                         /\ wire'[s][i] = Sent(reqs, i - Len(rest[s])))
      <4>1. \A k \in 1..Len(reqs) : Len(rest[s]) + k \in 1..Len(wire'[s])
        BY <1>4, <3>1 DEF Extended
      <4>2. \A i \in 1..Len(rest[s]) : i \in 1..Len(wire'[s])
        BY <1>4, <3>1 DEF Extended
      <4>. QED  BY <3>1, <4>1, <4>2 DEF Extended
    <3>3. \A i \in 1..Len(rest[s]) : Kept(rest, pending, s, i)
      BY <1>1, <1>2, <3>2 DEF Added, Kept
    <3>4. \A i \in 1..Len(wire'[s]), k \in 1..Len(reqs) :
            wire'[s][i] = Sent(reqs, k) => Put(reqs, s, i, k)
      BY <1>3, <2>2 DEF Put
    <3>. QED  BY <3>2, <3>3, <3>4
  <2>. QED  BY <2>1, <2>2
<1>. QED  BY <1>4, <1>5 DEF Line

LEMMA LineKeepsKinds ==
  ASSUME NEW reqs, NEW rest, NEW pending, Line(reqs, rest, pending),
         Kinds(rest, active), active' = active
  PROVE  Kinds(wire', active')
<1>. SUFFICES ASSUME NEW s \in Sockets, NEW i \in 1..Len(wire'[s])
              PROVE  /\ wire'[s][i].kind = "answer" => wire'[s][i].topic \in active[s]
                     /\ wire'[s][i].kind = "error" => Refuses
  BY DEF Kinds
<1>1. CASE Kept(rest, pending, s, i)
  BY <1>1 DEF Kept, Kinds
<1>2. CASE Put(reqs, s, i, i - Len(rest[s]))
  BY <1>2 DEF Put
<1>. QED  BY <1>1, <1>2 DEF Line

LEMMA LineKeepsOwned ==
  ASSUME NEW reqs, NEW rest, NEW pending, Line(reqs, rest, pending),
         Owned(rest, pending, awaiting'),
         \A s \in Sockets : Len(rest[s]) \in Nat,
         \A k \in 1..Len(reqs) :
           LET w == reqs[k].by
           IN  w # Nobody => /\ Len(reqs) = 1 /\ reqs[k].topic \in TopicsOf(w)
                             /\ initialized' => awaiting'[w] = reqs[k].topic[1]
                             /\ \A s \in Sockets : \A i \in 1..Len(rest[s]) : pending[rest[s][i].id].by # w
  PROVE  Owned(wire', calls', awaiting')
<1>. DEFINE By(s, i) == calls'[wire'[s][i].id].by
            Old(s, i) == Kept(rest, pending, s, i)
            New(s, i) == Put(reqs, s, i, i - Len(rest[s]))
<1>0. \A k \in 1..Len(reqs) : reqs[k].by # Nobody =>
        /\ Len(reqs) = 1 /\ reqs[k].topic \in TopicsOf(reqs[k].by)
        /\ initialized' => awaiting'[reqs[k].by] = reqs[k].topic[1]
        /\ \A s \in Sockets : \A i \in 1..Len(rest[s]) : pending[rest[s][i].id].by # reqs[k].by
  OBVIOUS
<1>1. \A s \in Sockets : \A i \in 1..Len(wire'[s]) : Old(s, i) \/ New(s, i)
  BY DEF Line
<1>2. ASSUME NEW s \in Sockets, NEW i \in 1..Len(wire'[s]), Old(s, i)
      PROVE  i \in 1..Len(rest[s]) /\ wire'[s][i] = rest[s][i] /\ By(s, i) = pending[rest[s][i].id].by
  BY <1>2 DEF Kept
<1>3. ASSUME NEW s \in Sockets, NEW i \in 1..Len(wire'[s]), New(s, i), By(s, i) # Nobody
      PROVE  /\ s = ws' /\ i = Len(rest[s]) + 1
             /\ wire'[s][i].topic \in TopicsOf(By(s, i)) /\ awaiting'[By(s, i)] = wire'[s][i].topic[1]
             /\ \A t \in Sockets : \A j \in 1..Len(rest[t]) : pending[rest[t][j].id].by # By(s, i)
  <2>. DEFINE k == i - Len(rest[s])
  <2>1. /\ s = ws' /\ initialized' /\ k \in 1..Len(reqs)
        /\ wire'[s][i].topic = reqs[k].topic /\ By(s, i) = reqs[k].by
    BY <1>3 DEF Put
  <2>2. /\ Len(reqs) = 1 /\ reqs[k].topic \in TopicsOf(reqs[k].by)
        /\ awaiting'[reqs[k].by] = reqs[k].topic[1]
        /\ \A u \in Sockets : \A j \in 1..Len(rest[u]) : pending[rest[u][j].id].by # reqs[k].by
    <3>. HIDE DEF k
    <3>. QED  BY <1>0, <1>3, <2>1
  <2>3. i = Len(rest[s]) + 1
    BY <2>1, <2>2
  <2>. HIDE DEF By, k
  <2>. QED  BY <2>1, <2>2, <2>3
<1>. HIDE DEF By, Old, New
<1>4. ASSUME NEW s \in Sockets, NEW i \in 1..Len(wire'[s]), By(s, i) # Nobody
      PROVE  wire'[s][i].topic \in TopicsOf(By(s, i)) /\ awaiting'[By(s, i)] = wire'[s][i].topic[1]
  <2>1. CASE Old(s, i)
    BY <1>2, <1>4, <2>1 DEF Owned
  <2>. QED  BY <1>1, <1>3, <1>4, <2>1
<1>5. ASSUME NEW s \in Sockets, NEW t \in Sockets, NEW i \in 1..Len(wire'[s]), NEW j \in 1..Len(wire'[t]),
             By(s, i) # Nobody, By(s, i) = By(t, j)
      PROVE  s = t /\ i = j
  <2>1. CASE Old(s, i) /\ Old(t, j)
    <3>1. /\ i \in 1..Len(rest[s]) /\ j \in 1..Len(rest[t])
          /\ By(s, i) = pending[rest[s][i].id].by /\ By(t, j) = pending[rest[t][j].id].by
      BY <1>2, <2>1
    <3>2. /\ pending[rest[s][i].id].by # Nobody
          /\ pending[rest[s][i].id].by = pending[rest[t][j].id].by
      BY <1>5, <3>1
    <3>3. \A u \in Sockets : \A l \in 1..Len(rest[u]) :
            pending[rest[s][i].id].by = pending[rest[u][l].id].by => s = u /\ i = l
      <4>1. i \in 1..Len(rest[s])
        BY <3>1
      <4>2. pending[rest[s][i].id].by # Nobody
        BY <3>2
      <4>. QED  BY <4>1, <4>2, OwnedMeans
    <3>. QED  BY <3>1, <3>2, <3>3
  <2>2. CASE New(s, i) /\ New(t, j)
    BY <1>3, <1>5, <2>2
  <2>3. ASSUME NEW u \in Sockets, NEW v \in Sockets, NEW a \in 1..Len(wire'[u]), NEW b \in 1..Len(wire'[v]),
               Old(u, a), New(v, b), By(v, b) # Nobody
        PROVE  By(u, a) # By(v, b)
    <3>1. a \in 1..Len(rest[u]) /\ By(u, a) = pending[rest[u][a].id].by
      BY <1>2, <2>3
    <3>2. \A w \in Sockets : \A l \in 1..Len(rest[w]) : pending[rest[w][l].id].by # By(v, b)
      BY <1>3, <2>3
    <3>. QED  BY <3>1, <3>2
  <2>4. (Old(s, i) \/ New(s, i)) /\ (Old(t, j) \/ New(t, j))
    BY <1>1
  <2>. QED  BY <1>5, <2>1, <2>2, <2>3, <2>4
<1>. QED  BY <1>4, <1>5 DEF Owned, By

(* What was carried is still, unless its message was taken; what is         *)
(* requested on an open socket is carried.                                  *)
LEMMA LineCarries ==
  ASSUME NEW reqs, NEW rest, NEW pending, Line(reqs, rest, pending),
         NEW s \in Sockets, active' = active, NEW t
  PROVE  /\ t \in active[s] => Carried(t, s)'
         /\ (\E i \in 1..Len(rest[s]) : rest[s][i].topic = t) => Carried(t, s)'
         /\ \A w \in Who : /\ t = <<"bp", w>>
                           /\ \E i \in 1..Len(rest[s]) : /\ rest[s][i].topic = <<"tx", w>>
                                                        /\ pending[rest[s][i].id].by = w
                           => Carried(t, s)'
         /\ s = ws' /\ initialized' /\ sock'[s] = "open" =>
              /\ (\E k \in 1..Len(reqs) : reqs[k].topic = t) => Carried(t, s)'
              /\ \A w \in Who : /\ t = <<"bp", w>>
                                /\ \E k \in 1..Len(reqs) : reqs[k].topic = <<"tx", w>> /\ reqs[k].by = w
                                => Carried(t, s)'
<1>1. t \in active[s] => Carried(t, s)'
  BY DEF Carried
<1>2. \A i \in 1..Len(wire'[s]) : wire'[s][i].topic = t => Carried(t, s)'
  BY DEF Carried
<1>3. \A i \in 1..Len(wire'[s]), w \in Who :
        /\ t = <<"bp", w>> /\ wire'[s][i].topic = <<"tx", w>> /\ calls'[wire'[s][i].id].by = w
        => Carried(t, s)'
  BY DEF Carried
<1>4. \A i \in 1..Len(rest[s]) : Kept(rest, pending, s, i)
  BY DEF Line
<1>5. s = ws' /\ initialized' /\ sock'[s] = "open" =>
        \A k \in 1..Len(reqs) : \E i \in 1..Len(wire'[s]) : Put(reqs, s, i, k)
  BY DEF Line, Put
<1>6. \A i \in 1..Len(rest[s]) : /\ i \in 1..Len(wire'[s]) /\ wire'[s][i] = rest[s][i]
                                 /\ calls'[wire'[s][i].id] = pending[rest[s][i].id]
  BY <1>4 DEF Kept
<1>7. s = ws' /\ initialized' /\ sock'[s] = "open" =>
        \A k \in 1..Len(reqs) : \E i \in 1..Len(wire'[s]) :
          wire'[s][i].topic = reqs[k].topic /\ calls'[wire'[s][i].id] = reqs[k]
  BY <1>5 DEF Put
<1>8. ASSUME NEW i \in 1..Len(rest[s])
      PROVE  /\ rest[s][i].topic = t => Carried(t, s)'
             /\ \A w \in Who : /\ t = <<"bp", w>> /\ rest[s][i].topic = <<"tx", w>>
                               /\ pending[rest[s][i].id].by = w
                               => Carried(t, s)'
  <2>1. /\ i \in 1..Len(wire'[s]) /\ wire'[s][i] = rest[s][i]
        /\ calls'[wire'[s][i].id] = pending[rest[s][i].id]
    BY <1>6
  <2>2. rest[s][i].topic = t => Carried(t, s)'
    BY <1>2, <2>1
  <2>3. ASSUME NEW w \in Who, t = <<"bp", w>>, rest[s][i].topic = <<"tx", w>>,
               pending[rest[s][i].id].by = w
        PROVE  Carried(t, s)'
    BY <1>3, <2>1, <2>3
  <2>. QED  BY <2>2, <2>3
<1>9. ASSUME s = ws', initialized', sock'[s] = "open", NEW k \in 1..Len(reqs)
      PROVE  /\ reqs[k].topic = t => Carried(t, s)'
             /\ \A w \in Who : t = <<"bp", w>> /\ reqs[k].topic = <<"tx", w>> /\ reqs[k].by = w
                                 => Carried(t, s)'
  <2>1. PICK i \in 1..Len(wire'[s]) :
          wire'[s][i].topic = reqs[k].topic /\ calls'[wire'[s][i].id] = reqs[k]
    BY <1>7, <1>9
  <2>2. reqs[k].topic = t => Carried(t, s)'
    BY <1>2, <2>1
  <2>3. ASSUME NEW w \in Who, t = <<"bp", w>>, reqs[k].topic = <<"tx", w>>, reqs[k].by = w
        PROVE  Carried(t, s)'
    BY <1>3, <2>1, <2>3
  <2>. QED  BY <2>2, <2>3
<1>. QED  BY <1>1, <1>8, <1>9

(* What taking an answer off the wire leaves: no request of its subscribe() *)
(* is in transit any more, and what else was carried still is.              *)
LEMMA SettledOwner ==
  ASSUME CallInv, Kinds(wire, active), Owned(wire, calls, awaiting),
         NEW s \in Sockets, wire[s] # <<>>, NEW by, by = calls[Head(wire[s]).id].by,
         \A w \in Who \ {by} : awaiting'[w] = awaiting[w]
  PROVE  LET rest == Without(s)
             pending == Unsettled(Head(wire[s]).id)
         IN  /\ Kinds(rest, active) /\ Owned(rest, pending, awaiting')
             /\ by # Nobody => \A t \in Sockets : \A i \in 1..Len(rest[t]) : pending[rest[t][i].id].by # by
             /\ \A t \in Sockets : Len(rest[t]) \in Nat
             /\ \A u \in Sockets, i \in Nat : i \in 1..Len(wire[u]) =>
                  \/ u = s /\ wire[u][i] = Head(wire[s])
                  \/ \E j \in 1..Len(rest[u]) : /\ rest[u][j] = wire[u][i]
                                               /\ pending[rest[u][j].id] = calls[wire[u][i].id]
<1>. DEFINE m == Head(wire[s])
            rest == Without(s)
            pending == Unsettled(m.id)
            Was(t, i) == IF t = s THEN i + 1 ELSE i
<1>1. /\ Wires(rest, pending, nextID)
      /\ Len(rest[s]) = Len(wire[s]) - 1
      /\ \A i \in 1..Len(rest[s]) : i + 1 \in 1..Len(wire[s]) /\ rest[s][i] = wire[s][i + 1]
      /\ \A t \in Sockets \ {s} : rest[t] = wire[t]
  BY SettledCall
<1>2. /\ \A t \in Sockets : Len(wire[t]) \in Nat
      /\ 1 \in 1..Len(wire[s]) /\ m = wire[s][1]
  BY DEF CallInv, Wires
<1>3. \A t \in Sockets : Len(rest[t]) \in Nat
  BY <1>1 DEF Wires
<1>4. \A t \in Sockets : \A i \in 1..Len(rest[t]) :
        /\ rest[t][i].id \in DOMAIN pending
        /\ pending[rest[t][i].id] = calls[rest[t][i].id]
  BY <1>1 DEF Wires, Unsettled
<1>. HIDE DEF m, rest, pending
<1>5. ASSUME NEW t \in Sockets, NEW i \in 1..Len(rest[t])
      PROVE  /\ Was(t, i) \in 1..Len(wire[t]) /\ rest[t][i] = wire[t][Was(t, i)]
             /\ t = s => Was(t, i) # 1
  <2>1. CASE t = s
    <3>1. i + 1 # 1
      OBVIOUS
    <3>. QED  BY <1>1, <1>5, <2>1, <3>1
  <2>2. CASE t # s
    BY <1>1, <1>5, <2>2
  <2>. QED  BY <2>1, <2>2
<1>. HIDE DEF Was
<1>10. /\ \A t \in Sockets : \A i \in 1..Len(wire[t]) :
            calls[wire[t][i].id].by # Nobody =>
              /\ wire[t][i].topic \in TopicsOf(calls[wire[t][i].id].by)
              /\ awaiting[calls[wire[t][i].id].by] = wire[t][i].topic[1]
       /\ \A t, u \in Sockets : \A i \in 1..Len(wire[t]), j \in 1..Len(wire[u]) :
            calls[wire[t][i].id].by # Nobody /\ calls[wire[t][i].id].by = calls[wire[u][j].id].by
              => t = u /\ i = j
  BY DEF Owned
<1>6. Kinds(rest, active)
  BY <1>5 DEF Kinds
<1>7. ASSUME NEW t \in Sockets, NEW i \in 1..Len(rest[t]), by # Nobody
      PROVE  pending[rest[t][i].id].by # by
  <2>. SUFFICES ASSUME calls[wire[t][Was(t, i)].id].by = by PROVE FALSE
    BY <1>4, <1>5
  <2>1. s = t /\ 1 = Was(t, i)
    BY <1>2, <1>5, <1>7 DEF Owned, m
  <2>. QED  BY <1>5, <2>1
<1>8. Owned(rest, pending, awaiting')
  <2>1. ASSUME NEW t \in Sockets, NEW i \in 1..Len(rest[t]), pending[rest[t][i].id].by # Nobody
        PROVE  /\ rest[t][i].topic \in TopicsOf(pending[rest[t][i].id].by)
               /\ awaiting'[pending[rest[t][i].id].by] = rest[t][i].topic[1]
    <3>. DEFINE w == pending[rest[t][i].id].by
    <3>1. w = calls[wire[t][Was(t, i)].id].by /\ w # Nobody
      BY <1>4, <1>5, <2>1
    <3>2. rest[t][i].topic \in TopicsOf(w) /\ awaiting[w] = rest[t][i].topic[1]
      <4>1. Was(t, i) \in 1..Len(wire[t]) /\ rest[t][i] = wire[t][Was(t, i)]
        BY <1>5
      <4>. HIDE DEF w
      <4>. QED  BY <1>10, <3>1, <4>1
    <3>3. w \in Who
      <4>1. pending[rest[t][i].id] \in Entries
        BY <1>1, <1>4 DEF Wires
      <4>. QED  BY <2>1, <4>1 DEF Entries
    <3>4. w # by
      BY <1>7, <2>1
    <3>. QED  BY <3>2, <3>3, <3>4
  <2>2. ASSUME NEW t \in Sockets, NEW u \in Sockets, NEW i \in 1..Len(rest[t]), NEW j \in 1..Len(rest[u]),
               pending[rest[t][i].id].by # Nobody,
               pending[rest[t][i].id].by = pending[rest[u][j].id].by
        PROVE  t = u /\ i = j
    <3>1. t = u /\ Was(t, i) = Was(u, j)
      <4>1. /\ pending[rest[t][i].id].by = calls[wire[t][Was(t, i)].id].by
            /\ pending[rest[u][j].id].by = calls[wire[u][Was(u, j)].id].by
        <5>1. /\ pending[rest[t][i].id] = calls[rest[t][i].id]
              /\ pending[rest[u][j].id] = calls[rest[u][j].id]
          BY <1>4
        <5>2. rest[t][i] = wire[t][Was(t, i)] /\ rest[u][j] = wire[u][Was(u, j)]
          BY <1>5
        <5>. QED  BY <5>1, <5>2
      <4>2. /\ calls[wire[t][Was(t, i)].id].by # Nobody
            /\ calls[wire[t][Was(t, i)].id].by = calls[wire[u][Was(u, j)].id].by
        BY <2>2, <4>1
      <4>3. Was(t, i) \in 1..Len(wire[t]) /\ Was(u, j) \in 1..Len(wire[u])
        BY <1>5
      <4>. QED  BY <1>10, <4>2, <4>3
    <3>. QED  BY <3>1 DEF Was
  <2>. QED  BY <2>1, <2>2 DEF Owned
<1>9. ASSUME NEW u \in Sockets, NEW i \in 1..Len(wire[u])
      PROVE  \/ u = s /\ wire[u][i] = m
             \/ \E j \in 1..Len(rest[u]) : /\ rest[u][j] = wire[u][i]
                                          /\ pending[rest[u][j].id] = calls[wire[u][i].id]
  <2>1. CASE u # s
    BY <1>1, <1>4, <2>1
  <2>2. CASE u = s /\ i = 1
    BY <1>2, <2>2
  <2>3. CASE u = s /\ i # 1
    <3>1. i - 1 \in 1..Len(rest[s]) /\ (i - 1) + 1 = i
      BY <1>1, <1>2, <2>3
    <3>2. rest[s][i - 1] = wire[s][i]
      BY <1>1, <3>1
    <3>3. pending[rest[s][i - 1].id] = calls[wire[s][i].id]
      BY <1>4, <3>1, <3>2
    <3>. QED  BY <2>3, <3>1, <3>2, <3>3
  <2>. QED  BY <2>1, <2>2, <2>3
<1>. QED  BY <1>3, <1>6, <1>7, <1>8, <1>9 DEF m, rest, pending

LEMMA NextReady ==
  ASSUME Provider, Ready, [Next]_vars
  PROVE  Ready'
<1>1. CASE UNCHANGED provider
  BY <1>1 DEF provider, Ready
<1>2. CASE NewSocket
  <2>1. PICK s \in Unmade : sock' = [Closed(sock) EXCEPT ![s] = "connecting"] /\ ws' = s
    BY <1>2 DEF NewSocket
  <2>2. sock'[ws'] = "connecting"
    BY <2>1 DEF Unmade, Closed
  <2>. QED  BY <2>2 DEF Ready
<1>3. ASSUME ws' = NoSocket PROVE Ready'
  BY <1>3 DEF Ready, Sockets, NoSocket
<1>4. ASSUME NEW s \in Sockets, OpenEvent(s) PROVE Ready'
  BY <1>4 DEF OpenEvent, Ready
<1>5. ASSUME NEW s \in Sockets, CloseEvent(s) PROVE Ready'
  BY <1>5 DEF CloseEvent, Ready, Provider
<1>6. CASE Connect \/ Reconnect
  BY <1>2, <1>6 DEF Connect, Reconnect
<1>7. CASE Disconnect \/ \E s \in Sockets : ErrorEvent(s)
  BY <1>3, <1>7 DEF Disconnect, ErrorEvent, LetGo
<1>8. CASE \/ GetAccount
           \/ UNCHANGED vars
           \/ \E w \in Who : Subscribe(w)
           \/ \E s \in Sockets : EnclaveAnswers(s) \/ AnswerEvent(s)
  <2>1. UNCHANGED provider
    BY <1>8, Zenon DEF GetAccount, Subscribe, EnclaveAnswers, AnswerEvent, vars, provider
  <2>. QED  BY <1>1, <2>1
<1>. QED  BY <1>4, <1>5, <1>6, <1>7, <1>8 DEF Next, SocketEvent

(* Steps that leave the wires alone, and steps that only send.              *)
LEMMA QuietWires ==
  ASSUME WireInv, Flows, Ready', UNCHANGED <<wire, calls, awaiting, active, subscribed, phaseShifts>>,
         ws' \in Sockets /\ sock'[ws'] = "open" => ws' = ws /\ sock[ws] = "open"
  PROVE  WireInv' /\ Flows'
<1>1. WireInv'
  BY DEF WireInv, Kinds, Owned
<1>2. Wished' = Wished
  BY DEF Wished, SubscriptionsOf
<1>3. \A t, s : Carried(t, s)' = Carried(t, s)
  BY DEF Carried
<1>. QED  BY <1>1, <1>2, <1>3 DEF Flows

LEMMA SendingWires ==
  ASSUME CallInv, WireInv, Flows, Ready', active' = active,
         NEW reqs \in Seq(Entries), Send(reqs, wire, calls),
         Owned(wire, calls, awaiting'),
         \A k \in 1..Len(reqs) :
           LET w == reqs[k].by
           IN  w # Nobody => /\ Len(reqs) = 1 /\ reqs[k].topic \in TopicsOf(w)
                             /\ initialized' => awaiting'[w] = reqs[k].topic[1]
                             /\ \A s \in Sockets : \A i \in 1..Len(wire[s]) : calls[wire[s][i].id].by # w,
         ws' \in Sockets /\ sock'[ws'] = "open" =>
           \A t \in Wished' :
             \/ ws' = ws /\ sock[ws] = "open" /\ t \in Wished
             \/ \E k \in 1..Len(reqs) : reqs[k].topic = t
             \/ \E w \in Who : /\ t = <<"bp", w>>
                               /\ \E k \in 1..Len(reqs) : reqs[k].topic = <<"tx", w>> /\ reqs[k].by = w
  PROVE  WireInv' /\ Flows'
<1>1. Line(reqs, wire, calls)
  BY SendLines DEF CallInv
<1>2. \A s \in Sockets : Len(wire[s]) \in Nat
  BY DEF CallInv, Wires
<1>3. Kinds(wire', active')
  BY <1>1, LineKeepsKinds DEF WireInv
<1>4. Owned(wire', calls', awaiting')
  BY <1>1, <1>2, LineKeepsOwned
<1>5. WireInv'
  BY <1>3, <1>4 DEF WireInv, Kinds, Owned
<1>6. Flows'
  <2>1. ASSUME NEW s \in Sockets, NEW t, ~Refuses, s = ws', sock'[s] = "open", t \in Wished'
        PROVE  Carried(t, s)'
    <3>1. initialized'
      BY <2>1 DEF Ready
    <3>2. /\ t \in active[s] => Carried(t, s)'
          /\ (\E i \in 1..Len(wire[s]) : wire[s][i].topic = t) => Carried(t, s)'
          /\ \A w \in Who : /\ t = <<"bp", w>>
                            /\ \E i \in 1..Len(wire[s]) : /\ wire[s][i].topic = <<"tx", w>>
                                                         /\ calls[wire[s][i].id].by = w
                            => Carried(t, s)'
          /\ (\E k \in 1..Len(reqs) : reqs[k].topic = t) => Carried(t, s)'
          /\ \A w \in Who : /\ t = <<"bp", w>>
                            /\ \E k \in 1..Len(reqs) : reqs[k].topic = <<"tx", w>> /\ reqs[k].by = w
                            => Carried(t, s)'
      BY <1>1, <2>1, <3>1, LineCarries
    <3>3. CASE ws' = ws /\ sock[ws] = "open" /\ t \in Wished
      <4>1. Carried(t, s)
        BY <2>1, <3>3 DEF Flows
      <4>. QED  BY <3>2, <4>1 DEF Carried
    <3>. QED  BY <2>1, <3>2, <3>3
  <2>. QED  BY <2>1 DEF Flows
<1>. QED  BY <1>5, <1>6

LEMMA OpenEventWires ==
  ASSUME Provider, Types, CallInv, WireInv, Flows, Ready', NEW s \in Sockets, OpenEvent(s)
  PROVE  WireInv' /\ Flows'
<1>1. /\ Send(Renewals(Wished), wire, calls) /\ ws' = ws
      /\ UNCHANGED <<awaiting, active, subscribed, phaseShifts>>
  BY DEF OpenEvent, subscriptions
<1>2. Wished' = Wished
  BY <1>1 DEF Wished, SubscriptionsOf
<1>3. /\ Renewals(Wished) \in Seq(Entries)
      /\ \A t \in Wished : \E i \in 1..Len(Renewals(Wished)) : Renewals(Wished)[i].topic = t
      /\ \A i \in 1..Len(Renewals(Wished)) : Renewals(Wished)[i].by = Nobody
  BY WishedIsFinite, RenewalsAreAll
<1>4. Owned(wire, calls, awaiting')
  BY <1>1 DEF WireInv
<1>. HIDE DEF Wished
<1>. QED  BY <1>1, <1>2, <1>3, <1>4, SendingWires

LEMMA SubscribeWires ==
  ASSUME Types, CallInv, WireInv, Flows, Ready', NEW w \in Who, Subscribe(w)
  PROVE  WireInv' /\ Flows'
<1>. DEFINE reqs == <<Request(<<"tx", w>>, w)>>
<1>1. /\ awaiting[w] = "idle" /\ Send(reqs, wire, calls)
      /\ subscribed' = subscribed \union {w}
      /\ awaiting' = [awaiting EXCEPT ![w] = IF initialized' THEN "tx" ELSE "failed"]
      /\ UNCHANGED <<sock, ws, active, phaseShifts>>
  BY DEF Subscribe, AwaitOrFail, provider
<1>2. /\ reqs \in Seq(Entries) /\ Len(reqs) = 1
      /\ \A k \in 1..Len(reqs) : k = 1 /\ reqs[k].topic = <<"tx", w>> /\ reqs[k].by = w
  <2>1. reqs \in Seq(Entries)
    BY RequestsAreEntries, OneRequest, Zenon
  <2>2. Len(reqs) = 1 /\ reqs[1] = Request(<<"tx", w>>, w) /\ \A k \in 1..Len(reqs) : k = 1
    OBVIOUS
  <2>3. reqs[1].topic = <<"tx", w>> /\ reqs[1].by = w
    BY <2>2 DEF Request
  <2>. HIDE DEF reqs
  <2>. QED  BY <2>1, <2>2, <2>3
<1>. HIDE DEF reqs
<1>3. \A t \in Sockets : \A i \in 1..Len(wire[t]) :
        calls[wire[t][i].id].by # Nobody =>
          /\ wire[t][i].topic \in TopicsOf(calls[wire[t][i].id].by)
          /\ awaiting[calls[wire[t][i].id].by] = wire[t][i].topic[1]
  BY DEF WireInv, Owned
<1>4. \A s \in Sockets : \A i \in 1..Len(wire[s]) : calls[wire[s][i].id].by # w
  <2>. SUFFICES ASSUME NEW s \in Sockets, NEW i \in 1..Len(wire[s]), calls[wire[s][i].id].by = w
                PROVE  FALSE
    OBVIOUS
  <2>1. wire[s][i].topic \in TopicsOf(w) /\ wire[s][i].topic[1] = "idle"
    BY <1>1, <1>3, NobodyAssumption
  <2>. QED  BY <2>1 DEF TopicsOf
<1>5. \A s \in Sockets : \A i \in 1..Len(wire[s]) :
        calls[wire[s][i].id].by # Nobody => calls[wire[s][i].id].by \in Who
  BY DEF CallInv, Wires, Entries
<1>6. \A v \in Who \ {w} : awaiting'[v] = awaiting[v]
  BY <1>1 DEF Types
<1>7. Owned(wire, calls, awaiting')
  BY <1>4, <1>5, <1>6 DEF WireInv, Owned
<1>8. \A k \in 1..Len(reqs) :
        LET v == reqs[k].by
        IN  v # Nobody => /\ Len(reqs) = 1 /\ reqs[k].topic \in TopicsOf(v)
                          /\ initialized' => awaiting'[v] = reqs[k].topic[1]
                          /\ \A s \in Sockets : \A i \in 1..Len(wire[s]) : calls[wire[s][i].id].by # v
  <2>1. initialized' => awaiting'[w] = "tx"
    BY <1>1 DEF Types
  <2>2. <<"tx", w>> \in TopicsOf(w) /\ <<"tx", w>>[1] = "tx"
    BY DEF TopicsOf
  <2>3. ASSUME NEW k \in 1..Len(reqs)
        PROVE  /\ reqs[k].by = w /\ Len(reqs) = 1 /\ reqs[k].topic \in TopicsOf(w)
               /\ initialized' => awaiting'[w] = reqs[k].topic[1]
    BY <1>2, <2>1, <2>2
  <2>. QED  BY <1>4, <2>3
<1>9. \A t \in Wished' :
        \/ t \in Wished
        \/ \E k \in 1..Len(reqs) : reqs[k].topic = t
        \/ \E v \in Who : /\ t = <<"bp", v>>
                          /\ \E k \in 1..Len(reqs) : reqs[k].topic = <<"tx", v>> /\ reqs[k].by = v
  <2>1. 1 \in 1..Len(reqs)
    BY <1>2
  <2>2. \A t \in Wished' : t \in Wished \/ t = <<"tx", w>> \/ t = <<"bp", w>>
    BY <1>1 DEF Wished, SubscriptionsOf
  <2>. QED  BY <1>2, <2>1, <2>2
<1>. QED  BY <1>1, <1>2, <1>7, <1>8, <1>9, SendingWires

LEMMA GetAccountWires ==
  ASSUME CallInv, WireInv, Flows, Ready', GetAccount
  PROVE  WireInv' /\ Flows'
<1>. DEFINE reqs == <<Request(<<"account", Everyone>>, Nobody)>>
<1>1. /\ Send(reqs, wire, calls)
      /\ UNCHANGED <<sock, ws, awaiting, active, subscribed, phaseShifts>>
  BY DEF GetAccount, provider, subscriptions
<1>2. reqs \in Seq(Entries) /\ \A k \in 1..Len(reqs) : reqs[k].by = Nobody
  BY RequestsAreEntries, OneRequest DEF Request
<1>. HIDE DEF reqs
<1>3. Wished' = Wished
  BY <1>1 DEF Wished, SubscriptionsOf
<1>4. Owned(wire, calls, awaiting')
  BY <1>1 DEF WireInv
<1>. HIDE DEF Wished
<1>. QED  BY <1>1, <1>2, <1>3, <1>4, SendingWires

LEMMA CloseEventWires ==
  ASSUME Provider, CallInv, WireInv, Flows, Ready', NEW s \in Sockets, CloseEvent(s)
  PROVE  WireInv' /\ Flows'
<1>1. /\ sock' = [sock EXCEPT ![s] = "closed"]
      /\ wire' = [wire EXCEPT ![s] = <<>>] /\ active' = [active EXCEPT ![s] = {}]
      /\ UNCHANGED <<ws, subscribed, phaseShifts, calls, awaiting>>
  BY DEF CloseEvent, subscriptions
<1>2. /\ wire \in [Sockets -> Seq(Messages)] /\ Len(wire'[s]) = 0 /\ sock'[s] = "closed"
      /\ \A t \in Sockets \ {s} : wire'[t] = wire[t] /\ sock'[t] = sock[t]
  BY <1>1 DEF CallInv, Wires, Provider
<1>3. \A t \in Sockets : \A i \in 1..Len(wire'[t]) : t # s /\ wire'[t] = wire[t]
  BY <1>2
<1>4. \A t \in Sockets \ {s} : active'[t] = active[t]
  BY <1>1
<1>5. Kinds(wire', active')
  BY <1>3, <1>4 DEF WireInv, Kinds
<1>6. Owned(wire', calls', awaiting')
  <2>1. ASSUME NEW t \in Sockets, NEW i \in 1..Len(wire'[t]), calls'[wire'[t][i].id].by # Nobody
        PROVE  /\ wire'[t][i].topic \in TopicsOf(calls'[wire'[t][i].id].by)
               /\ awaiting'[calls'[wire'[t][i].id].by] = wire'[t][i].topic[1]
               /\ \A u \in Sockets : \A j \in 1..Len(wire'[u]) :
                    calls'[wire'[t][i].id].by = calls'[wire'[u][j].id].by => t = u /\ i = j
    <3>1. wire'[t] = wire[t] /\ calls' = calls /\ awaiting' = awaiting
      BY <1>1, <1>3
    <3>2. i \in 1..Len(wire[t]) /\ calls[wire[t][i].id].by # Nobody
      BY <2>1, <3>1
    <3>3. /\ wire[t][i].topic \in TopicsOf(calls[wire[t][i].id].by)
          /\ awaiting[calls[wire[t][i].id].by] = wire[t][i].topic[1]
          /\ \A u \in Sockets : \A j \in 1..Len(wire[u]) :
               calls[wire[t][i].id].by = calls[wire[u][j].id].by => t = u /\ i = j
      BY <3>2, OwnedMeans DEF WireInv
    <3>. QED  BY <1>3, <3>1, <3>3
  <2>. QED  BY <2>1 DEF Owned
<1>7. WireInv'
  BY <1>5, <1>6 DEF WireInv, Kinds, Owned
<1>8. Flows'
  <2>1. Wished' = Wished
    BY <1>1 DEF Wished, SubscriptionsOf
  <2>2. ASSUME NEW t, NEW u \in Sockets \ {s}, Carried(t, u) PROVE Carried(t, u)'
    <3>1. wire'[u] = wire[u] /\ active'[u] = active[u] /\ calls' = calls
      BY <1>1, <1>2, <1>4
    <3>. QED  BY <2>2, <3>1 DEF Carried
  <2>3. ws' = ws /\ (ws' \in Sockets /\ sock'[ws'] = "open" => ws \in Sockets \ {s} /\ sock[ws] = "open")
    BY <1>1, <1>2
  <2>. QED  BY <2>1, <2>2, <2>3 DEF Flows
<1>. QED  BY <1>7, <1>8

LEMMA EnclaveAnswersWires ==
  ASSUME Types, CallInv, WireInv, Flows, Ready', NEW s \in Sockets, EnclaveAnswers(s)
  PROVE  WireInv' /\ Flows'
<1>1. PICK i \in DOMAIN wire[s], k \in {"answer", "error"} :
        /\ wire' = [wire EXCEPT ![s][i].kind = k]
        /\ \/ k = "answer" /\ active' = [active EXCEPT ![s] = @ \union {wire[s][i].topic}]
           \/ k = "error" /\ Refuses /\ active' = active
  BY DEF EnclaveAnswers
<1>2. UNCHANGED <<sock, ws, initialized, subscribed, phaseShifts, calls, nextID, awaiting>>
  BY DEF EnclaveAnswers, provider, subscriptions
<1>3. Marked(s, i, k)
  <2>1. UNCHANGED <<calls, nextID>>
    BY <1>2
  <2>2. wire' = [wire EXCEPT ![s][i].kind = k]
    BY <1>1
  <2>. QED  BY <2>1, <2>2, MarkedCall
<1>4. \A t \in Sockets : active[t] \subseteq active'[t]
  BY <1>1 DEF Types
<1>5. k = "answer" => wire[s][i].topic \in active'[s]
  BY <1>1 DEF Types
<1>6. Kinds(wire', active')
  <2>. SUFFICES ASSUME NEW t \in Sockets, NEW j \in 1..Len(wire[t])
                PROVE  /\ wire'[t][j].kind = "answer" => wire[t][j].topic \in active'[t]
                       /\ wire'[t][j].kind = "error" => Refuses
    BY <1>3 DEF Kinds, Marked
  <2>1. CASE t = s /\ j = i
    BY <1>1, <1>3, <1>5, <2>1 DEF Marked
  <2>2. CASE ~(t = s /\ j = i)
    BY <1>3, <1>4, <2>2 DEF WireInv, Kinds, Marked
  <2>. QED  BY <2>1, <2>2
<1>7. Owned(wire', calls', awaiting')
  <2>1. \A t \in Sockets : \A j \in 1..Len(wire'[t]) :
          /\ j \in 1..Len(wire[t]) /\ wire'[t][j].topic = wire[t][j].topic
          /\ calls'[wire'[t][j].id].by = calls[wire[t][j].id].by
    BY <1>2, <1>3 DEF Marked
  <2>2. /\ \A t \in Sockets : \A j \in 1..Len(wire[t]) :
             calls[wire[t][j].id].by # Nobody =>
               /\ wire[t][j].topic \in TopicsOf(calls[wire[t][j].id].by)
               /\ awaiting[calls[wire[t][j].id].by] = wire[t][j].topic[1]
        /\ \A t, u \in Sockets : \A j \in 1..Len(wire[t]), l \in 1..Len(wire[u]) :
             calls[wire[t][j].id].by # Nobody /\ calls[wire[t][j].id].by = calls[wire[u][l].id].by
               => t = u /\ j = l
    BY DEF WireInv, Owned
  <2>3. ASSUME NEW t \in Sockets, NEW j \in 1..Len(wire'[t]), calls'[wire'[t][j].id].by # Nobody
        PROVE  /\ wire'[t][j].topic \in TopicsOf(calls'[wire'[t][j].id].by)
               /\ awaiting'[calls'[wire'[t][j].id].by] = wire'[t][j].topic[1]
    <3>1. /\ j \in 1..Len(wire[t]) /\ wire'[t][j].topic = wire[t][j].topic
          /\ calls'[wire'[t][j].id].by = calls[wire[t][j].id].by /\ awaiting' = awaiting
      BY <1>2, <2>1
    <3>. QED  BY <2>2, <2>3, <3>1
  <2>4. ASSUME NEW t \in Sockets, NEW u \in Sockets, NEW j \in 1..Len(wire'[t]), NEW l \in 1..Len(wire'[u]),
               calls'[wire'[t][j].id].by # Nobody,
               calls'[wire'[t][j].id].by = calls'[wire'[u][l].id].by
        PROVE  t = u /\ j = l
    <3>1. /\ j \in 1..Len(wire[t]) /\ l \in 1..Len(wire[u])
          /\ calls[wire[t][j].id].by # Nobody /\ calls[wire[t][j].id].by = calls[wire[u][l].id].by
      BY <2>1, <2>4
    <3>. QED  BY <2>2, <3>1
  <2>. QED  BY <2>3, <2>4 DEF Owned
<1>8. WireInv'
  BY <1>6, <1>7 DEF WireInv, Kinds, Owned
<1>9. Flows'
  <2>1. Wished' = Wished
    BY <1>2 DEF Wished, SubscriptionsOf
  <2>2. \A t, u : u \in Sockets /\ Carried(t, u) => Carried(t, u)'
    BY <1>2, <1>3, <1>4 DEF Carried, Marked
  <2>. QED  BY <1>2, <2>1, <2>2 DEF Flows
<1>. QED  BY <1>8, <1>9

(* An answer arrives: the subscribe() that awaited it asks for its next     *)
(* topic, and is carried by the request as it was by the one answered.      *)
Asked(reqs, by, kind) ==
  /\ \A w \in Who \ {by} : awaiting'[w] = awaiting[w]
  /\ \A k \in 1..Len(reqs) :
       /\ by # Nobody /\ Len(reqs) = 1 /\ reqs[k].by = by /\ reqs[k].topic \in TopicsOf(by)
       /\ initialized' => awaiting'[by] = reqs[k].topic[1]
  /\ by # Nobody /\ kind = "answer" /\ awaiting[by] = "tx" =>
       \E k \in 1..Len(reqs) : reqs[k].topic = <<"bp", by>>
  /\ UNCHANGED phaseShifts \/ \E k \in 1..Len(reqs) : reqs[k].topic = <<"ps", Everyone>>

LEMMA AskedNothing ==
  ASSUME NEW by, NEW kind, \A w \in Who \ {by} : awaiting'[w] = awaiting[w],
         by = Nobody \/ kind # "answer" \/ awaiting[by] # "tx", UNCHANGED phaseShifts
  PROVE  Asked(<<>>, by, kind)
<1>1. Len(<<>>) = 0
  OBVIOUS
<1>. QED  BY <1>1 DEF Asked

LEMMA AskedOnce ==
  ASSUME Types, NEW by \in Who, NEW kind, NEW t \in {<<"bp", by>>, <<"ps", Everyone>>},
         awaiting' = [awaiting EXCEPT ![by] = IF initialized' THEN t[1] ELSE "failed"],
         awaiting[by] = "tx" => t = <<"bp", by>>,
         UNCHANGED phaseShifts \/ t = <<"ps", Everyone>>
  PROVE  Asked(<<Request(t, by)>>, by, kind)
<1>. DEFINE reqs == <<Request(t, by)>>
<1>1. Len(reqs) = 1 /\ 1 \in 1..Len(reqs) /\ \A k \in 1..Len(reqs) : k = 1 /\ reqs[k] = Request(t, by)
  OBVIOUS
<1>2. Request(t, by).topic = t /\ Request(t, by).by = by
  BY DEF Request
<1>. HIDE DEF reqs
<1>3. \A k \in 1..Len(reqs) : reqs[k].topic = t /\ reqs[k].by = by
  BY <1>1, <1>2
<1>4. t \in TopicsOf(by) /\ by # Nobody
  BY NobodyAssumption DEF TopicsOf
<1>5. /\ \A w \in Who \ {by} : awaiting'[w] = awaiting[w]
      /\ initialized' => awaiting'[by] = t[1]
  BY DEF Types
<1>6. Asked(reqs, by, kind)
  BY <1>1, <1>3, <1>4, <1>5 DEF Asked
<1>. QED  BY <1>6 DEF reqs

LEMMA AnswerAsks ==
  ASSUME Types, CallInv, NEW s \in Sockets, AnswerEvent(s),
         NEW by, by = calls[Head(wire[s]).id].by
  PROVE  \E reqs \in Seq(Entries) :
           /\ Send(reqs, Without(s), Unsettled(Head(wire[s]).id))
           /\ Asked(reqs, by, Head(wire[s]).kind)
<1>. DEFINE m == Head(wire[s])
            rest == Without(s)
            pending == Unsettled(m.id)
<1>1. /\ m.id \in DOMAIN calls
      /\ \/ by = Nobody /\ Send(<<>>, rest, pending) /\ UNCHANGED <<awaiting, phaseShifts>>
         \/ /\ m.kind = "error" /\ awaiting' = [awaiting EXCEPT ![by] = "failed"]
            /\ Send(<<>>, rest, pending) /\ UNCHANGED phaseShifts
         \/ by # Nobody /\ Continue(by, awaiting[by], rest, pending)
  BY DEF AnswerEvent, Without, Unsettled
<1>2. by \in Who \union {Nobody}
  BY <1>1 DEF CallInv, Wires, Entries
<1>3. <<>> \in Seq(Entries)
  OBVIOUS
<1>. HIDE DEF m, rest, pending
<1>4. CASE by = Nobody /\ Send(<<>>, rest, pending) /\ UNCHANGED <<awaiting, phaseShifts>>
  <2>1. Asked(<<>>, by, m.kind)
    BY <1>4, AskedNothing
  <2>. QED  BY <1>3, <1>4, <2>1 DEF m, rest, pending
<1>5. CASE m.kind = "error" /\ awaiting' = [awaiting EXCEPT ![by] = "failed"]
           /\ Send(<<>>, rest, pending) /\ UNCHANGED phaseShifts
  <2>1. \A w \in Who \ {by} : awaiting'[w] = awaiting[w]
    BY <1>5 DEF Types
  <2>2. Asked(<<>>, by, m.kind)
    BY <1>5, <2>1, AskedNothing
  <2>. QED  BY <1>3, <1>5, <2>2 DEF m, rest, pending
<1>6. CASE by # Nobody /\ Continue(by, awaiting[by], rest, pending)
  <2>1. by \in Who
    BY <1>2, <1>6
  <2>2. CASE /\ awaiting[by] = "tx" /\ Send(<<Request(<<"bp", by>>, by)>>, rest, pending)
             /\ awaiting' = [awaiting EXCEPT ![by] = IF initialized' THEN "bp" ELSE "failed"]
             /\ UNCHANGED phaseShifts
    <3>1. Asked(<<Request(<<"bp", by>>, by)>>, by, m.kind)
      <4>. DEFINE t == <<"bp", by>>
      <4>1. t[1] = "bp" /\ t \in {<<"bp", by>>, <<"ps", Everyone>>} /\ t = <<"bp", by>>
        OBVIOUS
      <4>. HIDE DEF t
      <4>2. Asked(<<Request(t, by)>>, by, m.kind)
        BY <2>1, <2>2, <4>1, AskedOnce
      <4>. QED  BY <4>2 DEF t
    <3>2. <<Request(<<"bp", by>>, by)>> \in Seq(Entries)
      BY <2>1, RequestsAreEntries, OneRequest, Zenon
    <3>. QED  BY <2>2, <3>1, <3>2, Zenon DEF m, rest, pending
  <2>3. CASE /\ awaiting[by] = "bp" /\ Send(<<Request(<<"ps", Everyone>>, by)>>, rest, pending)
             /\ awaiting' = [awaiting EXCEPT ![by] = IF initialized' THEN "ps" ELSE "failed"]
    <3>1. Asked(<<Request(<<"ps", Everyone>>, by)>>, by, m.kind)
      <4>. DEFINE t == <<"ps", Everyone>>
      <4>1. t[1] = "ps" /\ t \in {<<"bp", by>>, <<"ps", Everyone>>} /\ t = <<"ps", Everyone>>
        OBVIOUS
      <4>. HIDE DEF t
      <4>2. Asked(<<Request(t, by)>>, by, m.kind)
        BY <2>1, <2>3, <4>1, AskedOnce
      <4>. QED  BY <4>2 DEF t
    <3>2. <<Request(<<"ps", Everyone>>, by)>> \in Seq(Entries)
      BY <2>1, RequestsAreEntries, OneRequest, Zenon
    <3>. QED  BY <2>3, <3>1, <3>2, Zenon DEF m, rest, pending
  <2>4. CASE /\ awaiting[by] # "tx" /\ awaiting' = [awaiting EXCEPT ![by] = "done"]
             /\ Send(<<>>, rest, pending) /\ UNCHANGED phaseShifts
    <3>1. \A w \in Who \ {by} : awaiting'[w] = awaiting[w]
      BY <2>4 DEF Types
    <3>2. Asked(<<>>, by, m.kind)
      BY <2>4, <3>1, AskedNothing
    <3>. QED  BY <1>3, <2>4, <3>2 DEF m, rest, pending
  <2>. QED  BY <1>6, <2>2, <2>3, <2>4 DEF Continue, AwaitOrFail
<1>. QED  BY <1>1, <1>4, <1>5, <1>6

LEMMA AnswerEventWires ==
  ASSUME Types, CallInv, WireInv, Flows, Ready', NEW s \in Sockets, AnswerEvent(s)
  PROVE  WireInv' /\ Flows'
<1>. DEFINE m == Head(wire[s])
            by == calls[m.id].by
            rest == Without(s)
            pending == Unsettled(m.id)
<1>1. /\ wire[s] # <<>> /\ m.id \in DOMAIN calls /\ m.kind # "request"
      /\ UNCHANGED <<sock, ws, initialized, active, subscribed>>
  BY DEF AnswerEvent, provider
<1>2. PICK reqs \in Seq(Entries) : Send(reqs, rest, pending) /\ Asked(reqs, by, m.kind)
  BY AnswerAsks
<1>3. Wires(rest, pending, nextID)
  BY <1>1, SettledCall
<1>4. Line(reqs, rest, pending)
  BY <1>2, <1>3, SendLines
<1>5. /\ Kinds(rest, active) /\ Owned(rest, pending, awaiting')
      /\ by # Nobody => \A t \in Sockets : \A i \in 1..Len(rest[t]) : pending[rest[t][i].id].by # by
      /\ \A t \in Sockets : Len(rest[t]) \in Nat
      /\ \A u \in Sockets, i \in Nat : i \in 1..Len(wire[u]) =>
           \/ u = s /\ wire[u][i] = m
           \/ \E j \in 1..Len(rest[u]) : /\ rest[u][j] = wire[u][i]
                                        /\ pending[rest[u][j].id] = calls[wire[u][i].id]
  <2>1. Kinds(wire, active) /\ Owned(wire, calls, awaiting)
    BY DEF WireInv
  <2>2. \A w \in Who \ {by} : awaiting'[w] = awaiting[w]
    BY <1>2 DEF Asked
  <2>3. wire[s] # <<>> /\ by = calls[Head(wire[s]).id].by
    BY <1>1
  <2>. HIDE DEF by
  <2>. QED  BY <2>1, <2>2, <2>3, SettledOwner
<1>6. m.kind = "answer" => m.topic \in active[s]
  <2>1. wire \in [Sockets -> Seq(Messages)]
    BY DEF CallInv, Wires
  <2>2. m = wire[s][1] /\ 1 \in 1..Len(wire[s])
    BY <1>1, <2>1
  <2>. QED  BY <2>2 DEF WireInv, Kinds
<1>7. m.kind = "answer" \/ Refuses
  <2>1. wire \in [Sockets -> Seq(Messages)]
    BY DEF CallInv, Wires
  <2>2. m = wire[s][1] /\ 1 \in 1..Len(wire[s]) /\ wire[s][1] \in Messages
    BY <1>1, <2>1
  <2>. QED  BY <1>1, <2>2 DEF WireInv, Kinds, Messages
<1>8. by # Nobody => awaiting[by] = m.topic[1]
  <2>1. wire \in [Sockets -> Seq(Messages)]
    BY DEF CallInv, Wires
  <2>2. m = wire[s][1] /\ 1 \in 1..Len(wire[s])
    BY <1>1, <2>1
  <2>. QED  BY <2>2 DEF WireInv, Owned
<1>9. \A t \in Wished' : t \in Wished \/ \E k \in 1..Len(reqs) : reqs[k].topic = t
  <2>1. CASE UNCHANGED phaseShifts
    BY <1>1, <2>1 DEF Wished, SubscriptionsOf
  <2>2. CASE \E k \in 1..Len(reqs) : reqs[k].topic = <<"ps", Everyone>>
    <3>1. \A t \in Wished' : t \in SubscriptionsOf(subscribed) \/ t = <<"ps", Everyone>>
      BY <1>1 DEF Wished, SubscriptionsOf
    <3>. QED  BY <2>2, <3>1 DEF Wished
  <2>. QED  BY <1>2, <2>1, <2>2 DEF Asked
<1>. HIDE DEF m, by, rest, pending, Wished
<1>10. Kinds(wire', active')
  BY <1>1, <1>4, <1>5, LineKeepsKinds
<1>11. Owned(wire', calls', awaiting')
  <2>1. \A k \in 1..Len(reqs) :
          LET w == reqs[k].by
          IN  w # Nobody => /\ Len(reqs) = 1 /\ reqs[k].topic \in TopicsOf(w)
                            /\ initialized' => awaiting'[w] = reqs[k].topic[1]
                            /\ \A t \in Sockets : \A i \in 1..Len(rest[t]) : pending[rest[t][i].id].by # w
    BY <1>2, <1>5 DEF Asked
  <2>. QED  BY <1>4, <1>5, <2>1, LineKeepsOwned
<1>12. WireInv'
  BY <1>10, <1>11 DEF WireInv, Kinds, Owned
<1>13. ASSUME NEW t, NEW u \in Sockets, ~Refuses, u = ws', sock'[u] = "open", t \in Wished'
       PROVE  Carried(t, u)'
  <2>1. initialized' /\ u = ws /\ sock[u] = "open"
    BY <1>1, <1>13 DEF Ready
  <2>2. /\ t \in active[u] => Carried(t, u)'
        /\ (\E i \in 1..Len(rest[u]) : rest[u][i].topic = t) => Carried(t, u)'
        /\ \A w \in Who : /\ t = <<"bp", w>>
                          /\ \E i \in 1..Len(rest[u]) : /\ rest[u][i].topic = <<"tx", w>>
                                                       /\ pending[rest[u][i].id].by = w
                          => Carried(t, u)'
        /\ (\E k \in 1..Len(reqs) : reqs[k].topic = t) => Carried(t, u)'
    BY <1>1, <1>4, <1>13, <2>1, LineCarries
  <2>3. CASE t \notin Wished
    BY <1>9, <2>2, <2>3, <1>13
  <2>4. CASE t \in Wished
    <3>1. Carried(t, u)
      BY <1>13, <2>1, <2>4 DEF Flows
    <3>2. CASE t \in active[u]
      BY <2>2, <3>2
    <3>3. ASSUME NEW i \in 1..Len(wire[u]), wire[u][i].topic = t PROVE Carried(t, u)'
      <4>1. CASE u = s /\ wire[u][i] = m
        BY <1>6, <1>7, <1>13, <2>2, <3>3, <4>1
      <4>2. CASE \E j \in 1..Len(rest[u]) : rest[u][j] = wire[u][i]
        BY <2>2, <3>3, <4>2
      <4>. QED  BY <1>5, <4>1, <4>2
    <3>4. ASSUME NEW i \in 1..Len(wire[u]), NEW w \in Who, t = <<"bp", w>>,
                 wire[u][i].topic = <<"tx", w>>, calls[wire[u][i].id].by = w
          PROVE  Carried(t, u)'
      <4>1. CASE u = s /\ wire[u][i] = m
        <5>1. w = by /\ by # Nobody
          BY <3>4, <4>1, NobodyAssumption DEF by
        <5>2. awaiting[by] = "tx" /\ m.kind = "answer"
          BY <1>7, <1>8, <1>13, <3>4, <4>1, <5>1
        <5>3. \E k \in 1..Len(reqs) : reqs[k].topic = t
          BY <1>2, <3>4, <5>1, <5>2 DEF Asked
        <5>. QED  BY <2>2, <5>3
      <4>2. CASE \E j \in 1..Len(rest[u]) : /\ rest[u][j] = wire[u][i]
                                           /\ pending[rest[u][j].id] = calls[wire[u][i].id]
        BY <2>2, <3>4, <4>2
      <4>. QED  BY <1>5, <4>1, <4>2
    <3>. QED  BY <3>1, <3>2, <3>3, <3>4 DEF Carried
  <2>. QED  BY <2>3, <2>4
<1>14. Flows'
  BY <1>13 DEF Flows
<1>. QED  BY <1>12, <1>14

LEMMA NextWires ==
  ASSUME Provider, Types, CallInv, WireInv, Flows, [Next]_vars
  PROVE  WireInv' /\ Flows'
<1>1. Ready'
  BY NextReady DEF WireInv
<1>2. CASE Connect \/ Reconnect
  <2>1. NewSocket /\ UNCHANGED <<wire, calls, awaiting, active, subscribed, phaseShifts>>
    BY <1>2 DEF Connect, Reconnect, requests, subscriptions
  <2>2. PICK s \in Unmade : sock' = [Closed(sock) EXCEPT ![s] = "connecting"] /\ ws' = s
    BY <2>1 DEF NewSocket
  <2>3. sock'[ws'] = "connecting"
    BY <2>2 DEF Unmade, Closed
  <2>. QED  BY <1>1, <2>1, <2>3, QuietWires
<1>3. CASE Disconnect \/ \E s \in Sockets : ErrorEvent(s)
  <2>1. ws' = NoSocket /\ UNCHANGED <<wire, calls, awaiting, active, subscribed, phaseShifts>>
    BY <1>3 DEF Disconnect, ErrorEvent, LetGo, requests, subscriptions
  <2>2. ws' \notin Sockets
    BY <2>1 DEF Sockets, NoSocket
  <2>. QED  BY <1>1, <2>1, <2>2, QuietWires
<1>4. CASE UNCHANGED vars
  BY <1>1, <1>4, QuietWires DEF vars, provider, requests, subscriptions
<1>. QED  BY <1>1, <1>2, <1>3, <1>4, GetAccountWires, SubscribeWires, OpenEventWires,
             CloseEventWires, EnclaveAnswersWires, AnswerEventWires DEF Next, SocketEvent

LEMMA InitWires == Init => WireInv /\ Flows
BY DEF Init, WireInv, Kinds, Owned, Ready, Flows, Sockets, NoSocket

(* However often the connection was lost and made anew, and whenever        *)
(* subscribe() was called: through an open connection, each subscription is *)
(* active, requested, or about to be requested by a subscribe() in progress *)
(* (for as long as the enclave refuses nothing).                            *)
THEOREM SubscriptionsAreCarried == Spec => []OpenMeansSubscribed
<1>. DEFINE Inv == Provider /\ Types /\ CallInv /\ WireInv /\ Flows
<1>1. Init => Inv
  BY ProviderInit, InitCalls, InitWires
<1>2. Inv /\ [Next]_vars => Inv'
  BY ProviderStep, NextTypes, NextCalls, NextWires
<1>3. Inv => OpenMeansSubscribed
  <2>. SUFFICES ASSUME Inv, ws # NoSocket, sock[ws] = "open", ~Refuses,
                       NEW t \in SubscriptionsOf(subscribed) \union {u \in {<<"ps", Everyone>>} : phaseShifts}
                PROVE  t \in active[ws] \union RequestedVia(ws) \union ComingVia(ws)
    BY DEF OpenMeansSubscribed
  <2>1. ws \in Sockets /\ t \in Wished
    BY DEF Provider, Wished
  <2>2. Carried(t, ws)
    BY <2>1 DEF Flows
  <2>3. DOMAIN wire[ws] = 1..Len(wire[ws])
    BY <2>1 DEF CallInv, Wires
  <2>. QED  BY <2>2, <2>3 DEF Carried, RequestedVia, ComingVia
<1>4. QED
  BY <1>1, <1>2, <1>3, PTL DEF Spec
-----------------------------------------------------------------------------
(* Why a lost connection comes back, up to fairness: there is always a      *)
(* socket, or a timer that will make one.                                   *)
OnTheWay == ws # NoSocket /\ sock[ws] \in {"connecting", "open"}

(* As long as #opened is set, whoever wants a connection has one, or one    *)
(* that connects, or a timer that runs.  The close event of a socket, also  *)
(* of one that was replaced long ago, unsets #opened.                       *)
OpenedMeansRecovering == wanted /\ opened => OnTheWay \/ timers > 0

LEMMA ClosedOthers ==
  ASSUME NEW sk \in [Sockets -> SocketStates]
  PROVE  /\ ws \notin Sockets => Closed(sk) = sk
         /\ \A s \in Sockets : s # ws => Closed(sk)[s] = sk[s]
         /\ ws \in Sockets /\ sk[ws] = "failed" => Closed(sk)[ws] = "failed"
BY DEF Closed, SocketStates

(* For any number of sockets, failures and calls of connect(): the error    *)
(* event of any socket starts a timer if #opened is set, whichever socket   *)
(* it makes the provider let go of.                                         *)
THEOREM OpenedIsRecovering == Spec => []OpenedMeansRecovering
<1>. DEFINE Inv == Provider /\ timers \in Nat /\ OpenedMeansRecovering
<1>1. Init => Inv
  BY ProviderInit DEF Init, OpenedMeansRecovering
<1>2. ASSUME Inv, [Next]_vars PROVE Inv'
  <2>1. Provider'
    BY <1>2, ProviderStep
  <2>2. CASE Connect \/ Reconnect
    <3>1. NewSocket /\ timers' \in Nat
      BY <1>2, <2>2 DEF Connect, Reconnect
    <3>2. PICK s \in Unmade : /\ sock' = [Closed(sock) EXCEPT ![s] = "connecting"]
                              /\ ws' = s
      BY <3>1 DEF NewSocket
    <3>3. s \in Sockets /\ Closed(sock) \in [Sockets -> SocketStates]
      BY <1>2, ClosedLeavesNothing DEF Unmade, Provider
    <3>4. ws' # NoSocket /\ sock'[ws'] = "connecting"
      BY <3>2, <3>3 DEF Sockets, NoSocket
    <3>. QED  BY <2>1, <3>1, <3>4 DEF OpenedMeansRecovering, OnTheWay
  <2>3. CASE Disconnect
    BY <1>2, <2>1, <2>3 DEF Disconnect, OpenedMeansRecovering
  <2>4. ASSUME UNCHANGED <<sock, ws, opened, timers, wanted>> PROVE Inv'
    BY <1>2, <2>1, <2>4 DEF OpenedMeansRecovering, OnTheWay
  <2>5. ASSUME NEW s \in Sockets, SocketEvent(s) PROVE Inv'
    <3>1. CASE OpenEvent(s)
      <4>1. /\ sock[s] = "connecting" /\ sock' = [sock EXCEPT ![s] = "open"]
            /\ UNCHANGED <<ws, timers>>
        BY <3>1 DEF OpenEvent
      <4>2. s = ws /\ sock'[s] = "open"
        BY <1>2, <4>1 DEF Provider, Live
      <4>3. OnTheWay'
        BY <4>1, <4>2 DEF OnTheWay, Sockets, NoSocket
      <4>. QED  BY <1>2, <2>1, <4>1, <4>3 DEF OpenedMeansRecovering
    <3>2. CASE ErrorEvent(s)
      BY <1>2, <2>1, <3>2 DEF ErrorEvent, OpenedMeansRecovering
    <3>3. CASE CloseEvent(s)
      BY <1>2, <2>1, <3>3 DEF CloseEvent, OpenedMeansRecovering
    <3>4. CASE EnclaveAnswers(s) \/ AnswerEvent(s)
      BY <2>4, <3>4 DEF EnclaveAnswers, AnswerEvent, provider, history
    <3>. QED  BY <2>5, <3>1, <3>2, <3>3, <3>4 DEF SocketEvent
  <2>6. CASE GetAccount \/ (\E w \in Who : Subscribe(w)) \/ UNCHANGED vars
    BY <2>4, <2>6 DEF GetAccount, Subscribe, provider, history, vars
  <2>. QED  BY <1>2, <2>2, <2>3, <2>5, <2>6 DEF Next
<1>3. Inv => OpenedMeansRecovering
  OBVIOUS
<1>. QED  BY <1>1, <1>2, <1>3, PTL DEF Spec

(* After one call of connect(), with one failure and no orderly close by    *)
(* the other side, #opened is never unset too early: there is a socket, or  *)
(* a timer with a socket for it to make.                                    *)
LostMeansRecovering == wanted /\ everOpen => OnTheWay \/ (timers > 0 /\ Unmade # {})

OnlyFirst == \A s \in Sockets : s # 1 => sock[s] = "none"
NoneLive == ws = NoSocket /\ \A s \in Sockets : sock[s] \notin {"connecting", "open"}

(* The course of events, for as long as the connection is wanted: the first *)
(* socket lives, has failed with a timer running, has been replaced, or has *)
(* failed before it was open.                                               *)
Recovery ==
  /\ connects \in Nat /\ failures \in Nat /\ timers \in Nat
  /\ connects = 0 => /\ \A s \in Sockets : sock[s] = "none"
                     /\ ws = NoSocket /\ timers = 0 /\ failures = 0 /\ ~everOpen /\ ~wanted
  /\ wanted =>
       /\ \A s \in Sockets : sock[s] \in {"none", "connecting", "open", "failed", "closed"}
       /\ \/ /\ failures = 0 /\ timers = 0 /\ OnlyFirst /\ OnTheWay
             /\ sock[ws] = "open" <=> everOpen
             /\ everOpen => opened
          \/ failures = 1 /\ timers = 1 /\ OnlyFirst /\ NoneLive
          \/ failures = 1 /\ timers = 0 /\ OnTheWay
          \/ failures = 1 /\ timers = 0 /\ NoneLive /\ ~everOpen

LEMMA SocketsArePositive == NoSocket \notin Sockets /\ \A s \in Sockets : s \in Nat /\ s >= 1
BY BoundsAreNaturals DEF Sockets, NoSocket

LEMMA ErrorRecovery ==
  ASSUME MaxFailures <= 1, Provider, Recovery, NEW s \in Sockets, ErrorEvent(s)
  PROVE  Recovery'
<1>. DEFINE sk == [sock EXCEPT ![s] = "failed"]
<1>1. /\ Fails(s) /\ timers' = timers + (IF opened THEN 1 ELSE 0)
      /\ sock' = Closed(sk) /\ ws' = NoSocket
      /\ UNCHANGED <<opened, connects, wanted, everOpen>>
  BY DEF ErrorEvent, LetGo, history
<1>2. sk \in [Sockets -> SocketStates] /\ sk[s] = "failed"
      /\ \A r \in Sockets : r # s => sk[r] = sock[r]
  BY DEF Provider, SocketStates
<1>. HIDE DEF sk
<1>3. /\ sock[s] \in {"connecting", "open", "closing", "aborting"}
      /\ \/ failures = 0 /\ failures' = 1 /\ sock[s] # "aborting"
         \/ failures' = failures /\ sock[s] = "aborting"
  BY <1>1, BoundsAreNaturals DEF Fails, Recovery
<1>4. connects # 0 /\ timers' \in Nat /\ failures' \in Nat
  BY <1>1, <1>3 DEF Recovery
<1>5. CASE ~wanted
  BY <1>1, <1>4, <1>5 DEF Recovery
<1>6. CASE wanted
  <2>1. /\ failures = 0 /\ failures' = 1 /\ timers = 0 /\ OnlyFirst /\ OnTheWay
        /\ sock[ws] = "open" <=> everOpen
        /\ everOpen => opened
        /\ sock[s] \in {"connecting", "open"}
        /\ \A r \in Sockets : sock[r] \in {"none", "connecting", "open", "failed", "closed"}
    BY <1>3, <1>6 DEF Recovery
  <2>2. s = ws
    BY <2>1 DEF Provider, Live
  <2>3. sock' \in [Sockets -> SocketStates] /\ sock'[s] = "failed"
        /\ \A r \in Sockets : r # s => sock'[r] = sock[r]
    BY <1>1, <1>2, <2>2, ClosedOthers, ClosedLeavesNothing DEF Closed
  <2>4. \A r \in Sockets : sock'[r] \in {"none", "connecting", "open", "failed", "closed"}
    BY <2>1, <2>3
  <2>5. OnlyFirst'
    BY <2>1, <2>3 DEF OnlyFirst
  <2>6. NoneLive'
    BY <1>1, <2>2, <2>3 DEF NoneLive, Provider, Live
  <2>7. timers' = 1 \/ (timers' = 0 /\ ~everOpen)
    BY <1>1, <2>1
  <2>. QED  BY <1>1, <1>4, <2>1, <2>4, <2>5, <2>6, <2>7 DEF Recovery
<1>. QED  BY <1>5, <1>6

LEMMA ConnectRecovery ==
  ASSUME MaxConnects <= 1, Provider, Recovery, Connect
  PROVE  Recovery'
<1>1. /\ connects < MaxConnects /\ connects' = connects + 1 /\ NewSocket
      /\ UNCHANGED <<timers, failures, everOpen>>
  BY DEF Connect
<1>2. connects = 0 /\ connects' = 1
  BY <1>1, BoundsAreNaturals DEF Recovery
<1>3. /\ \A s \in Sockets : sock[s] = "none"
      /\ ws = NoSocket /\ timers = 0 /\ failures = 0 /\ ~everOpen
  BY <1>2 DEF Recovery
<1>4. PICK s \in Unmade : /\ \A r \in Unmade : s <= r
                          /\ sock' = [Closed(sock) EXCEPT ![s] = "connecting"]
                          /\ ws' = s
  BY <1>1 DEF NewSocket
<1>5. Closed(sock) = sock /\ sock \in [Sockets -> SocketStates]
  BY <1>3, ClosedOthers, SocketsArePositive DEF Provider
<1>6. s \in Sockets /\ s = 1
  <2>1. s \in Sockets /\ 1 \in Sockets
    BY BoundsAreNaturals DEF Unmade, Sockets
  <2>2. s <= 1
    BY <1>3, <1>4, <2>1 DEF Unmade
  <2>. QED  BY <2>1, <2>2, SocketsArePositive
<1>7. sock'[s] = "connecting" /\ \A r \in Sockets : r # s => sock'[r] = "none"
  BY <1>3, <1>4, <1>5, <1>6
<1>8. OnlyFirst' /\ OnTheWay' /\ sock'[ws'] # "open"
  BY <1>4, <1>6, <1>7, SocketsArePositive DEF OnlyFirst, OnTheWay
<1>9. \A r \in Sockets : sock'[r] \in {"none", "connecting"}
  BY <1>7
<1>. QED  BY <1>1, <1>2, <1>3, <1>8, <1>9 DEF Recovery

LEMMA ReconnectRecovery == ASSUME Provider, Recovery, Reconnect PROVE Recovery'
<1>1. /\ timers > 0 /\ timers' = timers - 1 /\ NewSocket
      /\ UNCHANGED <<failures, everOpen, wanted, connects>>
  BY DEF Reconnect, history, bounds
<1>2. connects # 0 /\ timers' \in Nat
  BY <1>1 DEF Recovery
<1>3. CASE ~wanted
  BY <1>1, <1>2, <1>3 DEF Recovery
<1>4. CASE wanted
  <2>1. failures = 1 /\ timers = 1 /\ NoneLive
    BY <1>1, <1>4 DEF Recovery
  <2>2. PICK s \in Unmade : /\ sock' = [Closed(sock) EXCEPT ![s] = "connecting"]
                            /\ ws' = s
    BY <1>1 DEF NewSocket
  <2>3. Closed(sock) = sock /\ sock \in [Sockets -> SocketStates] /\ s \in Sockets
    BY <2>1, ClosedOthers, SocketsArePositive DEF Provider, NoneLive, Unmade
  <2>4. OnTheWay'
    BY <2>2, <2>3, SocketsArePositive DEF OnTheWay
  <2>5. \A r \in Sockets : sock'[r] \in {"none", "connecting", "open", "failed", "closed"}
    BY <1>4, <2>2, <2>3 DEF Recovery
  <2>. QED  BY <1>1, <1>2, <2>1, <2>4, <2>5 DEF Recovery
<1>. QED  BY <1>3, <1>4

LEMMA StepRecovery ==
  ASSUME MaxConnects <= 1, MaxFailures <= 1, ~RemoteCloses, Provider, Recovery, [Next]_vars
  PROVE  Recovery'
<1>1. ASSUME UNCHANGED <<sock, ws, opened, timers, wanted, everOpen, connects, failures>>
      PROVE  Recovery'
  BY <1>1 DEF Recovery, OnlyFirst, OnTheWay, NoneLive
<1>2. CASE Disconnect
  <2>1. /\ ~wanted' /\ sock' = Closed(sock) /\ ws' = NoSocket
        /\ UNCHANGED <<timers, everOpen, connects, failures>>
    BY <1>2 DEF Disconnect, LetGo
  <2>2. connects = 0 => sock' = sock
    BY <2>1, ClosedOthers, SocketsArePositive DEF Recovery, Provider
  <2>. QED  BY <2>1, <2>2 DEF Recovery
<1>3. ASSUME NEW s \in Sockets, OpenEvent(s) PROVE Recovery'
  <2>1. /\ sock[s] = "connecting" /\ sock' = [sock EXCEPT ![s] = "open"]
        /\ opened' /\ everOpen'
        /\ UNCHANGED <<ws, timers, wanted, connects, failures>>
    BY <1>3 DEF OpenEvent, bounds
  <2>2. s = ws /\ sock'[s] = "open" /\ \A r \in Sockets : r # s => sock'[r] = sock[r]
    BY <2>1 DEF Provider, Live
  <2>3. connects # 0 /\ ~NoneLive
    BY <2>1 DEF Recovery, NoneLive
  <2>4. OnTheWay' /\ sock'[ws'] = "open"
    BY <2>1, <2>2, SocketsArePositive DEF OnTheWay
  <2>5. OnlyFirst => OnlyFirst'
    BY <2>1, <2>2 DEF OnlyFirst
  <2>6. wanted => \A r \in Sockets : sock'[r] \in {"none", "connecting", "open", "failed", "closed"}
    BY <2>2 DEF Recovery
  <2>. QED  BY <2>1, <2>3, <2>4, <2>5, <2>6 DEF Recovery
<1>4. ASSUME NEW s \in Sockets, CloseEvent(s) PROVE Recovery'
  <2>1. /\ sock[s] \in {"failed", "closing"} /\ sock' = [sock EXCEPT ![s] = "closed"]
        /\ UNCHANGED <<ws, timers, wanted, everOpen, connects, failures>>
    BY <1>4 DEF CloseEvent, history, bounds
  <2>2. sock'[s] = "closed" /\ \A r \in Sockets : r # s => sock'[r] = sock[r]
    BY <2>1 DEF Provider
  <2>3. connects # 0
    BY <2>1 DEF Recovery
  <2>4. OnTheWay => OnTheWay' /\ ws # s
    <3>1. OnTheWay => ws \in Sockets /\ ws # s
      BY <2>1 DEF OnTheWay, Provider
    <3>. QED  BY <2>1, <2>2, <3>1 DEF OnTheWay
  <2>5. NoneLive => NoneLive'
    BY <2>1, <2>2 DEF NoneLive
  <2>6. OnlyFirst => s = 1 /\ OnlyFirst'
    BY <2>1, <2>2 DEF OnlyFirst
  <2>7. OnlyFirst /\ OnTheWay => ws = 1
    BY <2>1, SocketsArePositive DEF OnlyFirst, OnTheWay, Provider
  <2>8. wanted => \A r \in Sockets : sock'[r] \in {"none", "connecting", "open", "failed", "closed"}
    BY <2>2 DEF Recovery
  <2>. QED  BY <2>1, <2>3, <2>4, <2>5, <2>6, <2>7, <2>8 DEF Recovery
<1>5. ASSUME NEW s \in Sockets, EnclaveAnswers(s) \/ AnswerEvent(s) PROVE Recovery'
  BY <1>1, <1>5 DEF EnclaveAnswers, AnswerEvent, provider, history, bounds
<1>6. CASE GetAccount \/ (\E w \in Who : Subscribe(w)) \/ UNCHANGED vars
  BY <1>1, <1>6 DEF GetAccount, Subscribe, provider, history, bounds, vars
<1>. QED
  BY <1>2, <1>3, <1>4, <1>5, <1>6, ConnectRecovery, ReconnectRecovery, ErrorRecovery
     DEF Next, SocketEvent

(* The safety part of Reestablished.                                        *)
THEOREM LostIsRecovering ==
  ASSUME MaxConnects <= 1, MaxFailures <= 1, ~RemoteCloses, MaxSockets >= 2
  PROVE  Spec => []LostMeansRecovering
<1>. DEFINE Inv == Provider /\ Recovery
<1>1. Init => Inv
  BY ProviderInit DEF Init, Recovery
<1>2. Inv /\ [Next]_vars => Inv'
  BY ProviderStep, StepRecovery
<1>3. Inv => LostMeansRecovering
  <2>. SUFFICES ASSUME Recovery, wanted, everOpen, ~OnTheWay
                PROVE  timers > 0 /\ Unmade # {}
    BY DEF LostMeansRecovering
  <2>1. timers = 1 /\ OnlyFirst
    BY DEF Recovery
  <2>2. 2 \in Sockets
    BY BoundsAreNaturals DEF Sockets
  <2>. QED  BY <2>1, <2>2 DEF OnlyFirst, Unmade
<1>. QED  BY <1>1, <1>2, <1>3, PTL DEF Spec
==============================================================================

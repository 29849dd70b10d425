--------------------------- MODULE LifecycleProofs ---------------------------
(* That whatever happens to the connection, a Session is ready only with a  *)
(* chain session for every chain, made from the config it shows unless a    *)
(* call of initialize() has failed; that it keeps its chain sessions, stays *)
(* disconnected, and leaves no call of initialize() without a timeout; and  *)
(* that a Client never is ready.                                            *)
EXTENDS Lifecycle, FiniteSetTheorems, SequenceTheorems, TLAPS

Started == {a \in Attempts : stage[a] # "idle"}

(* Whoever waits has a timeout that runs.                                   *)
Timed == \A a \in Attempts : stage[a] = "pending" => a \in timers

(* A call that still has its handler for the config was not resolved.       *)
Unresolved == \A a \in configOnce : stage[a] # "resolved"

Promises ==
  /\ stage \in [Attempts -> {"idle", "pending", "resolved", "rejected"}]
  /\ timers \subseteq Attempts /\ errorOnce \subseteq Attempts
  /\ configOnce \subseteq Started
  /\ Timed /\ Unresolved

Internals ==
  /\ kind \in Kinds
  /\ config \in 0..MaxVersion /\ initialized \in BOOLEAN
  /\ session \in [Chains -> 0..MaxVersion]
  /\ usable \in [Versions -> BOOLEAN]
  /\ ReadyMeansUsable

(* A call of initialize() that still has its handler may make the sessions  *)
(* once more; the others have made them at most once, together.             *)
Accounted == /\ made \in Nat /\ IsFiniteSet(Started)
             /\ made + Cardinality(configOnce) <= Cardinality(Started)

Sockets == aborted + closing + (IF ws = "none" THEN 0 ELSE 1) <= sockets

Connection ==
  /\ ws \in {"none", "connecting", "open"} /\ wire \in 0..MaxVersion
  /\ wire # 0 => ws = "open"
  /\ opened \in BOOLEAN
  /\ aborted \in Nat /\ closing \in Nat /\ retries \in Nat
  /\ late \in Seq(Versions)
  /\ version \in Versions
  /\ wanted \in {"yes", "no", "again"}
  /\ sockets \in 0..MaxSockets /\ failures \in 0..MaxFailures
  /\ disconnects \in 0..MaxDisconnects
  /\ Sockets

(* Nobody wants a connection: there is none, and nothing is initialized.    *)
Gone == wanted = "no" => ws = "none" /\ ~initialized

IInv == Promises /\ Internals /\ Accounted /\ Connection /\ Gone

Bounds == /\ MaxVersion \in Nat /\ MaxVersion > 0
          /\ MaxSockets \in Nat /\ MaxFailures \in Nat /\ MaxDisconnects \in Nat

LEMMA BoundsAreNaturals == Bounds
  BY BoundsAssumption DEF Bounds
-----------------------------------------------------------------------------
LEMMA InitHolds == Init => IInv
<1> SUFFICES ASSUME Init PROVE IInv
  OBVIOUS
<1> USE BoundsAreNaturals DEF Bounds, Init
<1>1. Started = {}
  BY DEF Started
<1>2. Promises
  BY <1>1 DEF Promises, Timed, Unresolved
<1>3. Internals
  <2>1. ReadyMeansUsable
    BY Zenon DEF ReadyMeansUsable
  <2>2. session \in [Chains -> 0..MaxVersion] /\ config \in 0..MaxVersion
    OBVIOUS
  <2>3. initialized \in BOOLEAN /\ kind \in Kinds /\ usable \in [Versions -> BOOLEAN]
    BY Zenon
  <2>4. QED
    BY ONLY <2>1, <2>2, <2>3, Zenon DEF Internals
<1>4. Accounted
  BY <1>1, FS_EmptySet DEF Accounted
<1>5. Connection
  <2>1. opened \in BOOLEAN
    BY Zenon
  <2>2. late \in Seq(Versions)
    OBVIOUS
  <2>3. Sockets
    BY DEF Sockets
  <2>4. QED
    BY <2>1, <2>2, <2>3 DEF Connection, Versions
<1>6. Gone
  BY Zenon DEF Gone
<1>7. QED
  BY <1>2, <1>3, <1>4, <1>5, <1>6 DEF IInv
-----------------------------------------------------------------------------
(* The promises of the calls and what they made, through a step.            *)

(* Settling keeps who has started, and leaves nobody waiting of the calls.  *)
LEMMA SettledKeeps ==
  ASSUME Promises, NEW calls, NEW outcome \in {"resolved", "rejected"},
         stage' = Settled(calls, outcome)
  PROVE  /\ stage' \in [Attempts -> {"idle", "pending", "resolved", "rejected"}]
         /\ Started' = Started
         /\ \A a \in Attempts : stage'[a] = "pending" => stage[a] = "pending" /\ a \notin calls
         /\ \A a \in Attempts \ calls : stage'[a] = stage[a]
         /\ outcome = "rejected" /\ Unresolved /\ UNCHANGED configOnce => Unresolved'
BY DEF Promises, Settled, Started, Unresolved

LEMMA SamePromises == Promises /\ UNCHANGED promises => Promises' /\ Started' = Started
  BY DEF Promises, promises, Started, Timed, Unresolved

(* Nobody takes back what tells the application.                            *)
LEMMA SameTold == Told /\ UNCHANGED <<stage, configOnce>> => Told'
  BY DEF Told

LEMMA RejectingKeepsTold ==
  ASSUME Promises, Told, NEW calls, stage' = Settled(calls, "rejected"),
         UNCHANGED configOnce
  PROVE  Told'
BY DEF Promises, Told, Settled

LEMMA SameInternals ==
  Internals /\ UNCHANGED <<kind, internals, usable>> /\ (Told => Told') => Internals'
  BY DEF Internals, internals, ReadyMeansUsable

LEMMA SameAccounted ==
  Accounted /\ UNCHANGED <<made, configOnce>> /\ Started' = Started => Accounted'
  BY DEF Accounted

LEMMA RejectAllKeeps ==
  Promises /\ RejectAll /\ UNCHANGED <<timers, configOnce>> => Promises' /\ Started' = Started
<1> SUFFICES ASSUME Promises, RejectAll, UNCHANGED <<timers, configOnce>>
             PROVE  Promises' /\ Started' = Started
  OBVIOUS
<1>1. stage' = Settled(errorOnce, "rejected") /\ errorOnce' = {}
  BY DEF RejectAll
<1>2. /\ stage' \in [Attempts -> {"idle", "pending", "resolved", "rejected"}]
      /\ Started' = Started
      /\ \A a \in Attempts : stage'[a] = "pending" => stage[a] = "pending"
      /\ Unresolved'
  BY <1>1, SettledKeeps DEF Promises
<1>3. QED
  BY <1>1, <1>2 DEF Promises, Timed, Unresolved

(* The constructors that run to their end make a session for every chain,   *)
(* and those that throw leave no chain without a session that had one.      *)
LEMMA SessionsMade ==
  ASSUME Internals, NEW v \in Versions, MakeSessions(v)
  PROVE  /\ session' \in [Chains -> 0..MaxVersion]
         /\ usable[v] => \A c \in Chains : session'[c] = v
         /\ \A c \in Chains : session[c] # 0 => session'[c] # 0
<1> USE BoundsAreNaturals DEF Bounds
<1>1. PICK done \in SUBSET Chains :
        /\ done = Chains <=> usable[v]
        /\ session' = [c \in Chains |-> IF c \in done THEN v ELSE session[c]]
  BY DEF MakeSessions
<1>2. v \in 0..MaxVersion
  BY DEF Versions
<1>3. session' \in [Chains -> 0..MaxVersion]
  BY <1>1, <1>2 DEF Internals
<1>4. v # 0
  BY DEF Versions
<1>5. QED
  BY <1>1, <1>3, <1>4

LEMMA ConfigHandledKeeps ==
  ASSUME Promises, Internals, Accounted, NEW v \in Versions,
         ConfigHandled(v), UNCHANGED <<kind, errorOnce, usable>>
  PROVE  Promises' /\ Internals' /\ Accounted'
<1> USE BoundsAreNaturals DEF Bounds
<1>1. configOnce # {} /\ configOnce' = {} /\ config' = v /\ v \in 0..MaxVersion
  BY DEF ConfigHandled, Versions
<1>2. Promises' /\ Started' = Started
  <2>1. CASE InitHandlerThrows(v)
    BY <1>1, <2>1 DEF ConfigHandled, Promises, Timed, Unresolved, Started
  <2>2. CASE ~InitHandlerThrows(v)
    <3>1. timers' = timers \ configOnce /\ stage' = Settled(configOnce, "resolved")
      BY <2>2 DEF ConfigHandled, ResolveWaiting
    <3>2. /\ stage' \in [Attempts -> {"idle", "pending", "resolved", "rejected"}]
          /\ Started' = Started
          /\ \A a \in Attempts :
               stage'[a] = "pending" => stage[a] = "pending" /\ a \notin configOnce
      BY <3>1, SettledKeeps
    <3>3. QED
      BY <1>1, <3>1, <3>2 DEF Promises, Timed, Unresolved
  <2>3. QED
    BY <2>1, <2>2
<1>3. initialized' \in BOOLEAN
  BY DEF ConfigHandled, ResolveWaiting, Internals
<1>4. CASE kind = "session"
  <2>1. MakeSessions(v)
    BY <1>4 DEF ConfigHandled, InitHandler
  <2>2. /\ session' \in [Chains -> 0..MaxVersion]
        /\ usable[v] => \A c \in Chains : session'[c] = v
        /\ \A c \in Chains : session[c] # 0 => session'[c] # 0
    BY <2>1, SessionsMade
  <2>3. ReadyMeansUsable'
    <3>1. CASE usable[v]
      <4>1. v # 0
        BY DEF Versions
      <4>2. \A c \in Chains : session'[c] # 0 /\ session'[c] = config'
        BY <1>1, <2>2, <3>1, <4>1
      <4>3. QED
        BY <4>2 DEF ReadyMeansUsable
    <3>2. CASE ~usable[v]
      <4>1. UNCHANGED <<stage, initialized>>
        BY <1>4, <3>2 DEF ConfigHandled, InitHandlerThrows
      <4>2. Told'
        BY <1>1, <3>2, <4>1 DEF Promises, Unresolved, Started, Told
      <4>3. initialized' /\ kind' = "session" => \A c \in Chains : session'[c] # 0
        BY <2>2, <4>1 DEF Internals, ReadyMeansUsable
      <4>4. ~usable'[config']
        BY <1>1, <3>2
      <4>5. QED
        BY <4>2, <4>3, <4>4 DEF ReadyMeansUsable
    <3>3. QED
      BY <3>1, <3>2
  <2>4. Internals'
    BY <1>1, <1>3, <2>2, <2>3 DEF Internals
  <2>5. Cardinality(configOnce) \in Nat \ {0} /\ Cardinality(Started) \in Nat
    BY <1>1, FS_Subset, FS_EmptySet, FS_CardinalityType DEF Accounted, Promises
  <2>6. Cardinality(configOnce') = 0
    BY <1>1, FS_EmptySet
  <2>7. made' \in {made + 1, made + Cardinality(configOnce)}
    BY <2>1 DEF MakeSessions
  <2>8. Accounted'
    BY <1>2, <2>5, <2>6, <2>7 DEF Accounted
  <2>9. QED
    BY <1>2, <2>4, <2>8
<1>5. CASE kind # "session"
  <2>1. UNCHANGED <<session, made>>
    BY <1>5 DEF ConfigHandled, InitHandler
  <2>2. Internals'
    BY <1>1, <1>3, <1>5, <2>1 DEF Internals, ReadyMeansUsable
  <2>3. Cardinality(configOnce) \in Nat /\ Cardinality(Started) \in Nat
    BY FS_Subset, FS_CardinalityType DEF Accounted, Promises
  <2>4. Cardinality(configOnce') = 0
    BY <1>1, FS_EmptySet
  <2>5. Accounted'
    BY <1>2, <2>1, <2>3, <2>4 DEF Accounted
  <2>6. QED
    BY <1>2, <2>2, <2>5
<1>6. QED
  BY <1>4, <1>5

LEMMA InitializeKeeps ==
  ASSUME IInv, NEW a \in Attempts, Initialize(a)
  PROVE  Promises' /\ Internals' /\ Accounted'
<1>1. /\ stage[a] = "idle" /\ stage' = [stage EXCEPT ![a] = "pending"]
      /\ timers' = timers \union {a}
      /\ errorOnce' = errorOnce \union {a} /\ configOnce' = configOnce \union {a}
      /\ UNCHANGED <<kind, internals, usable>>
  BY DEF Initialize, operator
<1>2. Promises
  BY DEF IInv
<1>3. Started' = Started \union {a} /\ a \notin Started /\ a \notin configOnce
  BY <1>1, <1>2 DEF Promises, Started
<1>4. Promises'
  BY <1>1, <1>2, <1>3 DEF Promises, Timed, Unresolved
<1>5. Internals'
  <2>1. Told => Told'
    BY <1>1, <1>2 DEF Told, Promises
  <2>2. QED
    BY <1>1, <2>1, SameInternals DEF IInv
<1>6. IsFiniteSet(Started) /\ IsFiniteSet(configOnce)
  BY <1>2, FS_Subset DEF IInv, Accounted, Promises
<1>7. /\ IsFiniteSet(Started') /\ Cardinality(Started') = Cardinality(Started) + 1
      /\ Cardinality(configOnce') = Cardinality(configOnce) + 1
  BY <1>1, <1>3, <1>6, FS_AddElement
<1>8. Cardinality(Started) \in Nat /\ Cardinality(configOnce) \in Nat
  BY <1>6, FS_CardinalityType
<1>9. Accounted'
  BY <1>1, <1>7, <1>8 DEF IInv, Accounted, internals
<1>10. QED
  BY <1>4, <1>5, <1>9

LEMMA TimeoutKeeps ==
  ASSUME IInv, NEW a \in Attempts, Timeout(a)
  PROVE  Promises' /\ Internals' /\ Accounted'
<1>1. /\ timers' = timers \ {a} /\ stage' = Settled({a}, "rejected")
      /\ UNCHANGED <<kind, errorOnce, configOnce, internals, usable>>
  BY DEF Timeout, operator
<1>2. /\ stage' \in [Attempts -> {"idle", "pending", "resolved", "rejected"}]
      /\ Started' = Started
      /\ \A b \in Attempts : stage'[b] = "pending" => stage[b] = "pending" /\ b # a
      /\ Unresolved'
  BY <1>1, SettledKeeps DEF IInv, Promises
<1>3. Promises'
  BY <1>1, <1>2 DEF IInv, Promises, Timed, Unresolved
<1>4. Told => Told'
  BY <1>1, RejectingKeepsTold DEF IInv
<1>5. QED
  BY <1>1, <1>2, <1>3, <1>4, SameInternals, SameAccounted DEF IInv, internals

(* The steps that leave the config and the sessions alone.                  *)
LEMMA QuietKeeps ==
  ASSUME IInv, UNCHANGED <<kind, configOnce, internals, usable>>,
         (RejectAll /\ UNCHANGED timers) \/ UNCHANGED promises
  PROVE  Promises' /\ Internals' /\ Accounted'
<1>1. Promises' /\ Started' = Started
  BY RejectAllKeeps, SamePromises DEF IInv
<1>2. Told => Told'
  BY RejectingKeepsTold, SameTold DEF IInv, RejectAll, promises
<1>3. QED
  BY <1>1, <1>2, SameInternals, SameAccounted DEF IInv, internals
-----------------------------------------------------------------------------
LEMMA StepKeepsInternals ==
  IInv /\ [Next]_vars => Promises' /\ Internals' /\ Accounted'
<1> SUFFICES ASSUME IInv, [Next]_vars PROVE Promises' /\ Internals' /\ Accounted'
  OBVIOUS
<1> USE DEF operator
<1>1. CASE Disconnect
  <2>1. UNCHANGED <<kind, promises, config, session, made, usable>> /\ initialized' = FALSE
    BY <1>1 DEF Disconnect
  <2>2. Promises' /\ Started' = Started
    BY <2>1, SamePromises DEF IInv
  <2>3. Internals'
    BY <2>1 DEF IInv, Internals, ReadyMeansUsable
  <2>4. QED
    BY <2>1, <2>2, <2>3, SameAccounted DEF IInv, promises
<1>2. CASE \E a \in Attempts : Initialize(a)
  BY <1>2, InitializeKeeps
<1>3. CASE \E a \in Attempts : Timeout(a)
  BY <1>3, TimeoutKeeps
<1>4. ASSUME Unheard, UNCHANGED <<kind, errorOnce, usable>>
      PROVE  Promises' /\ Internals' /\ Accounted'
  BY <1>4, QuietKeeps DEF Unheard, promises
<1>5. CASE ConfigArrives
  <2>1. wire \in Versions
    BY <1>5, BoundsAreNaturals DEF ConfigArrives, IInv, Connection, Versions, Bounds
  <2>2. UNCHANGED <<kind, errorOnce, usable>> /\ (ConfigHandled(wire) \/ Unheard)
    BY <1>5 DEF ConfigArrives
  <2>3. QED
    BY <1>4, <2>1, <2>2, ConfigHandledKeeps DEF IInv
<1>6. CASE LateConfigArrives
  <2>1. Head(late) \in Versions
    BY <1>6 DEF LateConfigArrives, IInv, Connection
  <2>2. UNCHANGED <<kind, errorOnce, usable>> /\ (ConfigHandled(Head(late)) \/ Unheard)
    BY <1>6 DEF LateConfigArrives
  <2>3. QED
    BY <1>4, <2>1, <2>2, ConfigHandledKeeps DEF IInv
<1>7. CASE LateConfigLost \/ Open \/ Closes \/ Retry \/ OperatorUpdates
  BY <1>7, QuietKeeps DEF LateConfigLost, Open, Closes, Retry, OperatorUpdates, promises
<1>8. CASE ConnectionFails \/ AbortedFails
  BY <1>8, QuietKeeps DEF ConnectionFails, AbortedFails, OnError
<1>9. CASE OperatorError
  BY <1>9, QuietKeeps DEF OperatorError
<1>10. CASE UNCHANGED vars
  BY <1>10, QuietKeeps DEF vars, promises
<1>11. QED
  BY <1>1, <1>2, <1>3, <1>5, <1>6, <1>7, <1>8, <1>9, <1>10
     DEF Next, Application, SocketEvent, Timer
-----------------------------------------------------------------------------
(* The connection, through a step.                                          *)
LEMMA DeliveredLate ==
  ASSUME NEW l \in Seq(Versions), NEW w \in 0..MaxVersion
  PROVE  (IF w # 0 THEN Append(l, w) ELSE l) \in Seq(Versions)
<1>1. w # 0 => w \in Versions
  BY BoundsAreNaturals DEF Versions, Bounds
<1> HIDE DEF Versions
<1>2. w # 0 => Append(l, w) \in Seq(Versions)
  BY <1>1
<1>3. QED
  BY <1>2

LEMMA LetGoKeepsLate == Connection /\ LetGo => late' \in Seq(Versions)
  BY DeliveredLate DEF Connection, LetGo

LEMMA ConnectKeeps ==
  ASSUME Connection, Connect, UNCHANGED <<version, failures, disconnects, opened>>,
         retries' \in Nat, wanted' \in {"yes", "no", "again"}
  PROVE  Connection'
<1>1. late' \in Seq(Versions)
  BY LetGoKeepsLate DEF Connect
<1>2. QED
  BY <1>1, BoundsAreNaturals DEF Connection, Connect, LetGo, Sockets, Bounds

LEMMA StepKeepsConnection == IInv /\ [Next]_vars => Connection'
<1> SUFFICES ASSUME IInv, [Next]_vars PROVE Connection'
  OBVIOUS
<1> USE BoundsAreNaturals DEF operator, connection, bounds, Bounds
<1>1. Connection
  BY DEF IInv
<1>2. CASE Disconnect
  <2>1. late' \in Seq(Versions)
    BY <1>1, <1>2, LetGoKeepsLate DEF Disconnect
  <2>2. QED
    BY <1>1, <1>2, <2>1 DEF Disconnect, LetGo, Connection, Sockets
<1>3. CASE \E a \in Attempts : Initialize(a)
  BY <1>1, <1>3, ConnectKeeps DEF Initialize, Connection
<1>4. CASE Retry
  BY <1>1, <1>4, ConnectKeeps DEF Retry, Connection
<1>5. CASE \E a \in Attempts : Timeout(a)
  BY <1>1, <1>5 DEF Timeout, Connection, Sockets
<1>6. CASE ConfigArrives
  BY <1>1, <1>6 DEF ConfigArrives, Connection, Sockets
<1>7. CASE LateConfigArrives \/ LateConfigLost
  <2>1. late' \in Seq(Versions)
    BY SMTT(20), <1>1, <1>7 DEF LateConfigArrives, LateConfigLost, Connection
  <2>2. QED
    BY <1>1, <1>7, <2>1 DEF LateConfigArrives, LateConfigLost, Connection, Sockets
<1>8. CASE Open
  BY <1>1, <1>8 DEF Open, Connection, Sockets, Versions
<1>9. CASE ConnectionFails
  BY <1>1, <1>9 DEF ConnectionFails, OnError, Connection, Sockets
<1>10. CASE AbortedFails
  <2>1. late' \in Seq(Versions)
    BY <1>1, <1>10, DeliveredLate DEF AbortedFails, Connection
  <2>2. QED
    BY <1>1, <1>10, <2>1 DEF AbortedFails, OnError, Connection, Sockets
<1>11. CASE Closes
  <2>1. closing' = closing - 1 /\ closing' \in Nat
    BY <1>1, <1>11 DEF Closes, Connection
  <2>2. Sockets'
    BY <1>1, <1>11, <2>1 DEF Closes, Connection, Sockets
  <2>3. UNCHANGED <<ws, wire, aborted, late, retries, version, wanted, sockets, failures,
                    disconnects>>
    BY <1>11 DEF Closes
  <2>4. opened' \in BOOLEAN
    BY <1>11, Zenon DEF Closes
  <2>5. QED
    BY <1>1, <2>1, <2>2, <2>3, <2>4 DEF Connection
<1>12. CASE OperatorError
  BY <1>1, <1>12 DEF OperatorError, Connection, Sockets
<1>13. CASE OperatorUpdates
  BY <1>1, <1>13 DEF OperatorUpdates, Connection, Sockets, Versions
<1>14. CASE UNCHANGED vars
  BY <1>1, <1>14 DEF vars, Connection, Sockets
<1>15. QED
  BY <1>2, <1>3, <1>4, <1>5, <1>6, <1>7, <1>8, <1>9, <1>10, <1>11, <1>12, <1>13, <1>14
     DEF Next, Application, SocketEvent, Timer

(* A config only arrives over a socket; the one that arrives late, and the  *)
(* retry timer, make wanted "again".                                        *)
LEMMA StepKeepsGone == IInv /\ [Next]_vars => Gone'
<1> SUFFICES ASSUME IInv, [Next]_vars PROVE Gone'
  OBVIOUS
<1> USE DEF IInv, Gone, Internals, Connection, internals, connection
<1>1. CASE Disconnect \/ \E a \in Attempts : Initialize(a)
  BY <1>1 DEF Disconnect, Initialize
<1>2. CASE Retry \/ LateConfigArrives
  BY <1>2 DEF Retry, LateConfigArrives
<1>3. CASE ConfigArrives \/ Open
  BY <1>3 DEF ConfigArrives, Open
<1>4. CASE ConnectionFails \/ AbortedFails
  BY <1>4 DEF ConnectionFails, AbortedFails, OnError
<1>5. CASE LateConfigLost \/ Closes \/ OperatorError \/ OperatorUpdates
  BY <1>5 DEF LateConfigLost, Closes, OperatorError, OperatorUpdates
<1>6. CASE \E a \in Attempts : Timeout(a)
  BY <1>6 DEF Timeout
<1>7. CASE UNCHANGED vars
  BY <1>7 DEF vars
<1>8. QED
  BY <1>1, <1>2, <1>3, <1>4, <1>5, <1>6, <1>7 DEF Next, Application, SocketEvent, Timer
-----------------------------------------------------------------------------
(* Who owns which socket, timer and config, through every initialize() and  *)
(* disconnect(): the invariant that the results below rest on.              *)
THEOREM Invariance == Spec => []IInv
<1>1. IInv /\ [Next]_vars => IInv'
  BY StepKeepsInternals, StepKeepsConnection, StepKeepsGone DEF IInv
<1>2. QED
  BY <1>1, InitHolds, PTL DEF Spec

(* Every socket was made once and is in one place, and the other variables  *)
(* keep their types.                                                        *)
THEOREM TypeCorrect == Spec => []TypeOK
<1>1. IInv => TypeOK
  BY DEF IInv, Promises, Internals, Accounted, Connection, Sockets, Started, TypeOK
<1>2. QED
  BY <1>1, Invariance, PTL

(* A Session that says it is initialized has a session for every chain,     *)
(* however often initialize() was called, timed out, was overtaken or       *)
(* failed.  All are made from the config it shows, unless that cannot be    *)
(* used; then a call of initialize() has ended without being resolved, or   *)
(* will: it is pending without a handler for a config.                      *)
THEOREM InitializedIsUsable == Spec => []ReadyMeansUsable
<1>1. IInv => ReadyMeansUsable
  BY DEF IInv, Internals
<1>2. QED
  BY <1>1, Invariance, PTL

(* Chain sessions are made at most once for each call of initialize().      *)
THEOREM SessionsAreKept == Spec => []SessionsSurvive
<1>1. ASSUME IInv PROVE SessionsSurvive
  <2>1. Cardinality(configOnce) \in Nat /\ Cardinality(Started) \in Nat
    BY <1>1, FS_Subset, FS_CardinalityType DEF IInv, Promises, Accounted
  <2>2. QED
    BY <1>1, <2>1 DEF IInv, Accounted, SessionsSurvive, Started
<1>2. QED
  BY <1>1, Invariance, PTL

(* Since a disconnect() the object is initialized again only by a call of   *)
(* initialize(), or by a timer or a config from before it.                  *)
THEOREM DisconnectIsLasting == Spec => []DisconnectLasts
<1>1. IInv => DisconnectLasts
  BY DEF IInv, Gone, DisconnectLasts
<1>2. QED
  BY <1>1, Invariance, PTL

(* A call of initialize() that waits has a timeout that will reject it.     *)
THEOREM NobodyWaitsForever == Spec => []Timed
<1>1. IInv => Timed
  BY DEF IInv, Promises
<1>2. QED
  BY <1>1, Invariance, PTL

(* A promise of initialize() settles once, and the timeout of a call goes    *)
(* only when its promise has settled.  With the theorem before this is the   *)
(* safety part of Settles: what remains is that timers expire.               *)
SettledOnce ==
  \A a \in Attempts : stage[a] \in {"resolved", "rejected"} => stage'[a] = stage[a]
TimeoutsKept == \A a \in timers \ timers' : stage'[a] # "pending"

THEOREM PromisesAreKept == Spec => [][SettledOnce /\ TimeoutsKept]_vars
<1>1. ASSUME IInv, [Next]_vars PROVE [SettledOnce /\ TimeoutsKept]_vars
  <2>1. /\ stage \in [Attempts -> {"idle", "pending", "resolved", "rejected"}]
        /\ timers \subseteq Attempts
    BY <1>1 DEF IInv, Promises
  <2>2. ASSUME NEW calls, NEW o \in {"resolved", "rejected"}, stage' = Settled(calls, o)
        PROVE  /\ SettledOnce
               /\ \A a \in timers : a \in calls => stage'[a] # "pending"
    BY <2>1, <2>2 DEF Settled, SettledOnce
  <2>3. ASSUME stage' = stage PROVE SettledOnce
    BY <2>3 DEF SettledOnce
  <2>4. CASE Application
    <3>1. SettledOnce
      BY <2>1, <2>4 DEF Application, Disconnect, Initialize, promises, SettledOnce
    <3>2. timers \subseteq timers'
      BY <2>4 DEF Application, Disconnect, Initialize, promises
    <3>3. QED
      BY <3>1, <3>2 DEF TimeoutsKept
  <2>5. CASE Timer
    <3>1. CASE Retry
      BY <2>3, <3>1 DEF Retry, promises, TimeoutsKept
    <3>2. ASSUME NEW a \in Attempts, Timeout(a) PROVE SettledOnce /\ TimeoutsKept
      BY <2>2, <3>2 DEF Timeout, TimeoutsKept
    <3>3. QED
      BY <2>5, <3>1, <3>2 DEF Timer
  <2>6. ASSUME NEW v, ConfigHandled(v) PROVE SettledOnce /\ TimeoutsKept
    <3>1. CASE InitHandlerThrows(v)
      BY <2>3, <2>6, <3>1 DEF ConfigHandled, TimeoutsKept
    <3>2. CASE ~InitHandlerThrows(v)
      <4>1. stage' = Settled(configOnce, "resolved") /\ timers' = timers \ configOnce
        BY <2>6, <3>2 DEF ConfigHandled, ResolveWaiting
      <4>2. QED
        BY <2>2, <4>1 DEF TimeoutsKept
    <3>3. QED
      BY <3>1, <3>2
  <2>7. CASE SocketEvent \/ OperatorError
    <3>1. \/ (\E v : ConfigHandled(v))
          \/ timers' = timers /\ (stage' = stage \/ stage' = Settled(errorOnce, "rejected"))
      BY <2>7 DEF SocketEvent, Open, ConfigArrives, LateConfigArrives, LateConfigLost,
                  ConnectionFails, AbortedFails, Closes, OnError, RejectAll, OperatorError,
                  Unheard, promises
    <3>2. QED
      BY <2>2, <2>3, <2>6, <3>1 DEF TimeoutsKept
  <2>8. CASE OperatorUpdates
    BY <2>3, <2>8 DEF OperatorUpdates, promises, TimeoutsKept
  <2>9. QED
    BY <1>1, <2>4, <2>5, <2>7, <2>8 DEF Next
<1>2. QED
  BY <1>1, Invariance, PTL DEF Spec

(* The config that arrives resolves the calls of initialize() that wait for  *)
(* it: none is left pending without its handler, unless the constructors of  *)
(* the backends throw on that config.                                        *)
ConfigResolves ==
  \A a \in configOnce \ configOnce' : stage'[a] = "pending" => InitHandlerThrows(config')

THEOREM ConfigsResolveTheirCalls == Spec => [][ConfigResolves]_vars
<1>1. ASSUME IInv, [Next]_vars PROVE [ConfigResolves]_vars
  <2>1. /\ stage \in [Attempts -> {"idle", "pending", "resolved", "rejected"}]
        /\ configOnce \subseteq Attempts
    BY <1>1 DEF IInv, Promises, Started
  <2>2. ASSUME NEW v, ConfigHandled(v), UNCHANGED <<kind, usable>> PROVE ConfigResolves
    <3>1. CASE InitHandlerThrows(v)
      <4>1. config' = v
        BY <2>2 DEF ConfigHandled
      <4>2. InitHandlerThrows(config')
        BY <3>1, <4>1
      <4>3. QED
        BY <4>2 DEF ConfigResolves
    <3>2. CASE ~InitHandlerThrows(v)
      <4>1. stage' = Settled(configOnce, "resolved")
        BY <2>2, <3>2 DEF ConfigHandled, ResolveWaiting
      <4>2. \A a \in configOnce : stage'[a] # "pending"
        BY <2>1, <4>1 DEF Settled
      <4>3. QED
        BY <4>2 DEF ConfigResolves
    <3>3. QED
      BY <3>1, <3>2
  <2>3. ASSUME configOnce \subseteq configOnce' PROVE ConfigResolves
    BY <2>3 DEF ConfigResolves
  <2>4. CASE ConfigArrives
    <3>1. UNCHANGED <<kind, usable>>
      BY <2>4 DEF ConfigArrives, operator
    <3>2. ConfigHandled(wire) \/ configOnce' = configOnce
      BY <2>4 DEF ConfigArrives, Unheard
    <3>3. QED
      BY <2>2, <2>3, <3>1, <3>2
  <2>5. CASE LateConfigArrives
    <3>1. UNCHANGED <<kind, usable>>
      BY <2>5 DEF LateConfigArrives, operator
    <3>2. ConfigHandled(Head(late)) \/ configOnce' = configOnce
      BY <2>5 DEF LateConfigArrives, Unheard
    <3>3. QED
      BY <2>2, <2>3, <3>1, <3>2
  <2>6. CASE \/ Application \/ Timer \/ OperatorError \/ OperatorUpdates
             \/ Open \/ LateConfigLost \/ ConnectionFails \/ AbortedFails \/ Closes
             \/ UNCHANGED vars
    <3>1. configOnce \subseteq configOnce'
      BY <2>6 DEF Application, Disconnect, Initialize, Timer, Retry, Timeout, OperatorError,
                  OperatorUpdates, Open, LateConfigLost, ConnectionFails, AbortedFails,
                  Closes, OnError, promises, vars
    <3>2. QED
      BY <2>3, <3>1
  <2>7. QED
    BY <1>1, <2>4, <2>5, <2>6 DEF Next, SocketEvent
<1>2. QED
  BY <1>1, Invariance, PTL DEF Spec

(* For a Client they throw on every config: it is never initialized and no   *)
(* call of initialize() resolves, whatever the operator sends and however    *)
(* often.  This is what the run client_initialize finds, in all instances.   *)
ClientsStayOut ==
  kind = "client" => ~initialized /\ \A a \in Attempts : stage[a] # "resolved"

LEMMA StepKeepsClientsOut == IInv /\ ClientsStayOut /\ [Next]_vars => ClientsStayOut'
<1> SUFFICES ASSUME IInv, ClientsStayOut, [Next]_vars, kind' = "client" PROVE ClientsStayOut'
  BY DEF ClientsStayOut
<1>1. stage \in [Attempts -> {"idle", "pending", "resolved", "rejected"}]
  BY DEF IInv, Promises
<1>2. kind' = kind
  BY DEF Next, Application, Disconnect, Initialize, SocketEvent, Open, ConfigArrives,
         LateConfigArrives, LateConfigLost, ConnectionFails, AbortedFails, Closes, OnError,
         Timer, Retry, Timeout, OperatorError, OperatorUpdates, vars
<1>3. \A v : InitHandlerThrows(v)
  BY <1>2 DEF InitHandlerThrows
<1>4. \A a \in Attempts : stage[a] # "resolved"
  BY <1>2 DEF ClientsStayOut
<1>5. ~initialized
  BY <1>2 DEF ClientsStayOut
<1>6. ~initialized'
  BY <1>3, <1>5
     DEF Next, Application, Disconnect, Initialize, SocketEvent, Open, ConfigArrives,
         LateConfigArrives, LateConfigLost, ConnectionFails, AbortedFails, Closes, OnError,
         ConfigHandled, Unheard, internals,
         Timer, Retry, Timeout, OperatorError, OperatorUpdates, vars
<1>7. \/ stage' = stage
      \/ \E a \in Attempts : stage' = [stage EXCEPT ![a] = "pending"]
      \/ \E calls : stage' = Settled(calls, "rejected")
  BY <1>3
     DEF Next, Application, Disconnect, Initialize, SocketEvent, Open, ConfigArrives,
         LateConfigArrives, LateConfigLost, ConnectionFails, AbortedFails, Closes, OnError,
         RejectAll, ConfigHandled, Unheard, promises,
         Timer, Retry, Timeout, OperatorError, OperatorUpdates, vars
<1>8. \A a \in Attempts : stage'[a] # "resolved"
  BY <1>1, <1>4, <1>7 DEF Settled
<1>9. QED
  BY <1>6, <1>8 DEF ClientsStayOut

THEOREM ClientsAreNeverInitialized == Spec => []ClientsStayOut
<1>1. Init => ClientsStayOut
  BY DEF Init, ClientsStayOut
<1>2. QED
  BY <1>1, StepKeepsClientsOut, Invariance, PTL DEF Spec
=============================================================================

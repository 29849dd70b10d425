------------------------------ MODULE Lifecycle ------------------------------
(***************************************************************************)
(* initialize() and disconnect() of App (app.ts), and what the first       *)
(* config after an initialize() creates: nothing for an App, the chain     *)
(* clients for a Client (client.ts), the chain sessions for a Session      *)
(* (session.ts), by the fromConfig() constructors of the backends.         *)
(*                                                                         *)
(* Of the connection (module Enclave) only what initialize() depends on is *)
(* kept: the current socket, the ones let go whose events are still due,   *)
(* the retry timer.  The operator is external: it sends its config over    *)
(* each connection that opens, another version after an update.            *)
(***************************************************************************)
EXTENDS Naturals, FiniteSets, Sequences, SequencesExt

CONSTANTS Attempts,       \* calls of initialize()
          Chains,         \* those of a config with a backend and a compatible signer
          Kinds,          \* the objects: "app", "client", "session"
          MaxVersion,     \* versions of the operator's config
          MaxSockets,     \* connections ever made
          MaxFailures, MaxDisconnects

ASSUME ChainsAssumption == Chains # {}
ASSUME KindsAssumption == Kinds \subseteq {"app", "client", "session"}
ASSUME BoundsAssumption ==
  {MaxVersion, MaxSockets, MaxFailures, MaxDisconnects} \subseteq Nat /\ MaxVersion > 0

VARIABLES
  kind,         \* which of the classes the object is of
  stage,        \* the promise of each call of initialize()
  timers,       \* the calls whose timeout runs
  errorOnce,    \* the calls whose reject is in the #once of the error emitter
  configOnce,   \* the calls whose handler is in the #once of the config emitter
  config,       \* the version of internals.config, 0 if undefined
  initialized,  \* internals.initialized
  session,      \* the version that each chain's session was made from, or 0
  made,         \* how often #on_config ran to make the sessions
  ws,           \* the current socket
  wire,         \* the config on its way over it, or 0
  opened,       \* #opened of the enclave
  aborted,      \* sockets closed while connecting: their error event is due
  closing,      \* sockets whose close event is due
  late,         \* the configs on their way over sockets that were let go
  retries,      \* retry timers that run
  version,      \* operator: the version of its config
  usable,       \* operator: can backends be made from each version
  wanted,       \* "yes" since initialize(), "no" since disconnect(), "again"
                \* when something from before it made the connection anew
  sockets, failures, disconnects

promises == <<stage, timers, errorOnce, configOnce>>
internals == <<config, initialized, session, made>>
connection == <<ws, wire, opened, aborted, closing, late, retries>>
operator == <<version, usable>>
bounds == <<sockets, failures, disconnects>>
vars == <<kind, promises, internals, connection, operator, wanted, bounds>>

Versions == 1..MaxVersion

Init == /\ kind \in Kinds
        /\ stage = [a \in Attempts |-> "idle"] /\ timers = {}
        /\ errorOnce = {} /\ configOnce = {}
        /\ config = 0 /\ initialized = FALSE
        /\ session = [c \in Chains |-> 0] /\ made = 0
        /\ ws = "none" /\ wire = 0 /\ opened = FALSE
        /\ aborted = 0 /\ closing = 0 /\ late = <<>> /\ retries = 0
        /\ version = 1 /\ usable \in [Versions -> BOOLEAN]
        /\ wanted = "no"
        /\ sockets = 0 /\ failures = 0 /\ disconnects = 0
-----------------------------------------------------------------------------
(* provider.close(): the current socket is let go; what is on its way over *)
(* it still arrives.                                                       *)
LetGo == /\ aborted' = IF ws = "connecting" THEN aborted + 1 ELSE aborted
         /\ closing' = IF ws = "open" THEN closing + 1 ELSE closing
         /\ late' = IF wire # 0 THEN Append(late, wire) ELSE late
         /\ wire' = 0

Connect == /\ sockets < MaxSockets /\ sockets' = sockets + 1
           /\ LetGo /\ ws' = "connecting"

(* The two handlers are registered and the timeout started first.          *)
Initialize(a) ==
  /\ stage[a] = "idle"
  /\ stage' = [stage EXCEPT ![a] = "pending"]
  /\ timers' = timers \union {a}
  /\ errorOnce' = errorOnce \union {a} /\ configOnce' = configOnce \union {a}
  /\ wanted' = "yes"
  /\ Connect
  /\ UNCHANGED <<kind, internals, opened, retries, operator, failures, disconnects>>

Disconnect ==
  /\ disconnects < MaxDisconnects /\ disconnects' = disconnects + 1
  /\ initialized' = FALSE /\ wanted' = "no"
  /\ LetGo /\ ws' = "none"
  /\ UNCHANGED <<kind, promises, config, session, made, opened, retries, operator,
                 sockets, failures>>

Settled(calls, outcome) ==
  [a \in Attempts |-> IF a \in calls /\ stage[a] = "pending" THEN outcome ELSE stage[a]]

(* The error emitter calls every reject that waits for an error.           *)
RejectAll == /\ stage' = Settled(errorOnce, "rejected")
             /\ errorOnce' = {}

(* The timeout rejects too; the handlers of the call stay.                 *)
Timeout(a) ==
  /\ a \in timers
  /\ timers' = timers \ {a}
  /\ stage' = Settled({a}, "rejected")
  /\ UNCHANGED <<kind, errorOnce, configOnce, internals, connection, operator, wanted, bounds>>
-----------------------------------------------------------------------------
(* Session.#on_config: the constructors run through the chains until one   *)
(* finds no node to connect to and throws.  Each of the handlers that wait *)
(* for the config does this, one after the other, up to one that throws.   *)
MakeSessions(v) ==
  /\ made' = made + IF usable[v] THEN Cardinality(configOnce) ELSE 1
  /\ \E done \in SUBSET Chains :
       /\ done = Chains <=> usable[v]
       /\ session' = [c \in Chains |-> IF c \in done THEN v ELSE session[c]]

(* Client.#on_config hands chainCfg.data to constructors that expect the   *)
(* chainCfg, and throws at the first chain, whatever the config is.        *)
InitHandlerThrows(v) == \/ kind = "client"
                        \/ kind = "session" /\ ~usable[v]

InitHandler(v) ==
  IF kind = "session" THEN MakeSessions(v) ELSE UNCHANGED <<session, made>>

ResolveWaiting == /\ timers' = timers \ configOnce
                  /\ initialized' = TRUE
                  /\ stage' = Settled(configOnce, "resolved")

(* Mutant: the timeout is stopped before the handler is called.            *)
ConfigHandledStoppingFirst(v) ==
  /\ configOnce # {} /\ configOnce' = {}
  /\ config' = v
  /\ InitHandler(v)
  /\ IF InitHandlerThrows(v)
       THEN /\ \E a \in configOnce : timers' = timers \ {a}
            /\ UNCHANGED <<stage, initialized>>
       ELSE ResolveWaiting

(* Mutant: backends are made once only.                                    *)
ConfigHandledOnce(v) ==
  /\ configOnce # {} /\ configOnce' = {}
  /\ config' = v
  /\ IF initialized THEN UNCHANGED <<session, made>> ELSE InitHandler(v)
  /\ IF InitHandlerThrows(v) THEN UNCHANGED <<stage, timers, initialized>>
                             ELSE ResolveWaiting

(* Mutant: the handlers are registered with on().                          *)
ConfigHandledAlways(v) ==
  /\ configOnce # {} /\ configOnce' = configOnce
  /\ config' = v
  /\ InitHandler(v)
  /\ IF InitHandlerThrows(v) THEN UNCHANGED <<stage, timers, initialized>>
                             ELSE ResolveWaiting

(* The handlers of initialize() run one after the other, on the same       *)
(* config: each stores it, runs init_handler and settles its own call.  An *)
(* exception in the first of them ends the emission, and the others are    *)
(* lost with it; the config stays, and the object stays initialized if it  *)
(* was.                                                                    *)
ConfigHandled(v) ==
  /\ configOnce # {} /\ configOnce' = {}
  /\ config' = v
  /\ InitHandler(v)
  /\ IF InitHandlerThrows(v) THEN UNCHANGED <<stage, timers, initialized>>
                             ELSE ResolveWaiting

Unheard == configOnce = {} /\ UNCHANGED <<stage, timers, configOnce, internals>>

ConfigArrives ==
  /\ ws = "open" /\ wire # 0
  /\ wire' = 0
  /\ ConfigHandled(wire) \/ Unheard
  /\ UNCHANGED <<kind, errorOnce, ws, opened, aborted, closing, late, retries, operator,
                 wanted, bounds>>

LateConfigArrives ==
  /\ late # <<>> /\ late' = Tail(late)
  /\ ConfigHandled(Head(late)) \/ Unheard
  /\ wanted' = IF wanted = "no" THEN "again" ELSE wanted
  /\ UNCHANGED <<kind, errorOnce, ws, wire, opened, aborted, closing, retries, operator,
                 bounds>>

LateConfigLost ==
  /\ late # <<>> /\ late' = Tail(late)
  /\ UNCHANGED <<kind, promises, internals, ws, wire, opened, aborted, closing, retries,
                 operator, wanted, bounds>>
-----------------------------------------------------------------------------
Open ==
  /\ ws = "connecting" /\ ws' = "open"
  /\ wire' = version
  /\ opened' = TRUE
  /\ UNCHANGED <<kind, promises, internals, aborted, closing, late, retries, operator,
                 wanted, bounds>>

(* Mutant: the current socket is not closed.                               *)
OnErrorKeepingSocket ==
  /\ RejectAll
  /\ retries' = IF opened THEN retries + 1 ELSE retries
  /\ UNCHANGED <<kind, timers, configOnce, internals, ws, wire, opened, operator, wanted,
                 sockets, disconnects>>

(* onError() rejects, starts the retry timer if the enclave was connected, *)
(* and closes the current socket.                                          *)
OnError == /\ RejectAll
           /\ retries' = IF opened THEN retries + 1 ELSE retries
           /\ ws' = "none" /\ wire' = 0
           /\ UNCHANGED <<kind, timers, configOnce, internals, opened, operator, wanted,
                          sockets, disconnects>>

(* The current socket fails.                                               *)
ConnectionFails ==
  /\ ws \in {"connecting", "open"}
  /\ failures < MaxFailures /\ failures' = failures + 1
  /\ closing' = closing + 1
  /\ UNCHANGED <<aborted, late>>
  /\ OnError

(* The error event of a socket that was closed while connecting; onError() *)
(* then closes its successor.                                              *)
AbortedFails ==
  /\ aborted > 0
  /\ aborted' = IF ws = "connecting" THEN aborted ELSE aborted - 1
  /\ closing' = IF ws = "open" THEN closing + 2 ELSE closing + 1
  /\ late' = IF wire # 0 THEN Append(late, wire) ELSE late
  /\ OnError
  /\ UNCHANGED failures

Closes ==
  /\ closing > 0 /\ closing' = closing - 1
  /\ opened' = FALSE
  /\ UNCHANGED <<kind, promises, internals, ws, wire, aborted, late, retries, operator,
                 wanted, bounds>>

Retry ==
  /\ retries > 0 /\ retries' = retries - 1
  /\ wanted' = IF wanted = "no" THEN "again" ELSE wanted
  /\ Connect
  /\ UNCHANGED <<kind, promises, internals, opened, operator, failures, disconnects>>

(* An error that the operator reports outside of any call.                 *)
OperatorError ==
  /\ ws = "open" /\ errorOnce # {}
  /\ RejectAll
  /\ UNCHANGED <<kind, timers, configOnce, internals, connection, operator, wanted, bounds>>

OperatorUpdates ==
  /\ version < MaxVersion /\ version' = version + 1
  /\ UNCHANGED <<kind, promises, internals, connection, usable, wanted, bounds>>

Application == Disconnect \/ \E a \in Attempts : Initialize(a)
SocketEvent == \/ Open \/ ConfigArrives \/ LateConfigArrives \/ LateConfigLost
               \/ ConnectionFails \/ AbortedFails \/ Closes
Timer == Retry \/ \E a \in Attempts : Timeout(a)

Next == Application \/ SocketEvent \/ Timer \/ OperatorError \/ OperatorUpdates

Spec == Init /\ [][Next]_vars

(* Timers expire.                                                          *)
FairSpec == Spec /\ \A a \in Attempts : WF_vars(Timeout(a))
-----------------------------------------------------------------------------
TypeOK ==
  /\ kind \in Kinds
  /\ stage \in [Attempts -> {"idle", "pending", "resolved", "rejected"}]
  /\ timers \union errorOnce \union configOnce \subseteq Attempts
  /\ config \in 0..MaxVersion /\ initialized \in BOOLEAN
  /\ session \in [Chains -> 0..MaxVersion] /\ made \in Nat
  /\ ws \in {"none", "connecting", "open"} /\ wire \in 0..MaxVersion
  /\ wire # 0 => ws = "open"
  /\ opened \in BOOLEAN /\ {aborted, closing, retries} \subseteq Nat
  /\ aborted + closing + (IF ws = "none" THEN 0 ELSE 1) <= sockets
  /\ late \in Seq(Versions)
  /\ version \in Versions /\ usable \in [Versions -> BOOLEAN]
  /\ wanted \in {"yes", "no", "again"}
  /\ sockets \in 0..MaxSockets /\ failures \in 0..MaxFailures
  /\ disconnects \in 0..MaxDisconnects

(* A call of initialize() has lost its handler and was not resolved.       *)
Told == \E a \in Attempts \ configOnce : stage[a] \in {"pending", "rejected"}

(* An initialized Session has a session for every chain, and all of them   *)
(* were made from the config that Session.config shows, however calls of   *)
(* initialize() overlap, time out and are overtaken by their config.  The  *)
(* one exception: the config cannot be used, and its constructors threw    *)
(* under an initialize() that was called again.  Then the sessions are     *)
(* those of earlier configs, some perhaps of this one, Session.initialized *)
(* stays TRUE, and only a call of initialize() that does not resolve tells *)
(* the application.                                                        *)
ReadyMeansUsable ==
  kind = "session" /\ initialized =>
    /\ \A c \in Chains : session[c] # 0
    /\ (\A c \in Chains : session[c] = config) \/ (~usable[config] /\ Told)

(* Without the exception it does not hold: app.ts:95 stores the config     *)
(* before init_handler throws, and nothing unsets initialized.             *)
ReadyMeansCurrent ==
  kind = "session" /\ initialized => \A c \in Chains : session[c] = config

(* Chain sessions keep the nonces and the mutex of the account.  They are  *)
(* made at most once for each call of initialize(): reconnecting, retrying *)
(* and being sent another config leave them alone.  (What a call that is   *)
(* made again throws away with the old sessions is not said here.)         *)
SessionsSurvive == made <= Cardinality({a \in Attempts : stage[a] # "idle"})

(* disconnect() lasts, unless a retry timer or a config on its way was     *)
(* left behind, which are not cancelled.                                   *)
DisconnectLasts == initialized => wanted # "no"

(* initialize() resolves or rejects, also when a backend cannot be made.   *)
Settles ==
  \A a \in Attempts : stage[a] = "pending" ~> stage[a] \in {"resolved", "rejected"}

(* The config that arrives resolves the calls that wait for it.            *)
InitializeResolves ==
  [][\A a \in configOnce \ configOnce' : stage'[a] # "pending"]_vars
=============================================================================

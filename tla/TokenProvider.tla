---------------------------- MODULE TokenProvider ----------------------------
(***************************************************************************)
(* EthereumTokenProvider (tokencache.ts): the promise of the token holder  *)
(* contracts, the fetches and the application that resolve it, and the     *)
(* queries that wait for it, each with a timeout of its own that rejects   *)
(* the promise for everybody.  set_holders and fail_holders, the functions *)
(* that settle the promise, are taken away by who has settled it.          *)
(*                                                                         *)
(* What waits for the promise is woken in the step that settles it, before *)
(* any timer can run.  The node behind the contract is external.           *)
(***************************************************************************)
EXTENDS Naturals, FiniteSets

CONSTANTS Fetchers,  \* calls of fetch_holders(): the connections that share
                     \* the provider
          Queries    \* who calls tokenHolderFor(), one query at a time

VARIABLES
  holders,      \* the promise
  setHolders, failHolders,  \* are the functions that settle it defined
  fetch,        \* where each fetch is
  query,        \* what became of the last query of each
  timers        \* the queries whose timeout runs

provider == <<holders, setHolders, failHolders, fetch, query, timers>>

ProviderInit ==
  /\ holders = "pending" /\ setHolders = TRUE /\ failHolders = TRUE
  /\ fetch = [f \in Fetchers |-> "idle"]
  /\ query = [q \in Queries |-> "none"] /\ timers = {}

Waiting == {q \in Queries : query[q] = "waiting"}
-----------------------------------------------------------------------------
(* Mutant: the timeouts of the queries that are woken go on.               *)
SettleKeepingTimers(outcome) ==
  IF holders # "pending" THEN UNCHANGED <<holders, query, timers>>
  ELSE /\ holders' = outcome
       /\ query' = [q \in Queries |->
                      IF q \notin Waiting THEN query[q]
                      ELSE IF outcome = "resolved" THEN "answered" ELSE "failed"]
       /\ timers' = timers

(* The promise is settled once.  Every query that waits is woken, and      *)
(* stops its timeout.                                                      *)
Settle(outcome) ==
  IF holders # "pending" THEN UNCHANGED <<holders, query, timers>>
  ELSE /\ holders' = outcome
       /\ query' = [q \in Queries |->
                      IF q \notin Waiting THEN query[q]
                      ELSE IF outcome = "resolved" THEN "answered" ELSE "failed"]
       /\ timers' = timers \ Waiting

(* resolve_holders() by the application; a second time it throws.          *)
ResolveHolders ==
  /\ failHolders' = FALSE /\ setHolders' = FALSE
  /\ IF setHolders THEN Settle("resolved") ELSE UNCHANGED <<holders, query, timers>>
  /\ UNCHANGED fetch

(* A fetch asks the contract, or awaits the promise if set_holders() is    *)
(* gone; the promise is settled then.                                      *)
Fetch(f) ==
  /\ fetch[f] = "idle"
  /\ fetch' = [fetch EXCEPT ![f] = IF setHolders THEN "asking"
                                   ELSE IF holders = "resolved" THEN "done" ELSE "failed"]
  /\ UNCHANGED <<holders, setHolders, failHolders, query, timers>>

(* The three answers are there.  If another has resolved the promise in    *)
(* the meantime, resolve_holders() throws, the handler of the exception    *)
(* does so too, and the fetch fails.                                       *)
FetchAnswered(f) ==
  /\ fetch[f] = "asking"
  /\ failHolders' = FALSE /\ setHolders' = FALSE
  /\ IF setHolders THEN Settle("resolved") ELSE UNCHANGED <<holders, query, timers>>
  /\ fetch' = [fetch EXCEPT ![f] = IF setHolders THEN "done" ELSE "failed"]

(* Mutant: the function is given up without being called.                  *)
FetchRefusedQuietly(f) ==
  /\ fetch[f] = "asking"
  /\ setHolders' = FALSE /\ failHolders' = FALSE
  /\ fetch' = [fetch EXCEPT ![f] = "failed"]
  /\ UNCHANGED <<holders, query, timers>>

(* A call of the contract fails: the queries fail, the fetch itself does   *)
(* not, unless fail_holders() is gone.                                     *)
FetchRefused(f) ==
  /\ fetch[f] = "asking"
  /\ setHolders' = FALSE
  /\ IF failHolders THEN Settle("rejected") ELSE UNCHANGED <<holders, query, timers>>
  /\ fetch' = [fetch EXCEPT ![f] = IF failHolders THEN "done" ELSE "failed"]
  /\ UNCHANGED failHolders
-----------------------------------------------------------------------------
(* tokenHolderFor()                                                        *)
AskHolder(q) ==
  /\ query' = [query EXCEPT ![q] = CASE holders = "pending" -> "waiting"
                                     [] holders = "resolved" -> "answered"
                                     [] holders = "rejected" -> "failed"]
  /\ timers' = IF holders = "pending" THEN timers \union {q} ELSE timers
  /\ UNCHANGED <<holders, setHolders, failHolders, fetch>>

(* The first timeout rejects the promise, also for those who asked later.  *)
(* A timeout that finds fail_holders() gone throws before it rejects.      *)
Timeout(q) ==
  /\ q \in timers
  /\ failHolders' = FALSE
  /\ IF failHolders
       THEN /\ holders' = "rejected"
            /\ query' = [r \in Queries |-> IF r \in Waiting THEN "failed" ELSE query[r]]
            /\ timers' = timers \ ({q} \union Waiting)
       ELSE timers' = timers \ {q} /\ UNCHANGED <<holders, query>>
  /\ UNCHANGED <<setHolders, fetch>>

ProviderNext == \/ ResolveHolders
                \/ \E f \in Fetchers : Fetch(f) \/ FetchAnswered(f) \/ FetchRefused(f)
                \/ \E q \in Queries : Timeout(q)
-----------------------------------------------------------------------------
ProviderTypeOK ==
  /\ holders \in {"pending", "resolved", "rejected"}
  /\ {setHolders, failHolders} \subseteq BOOLEAN
  /\ fetch \in [Fetchers -> {"idle", "asking", "done", "failed"}]
  /\ query \in [Queries -> {"none", "waiting", "answered", "failed"}]
  /\ timers \subseteq Waiting

(* Whoever waits has a timeout that runs, and the timeout finds a function *)
(* to reject with: two queries that time out together do no harm, nor do   *)
(* fetches that overtake each other.                                       *)
Failable == Waiting \subseteq timers /\ (Waiting # {} => holders = "pending" /\ failHolders)
=============================================================================

# A verification development for the Erdstall TypeScript SDK

The SDK connects an application to an Erdstall (Wildcard) enclave, which keeps the L2 ledger, and to the L1
chains that the ledger is anchored in. It runs in one JavaScript thread; everything that makes it hard happens
where code awaits: the microtask queue, wallets that ask a user, nodes, an operator that goes away, events that
call handlers that change the list of handlers. These TLA+ modules model the parts of `src/src/` where that
matters, TLC checks them on small instances, and TLAPS proves the safety properties, and the safety part of every
liveness property, for all instances.

Paths below are relative to `src/src/`. `PROJECT.json` maps every definition to the lines it models.

## 1. Inventory

| Component | Code | State | Operations | Hard because | Correct when |
|---|---|---|---|---|---|
| Signing mutex | `ledger/backend/transaction/index.ts` (`Mutex`) | session promise, session id, waiters | `lock`, `unlock`, `session` | every unlock wakes all waiters, which recheck one microtask after the other | exclusive, first come first served, nobody sleeps for ever |
| L1 transaction signing | same file (`TxSigner`, batches), `ledger/backend/{ethereum,substrate}/session.ts`, `…/transaction/index.ts`, `substrate/txs.ts` | cached nonce, reset handlers, signed batches | `signTx`, `signTxBatch`, `sendTx`, `sendTxBatch`, `sign_and_send`, `resetNonce` | every step awaits wallet or node and may fail with a nonce taken | no nonce twice, none lost, no session left open, every call ends |
| L2 transactions | `session.ts` (`WritingApp`), `utils/receipt_dispatcher.ts`, `api/transactions/transaction.ts` | cached nonce, pending nonce query, receipt map | `transferTo`, `mint`, `burn`, `acceptTrade`, `updateNonce`, receipt and error events | concurrent calls share one query; errors reset the nonce under calls on their way | distinct nonces, in order, self-repairing; answers and receipts reach their calls |
| Enclave connection | `enclave/connection.ts`, `enclave/provider.ts` | sockets, pending calls, subscriptions, retry timers | `connect`, `disconnect`, `subscribe`, calls, socket events | handlers stay on sockets that were let go; retries race with the application | one connection; answers match; subscriptions survive; a lost connection returns |
| Event emitters | `event.ts` | handler arrays, last announced state | `on`, `once`, `off`, `removeAllListeners`, `emit` | synchronous reentrancy while iterating | each handler exactly once per event, once-handlers once per registration |
| Application lifecycle | `app.ts`, `client.ts`, `session.ts` (`#on_config`) | initialised, config, chain clients and sessions, timeouts | `initialize`, `disconnect`, config and error events | the timeout leaves handlers behind; calls overlap; a config comes over a connection that was given up | each call settles; initialised means usable, with the config that is shown, or a call has failed; sessions are not replaced behind the application's back |
| Leaving the L2 | `session.ts` (`leave`, `exit`, `withdraw`), `enclave/connection.ts` (`exit`) | phase shifts counted, exit proof | `leave`, `exit`, `withdraw` | any balance proof ends `exit`; epochs are counted from before the exit | withdraws with its own exit proof, after the epochs it must wait |
| Token provider | `ethereum/tokencache.ts` | holders promise, its two functions, cache | `fetch_holders`, `resolve_holders`, `tokenHolderFor`, `getWrapped…` | concurrent fetches and timeouts use functions others have cleared | every query ends, with the deployed address |
| Deposits, withdrawals | `ethereum/writeconn.ts`, `substrate/txs.ts` | batch under construction, transaction options | `deposit`, `withdraw` | several transactions in an order that matters, prepared across awaits from an object the application owns | approvals precede deposits and match them, nothing is left out |
| Asset algebra | `ledger/assets/*`, `crypto/asset.ts` | token sets, amounts, baskets | `cmp`, `add`, `sub`, `addID` | merge loops over sorted arrays; partial orders | agree with sets |
| L1 event tracking | `ethereum/readconn.ts`, `client.ts`, `enclavewatcher.ts` | last mask | `update_event_tracking` | mask is read once, at the config | contract listeners agree with the subscriptions |
| Encodings, API messages, crypto, bindings, tests | `api/`, `crypto/`, `export/`, `ethereum/contracts`, `test/`, `e2e/` | – | conversions | – | not a matter of order or state |

How they interact. A session (`session.ts`) owns an `Enclave`, which owns a provider and its current socket.
Answers settle pending calls; everything else, and every error, becomes an event of the emitters, on which
the session's nonce reset and receipt dispatcher, the application's handlers and `leave()` depend. For each chain
of the config the session has a chain session, with a `TxSigner` whose `Mutex` orders signing, sending and
resetting. L1 and L2 nonces are independent of each other. The deposits of all chain sessions of a backend ask one
token provider for the contracts that hold their tokens.

## 2. Modules

    FairLock       <=implements=  Mutex        its queue discipline is that of TxSigner (holder, queue)
    AtomicSigning  <=implements=  TxSigner     L1 signing
    WritingApp                                 L2 calls over an ordered channel
    Enclave                                    what may happen to that channel
    EventEmitter                               who is called for an event
    Leaving                                    leave(), over events of the enclave
    Lifecycle                                  initialize() over a connection that comes and goes
    TokenProvider  <=extends=     Deposits     deposits that share a provider
    Tokens                                     sets of NFT ids
    MC<Module>                                 instances for TLC
    <Module>Proofs                             theorems, for TxSigner, Enclave, Mutex, WritingApp, Leaving,
                                               Lifecycle, EventEmitter
    AssetsProofs                               theorems, for Deposits and Tokens

**Mutex** models `class Mutex` at the granularity of microtasks. `microtasks` is the runtime's queue, restricted to
the continuations that touch the mutex; `waiters` is who awaits the current `#session` promise, in order.
`RunCall`, `RunResume`, `RunEnter` and `RunLeave` each run the head of the queue up to its next await. The
`while` loop of `lock()` is the recheck in `RunResume`. **FairLock** is what it promises; the refinement
`FairQueueSpec` says that rechecking in a loop is still first come, first served. In line are the waiters and, behind them,
the callers that the last unlock has woken and that have not rechecked yet (`LineOf`): of these the first takes the lock
and the others wait again, behind those that rechecked before them.

**TxSigner** takes the mutex as a fair lock (`holder`, `queue`). A *job* is one use by the application: sign one
transaction (`signTx`), sign and send (`signAndSend`), a batch by `UnsignedTxBatch.sign` (`signBatch`), a batch by
`Session.signTxBatch` (`signTxBatch`), or `reset`. `stage[j]` is the await at which the job stands;
`nonce` is `#nonce`, and `current`/`signed` are the nonces in the wallet and in the signed transactions.
`Abort` is the exit through the `finally` block, from every await. The node (`accepted`) has one transaction per nonce
and answers with the first one missing. `burnt` and `outdated` are history for the properties.
**AtomicSigning** says what a signing session is for: a job's nonces are taken in one step.

**WritingApp** has the calls of an account. `Begin` is `#nextNonce()` up to its await, `QueryAnswered` the arrival of
the account with all the continuations it wakes, in the order of the microtask queue (`TakeNonces`). `Signed` registers
the receipt and sends; `Rejected`, `QueryFailed` and `ErrorEvent` contain the handler that resets the nonce.
A hash is what it covers: payload and nonce (the signature of the Ethereum signer is a function of them).

**Enclave** numbers sockets by their creation. The provider's `ws`, `initialized` and the enclave's
`opened` are kept apart, because they disagree: a socket that was let go still calls `onError` and `onClose`.
`Send` is `sendCall`: the entry is made first, then the send throws (not initialised), is dropped (socket
closed by the other side) or puts the request on the wire. `Continue` is the rest of `subscribe()` after an answer.

**EventEmitter** has the stack of emissions in progress. `on`, `once`, `off`, `removeAllListeners` and `emit`
are enabled outside all emissions and inside a running handler; the second loop reads the live array.

**Leaving** has calls of `leave()` for one account. `phaseshift` is the array of handlers on the phase shift event,
walked as `emit()` walks it (`Called`: a handler that takes itself off moves the next one into the place just served);
`seen` has the epochs that a handler was called for, which is its counter `skipped`. `once` is who takes the next balance
proof. `toApp` carries proofs, shifts and refusals in order. The enclave is external: it takes or refuses requests and ends
epochs, each with the proofs of the epoch, some of them other accounts', before or after the announcement of the shift.
`Withdraw` is one turn of the loop over chains, which may throw.

**Lifecycle** is an `App`, `Client` or `Session` (`kind`). A call of `initialize()` is a promise with a timeout, an entry in
the `#once` of the error emitter and one in that of the config emitter. `ConfigHandled` is the whole emission: every
registered handler in turn stores the config, runs `init_handler`, which makes the chain sessions (`made` counts how often),
and resolves its call; `InitHandlerThrows` is the exception in the first of them that cuts the emission short, with the config
stored and, in a Session, some sessions replaced. Sockets that were let go still deliver events: a config on its way (`late`), an error
(`aborted`), a close event (`closing`), whose handlers act on the *current* connection.

**TokenProvider** is the promise of the token holders, with `set_holders` and `fail_holders` as flags that are cleared by
whoever has used them. Waiters are woken in the step that settles the promise, since no timer runs before microtasks.
**Deposits** composes it with calls of `deposit()`: `stage[c]` is the await at which a call stands, for the holder, for the
address of a wrapped token, for the transaction options. An amount is a set of units (token ids, or coins), read once for
the approval and again for the deposit; `ChangeBasket` is the application between the two.

**Tokens** is one object of class `Tokens`. Each turn of the loops of `#add`, `#sub` and `cmp` is a step, with the indices
as variables; `before` remembers the value at the start of an operation. `Finish`, `Raise` and the `Returns` actions are the
ways out of the loops.

## 3. Runs

Every cfg sets `CHECK_DEADLOCK FALSE` where jobs, calls or uses are one-shot: once all are spent the instance stops.
The mutex is used for ever, so its run checks deadlock too; that its `unlock()` never throws (`UnlockOwned`) and
that no wake-up is lost (`NoLostWakeup`) is proved only (section 4). For each property of a passing run there is a mutant,
a plausible bug of the mapped code, under which TLC refutes the property.

| Run | Instance | Shows |
|---|---|---|
| `mutex` | 4 callers, for ever | `MutualExclusion`, `NoStarvation`, implements FairLock (`FairQueueSpec`) |
| `signing` | 3 jobs, any operation, batches of 2, refusals at every await, 1 foreign transaction, fair | `SessionExclusive`, `DistinctNonces`, `NoSkippedNonce`; after delivery the cached nonce is the node's (`DeliveredMeansCurrent`); `JobsEnd`; implements AtomicSigning |
| `l2_calls` | 3 calls, everything may fail, 1 error event, 1 `updateNonce()`, fair | `DistinctNonces` within a nonce era, `WaitersServed` (one query at a time, which answers all), `InOrder`, `ReceiptOfOwnTx`, `QuietMeansCurrent`, `CallsEnd`, `ReceiptsArrive` |
| `connection_safety` | 3 sockets, 2 `connect()`, 1 failure, orderly closing, 1 address | `OneConnection`, `AnswerMatchesCall`, `OpenMeansSubscribed` |
| `reconnection` | 1 `connect()`, 1 `disconnect()`, 1 failure at any time, refused calls, fair | `Reestablished` after one failure |
| `reentrant_handlers` | 3 handlers, 3 emissions, 5 uses, handlers may throw | `OnceIsOnce`, `UndisturbedIsExact`, `Announced` |
| `leaving` | 2 `leave()`, 2 chains, 9 epochs, others' proofs, refusals, fair | `NotTooEarly`, `OwnProof`, `LeaveEnds` |
| `lifecycle` | 2 `initialize()`, 1 `disconnect()`, 1 failure, 3 sockets, 2 configs, all three classes, fair | `ReadyMeansUsable`, `SessionsSurvive`, `Settles` |
| `deposits` | 2 `deposit()` of coins, token sets and wrapped tokens, 2 fetches, 1 changed basket, fair | `DepositsAsGiven`, `DepositEnds` |
| `token_sets` | 4 ids, one negative, arrays of up to 3 with duplicates | `SetSemantics` |

Runs that find the code at odds with its documentation:

| Run | Counterexample |
|---|---|
| `sign_tx_batch` | `Session.signTxBatch()` opens a session and asks for a second one on the same mutex: it never returns, and the chain's signer is blocked |
| `client_initialize` | with the `ChainClient.fromConfig()` constructors that the README intends for a `Client`, the handler of the config throws (`client.ts:81`), and `initialize()` does not resolve |

The modules state more of the same kind. They are no runs of their own, but TLC finds a counterexample to each as soon as a
cfg names it:

| Property | Says | Refuted because |
|---|---|---|
| `TxSigner!NothingStuck` (`Ops = {"signTx"}`, refusals) | what is signed can be delivered | a declined signature leaves a gap in the nonces |
| `TxSigner!OutdatedNotSent` (`Ops = {"signBatch", "reset"}`) | a reset invalidates signed batches (comment of `TxSigner`) | `invalidate()` is empty |
| `WritingApp!AskedBeforeFailing` | a call with an invalid nonce asks for it (`session.ts:189-190`) | the promise of a failed query is kept, and fails every later call |
| `Enclave!Reestablished` (`MaxFailures = 2`) | the connection is established again (`src/README.md:391`) | a retry that fails is the last one |
| the same (`RemoteCloses`, or two `connect()`) | | no retry after an orderly close; the error event of an aborted socket closes its successor |
| `EventEmitter!CalledEveryTime` | a handler is called for every event (`src/README.md:377-378`) | a handler that calls `off()` on itself makes the emission skip the next one |
| `Lifecycle!ReadyMeansCurrent` | the sessions of an initialized Session were made from the config it shows | a second `initialize()` gets a config that cannot be used: it is stored (`app.ts:95`), `init_handler` throws (`app.ts:97`), and `initialized` stays as it was |
| `Leaving!NeverTooEarly` | two further epochs have passed (`src/README.md:336`) | a slow signer: shifts are counted from before the request |
| `Leaving!OnlyExitProofs` | `exit()` is not ended by normal proofs (`connection.spec.ts:88-90`) | it takes the next one |
| `Tokens!CmpIsInclusion` | `cmp` tells inclusion (`tokens.spec.ts:40-43`) | indices run to the lengths of the operands in the wrong order |

**Bounds and why they are enough.** Three actors: two that compete and one that arrives at any moment of that
competition; queues and queries treat further ones like the third. The mutex has four: one that holds it and
three in line, of which one gets the lock and two line up again, so that their order shows. Batches of two: the first, the last and an
await between them. One foreign transaction, one error event, one failure: each may fall at any step, and the second
matters only for the questions about retries, which have their own instance. Three sockets: the current
one, the one before, whose events come late, and the one that the timer makes. Five uses in three emissions:
a handler that is removed, added and removed again, one level below the emission whose array it changes.
Two `leave()`: one that waits while another takes its handler off; epochs go on by themselves for two and then only as long
as a call waits for them, so nine are more than two calls that start in either of the first ones can use, and two messages
in transit are what lets a request or a proof overlap a shift. Two `initialize()`: one that timed out, one that is served
by its late config; three sockets as for Enclave; two configs, so that the sessions can be of the wrong one, and either may be one that cannot be used. Two
deposits and two fetches: the second fetch is the one that finds the functions gone; the baskets are empty, one coin, and a
set of two tokens with a wrapped token, which covers each of the three ways to prepare a deposit and a loop of two
approvals. Four ids: one below, one above and one between two others, and lists of three are the shortest in which the
merge loops can be in the middle of both.
Nonces are unbounded in the modules and stay small because jobs and calls are one-shot.

**Fairness and why the code justifies it.** `Mutex`: the microtask queue is served; a session's logic settles (it awaits
wallet and node, which answer or fail). `TxSigner`: every await ends. `WritingApp`: signer and enclave answer,
and the connection delivers (a lost one is Enclave's subject: calls on it never end, see hazards). `Enclave`:
timers fire, a connecting socket opens unless the instance lets it fail, sockets that close report it. `Leaving`: signer,
nodes and enclave answer, messages are delivered, and epochs end (their duration is fixed by the operator) as long as a call
waits. `Lifecycle`: only that timers expire; the operator may never answer. `Deposits`: a call goes on after an await,
timers expire and the options arrive or fail; nobody need ever fetch or resolve the holders. Nothing is assumed of
the application: it need not call, send or retry.

## 4. Proofs

`TxSignerProofs` proves for any set of jobs, any batch size and any behaviour of wallet, node and foreign software:

* `TypeCorrect` and `SessionsExclusive`: `Spec => []TypeOK` and `Spec => []SessionExclusive`. The inductive invariant
  `Control` adds `StageInv`, which ties what a job waits for to the nonce: a job that asks the node has found it unset, a
  job at the wallet has taken one. Without it, a wallet could sign a nonce that is none. One lemma per action,
  `NextControl` collects them.
* `NoncesAreDistinct` and `NoNonceIsSkipped`: `DistinctNonces` and `NoSkippedNonce`. Distinctness alone is not inductive;
  the invariant `NonceInv` adds `TakenBelow`: all nonces taken since the last reset are below the cached one. Completeness
  is carried through each way a nonce can leave a job (delivered, burnt). `NextNonces` uses `Control`, in particular that
  only the holder of the session touches the nonce.
* `SigningIsAtomic`: `Spec => AtomicSigningSpec`. The mapping takes for the next nonce the first one of the batch that is
  at the wallet (else the cached one), and for the book the batches that are signed in full. `BatchInv` says why it works:
  what the job at the wallet has signed is a run that ends right below the cached nonce, and a job before that has signed
  nothing. Each action is then a step of AtomicSigning or leaves both mapped variables alone.
* `DeliveryKeepsPace`: `Spec => []DeliveredMeansCurrent`. `DeliveryInv` says that what the node has was broadcast by a job
  that still sends or has finished, that a finished job has nothing left to send, and that nonces are given up by failed
  jobs only. If all jobs are delivered, the node has accepted exactly the nonces below the cached one.

`EnclaveProofs` proves `OneConnectionAtATime`, `Spec => []OneConnection`, for any number of sockets. The inductive
invariant `Provider` is that the live sockets are among `{ws}`; `ClosedLeavesNothing` says that `provider.close()` leaves
none, which both `connect()` and an error of an *old* socket rely on. `TypeCorrect` has the types, `AnswersFindTheirCalls` is
`AnswerMatchesCall`: by `CallInv`, every message in transit, on whatever socket, has the id of a pending call of its topic, and no
two messages have the same; the second part is why settling a call leaves no message behind that would miss it.
`SubscriptionsAreCarried` is `OpenMeansSubscribed`, for any accounts. `Kinds` ties an answer in transit to what is active on its
socket, `Owned` says that a `subscribe()` has at most one request in transit, the one it awaits, and `Flows` that each subscription is
carried. When an answer is taken off the wire, the request it leads to takes its place (`AnswerEventWires`); when a socket
opens, `onOpen()` requests everything (`RenewalsAreAll`, for which `subscribed` is finite). `SendFacts` and `SendLines`
say once what `sendCall()` does to calls and wires.

`MutexProofs` proves `OneAtATime` (`MutualExclusion`) and `UnlockIsSafe` (`unlock()` does not throw, nobody waits for a
promise that is settled already) for any number of callers. `Consistent` says where a caller is: in exactly one place
of the microtask queue, the waiters of the current promise or a running session, and in the one its stage names. Without it
a caller could be woken twice and enter twice. The lemmas `Pop`, `Push`, `JoinLine` and `WakeLine` are the moves between
these places that the actions are made of.
`ImplementsFairLock` is `Spec => FairQueueSpec`: the mutex refines the fair lock, step by step. The invariant `Order` says why
waking everybody does not disturb the line: the woken callers stand together in the microtask queue (`Block`), everything in
front of them has only just been called, or nothing is in front of them once the lock is taken; nobody who is to take the lock
stands behind one who has taken it (`EnterLast`), and while a session runs nobody rechecks. So the caller that rechecks is the
head of the line: `AcquiresInTurn` if the mutex is free, and else it goes to the end of `waiters` from the head of the block, which is
the same place in `LineOf`. `LineOf` needs no recursion: it is an interval of the queue, found by counting (`LineIs`).
An earlier mapping, with the woken callers in front of the waiters, is right for three callers and wrong for four (two that
line up again and one still to recheck); trying to prove it showed that.

`WritingAppProofs` proves every invariant of the module, for any number of calls. `IInv` is made of layers, each of which
needs those before it:
* `Asking`, for `NoncesAreDistinct` and `OneQueryServes`: the nonces given out in the current era are below `#nonce` (a late
  answer of a query does not lower it); the calls in line are those without a nonce, each once; the number of queries and
  answers on their way is one while the promise is pending, else none. Counting is by the cardinality of the places in a
  channel (`Count`), with a lemma for appending and one for taking the head.
* `Owners` and `Course`, for `SentInOrder` and `NonceIsCurrent`: the calls on their way are those sent and, behind them, those
  with the signer, and all have a nonce. In a session that nothing has disturbed their nonces follow the account's without a gap
  (`Consecutive`), and `#nonce` is the next one, or none was taken yet (`InStep`). `Recovers` is the part that survives
  errors: whenever what is on its way is consecutive and no error is still to come, a valid nonce is the right one.
* `Receipts`, for `ReceiptsFindTheirCalls`: an entry of the dispatcher, and a receipt on its way, stand for a call that has the
  nonce its hash covers; two calls with one hash have one nonce, which `Asking` excludes until there was a reset.
* `Bounds`, for `TypeCorrect`.

`LeavingProofs` proves the invariants of the module for any number of calls, chains and epochs; again in layers.
* `Counts`, for `WaitsLongEnough` (`NotTooEarly`): the shifts on their way are in the order of their epochs, and what a handler
  has seen is older than all of them (`Shifts`): so no handler counts an epoch twice, and one that is through has seen four
  *different* epochs (`FourSeen`). If at most one of them ended before the request was taken, three ended since
  (`ThreeSince`), by cardinality of an interval.
* `Exits`, for `LeavesWithOwnProof` (`OwnProof`): while an undisturbed call waits for a proof, none is on its way until the epoch
  of its request ends; then the exit proof of that request is the first one in the channel (`Waits`). What the call goes on with
  is kept by `Leaves`.
* `Handlers`, for `TypeCorrect`: a call's handler is at most once in the array of the emitter, because it is registered only by
  `leave()`. `WithoutTypes` says that taking handlers out leaves an array without duplicates; `Without` is by cardinality, where
  `SelectSeq` would be recursion.

`LifecycleProofs` proves `InitializedIsUsable`, `SessionsAreKept`, `DisconnectIsLasting`, `NobodyWaitsForever` and the types.
`Timed` (a pending call has a timer) holds whatever handlers were taken away. `Accounted` bounds how often sessions were
made plus the handlers that can still make them by the calls started: each run of `init_handler` consumes a handler.
`InitializedIsUsable` is `ReadyMeansUsable`: the sessions of an initialized Session are those of the config it shows, with the
one exception of a config that cannot be used, where some call of `initialize()` has lost its handler without being resolved
(`Told`). It needs `Unresolved`, that a call with a handler for the config is not resolved yet, so that the exception of the
constructors always leaves such a call, and that no step takes `Told` back. `Gone` ties the
wish to be disconnected to the socket.

`EventEmitterProofs` proves the invariants of an emitter, whose emissions Lifecycle takes for one step, for any handlers,
arrays and nesting of emissions (`EmitterInv`): `HandlersAreCalledOnce` (`OnceIsOnce`), `EmissionsAreExact`
(`UndisturbedIsExact`), `ProducersAreTold` (`Announced`) and `TypeCorrect`. `Walk` relates an emission to the array it
walks along, which other handlers change meanwhile: unless one was taken off, exactly the handlers in front of the place it has
come to were called, each once, for the array has nobody twice and only grows at its end. `Owes` counts what `once()` still owes:
the times that a handler was called, the emissions in progress that are yet to call it and its place in `#once` together do not
exceed the times that it was registered. The emissions are counted from the outermost, so that a new one does not renumber
the others (`WaitingOnTop`).

`AssetsProofs` proves, in its first part, `DepositsAreAsGiven` for any assets, baskets and number of calls, and `WaitingEnds`, the reason why a
timeout never finds `fail_holders()` gone while somebody waits. For the provider, a pending promise has both functions and a
timer for everybody who waits (`ProviderInv`). For a call, `Sound` describes the batch at each await: `GoodBatch` for the
assets that were visited, plus what has been approved of the current one, which with what is still to be approved is the
amount in the basket.

Its second part proves, of token sets, `StaysSorted` and `LoopsAreSetOperations` for arrays of any length and any integers as ids. The
invariants are those of the loops: what was merged so far is the union (or the difference) of the two prefixes, and all of
it is below what is left of both; for `cmp`, the arrays agree up to the index as long as neither flag is set.

**The safety part of liveness.** That something eventually happens rests on fairness and on what is enabled, which the prover
does not treat. What the argument needs besides is safety, and proved for each of the liveness properties: nobody waits for
what nobody will do, a turn once had is kept, and what is left to do runs down.

| Liveness property (TLC) | Theorems |
|---|---|
| `NoStarvation` | `NobodyIsForgotten`: while anybody waits, a continuation is in the queue or the caller inside owns the session. `NobodyIsOvertaken`: the line only moves up. |
| `JobsEnd` | `TheSignerIsNeverStuck`: a pending job, or who serves it in line (`ServedBy`), can go on (`CanGo`), unless the mutex is lost. `TurnsAreKept`: nobody else's step takes that away. `WorkRunsDown`: a number (`Work`) that each step of a job lowers and no other step raises. |
| `CallsEnd` | `EveryCallIsServed`: a call without a nonce has a query or its answer under way, one with a nonce is with the signer, or its transaction or its answer is under way. `EndsAreFinal`, `CallsAreAnsweredTruly`. |
| `ReceiptsArrive` | `ReceiptsAreDue`: until a reset, the receipt is on its way and its hash has an entry. |
| `LeaveEnds` | `EveryLeaveIsServed`: a request, error or proof is under way or due at the end of the epoch; who counts shifts is registered and has fewer than four; `HandlersCountToFour`; `CallsGoOn` (none goes back). |
| `Reestablished` | `OpenedIsRecovering`, `LostIsRecovering`: a socket or a timer, see below. |
| `Settles` | `NobodyWaitsForever`: a pending call has its timer; `PromisesAreKept`: the timer goes only when the promise has settled. |
| `DepositEnds` | `DepositsAreServed`: the holder is known, or a timer of the call runs that can reject; `DepositsComeNearer`: each step visits more assets, gets further with one or approves another token, and the assets to visit stay the same. |

What is left to believe, and to TLC, is that a step that can be taken and is fair is taken. The invariants behind these theorems
are further layers on those above. `Everything` of TxSigner adds who is in line and why (`LineInv`); `Underway` of WritingApp says
where each call is, by the channels it may be in (`Way`), and that no message is one the receiver would not take (`Understood`);
`Standings` of Leaving, that a call's handlers are registered as long as it needs them, which the skipping of `emit()` does not
disturb; `NobodyIsLost` of Mutex, that every caller has a place; `OnTheWay` of Deposits, that a change of the basket empties no
amount. For token sets there is no liveness property, but `LoopsEnd`: each round of a loop leaves fewer ids to pass, and none runs past
an end, in `cmp` too, whose condition is on the lengths of the arrays before it exchanged them.

`OpenedIsRecovering` holds for all instances: as long as `#opened` is set, who wants a connection has a socket or a timer. It is
`#opened` that can be wrong: the close event of a socket replaced long ago unsets it. `LostIsRecovering` is what `Reestablished`
needs, and holds under the conditions of its run, which are its assumptions: one `connect()`, one failure, no orderly close by the other
side. Section 3 lists what TLC finds without each of them.

**Findings for all instances.** Both disagreements that a run finds are theorems too. `SessionBatchesNeverReturn`: a
`signTxBatch()` neither resolves nor rejects, whatever node and wallet do; `TheMutexIsLostForGood`: from then on nobody in line
is served. `ClientsAreNeverInitialized`: a `Client` with the intended constructors is not initialized by any config. Its
counterpart is `ConfigsResolveTheirCalls`: nothing else than constructors that throw leaves a call without its config.

Unless its statement says otherwise (`LostIsRecovering`), a theorem uses the assumptions of the modules about their constants and
no others. Every invariant that a run checks is proved, and both refinements. Only model-checked are the eight liveness
properties of the table.

## 5. Not modelled

* Handlers of events run as steps of their own in Enclave: an application that calls `connect()` inside an error handler
  is not covered. Repeated `subscribe()` for one address is not covered. `attest()` is a call like any other. Therefore the
  connection is modelled partly.
* `EthTxSigner` and the substrate signer are one model: they differ in how a transaction is signed, not in when.
  Mining and finality (`TxReceipt.success`) follow the broadcast and have no effect on the signer.
* Withdrawals and substrate deposits: a batch is built from the arguments alone, one transaction per item, without an await
  on anything shared. `Leaving` has them as a step that may throw.
* L1 event tracking: `update_event_tracking()` compares two masks; its one caller is the config handler of `Client`, which
  throws before it gets there (run `client_initialize`), and on substrate it is not implemented.
* Amounts and baskets: an amount is a bigint with one comparison per operation, a basket folds the operations of its
  assets over a map. The operations of token sets are where loops and indices can go wrong.
* Data conversions without state or order: encodings of integers and assets, the messages of the API and their JSON,
  addresses, signatures, signers. The modules have them as records, and signers as actors that sign, refuse and take time.
* Contract bindings under `ethereum/contracts`: generated code, about 15,000 of the 24,000 lines of the implementation.
  Much of the remainder is declarations, documentation and such conversions; what has state and order is covered above,
  so the mapped lines are a small share of the whole.

## 6. Plan

1. Done: Mutex and FairLock; TxSigner and AtomicSigning; WritingApp; Enclave; EventEmitter; Leaving; Lifecycle;
   TokenProvider and Deposits; Tokens; proofs of the invariants of each, and of both refinements.
2. Done: the safety part of each liveness argument, and both findings, for all instances.
3. Next, models: the composition of Lifecycle with Enclave, whose sockets it keeps only in part; handlers that call
   `connect()` and `subscribe()` from within an event; amounts and baskets against bags.
4. Next, proofs: those of what is modelled next. Liveness itself stays with TLC.

# TLA+ models of go_xdp_banner

go_xdp_banner is an IP-ban system with two halves:

- The **orchestrator** (`src/orch`) stores rules, strategies, agent
  configuration and agent status in etcd. One orchestrator at a time is
  elected leader, and the leader runs a node controller and a strategy
  controller.
- Each **agent** (`src/agent`) watches the rule stream of the orchestrator and
  writes the rules into an XDP map in the kernel. It drives a small state
  machine (Init → Ready → Running → Stopped/Error) and reports its phase back to
  the orchestrator.

The controllers are built on a port of the Kubernetes list-watch machinery,
under `src/pkg`. The data flows through it like this:

```
etcd --List/Watch--> Reflector --Replace/Add/Update/Delete--> DeltaFIFO
     --Pop--> Informer.process --> ThreadSafeStore (cache)
                               \-> handlers --> controller.enqueue
     --> rate-limited WorkQueue --> worker: SyncHandler(key)
```

The rule watch RPC (`orch/service/rule`) reuses the informer without a work
queue. Each informer registers one `tempEventHandler` per stream, and that
handler feeds the stream's channel:

```
etcd --> Reflector --> DeltaFIFO --> Informer.process --> cache
                                                  \-> tempEventHandler --> eventCh --> stream.Send
```

The rest of this file covers:

- what each module models;
- what each run checks;
- the bounds and fairness behind each run;
- what is not modelled yet, and why.

## Modules

| Module | Code | What it models |
|---|---|---|
| `WorkQueue` | `pkg/queue/workqueue.go`, `delay_workqueue.go`, `pkg/controller/controller.go` | The dirty/processing/queue sets of the work queue and the delayed re-add loop. The controller workers run Get → SyncHandler → Forget/AddRateLimited → Done. |
| `KeyQueue` | the contract in `pkg/queue/workqueue.go` | The abstract queue (pending keys, holders, shutdown, exited workers) that `WorkQueue` refines. |
| `ListWatch` | `pkg/etcd/listwach.go`, `pkg/informer/reflector.go`, `delta_fifo.go`, `informer.go`, `orch/cmd/server/leader.go` | An etcd revision history and two reflectors on disjoint prefixes. Each reflector runs List → syncWith(Replace) → Watch → handleWatch. They share one DeltaFIFO that counts its initial population, and Pop writes the cache. |
| `Election` | `pkg/election/election.go`, `pkg/pubsub/pubsub.go`, `pkg/wait/group.go`, `orch/cmd/server/leader.go` | Orchestrators campaigning in etcd's election, their observers, the non-blocking pubsub into `runController`'s main loop, and the controllers that `SingleInstance.Run` starts. |
| `StrategyController` | `orch/internal/controller/strategy/strategy.go`, `orch/logic/strategy/applied.go`, `orch/storage/agent/applied/applied.go`, `orch/logic/agent/control`, `orch/service/agent/control/control.go`, `orch/storage/agent/node/info.go` | Strategy applications: Create into the running prefix, the informer and work queue feeding the single worker, SyncHandler's reconcile over the selected agents, MoveToHistory and the retry of its errors; beside them, the operator's Enable and SetConfig calls on the same agent info. |
| `RuleStorage` | `orch/storage/agent/rule/rule.go` | The rule keys, identity keys and names list in etcd, written by `Storage.Add`, `Delete` and `Update` from several orchestrator processes, and removed by lease expiry. |
| `AgentControl` | `orch/internal/controller/node/node.go`, `orch/logic/agent/control`, `agent/internal/statusfsm/fsm.go`, `agent/internal/service/control.go`, `agent/cmd/server/controller.go`, `agent/internal/client/{reporter,client}.go` | One agent end to end: the operator's Enable/SetConfig, the node controller's reconcile and RPCs, the agent's FSM event queue and worker, the Start/Stop/Reload callbacks, the watchRules goroutines and their rule streams, and the reporter writing the status key. |
| `RuleWatch` | `orch/service/rule/rule.go`, `tool.go`, `pkg/informer/informer.go`, `informer_registry.go` | The rule watch streams of one rule-set name: the informer registry, informers created with a stream's context, handler registration with the cache listing, handler sends into bounded channels, and the relay loop with its disconnect paths. |

Each module has an MC module (`MCWorkQueue`, `MCListWatch`, `MCAgentControl`, `MCElection`, `MCStrategyController`, `MCRuleStorage`, `MCRuleWatch`) that gives its
CONSTANTS small sets of model values, and one `.cfg` per run.

### WorkQueue

The module's state is:

- `queue`, `dirty` and `processing` are the three structures of `workQueue`.
- `waiting` is the heap of the delaying queue. It only records which keys are
  waiting to be re-added. The clock is abstracted away; the delay
  `AddRateLimited` computes is kept, because `AddAfter` branches on it.
- `failures` is the per-key counter of `ItemExponentialFailureRateLimiter`.
- `ItemBackoff`, `BucketDelays` and `MaxOfWhen` are the rate limiter of
  `DefaultControllerRateLimiter` (`default_rate_limiters.go`):
  - `ItemBackoff(exp)` is baseDelay·2^exp, capped at maxDelay.
  - `BucketDelays` is the token bucket's delay, either zero or positive.
  - `MaxOfWhen` takes the larger of the two.
  - `Forget` deletes a key's failure count.
- Each worker has a `pc` and the key it holds, `wkey`.

Actions:

- `Add` is `workQueue.Add`, and all four of its branches are modelled:
  shutting down, already dirty, dirty while processing, and pushed.
- `Get` and `Done` are the functions of the same names.
- `SyncOk` and `SyncFail` are the two branches of `processNextWorkItem`. The
  failing branch calls `AddRateLimited` before the deferred `Done`.
  `AddRateLimited` is `AddAfter(k, When(k))`. `AddAfter` does nothing while
  shutting down, and adds the key at once when the delay is not positive.
- `WaitingFire` is the `waitingLoop` moving an entry that is due back into the
  queue.
- `ShutDown` is the queue's shutdown.
- `Enqueue` is the informer handler calling `enqueue(key)`.
- `requested` and `retrying` are ghost variables: they remember updates that
  have not yet been synced, and failures that have not yet been retried.

Fairness: each worker is a goroutine that loops on `processNextWorkItem`, and
the `waitingLoop` goroutine wakes up on its timer. So both get weak fairness.
`Add` is driven by the environment and gets none.

#### KeyQueue, the contract WorkQueue refines

`KeyQueue` states what the comments on `Add`, `Get`, `Done` and `ShutDown` in
`workqueue.go` promise a controller. It has no FIFO order, dirty set or delay:

- `pending` holds the keys that were added and not yet handed out.
- `holder[w]` is the key worker `w` holds, and `closed` says `ShutDown` was
  called. `exited` holds the workers that `Get` told to stop.
- `Request`, `Take`, `Release`, `Close` and `Exit` are its actions:
  - `Take` hands out a pending key that no other worker holds.
  - `Exit` happens only after shutdown, and only when every pending key is
    held by another worker.
- Each worker gets weak fairness on `Take`, `Release` and `Exit`.

`WorkQueue` defines the mapping `KQ == INSTANCE KeyQueue WITH ...`:

| KeyQueue | WorkQueue |
|---|---|
| `pending` | `dirty` |
| `holder[w]` | `wkey[w]` from `Get` until `Done` |
| `closed` | `shuttingDown` |
| `exited` | workers whose `pc` is `"exit"` |

Items in the waiting loop are not pending; they become pending through their
`Add`. The property `ImplementsKeyQueue == KQ!Spec` checks safety and
liveness together.

### ListWatch

The module's state is:

- `kv` and `hist` are the etcd store and its revision history. Every write
  makes one revision, and `hist[r]` is the write that produced revision `r`.
- For each reflector: `rphase`, `lastSync` (`lastSyncResourceVersion`),
  `wnext` (the next revision its watch delivers) and `listRev` (the
  `Revision` that `List` returned).
- For the DeltaFIFO: `fqueue`, `fitems`, `populated` and `waitInitNum`, plus
  `initCount` (`initialPopulationCount`).
- `store` and `storeRev` are the informer cache and the revision each entry
  came from.

Actions:

- `List` is `etcd.List` composed with `syncWith`/`Replace`, including the code
  path where a non-empty result carries `Revision` 0.
- `SyncDone` is the FIFO's `SyncDone` at the end of `list`.
- `WatchStart` watches from `RewatchResourceVersion`, which is `lastSync`
  because `isLastSyncResourceVersionUnavailable` is only ever set to false. A
  value of 0 means "from the current revision".
- `Deliver` is one event of `handleWatch`: `queueActionLocked`, dedup included,
  followed by `setLastSyncResourceVersion`.
- `WatchEnd` is the watch channel closing. The loop then continues with a new
  watch, and never relists.
- `Pop` is `DeltaFIFO.Pop` composed with `Informer.process`. It folds the
  key's deltas, oldest first, over the cached value (`ProcessDeltas`, a
  `FoldLeft` of `ApplyDelta`, the store's `Add`, `Update` and `Delete`).

Fairness: the reflector goroutine and the informer's processLoop get weak
fairness. Writes to etcd are the environment's and get none.

### AgentControl

Orchestrator side:

- `info` is the desired `{enable, config}`; `status` is the reported `{phase, config, error}` or absent.
- `pending` is the node key being queued in the controller (any change of either key enqueues it).
- `Sync` is `SyncHandler` plus `reconcile` (`Decide` is its if-chain). A fresh error keeps the key queued until its retryAt is due. An RPC either pushes the event onto the agent's queue or fails and requeues.

Agent side:

- `evq`, `fsm`, `alive` are the FSM's SafeQueue, looplab/fsm's current state and whether `run()` is still looping. `FsmEvent` pops an event and fires it; its disjuncts are the four outcomes: `InvalidEventError` (`FsmInvalid`), and the Start, Stop and Reload callbacks with their success, `CanceledError` (ebpf.Init failed) and, for Reload, `NoTransitionError` on success. `FsmEnter` is the completed transition and `enter_state`'s SetPhase; it is a separate step because the reporter may upload between the callback and it.
- `attached`, `mapSet`, `gen`, `cancelled` are the controller's `attached`, its map/program pointers being non-nil, the current `c.ctx` (contexts numbered) and the cancelled ones.
- For every context number g there may be one `watchRules` goroutine (`wup`, `wcfg`); `sctx[g]` is the context its GetRule goroutine captured from `c.ctx` when it ran, `buf[g]` a buffered rule event, `sclosed[g]` ruleChan closed.
- `rphase`, `rcfg`, `rerr`, `rerrId` are the reporter's fields; `Report` uploads them, skipped by StatusStorage.Update when unchanged. `rerrId` stands for the error's RetryAt timestamp: a new error never equals the stored one.

Status key and its cache (`status.go`, `cachestore.go`):

- `status` is the etcd key; `scache` is the orchestrator's status CacheStore, a reflector-fed copy that may lag behind it.
- `StatusUpdate` is `StatusStorage.Update`. Renew grants a new lease when the old one expired. The Put is then skipped if the new value equals the cached one.
- `LeaseExpire` is the 30 s lease running out between two reports (bounded by `MaxLeaseExpiries`). etcd deletes the key.
- `CacheSync` is the reflector delivering the key's current value or its deletion. It gets weak fairness, because the reflector goroutine keeps running.
- The hazard: after an expiry, the cache can still hold the deleted value, so an unchanged report is skipped and the key stays absent. `Converges` shows the key comes back once the cache has seen the deletion. The mutant `CacheSyncNoDelete`, a cache that never sees deletions, leaves it absent for good.

Abstractions: ebpf.Init may fail; Close and ClearMap succeed (so the double Unlock in Reload's Close-error branch is not reached). Time is one action, `TimePasses`, which makes every fresh retryAt due.

Fairness: the controller worker, the FSM goroutine, each watchRules goroutine and its GetRule goroutine, the reporter's timer and time itself get weak fairness. Operator calls and rule events do not.

### Election

- etcd is the environment: `keyRev[n]` is the create revision of node n's election key (0 before the Txn), `sess[n]` its session lease. A key exists while its lease lives, and the leader key (`EtcdLeader`) is the live key with the lowest revision, as in `concurrency.Election`.
- Per node: `cphase` is where the single `go elec.Campaign()` call and its goroutine are (`Campaign`, `CampTxn`, `CampWait` for `waitDeletes`, `AfterCamp` for the deferred `afterCamp`). `camp` and `leader` are `isCampaining` and `isLeader`, `obs` the leader its observer last saw, and `loop`/`msg` the main loop waiting in `select` or handling a message. `running` is `SingleInstance.load`.
- `Publish` hands a message to the main loop only when it waits in `select`; otherwise `default` drops it. `Handle` runs `ws.Run` on BecomeLeader and only logs LeaderChanged. LoseLeader is never published while the loop runs, because `Resign` is called after it exits.
- Faults: `Stop` is a crash or a shutdown. Either way the key stays, because `Resign` runs with the already cancelled `e.ctx` and the session is never closed, so it lives until `DownLeaseExpire`. `LiveLeaseExpire` is a running node's lease expiring. Campaign's Txn and watch may fail with an etcd error (`MaxCampErrors`).

`CampWait` (etcd's `waitDeletes` in `concurrency.Election.Campaign`) and the two lease expiries model etcd, not this repository. So do `LeaseExpire` in AgentControl and RuleStorage. They are the environment, and the map of `PROJECT.json` gives them no source lines.

Fairness: each running node's campaign goroutine, observer and main loop get weak fairness, and so does etcd expiring a stopped node's lease. Stops, live expiries and errors get none.

### StrategyController

- `running`, `history` and `acked` are the etcd keys under `applied/running/` and `applied/history/`, and the names whose `Create` returned nil. `Plan` gives each applied's action, value and selected agents; the regex selection of `Applied.Create` is abstracted to that fixed set.
- `cache` is the informer's view of the running prefix. `Inform` applies one pending change and enqueues the key. `queue`/`dirty`/`waiting` are the work queue with its dedup and the rate limiter's delayed re-adds (`Requeue`).
- `Sync` is one whole `processNextWorkItem` + `SyncHandler`. It has a single worker and is the only writer of the applied keys, so the call is one step. It runs `reconcile` with any subset of agent calls failing (`Reconciled`, `Outcome`), then `MoveToHistory`. `Outcome` is success when no agent call failed, an empty agent list included. An enable value that `strconv.ParseBool` rejects and an unknown action are failures (`Dispatched`). The three storage calls are operators of their own (`AddRunning`, `AddHistory`, `DeleteRunning` in `storage/agent/applied/applied.go`). `AddRunning` and `AddHistory` return nil on any Create error other than ErrKeyExist, as the code does. `DeleteRunning`'s error is returned and requeues the key; etcd's Delete of a missing key succeeds.

- The operator's `ControlService.Enable` and `SetConfig` write the same agent info as `reconcile`, and they are two steps. `ReadForUpdate` (shared by `EnableRead` and `SetConfigRead`) is the logic's `InfoGet`, its compare and its early return; an error there also returns before any write. `WriteBack` puts the info as read, with the one field set, through `InfoStorage.Update`. That is `client.Update`, whose transaction only checks that the key exists (`InfoUpdate`), so the write is blind. `calls` holds the calls between the two steps, at most one per agent, and `apiCalls` counts them up to `MaxApiCalls`. `reconcile`'s own Get and Update of each agent stay inside `Sync`'s single step. So the model shows an operator's write undoing the controller's, not the mirror case, which is the same race.

Fairness: the worker, the informer, the rate limiter's timer and an operator call that has done its read (`WriteBack`) get weak fairness. `Create` and the operator's calls themselves do not.

The informer is lossless here: `Inform` eventually applies every change of the running prefix. The real reflector can miss a write made between its list and its watch (`listwach.go:226`, the `listwatch_lost_events` finding). A running key created in that window is never enqueued until the next re-list, and the controller never handles it. `RunningEventuallyHandled` assumes that loss away, so it says the controller handles every running key it is told about. It does not say the informer tells it about every key.

### RuleStorage

- `rule[k]` is the rule key of `k = <<name, cidr, port>>`; the protocol and both ports are collapsed into one port value. `idkey[<<name, cidr>>]` is the identity key. Each value is its identity and the lease it hangs on (0 for none). `names` is the `/agent/ruleNames` list, as a set.
- An identity is a fresh number (crc32 of a fresh UUID; collisions are not modelled), and so is a lease. The operator picks each rule's expiry, so any live lease may expire next (`LeaseExpire`), taking its keys with it.
- `AddRead` is Add up to its transaction: read the names list, Grant, read the identity key. `AddTxn` is the transaction, with its four outcomes: reuse the identity, create one, compare failed (`ErrRuleAlreadyExists`), or the lease already gone (commit error, revoke). `operationLock` is per process, so each process runs one operation at a time, and processes interleave.
- `Delete` deletes only the rule key. `Update` copies the identity key's value into the rule, through a Put without a lease.

No fairness: every step is an operator call or etcd's clock, and only safety is checked.

### RuleWatch

- `kv` holds the rule keys of one rule-set name. `Write` is any rule Add, Update, Delete or expiry, bounded by `MaxWrites`. Identity keys are left out: `parseRuleMeta` skips them.
- Informers are indexed by the stream that created them:
  - `inf[i]` is the informer's state: none, live or stopped.
  - `cache[i]` is its cache store.
  - `tgt[i]` is what its reflector has seen. It follows `kv` while the informer's context is live and freezes when the context ends.
  - `handlers[i]` lists the handlers in registration order.
  - `out[i]`/`evt[i]` are the process loop in the middle of dispatching one event. It holds the informer mutex while `out[i]` is non-empty (`Locked`).
- `Process` pops one key's delta and applies it to the cache under the mutex. An added or updated rule becomes an event for every handler. A delete is dispatched to `OnDelete` with a nil object, and that handler drops it. `Deliver` is one handler's channel send; it blocks while the channel holds `Cap` events.
  - The reflector and DeltaFIFO are abstracted to the cache catching up with `tgt` one key at a time. `ListWatch` checks them on their own.
  - A stopped informer's loop still drains what was queued.
- `reg` is the single registry entry for the prefix.
- For each stream, `spc` is its place in `WatchRuleResources`, `using` the informer it uses, `snap` the listed rules it has yet to send, `ch` its `eventCh`, and `cview` what its client has received.
- The stream's steps:
  - `Lookup` reads the registry. If the prefix is missing, `Create` runs `CreateInformerForPrefix` with the stream's own context and then `Add`. The sync wait may time out.
  - `Register` is `RegisterHandlerAndList`.
  - `SendInit` sends the listed rules.
  - `Relay` is the select's `eventCh` case. `Leave` is its Done case, which deletes the registry entry.
  - `Disconnect` is the client going away.
  - Every way the RPC returns cancels the stream's context (`StopInformer`). A failed Send returns without the registry Delete.

Fairness: each stream's RPC goroutine (`Lookup`, `Create`, `Register`, `SendInit`, then `Relay` or `Leave`) and each informer's process loop (`Process`, `Deliver`) get weak fairness. Go schedules them as long as they are not blocked. Writes to etcd and clients going away are the environment's and get none. Only `StreamEventuallyRegisters` uses the fairness; the runs check safety.

## Runs

| Run | Checks | Result |
|---|---|---|
| `workqueue` | `TypeOk`, `QueueMatchesDirty`, `ExclusiveProcessing`, `EventuallyProcessed`, `FailedIsRetried`, `ShutdownTerminates`, `ImplementsKeyQueue` | pass, 2 keys, 2 workers |
| `listwatch` | `TypeOk`, `StoreRevMonotone`, `EventuallySynced` | pass, 2 reflectors, 3 writes, 1 watch break |
| `listwatch_lost_events` | `CaughtUpCacheMatchesStore` | violation |
| `agent_converge` | `Converges` | pass, 1 config, enable toggled twice, 1 Init failure, 1 status-lease expiry |
| `agent_safety` | `TypeOk`, `RunningIsAttached`, `DetachedUnlessRunning` | pass, 2 configs, reloads, rule traffic |
| `strategy` | `TypeOk`, `NoForgottenRunning`, `RunningEventuallyHandled` | pass, 3 applieds, 2 agents, one failure of each etcd write and of an agent update, one operator Enable or SetConfig |
| `rule_identity_split` | `IdentityStable` | violation, 1 process, 1 CIDR, 2 ports, 3 leases |
| `agent_reload_exits_worker` | `QueuedEventHandled` | violation |
| `election_lost_become` | `LeaderKeyServed` | violation, 3 nodes, 2 stops, no etcd faults |
| `election_split_brain` | `AtMostOneController` | violation |
| `rule_watch` | `SnapshotThenTail` | pass, 2 streams, 2 rule keys, 2 writes, a one-event channel |
| `rule_watch_orphaned_stream` | `StreamServed` | violation |

What each property says:

- **`QueueMatchesDirty`**: the queue has no duplicates, and holds exactly the
  dirty keys that are not being processed.
- **`ExclusiveProcessing`**: no key is held by two workers at once.
- **`EventuallyProcessed`**: an `Add` that arrives while the key is being
  processed is synced later.
- **`FailedIsRetried`**: a key whose sync failed is retried, unless the queue
  shuts down first.
- **`ShutdownTerminates`**: after `ShutDown`, every worker exits.
- **`ImplementsKeyQueue`**: the queue and its workers refine `KeyQueue`:
  - no key is handed to two workers at once;
  - a key added while it is held is handed out again;
  - no worker exits while a free key is pending;
  - under the workers' fairness, every free pending key is eventually taken.

  With `Done` no longer re-pushing a key that was dirtied while it was
  processed, a worker exits after `ShutDown` and leaves that key pending.
- **`StoreRevMonotone`**: the cache never goes back to an older revision of a
  key. The inclusive re-watch at `reflector.go:184` re-delivers the last event,
  and must not move the cache backwards, and neither must the Sync deltas of
  a re-list that pile up behind newer watch deltas while the key waits in the
  FIFO (`delta_fifo.go:298`).
- **`EventuallySynced`**: `HasSynced` becomes true. The two reflectors share
  one `initialPopulationCount`, set by the first Replace only.
- **`CaughtUpCacheMatchesStore`**: once a reflector's watch has delivered every
  revision up to the current one, the cache equals the KV store on that
  reflector's prefix. This is spec §8 invariant 5.

- **`Converges`**: once the operator stops, the reported status ends up and stays at what the info asks for. It is checked with one config, because with two configs the reload bug below already breaks it. RPC failures are left to `agent_safety`: with them and the status-lease expiry together, the liveness check takes longer than the runs are allowed.
- **`RunningIsAttached`**: an agent settled in Running with no reported error has its map and program loaded; a failed callback must show as an error.
- **`DetachedUnlessRunning`**: an agent in Ready or Stopped holds no map or program.
- **`NoForgottenRunning`**: once the informer has cached a running applied, it stays queued or waiting for a retry until its running key is gone. SyncHandler may only return nil after the delete.
- **`RunningEventuallyHandled`**: every applied whose running key exists is
  eventually either recorded in the history or has its running key deleted.
  This holds despite informer lag, a failure of each storage call and
  rate-limited retries. It relies on the fairness of the worker, the informer
  and the rate limiter's timer. If the waiting loop drops a delayed key
  instead of re-adding it, the key can stay running with no history.
  Archiving both at once (`Archived`) does not hold; see the hazards.
- **`SnapshotThenTail`**: each rule in an informer's cache reaches the client of every registered stream with the cached value, through the listed snapshot or through the channel. This holds whether the write races the registration or the channel is full. It is the snapshot-and-subscribe promise of spec 4.5 and 5.

What the violations show:

- **`agent_reload_exits_worker`**: a successful reload returns `NoTransitionError`, and `StatusFSM.run` returns on it (`fsm.go:86`). No later event is ever handled, although the spec says reload-to-same counts as success.
- **`election_split_brain`**: spec invariant 6 (`AtMostOneController`) fails. `afterCamp` is deferred (`election.go:127`), so a Campaign that fails with an etcd error still makes the node leader and runs a second set of controllers. This is the trace TLC reports. The same run also allows a live lease expiry, which breaks the invariant another way: nothing watches `session.Done` (`election.go:48`), so a leader whose lease expires keeps its controllers running after the next node wins.
- **`election_lost_become`**: `LeaderKeyServed` fails. Spec section 7, scenario 5, says that after the leader dies the node that wins the next campaign starts the controller instance. The standby's observer publishes LeaderChanged when the old leader's key appears. If the standby wins while its loop still handles it, `Publish` drops BecomeLeader (`pubsub.go:47`). Campaign runs once, so after the old leader stops no node ever runs the controllers. Three nodes are needed: with two, the standby has no LeaderChanged in hand when it wins.
- **`rule_watch_orphaned_stream`**: `StreamServed` fails. `CreateInformerForPrefix` runs the informer on the creating stream's context (`informer_registry.go:52`), but every later stream of the name shares that informer. When the creator's RPC returns, the informer stops. The other streams stay connected and get no further rule changes. If the creator returned through a failed Send (`rule.go:229`), the Delete at `rule.go:239` is skipped. The stopped informer then also stays in the registry, and every new stream of the name gets it. Spec 4.16 says the shared informer serves its subscribers until they disconnect.
- **`rule_identity_split`**: spec section 8 invariant 1 (`IdentityStable`) fails. `Add` writes the identity key under the lease of the rule that created it (`rule.go:164`), so the key vanishes when that lease runs out. The next Add on the CIDR draws a new identity while older rules keep the old one. TLC's shortest trace also goes through `Update`, whose Put drops the lease (`rule.go:201`): the updated rule outlives its lease and the identity key. Without Update there is another route: an Add reads the identity key just before it expires and commits its rule with no identity key left.

Six more checks are kept with the project, though no run in `PROJECT.json` carries them. Each is violated, and `tlc -config <cfg>` reproduces it:

- `MCRuleNames.cfg` (`NamesIndexed`): every orchestrator serves the rule API, and `operationLock` only serialises one process. Two Adds of new names both read the list, and the later Txn writes it back without the other name (`rule.go:64`, `rule.go:163`), so ListRule never shows that name.
- `MCAgentPanic.cfg` (`NoControllerPanic`): after Stop nils `xdpMap`, a watchRules goroutine can pick a buffered event over `ctx.Done` and write through the nil map (`controller.go:235`). The same property also catches a Reload whose Init failed: it leaves `xdpProg` nil in Running, and the next reload closes it (`controller.go:146`).
- `MCStrategyArchived.cfg` (`Archived`): spec 4.12 says a failure between the history put and the running delete is tolerated, because the retry ends in the same terminal status. In the code the retry reconciles again, and `AddHistory` returns `ErrAppliedAlreadyExists` (`applied.go:135`). `MoveToHistory` then fails on every retry, and the running key stays.
- `MCRuleWatchDeletes.cfg` (`ClientMirrorsStore`, spec §8 invariant 5): a rule deleted after a stream listed it stays with the client. The delete delta carries a nil object, and `parseRuleMeta` rejects it in `OnDelete` (`tool.go:177`). Agents therefore never learn of deleted or expired rules.
- `MCStrategyLostUpdate.cfg` (`OperatorUpdateKeepsOtherField`): an operator's Enable or SetConfig should change only its own field. Enable reads the agent info. The strategy controller then sets the agent's config and archives the applied as a success. Enable's blind write-back puts the old config back (`enable.go:25`, `tool.go:68`). The history then says the agent runs a config it does not have. SetLabels and the controller's own read-then-write have the same race.
- `MCRuleWatchStuck.cfg` (`StreamEventuallyRegisters`, a liveness property under the fairness of the `RuleWatch` section): a stream waiting in `RegisterHandlerAndList` never gets the informer's mutex. The stream that created the informer returns, and its handler stays registered. The stopped informer drains the deltas it had queued into that handler's channel. The second send finds the channel full and blocks with the mutex held (`tool.go:163`). The same happens with the real 1000-event channel once a subscriber stops reading.

Two more races are in the model and listed as hazards without a checked property:

- `watchRules`' GetRule goroutine reads `c.ctx` only when it runs (`controller.go:187`). If Reload has replaced it by then, the old config's stream stays live under the new context.
- Start's deferred SetConfigName runs before SetPhase(Running). A report in between re-triggers the controller while the status still reads Ready. The FSM then rejects a second start and reports it as an error. `Converges` still holds.

And for the list-watch run: `List` returns `Revision` 0 whenever the prefix is
non-empty (`listwach.go:226-232`). The reflector then watches "from now", so a
write made between the list and the watch is never delivered. The trace has
one reflector and two writes.

### Bounds and why they are enough

- **`workqueue`**: 2 keys and 2 workers are enough for both workers to hold
  different keys, and for an `Add` to arrive while a key is being processed.
  3 adds allow "add, add while processing, add again". 1 failure per run
  exercises the retry path.
- **`listwatch`**: 2 reflectors are what `leader.go` creates, with one key
  each. 3 writes allow writes before the list, during it, and after the watch
  starts. 1 watch break exercises the re-watch.
- **`listwatch_lost_events`**: 2 writes are the fewest that lose an event.
- **AgentControl runs**: 2 operator calls allow disable then enable, or a config change then a toggle. One failing Init and one failing RPC exercise each error path. 2 rule events let a stream deliver before and after a Stop. Up to 4 contexts are enough, because the runs never exhaust them (this was checked with an invariant `gen < MaxGen`). 2 queued events allow a start and a stop to be pending together.
- **Election runs**: `election_split_brain` uses 3 nodes with one live lease expiry and one etcd error, which reach both ways to a second controller. `election_lost_become` uses 3 nodes and 2 stops and no etcd faults, so that the winning standby has already been told about an older leader; the drop needs no fault at all. There is no passing election run: every property the code should satisfy (a single controller, a controller whenever there is a leader) fails by one of the two findings above under any bounds that reach the error branches.
- **`rule_identity_split`**: one name and one CIDR give one identity key. Two ports give two rules that must share an identity. Three leases allow two Adds and one Add after an expiry. One process suffices; `MCRuleNames.cfg` uses two.
- **`rule_watch`**: 2 streams let one stream use the other's informer, or both create one. 2 keys let the snapshot hold one rule while the other is written. 2 writes allow an add and then an update or delete. A channel of capacity 1 stands for the 1000-slot channel: a second event to a handler whose stream stopped relaying fills the channel and blocks the process loop with its mutex. With 3 writes the run takes 3 minutes (7.3M states) and still passes.
- **Strategy runs**: 3 applieds over 2 agents give two configs that overlap on one agent and an enable. One failure of each etcd write and one agent failure reach every error branch; the violation needs a single delete failure. One operator call (`MaxApiCalls = 1`) can fall between any two controller steps and reaches both early returns and the write-back. Two calls give 1.9 million states and take about 12 minutes. `MCStrategyLostUpdate.cfg` turns the failures off: the lost update needs none of them.

Deadlock checking is off in every run. A controller with no more input
legitimately blocks in `Get`, and an idle watch legitimately waits.

Every property of a passing run has a mutant in `PROJECT.json`: a faulty
variant of one modelled definition, defined next to it, that TLC catches
through that property. Each changes the definition the way a slip in its code
would (a dropped requeue, a missing guard, a swallowed error, a lost delayed
re-add, a send that drops on a full channel). The mutants of the `TypeOk`
invariants are the weakest of them: they show that the type invariant
constrains what that definition writes, not that a behaviour is right.

## Not modelled yet, and why

| Part | Reason | Plan |
|---|---|---|
| Rule reads (`GetRule`, `List`), `DeleteDir` | read-only or reset-only | No state change, or only the reset command's. |
| `Storage.GetRule`'s key parser | data only, and no run slot | It trims the prefix `/agent/rule/{name}` and keeps a key only when three segments remain. A CIDR with a mask (`10.0.0.0/24`) makes four, so it skips every such rule and returns an empty list. The agent's `ParseIPRuleKey` is the opposite: it needs the mask segment and rejects a CIDR without one. Found while reading the code; no run checks it. |
| Kernel maps (`xdp_map.go`) | data, and the XDP program is not in the repository | `identity_ipcache` holds one identity per CIDR, and each `AddCIDRRule` overwrites it. Once the identity split that `rule_identity_split` shows has happened, rules with the older identity stop matching. How overlapping CIDRs resolve depends on the XDP program's lookup, which is not here. |
| Agent control API: RegisterNode, UnRegisterNode, SetLabels, Init, the Get/List calls | no reader, or read-only | Registration keys are only read by Init, whose token check always passes. No selection reads labels. Init's info Add is the initial info of the model (config `default`, which is `NoConfig`, and enable true). |
| Write-through cache (`pkg/etcd/cache.go`) | unused | Only `etcd_test.go` constructs it. |
| Reporter field gating, map encoding | data only | The gating is met at start-up; LPM key layout is formatting. |
| Prefix overlap of rule watches | data only | `etcd.Join` adds no trailing slash, so the watch for name `a` also sees the rules of `ab`. The model has one rule-set name. |
| KV key algebra, gRPC glue, auth | out of scope | Pure string formatting and I/O; no concurrent state for a model checker to explore. |

Every component with state has a module now. Further work:

1. Split the node controller from the agent FSM, so that two agents can share one controller.

The open hazards in `PROJECT.json` say why no property covers each of them.

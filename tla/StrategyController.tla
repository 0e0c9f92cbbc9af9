------------------------- MODULE StrategyController -------------------------
(***************************************************************************)
(* Strategy applications and the leader's strategy controller.             *)
(*                                                                         *)
(* Applied.Create (orch/logic/strategy/applied.go) writes a pending        *)
(* applied under applied/running/ through Storage.AddRunning. The          *)
(* controller (orch/internal/controller/strategy) is fed by the informer   *)
(* on that prefix; its single worker runs SyncHandler: reconcile sets the  *)
(* config or the enable flag of every selected agent (control.SetConfig,   *)
(* control.Enable), then Applied.MoveToHistory copies the applied under    *)
(* applied/history/ (AddHistory) and deletes the running key               *)
(* (DeleteRunning). An error from SyncHandler requeues the key through the *)
(* rate limiter; nil forgets it.                                           *)
(*                                                                         *)
(* The informer's cache of the running prefix is `cache`; it catches up    *)
(* with etcd one key at a time (Inform) and enqueues the key each time.    *)
(* The work queue is a FIFO with the dirty-set deduplication of            *)
(* pkg/queue; the single worker runs a whole SyncHandler call as one step. *)
(*                                                                         *)
(* The operator's ControlService.Enable and SetConfig calls reach the same *)
(* logic (orch/logic/agent/control) and write the same info keys: each     *)
(* reads the info, then writes it back whole with the one field changed.   *)
(* An operator call is two steps, so a controller Sync can fall between    *)
(* its read and its write; at most one call per agent is in flight.        *)
(***************************************************************************)
EXTENDS Naturals, Sequences, FiniteSets

CONSTANTS
    Applieds,       \* names of the strategy applications the operator creates
    Agents,         \* agent names
    Configs,        \* config names an applied may set
    NoConfig,       \* an agent's config before any is set
    Plan,           \* Plan[a]: [action, value, agents] of applied a
    MaxCreateFails, \* bound on failing AddRunning writes
    MaxAddFails,    \* bound on failing AddHistory writes
    MaxDelFails,    \* bound on failing DeleteRunning calls
    MaxRpcFails,    \* bound on failing agent-info updates
    MaxApiCalls     \* bound on the operator's Enable and SetConfig calls

(* Strings strconv.ParseBool accepts, and what they mean.                  *)
BoolText == [t \in {"true", "1", "false", "0"} |-> t \in {"true", "1"}]

Statuses == {"none", "success", "failed"}

VARIABLES
    running,    \* names with a key under applied/running/ in etcd
    history,    \* history[a]: status stored under applied/history/, or "none"
    acked,      \* names whose Create returned nil to the caller
    cache,      \* the informer's cached running keys
    queue,      \* the work queue, in order
    dirty,      \* its dirty set
    waiting,    \* keys handed to AddRateLimited, not yet re-added
    info,       \* info[g]: the agent's stored [config, enable]
    calls,      \* operator calls that have read the info, not yet written it
    apiCalls,   \* operator calls so far
    createFails, addFails, delFails, rpcFails

storeFails == <<createFails, addFails, delFails>>

apiVars == <<calls, apiCalls>>

vars == <<running, history, acked, cache, queue, dirty, waiting, info,
          storeFails, rpcFails, apiVars>>

Info == [config : Configs \cup {NoConfig}, enable : BOOLEAN]

(* An operator call between its read and its write: the agent, the field  *)
(* it sets, the value, and the info it read.                               *)
Call == [agent : Agents, field : {"config", "enable"},
         val : Configs \cup BOOLEAN, read : Info]

TypeOk ==
    /\ running \subseteq Applieds /\ acked \subseteq Applieds
    /\ history \in [Applieds -> Statuses]
    /\ cache \subseteq Applieds
    /\ queue \in Seq(Applieds) /\ dirty \subseteq Applieds
    /\ waiting \subseteq Applieds
    /\ info \in [Agents -> Info]
    /\ calls \subseteq Call /\ apiCalls \in 0..MaxApiCalls
    /\ createFails \in 0..MaxCreateFails /\ addFails \in 0..MaxAddFails
    /\ delFails \in 0..MaxDelFails /\ rpcFails \in 0..MaxRpcFails

Init ==
    /\ running = {} /\ acked = {}
    /\ history = [a \in Applieds |-> "none"]
    /\ cache = {} /\ queue = <<>> /\ dirty = {} /\ waiting = {}
    /\ info = [g \in Agents |-> [config |-> NoConfig, enable |-> TRUE]]
    /\ calls = {} /\ apiCalls = 0
    /\ createFails = 0 /\ addFails = 0 /\ delFails = 0 /\ rpcFails = 0

(* workqueue.Add with no key being processed: a dirty key is not added    *)
(* twice.                                                                  *)
QueueAdd(a) ==
    IF a \in dirty THEN UNCHANGED <<queue, dirty>>
                   ELSE /\ queue' = Append(queue, a)
                        /\ dirty' = dirty \cup {a}

(* Storage.AddRunning: etcd Client.Create of the running key. Its error is *)
(* dropped unless it is ErrKeyExist (names carry a timestamp and never    *)
(* collide), so a failed write still returns nil.                          *)
AddRunning(a) ==
    \/ running' = running \cup {a} /\ UNCHANGED createFails
    \/ /\ createFails < MaxCreateFails
       /\ createFails' = createFails + 1
       /\ UNCHANGED running

(* Applied.Create: AddRunning writes the pending applied, and the caller  *)
(* is told it was accepted.                                                *)
Create(a) ==
    /\ a \notin acked /\ history[a] = "none"
    /\ acked' = acked \cup {a}
    /\ AddRunning(a)
    /\ UNCHANGED <<history, cache, queue, dirty, waiting, info, addFails,
                   delFails, rpcFails, apiVars>>

(* The informer applies one pending add or delete of a running key to its *)
(* cache and calls the controller's OnAdd or OnDelete, which enqueues it. *)
Inform(a) ==
    /\ (a \in running) # (a \in cache)
    /\ cache' = IF a \in running THEN cache \cup {a} ELSE cache \ {a}
    /\ QueueAdd(a)
    /\ UNCHANGED <<running, history, acked, waiting, info, storeFails,
                   rpcFails, apiVars>>

(* Faulty variant of Requeue: the delayed entry is dropped, not added.    *)
RequeueLost(a) ==
    /\ a \in waiting
    /\ waiting' = waiting \ {a}
    /\ UNCHANGED <<queue, dirty, running, history, acked, cache, info,
                   storeFails, rpcFails, apiVars>>

(* The rate limiter's delay ends and the key is added back.                *)
Requeue(a) ==
    /\ a \in waiting
    /\ waiting' = waiting \ {a}
    /\ QueueAdd(a)
    /\ UNCHANGED <<running, history, acked, cache, info, storeFails, rpcFails,
                   apiVars>>

(* reconcile reaches its agent loop: a config, or an enable whose value   *)
(* strconv.ParseBool accepts; handleUnknown and a failed parse do not.   *)
Dispatched(a) ==
    \/ Plan[a].action = "config"
    \/ Plan[a].action = "enable" /\ Plan[a].value \in DOMAIN BoolText

(* The agents reconcile writes to: every selected agent of a dispatched   *)
(* applied, none otherwise.                                                *)
Targets(a) == IF Dispatched(a) THEN Plan[a].agents ELSE {}

(* reconcile's effect on the agents' info, the calls to the agents in F   *)
(* having failed: SetConfig and Enable read the info, return early when   *)
(* it already holds the value, and update it otherwise.                    *)
Reconciled(a, F) ==
    [g \in Agents |->
        IF g \in Targets(a) \ F
           THEN IF Plan[a].action = "config"
                   THEN [info[g] EXCEPT !.config = Plan[a].value]
                   ELSE [info[g] EXCEPT !.enable = BoolText[Plan[a].value]]
           ELSE info[g]]

(* The status reconcile sets: handleConfig and handleEnable report success *)
(* when no agent call failed, an empty agent list included; an unparsable *)
(* enable value and an unknown action fail.                                *)
Outcome(a, F) ==
    IF Dispatched(a) /\ F = {} THEN "success" ELSE "failed"

(* Faulty variant of MoveToHistory: DeleteRunning's error is dropped like *)
(* AddHistory's, so the key is forgotten while still running.             *)
MoveToHistoryIgnoreDelete(a, s) ==
    \/ /\ history[a] # "none"
       /\ waiting' = waiting \cup {a}
       /\ UNCHANGED <<running, history, storeFails>>
    \/ /\ history[a] = "none"
       /\ \E addOk, delOk \in BOOLEAN :
            /\ addOk \/ addFails < MaxAddFails
            /\ delOk \/ delFails < MaxDelFails
            /\ addFails' = IF addOk THEN addFails ELSE addFails + 1
            /\ delFails' = IF delOk THEN delFails ELSE delFails + 1
            /\ history' = IF addOk THEN [history EXCEPT ![a] = s] ELSE history
            /\ running' = IF delOk THEN running \ {a} ELSE running
            /\ UNCHANGED waiting
    /\ UNCHANGED createFails

(* Faulty variant of MoveToHistory: the history copy is written from the  *)
(* cached applied, before reconcile set its status.                        *)
MoveToHistoryStaleStatus(a, s) ==
    \/ /\ history[a] # "none"
       /\ waiting' = waiting \cup {a}
       /\ UNCHANGED <<running, history, storeFails>>
    \/ /\ history[a] = "none"
       /\ history' = [history EXCEPT ![a] = "pending"]
       /\ running' = running \ {a}
       /\ UNCHANGED <<waiting, storeFails>>

(* Storage.AddHistory: Client.Create of the history key with status s.   *)
(* The caller has checked that the key is absent; any failure of the write *)
(* is dropped and nil returned, the history not written (ok = FALSE).      *)
AddHistory(a, s, ok) ==
    /\ ok \/ addFails < MaxAddFails
    /\ addFails' = IF ok THEN addFails ELSE addFails + 1
    /\ history' = IF ok THEN [history EXCEPT ![a] = s] ELSE history

(* Storage.DeleteRunning: Delete of the running key; a failure is returned *)
(* (etcd's Delete of a missing key succeeds).                              *)
DeleteRunning(a, ok) ==
    /\ ok \/ delFails < MaxDelFails
    /\ delFails' = IF ok THEN delFails ELSE delFails + 1
    /\ running' = IF ok THEN running \ {a} ELSE running

(* Applied.MoveToHistory with the reconciled status s, and what            *)
(* processNextWorkItem does with its result. AddHistory turns an existing *)
(* history key into ErrAppliedAlreadyExists; DeleteRunning's error is      *)
(* returned. An error requeues the key through AddRateLimited, nil forgets *)
(* it.                                                                     *)
MoveToHistory(a, s) ==
    \/ /\ history[a] # "none"
       /\ waiting' = waiting \cup {a}
       /\ UNCHANGED <<running, history, storeFails>>
    \/ /\ history[a] = "none"
       /\ \E addOk, delOk \in BOOLEAN :
            /\ AddHistory(a, s, addOk)
            /\ DeleteRunning(a, delOk)
            /\ waiting' = IF delOk THEN waiting ELSE waiting \cup {a}
    /\ UNCHANGED createFails

(* The worker: Get the head key, run SyncHandler on it, Done. A key gone  *)
(* from the cache returns nil. The cached applied is always pending (the  *)
(* running key is never rewritten), so skipHistoryApplied never skips and *)
(* reconcile runs, then MoveToHistory.                                     *)
Sync ==
    /\ queue # <<>>
    /\ LET a == Head(queue) IN
       /\ queue' = Tail(queue)
       /\ dirty' = dirty \ {a}
       /\ IF a \notin cache
             THEN UNCHANGED <<running, history, waiting, info, storeFails,
                              rpcFails>>
             ELSE \E F \in SUBSET Targets(a) :
                     /\ rpcFails + Cardinality(F) <= MaxRpcFails
                     /\ rpcFails' = rpcFails + Cardinality(F)
                     /\ info' = Reconciled(a, F)
                     /\ MoveToHistory(a, Outcome(a, F))
    /\ UNCHANGED <<acked, cache, apiVars>>

-----------------------------------------------------------------------------
(* InfoStorage.Get: the agent's stored info.                               *)
InfoGet(g) == info[g]

(* InfoStorage.Update over client.Update: a Put of the whole info under a  *)
(* compare that the key exists, with no compare of its revision.           *)
InfoUpdate(g, new) == info' = [info EXCEPT ![g] = new]

(* The logic's read: Get the info (an error returns before any write), and *)
(* return early when field f already holds v; otherwise keep what was read *)
(* to write it back.                                                       *)
ReadForUpdate(g, f, v) ==
    /\ \A c \in calls : c.agent # g
    /\ apiCalls < MaxApiCalls
    /\ apiCalls' = apiCalls + 1
    /\ \/ /\ InfoGet(g)[f] # v
          /\ calls' = calls \cup {[agent |-> g, field |-> f, val |-> v,
                                   read |-> InfoGet(g)]}
       \/ UNCHANGED calls
    /\ UNCHANGED <<running, history, acked, cache, queue, dirty, waiting, info,
                   storeFails, rpcFails>>

(* Control.Enable: the read, for the enable flag.                          *)
EnableRead(g, b) == ReadForUpdate(g, "enable", b)

(* Control.SetConfig: the read, for the config name.                       *)
SetConfigRead(g, c) == ReadForUpdate(g, "config", c)

(* ControlService.Enable and SetConfig: an empty name or config name is   *)
(* rejected before the logic runs; names here are never empty.             *)
OperatorCall(g) ==
    \/ \E b \in BOOLEAN : EnableRead(g, b)
    \/ \E c \in Configs : SetConfigRead(g, c)

(* The logic's write: the info as read, with the one field set, goes back *)
(* through InfoStorage.Update; an etcd error leaves the key as it is.      *)
WriteBack(g) ==
    \E c \in calls :
        /\ c.agent = g
        /\ calls' = calls \ {c}
        /\ \/ InfoUpdate(g, [c.read EXCEPT ![c.field] = c.val])
           \/ UNCHANGED info
        /\ UNCHANGED <<running, history, acked, cache, queue, dirty, waiting,
                       storeFails, rpcFails, apiCalls>>

Next ==
    \/ \E a \in Applieds : Create(a) \/ Inform(a) \/ Requeue(a)
    \/ Sync
    \/ \E g \in Agents : OperatorCall(g) \/ WriteBack(g)

(* The worker, the informer and the rate limiter's timer keep running;     *)
(* the operator's Create calls get no fairness; a gRPC handler that has  *)
(* read an agent's info goes on to write it.                               *)
Spec ==
    /\ Init /\ [][Next]_vars
    /\ WF_vars(Sync)
    /\ \A g \in Agents : WF_vars(WriteBack(g))
    /\ \A a \in Applieds : WF_vars(Inform(a)) /\ WF_vars(Requeue(a))

-----------------------------------------------------------------------------
(* The controller never forgets an applied that is still running: once    *)
(* the informer has cached its key, the key is queued or waiting for a    *)
(* retry until MoveToHistory has deleted it, so SyncHandler may return    *)
(* nil only after the running key is gone.                                *)
NoForgottenRunning ==
    \A a \in running : a \in cache => a \in dirty \cup waiting

(* Every applied whose running key was written is eventually dealt with  *)
(* by the controller: MoveToHistory records it in the history or deletes  *)
(* its running key, whatever the informer's lag, the failures of the      *)
(* storage calls and the rate-limited retries in between.                  *)
RunningEventuallyHandled ==
    \A a \in Applieds :
        a \in running ~> (a \notin running \/ history[a] # "none")

(* Spec 4.12 and section 8, invariant 3: every strategy application the  *)
(* API accepted is eventually moved to the history, with no key left      *)
(* under running.                                                          *)
Archived ==
    \A a \in Applieds :
        a \in acked ~> (history[a] # "none" /\ a \notin running)

(* An operator's Enable or SetConfig changes only the field it sets: the  *)
(* write that ends the call leaves the agent's other field as it was just *)
(* before, whatever the strategy controller wrote since the call's read.   *)
OperatorUpdateKeepsOtherField ==
    [][\A c \in calls :
          c \notin calls' =>
              \A f \in {"config", "enable"} \ {c.field} :
                  info'[c.agent][f] = info[c.agent][f]]_vars

=============================================================================

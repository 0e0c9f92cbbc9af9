---------------------------- MODULE AgentControl ----------------------------
(***************************************************************************)
(* One agent under the orchestrator's node controller.                     *)
(*                                                                         *)
(* Orchestrator side (orch/internal/controller/node/node.go): the agent's  *)
(* info (desired: enable, config) and status (reported by the agent) live  *)
(* in etcd; any change of either marks the agent's key pending in the      *)
(* controller's queue, and SyncHandler/reconcile sends start, stop or      *)
(* reload over gRPC. The informer is taken to be up to date and the work   *)
(* queue to be the single-worker queue of the WorkQueue module.            *)
(*                                                                         *)
(* Agent side: the gRPC handlers push the event onto the FSM's queue       *)
(* (agent/internal/service/control.go); one goroutine (statusfsm run)      *)
(* pops events and fires them on a looplab/fsm whose before_ callbacks     *)
(* are the controller's Start/Stop/Reload (agent/cmd/server/controller.go) *)
(* and whose enter_state callback sets the reported phase. Start and       *)
(* Reload spawn a watchRules goroutine; its inner goroutine opens the rule *)
(* stream with whatever c.ctx holds when it runs. The reporter uploads its *)
(* fields as the status.                                                   *)
(*                                                                         *)
(* Data is abstracted: a config is a model value, a rule event is one      *)
(* buffered message, a context is its generation number, and the xdp map  *)
(* and program (always set and cleared together) are one flag mapSet.     *)
(* ebpf.Init may fail (no usable interface); Close and ClearMap are taken  *)
(* to succeed. An error's retryAt is "fresh" until time passes, then "due".*)
(***************************************************************************)
EXTENDS Naturals, Sequences

CONSTANTS
    Configs,        \* config names an operator can set
    DefaultConfig,  \* the config Init gives a newly registered agent
    NoConfig,       \* the reporter's config name before any start
    MaxGen,         \* bound on contexts created (one per Start/Reload)
    MaxEvq,         \* bound on the FSM's event queue
    MaxOps,         \* bound on operator Enable/SetConfig calls
    MaxInitFails,   \* bound on failing ebpf.Init calls
    MaxRpcFails,    \* bound on failing controller RPCs
    MaxRuleEvents,  \* bound on rule events sent to the agent
    MaxLeaseExpiries \* bound on status leases expiring between reports

ASSUME DefaultConfig \in Configs /\ NoConfig \notin Configs
ASSUME MaxGen \in Nat \ {0}

Phases == {"Ready", "Running", "Stopped"}
ErrStates == {"none", "fresh", "due"}
Actions == {"start", "stop", "reload"}
Crashes == {"none", "nil_prog", "nil_map"}
Gens == 1..MaxGen
NoStatus == [phase |-> "none"]
ErrIds == 0..3
Status == [phase : Phases, config : Configs \cup {NoConfig}, err : ErrStates,
           errId : ErrIds]
(* A start or reload carries a config name (the gRPC handler rejects an  *)
(* empty one); a stop carries none.                                      *)
Event == [act : {"start", "reload"}, cfg : Configs]
         \cup [act : {"stop"}, cfg : {NoConfig}]

(* fsm.Events in statusfsm.New: the source states and the destination of   *)
(* each event.                                                             *)
Src == [start |-> {"Ready", "Stopped"}, stop |-> {"Running", "Ready"},
        reload |-> {"Running"}]
Dst == [start |-> "Running", stop |-> "Stopped", reload |-> "Running"]

VARIABLES
    info, status, pending, ops, rpcFails,     \* orchestrator
    scache, expiries,                         \* status cache, lease expiry
    evq, fsm, stage, dst, alive, crashed,     \* agent status FSM
    attached, mapSet, gen, cancelled, initFails, \* agent controller
    wup, wcfg, sctx, sclosed, buf, ruleEvents,   \* watchRules goroutines
    rphase, rcfg, rerr, rerrId                \* reporter data

orchVars == <<info, status, pending, ops, rpcFails, scache, expiries>>
fsmVars == <<evq, fsm, stage, dst, alive, crashed>>
ctlVars == <<attached, mapSet, gen, cancelled, initFails>>
watchVars == <<wup, wcfg, sctx, sclosed, buf, ruleEvents>>
repVars == <<rphase, rcfg, rerr, rerrId>>
vars == <<orchVars, fsmVars, ctlVars, watchVars, repVars>>

TypeOk ==
    /\ info \in [enable : BOOLEAN, config : Configs]
    /\ status \in Status \cup {NoStatus}
    /\ pending \in BOOLEAN
    /\ ops \in 0..MaxOps /\ rpcFails \in 0..MaxRpcFails
    /\ scache \in Status \cup {NoStatus} /\ expiries \in 0..MaxLeaseExpiries
    /\ evq \in Seq(Event) /\ Len(evq) <= MaxEvq
    /\ fsm \in Phases /\ stage \in {"idle", "enter"} /\ dst \in Phases
    /\ alive \in BOOLEAN /\ crashed \in Crashes
    /\ attached \in BOOLEAN /\ mapSet \in BOOLEAN
    /\ gen \in Gens /\ cancelled \subseteq Gens
    /\ initFails \in 0..MaxInitFails
    /\ wup \in [Gens -> BOOLEAN] /\ wcfg \in [Gens -> Configs \cup {NoConfig}]
    /\ sctx \in [Gens -> 0..MaxGen] /\ sclosed \in [Gens -> BOOLEAN]
    /\ buf \in [Gens -> BOOLEAN] /\ ruleEvents \in 0..MaxRuleEvents
    /\ rphase \in Phases /\ rcfg \in Configs \cup {NoConfig}
    /\ rerr \in ErrStates /\ rerrId \in ErrIds

(* logic/agent/control Init registers the agent enabled on the default    *)
(* config; initControllerCtx creates context 1; statusfsm.New starts in    *)
(* Ready and SetPhase(Ready) before any report is sent.                    *)
Init ==
    /\ info = [enable |-> TRUE, config |-> DefaultConfig]
    /\ status = NoStatus /\ pending = FALSE /\ ops = 0 /\ rpcFails = 0
    /\ scache = NoStatus /\ expiries = 0
    /\ evq = <<>> /\ fsm = "Ready" /\ stage = "idle" /\ dst = "Ready"
    /\ alive = TRUE /\ crashed = "none"
    /\ attached = FALSE /\ mapSet = FALSE
    /\ gen = 1 /\ cancelled = {} /\ initFails = 0
    /\ wup = [g \in Gens |-> FALSE] /\ wcfg = [g \in Gens |-> NoConfig]
    /\ sctx = [g \in Gens |-> 0] /\ sclosed = [g \in Gens |-> FALSE]
    /\ buf = [g \in Gens |-> FALSE] /\ ruleEvents = 0
    /\ rphase = "Ready" /\ rcfg = NoConfig /\ rerr = "none"
    /\ rerrId = 0

-----------------------------------------------------------------------------
(***************************************************************************)
(* Orchestrator.                                                           *)
(***************************************************************************)

(* Control.Enable / Control.SetConfig: read the info, return when nothing  *)
(* changes, else write it back; the informer event marks the key pending.  *)
SetEnable(b) ==
    /\ ops < MaxOps /\ info.enable # b
    /\ ops' = ops + 1
    /\ info' = [info EXCEPT !.enable = b]
    /\ pending' = TRUE
    /\ UNCHANGED <<status, rpcFails, scache, expiries, fsmVars, ctlVars,
                   watchVars, repVars>>

SetConfig(c) ==
    /\ ops < MaxOps /\ info.config # c
    /\ ops' = ops + 1
    /\ info' = [info EXCEPT !.config = c]
    /\ pending' = TRUE
    /\ UNCHANGED <<status, rpcFails, scache, expiries, fsmVars, ctlVars,
                   watchVars, repVars>>

(* Faulty variant of Decide: an enabled, Stopped agent is not started.     *)
DecideNoEnableStart(i, s) ==
    CASE ~i.enable ->
             IF s.phase # "Stopped" THEN "stop" ELSE "none"
      [] s.phase = "Ready" -> "start"
      [] s.phase = "Running" /\ s.config # i.config -> "reload"
      [] OTHER -> "none"

(* reconcile's policy, in the order of its if-chain.                       *)
Decide(i, s) ==
    CASE ~i.enable ->
             IF s.phase # "Stopped" THEN "stop" ELSE "none"
      [] s.phase = "Ready" \/ (i.enable /\ s.phase = "Stopped") -> "start"
      [] s.phase = "Running" /\ s.config # i.config -> "reload"
      [] OTHER -> "none"

(* Faulty variant of Sync: starts the agent with the reported config.     *)
SyncStatusConfig ==
    /\ pending
    /\ status # NoStatus => status.err # "fresh"
    /\ LET act == IF status = NoStatus THEN "none" ELSE Decide(info, status)
           e   == [act |-> act,
                   cfg |-> IF act = "stop" THEN NoConfig ELSE status.config]
       IN \/ /\ act = "none"
             /\ pending' = FALSE
             /\ UNCHANGED <<evq, rpcFails>>
          \/ /\ act # "none" /\ crashed = "none" /\ Len(evq) < MaxEvq
             /\ evq' = Append(evq, e)
             /\ pending' = FALSE
             /\ UNCHANGED rpcFails
          \/ /\ act # "none" /\ rpcFails < MaxRpcFails
             /\ rpcFails' = rpcFails + 1
             /\ UNCHANGED <<evq, pending>>
    /\ UNCHANGED <<info, status, ops, scache, expiries, fsm, stage, dst,
                   alive, crashed, ctlVars, watchVars, repVars>>

(* nodeController.SyncHandler for the agent's key. A missing status skips  *)
(* the key. A fresh error makes reconcile return "need retry" so the key   *)
(* stays queued (rate limited) until the retryAt is due. The RPC either    *)
(* reaches the agent, whose handler pushes the event, or fails and the key *)
(* is requeued; a crashed agent refuses every RPC.                         *)
Sync ==
    /\ pending
    /\ status # NoStatus => status.err # "fresh"
    /\ LET act == IF status = NoStatus THEN "none" ELSE Decide(info, status)
           e   == [act |-> act,
                   cfg |-> IF act = "stop" THEN NoConfig ELSE info.config]
       IN \/ /\ act = "none"
             /\ pending' = FALSE
             /\ UNCHANGED <<evq, rpcFails>>
          \/ /\ act # "none" /\ crashed = "none" /\ Len(evq) < MaxEvq
             /\ evq' = Append(evq, e)
             /\ pending' = FALSE
             /\ UNCHANGED rpcFails
          \/ /\ act # "none" /\ rpcFails < MaxRpcFails
             /\ rpcFails' = rpcFails + 1
             /\ UNCHANGED <<evq, pending>>
    /\ UNCHANGED <<info, status, ops, scache, expiries, fsm, stage, dst,
                   alive, crashed, ctlVars, watchVars, repVars>>

-----------------------------------------------------------------------------
(***************************************************************************)
(* Agent: status FSM and controller callbacks.                             *)
(***************************************************************************)

(* client.SetError: a new error whose retryAt is 5 s ahead. Its timestamp *)
(* differs from that of any error already reported, which errId records:  *)
(* it is an identity held neither by the stored status, nor by the cached *)
(* one, nor by the reporter's previous error.                              *)
SetError ==
    LET held == {x.errId : x \in {status, scache} \ {NoStatus}} \cup {rerrId}
    IN /\ rerr' = "fresh"
       /\ rerrId' = CHOOSE i \in ErrIds : i \notin held

(* c.wg.Add(1); go c.watchRules(configName): goroutine g starts.          *)
Spawn(g, c) ==
    /\ wup' = [wup EXCEPT ![g] = TRUE]
    /\ wcfg' = [wcfg EXCEPT ![g] = c]
    /\ UNCHANGED <<sctx, sclosed, buf, ruleEvents>>

(* looplab/fsm Event on an event with no transition from the current      *)
(* state returns InvalidEventError; run() reports it with SetError.        *)
FsmInvalid(e) ==
    /\ fsm \notin Src[e.act]
    /\ SetError
    /\ UNCHANGED <<fsm, stage, dst, alive, crashed, ctlVars, watchVars,
                   rphase, rcfg>>

(* Faulty variant of FsmStart: marks attached before ebpf.Init succeeds.  *)
FsmStartAttachEarly(e) ==
    /\ e.act = "start" /\ fsm \in Src.start /\ gen < MaxGen
    /\ cancelled' = cancelled \cup {gen}
    /\ gen' = gen + 1
    /\ attached' = TRUE
    /\ \/ /\ mapSet' = TRUE
          /\ Spawn(gen + 1, e.cfg)
          /\ rcfg' = e.cfg
          /\ stage' = "enter" /\ dst' = Dst.start
          /\ UNCHANGED <<initFails, rerr, rerrId>>
       \/ /\ ~mapSet /\ initFails < MaxInitFails
          /\ initFails' = initFails + 1
          /\ SetError
          /\ UNCHANGED <<mapSet, watchVars, rcfg, stage, dst>>
    /\ UNCHANGED <<fsm, alive, crashed, rphase>>

(* before_start = controller.Start: cancel the old context, make a new    *)
(* one, ebpf.Init when the map or program is nil, mark attached, spawn     *)
(* watchRules, and (deferred, on success) SetConfigName. On an Init error  *)
(* ErrorWrapper cancels the transition and run() calls SetError.          *)
FsmStart(e) ==
    /\ e.act = "start" /\ fsm \in Src.start /\ gen < MaxGen
    /\ cancelled' = cancelled \cup {gen}
    /\ gen' = gen + 1
    /\ \/ /\ mapSet' = TRUE /\ attached' = TRUE
          /\ Spawn(gen + 1, e.cfg)
          /\ rcfg' = e.cfg
          /\ stage' = "enter" /\ dst' = Dst.start
          /\ UNCHANGED <<initFails, rerr, rerrId>>
       \/ /\ ~mapSet /\ initFails < MaxInitFails
          /\ initFails' = initFails + 1
          /\ SetError
          /\ UNCHANGED <<mapSet, attached, watchVars, rcfg, stage, dst>>
    /\ UNCHANGED <<fsm, alive, crashed, rphase>>

(* before_stop = controller.Stop: nothing to do when not attached;        *)
(* otherwise cancel the context, close the program, clear the pinned maps *)
(* and set map and program to nil.                                         *)
FsmStop(e) ==
    /\ e.act = "stop" /\ fsm \in Src.stop
    /\ IF attached
          THEN /\ cancelled' = cancelled \cup {gen}
               /\ mapSet' = FALSE /\ attached' = FALSE
          ELSE UNCHANGED <<cancelled, mapSet, attached>>
    /\ stage' = "enter" /\ dst' = Dst.stop
    /\ UNCHANGED <<fsm, alive, crashed, gen, initFails, watchVars, repVars>>

(* Faulty variant of FsmReload: an ebpf.Init error is swallowed, so the   *)
(* callback succeeds with nothing attached.                                *)
FsmReloadSwallowInitError(e) ==
    /\ e.act = "reload" /\ fsm \in Src.reload
    /\ \/ /\ ~mapSet
          /\ crashed' = "nil_prog"
          /\ UNCHANGED <<alive, ctlVars, watchVars, repVars>>
       \/ /\ mapSet /\ gen < MaxGen
          /\ cancelled' = cancelled \cup {gen}
          /\ gen' = gen + 1
          /\ \/ /\ mapSet' = TRUE /\ attached' = TRUE
                /\ Spawn(gen + 1, e.cfg)
                /\ rcfg' = e.cfg
                /\ alive' = FALSE
                /\ UNCHANGED <<initFails, rerr, rerrId>>
             \/ /\ initFails < MaxInitFails
                /\ initFails' = initFails + 1
                /\ mapSet' = FALSE /\ attached' = FALSE
                /\ alive' = FALSE
                /\ UNCHANGED <<watchVars, rcfg, rerr, rerrId>>
          /\ UNCHANGED <<crashed, rphase>>
    /\ UNCHANGED <<fsm, stage, dst>>

(* before_reload = controller.Reload: when attached, detach and close;     *)
(* cancel the context; close the program again (a nil program panics);    *)
(* clear the maps; new context; ebpf.Init; spawn watchRules and set the    *)
(* config name. On success looplab/fsm returns NoTransitionError for the   *)
(* Running -> Running transition and run() returns. On an Init error the   *)
(* transition is cancelled and SetError reported, map and program nil.     *)
FsmReload(e) ==
    /\ e.act = "reload" /\ fsm \in Src.reload
    /\ \/ /\ ~mapSet
          /\ crashed' = "nil_prog"
          /\ UNCHANGED <<alive, ctlVars, watchVars, repVars>>
       \/ /\ mapSet /\ gen < MaxGen
          /\ cancelled' = cancelled \cup {gen}
          /\ gen' = gen + 1
          /\ \/ /\ mapSet' = TRUE /\ attached' = TRUE
                /\ Spawn(gen + 1, e.cfg)
                /\ rcfg' = e.cfg
                /\ alive' = FALSE
                /\ UNCHANGED <<initFails, rerr, rerrId>>
             \/ /\ initFails < MaxInitFails
                /\ initFails' = initFails + 1
                /\ mapSet' = FALSE /\ attached' = FALSE
                /\ SetError
                /\ UNCHANGED <<alive, watchVars, rcfg>>
          /\ UNCHANGED <<crashed, rphase>>
    /\ UNCHANGED <<fsm, stage, dst>>

(* StatusFSM.run: pop the next event and fire it on the fsm.              *)
FsmEvent ==
    /\ alive /\ crashed = "none" /\ stage = "idle" /\ evq # <<>>
    /\ evq' = Tail(evq)
    /\ LET e == Head(evq) IN
          FsmInvalid(e) \/ FsmStart(e) \/ FsmStop(e) \/ FsmReload(e)
    /\ UNCHANGED orchVars

(* The transition completes: the state changes and enter_state calls      *)
(* SetPhase(dst), which also clears the error when dst is Running.         *)
FsmEnter ==
    /\ stage = "enter" /\ crashed = "none"
    /\ fsm' = dst /\ stage' = "idle"
    /\ rphase' = dst
    /\ rerr' = IF dst = "Running" THEN "none" ELSE rerr
    /\ rerrId' = IF dst = "Running" THEN 0 ELSE rerrId
    /\ UNCHANGED <<orchVars, evq, dst, alive, crashed, ctlVars, watchVars,
                   rcfg>>

-----------------------------------------------------------------------------
(***************************************************************************)
(* Agent: watchRules goroutine g (spawned with context generation g) and  *)
(* its inner GetRule goroutine.                                            *)
(***************************************************************************)

(* The inner goroutine calls c.client.GetRule(c.ctx, ...): it reads the    *)
(* field when it runs, which may already hold a later context.             *)
StreamOpen(g) ==
    /\ wup[g] /\ sctx[g] = 0 /\ crashed = "none"
    /\ sctx' = [sctx EXCEPT ![g] = gen]
    /\ UNCHANGED <<orchVars, fsmVars, ctlVars, wup, wcfg, sclosed, buf,
                   ruleEvents, repVars>>

(* The orchestrator streams a rule event for the config; GetRule forwards *)
(* it into ruleChan while its context is live.                             *)
StreamRecv(g) ==
    /\ wup[g] /\ sctx[g] # 0 /\ sctx[g] \notin cancelled /\ ~sclosed[g]
    /\ ~buf[g] /\ ruleEvents < MaxRuleEvents /\ crashed = "none"
    /\ buf' = [buf EXCEPT ![g] = TRUE]
    /\ ruleEvents' = ruleEvents + 1
    /\ UNCHANGED <<orchVars, fsmVars, ctlVars, wup, wcfg, sctx, sclosed,
                   repVars>>

(* Once its context is cancelled Recv fails, GetRule returns and the inner *)
(* goroutine closes ruleChan.                                              *)
StreamEnd(g) ==
    /\ sctx[g] \in cancelled /\ ~sclosed[g] /\ crashed = "none"
    /\ sclosed' = [sclosed EXCEPT ![g] = TRUE]
    /\ UNCHANGED <<orchVars, fsmVars, ctlVars, wup, wcfg, sctx, buf,
                   ruleEvents, repVars>>

(* watchRules' select takes a buffered event: handleRuleEvent writes it    *)
(* through c.xdpMap without the mutex, a nil pointer after Stop/Reload.    *)
WatcherHandle(g) ==
    /\ wup[g] /\ buf[g] /\ crashed = "none"
    /\ buf' = [buf EXCEPT ![g] = FALSE]
    /\ crashed' = IF mapSet THEN crashed ELSE "nil_map"
    /\ UNCHANGED <<orchVars, evq, fsm, stage, dst, alive, ctlVars, wup,
                   wcfg, sctx, sclosed, ruleEvents, repVars>>

(* watchRules returns when ruleChan is closed and drained, or when the     *)
(* context now in c.ctx is done.                                           *)
WatcherExit(g) ==
    /\ wup[g] /\ crashed = "none"
    /\ (sclosed[g] /\ ~buf[g]) \/ gen \in cancelled
    /\ wup' = [wup EXCEPT ![g] = FALSE]
    /\ UNCHANGED <<orchVars, fsmVars, ctlVars, wcfg, sctx, sclosed, buf,
                   ruleEvents, repVars>>

WatcherStep(g) ==
    StreamOpen(g) \/ StreamRecv(g) \/ StreamEnd(g) \/ WatcherHandle(g)
    \/ WatcherExit(g)

-----------------------------------------------------------------------------
(***************************************************************************)
(* Agent reporter, and time.                                               *)
(***************************************************************************)

(* StatusStorage.Update: Renew keeps the cached key's lease or, when it   *)
(* has expired, grants a new one (the lease identity is not modelled); the *)
(* Put is skipped when the value equals the one in the status CacheStore, *)
(* which may lag behind etcd.                                              *)
StatusUpdate(s) ==
    /\ s # scache
    /\ status' = s

(* reporter.tryReport uploads its fields through StatusStorage.Update. A  *)
(* Put marks the node key pending through the informer.                   *)
Report ==
    /\ crashed = "none"
    /\ StatusUpdate([phase |-> rphase, config |-> rcfg, err |-> rerr,
                     errId |-> rerrId])
    /\ pending' = TRUE
    /\ UNCHANGED <<info, ops, rpcFails, scache, expiries, fsmVars, ctlVars,
                   watchVars, repVars>>

(* Faulty variant of CacheSync: the cache never learns of a deleted key,   *)
(* as if leaseConvert's store ignored delete events.                       *)
CacheSyncNoDelete ==
    /\ scache # status /\ status # NoStatus
    /\ scache' = status
    /\ UNCHANGED <<info, status, pending, ops, rpcFails, expiries, fsmVars,
                   ctlVars, watchVars, repVars>>

(* The status CacheStore's reflector delivers the key's current value, or *)
(* its deletion, to the cache.                                             *)
CacheSync ==
    /\ scache # status
    /\ scache' = status
    /\ UNCHANGED <<info, status, pending, ops, rpcFails, expiries, fsmVars,
                   ctlVars, watchVars, repVars>>

(* The status key's 30 s lease runs out before a report renews it (the    *)
(* agent or the network stalls): etcd deletes the key, and the informer   *)
(* event marks the node key pending.                                       *)
LeaseExpire ==
    /\ status # NoStatus /\ expiries < MaxLeaseExpiries
    /\ status' = NoStatus
    /\ expiries' = expiries + 1
    /\ pending' = TRUE
    /\ UNCHANGED <<info, ops, rpcFails, scache, fsmVars, ctlVars, watchVars,
                   repVars>>

(* Time passes the retryAt of every reported error, wherever it is held.  *)
Due(s) == IF s # NoStatus /\ s.err = "fresh" THEN [s EXCEPT !.err = "due"]
                                             ELSE s

TimePasses ==
    /\ rerr = "fresh" \/ status # Due(status) \/ scache # Due(scache)
    /\ rerr' = IF rerr = "fresh" THEN "due" ELSE rerr
    /\ status' = Due(status)
    /\ scache' = Due(scache)
    /\ UNCHANGED <<info, pending, ops, rpcFails, expiries, fsmVars, ctlVars,
                   watchVars, rphase, rcfg, rerrId>>

Next ==
    \/ \E b \in BOOLEAN : SetEnable(b)
    \/ \E c \in Configs : SetConfig(c)
    \/ Sync
    \/ FsmEvent \/ FsmEnter
    \/ \E g \in Gens : WatcherStep(g)
    \/ Report \/ CacheSync \/ LeaseExpire
    \/ TimePasses

(* The controller worker, the FSM goroutine, every watchRules goroutine   *)
(* and its inner goroutine, and the reporter's timer keep running; time    *)
(* keeps passing; the status cache's reflector keeps delivering. Operator *)
(* calls, rule events and lease expiries need not happen.                  *)
Fairness ==
    /\ WF_vars(Sync)
    /\ WF_vars(FsmEvent) /\ WF_vars(FsmEnter)
    /\ \A g \in Gens : /\ WF_vars(StreamOpen(g)) /\ WF_vars(StreamEnd(g))
                      /\ WF_vars(WatcherHandle(g) \/ WatcherExit(g))
    /\ WF_vars(Report) /\ WF_vars(CacheSync)
    /\ WF_vars(TimePasses)

Spec == Init /\ [][Next]_vars /\ Fairness

-----------------------------------------------------------------------------
(***************************************************************************)
(* Properties.                                                             *)
(***************************************************************************)

(* The reported status shows what the info asks for: Running the desired  *)
(* config when enabled, Stopped when disabled.                             *)
Converged ==
    /\ status # NoStatus
    /\ IF info.enable
          THEN status.phase = "Running" /\ status.config = info.config
          ELSE status.phase = "Stopped"

(* Once the operator stops changing the info, the node controller's       *)
(* start/stop/reload RPCs and the agent's FSM bring the reported status    *)
(* to the desired one and keep it there (spec 4.11, scenario 2).           *)
Converges == <>[]Converged

(* When the agent is settled in Running and reports no error, its XDP map *)
(* and program are loaded: a failed Start or Reload callback must surface  *)
(* as an error rather than as a clean Running (controller.Start/Reload,    *)
(* ErrorWrapper, StatusFSM.run's SetError, SetPhase clearing the error).   *)
RunningIsAttached ==
    (fsm = "Running" /\ stage = "idle" /\ rerr = "none" /\ crashed = "none")
        => attached /\ mapSet

(* An agent settled in Ready or Stopped holds no XDP map or program: Stop  *)
(* releases them and a failed Start does not leave them behind.            *)
DetachedUnlessRunning ==
    (fsm # "Running" /\ stage = "idle") => ~mapSet /\ ~attached

(* Every event the FSM worker pops is eventually followed by the queue    *)
(* draining: run() keeps serving events, a self-transition (reload) being *)
(* treated as success (spec 4.13 and 8, "reload while Running").           *)
QueuedEventHandled ==
    (evq # <<>>) ~> (evq = <<>> \/ crashed # "none")

(* The agent's controller never panics on a nil pointer: handleRuleEvent *)
(* never writes through the xdpMap that Stop or Reload set to nil while   *)
(* an old watchRules goroutine still runs, and Reload never closes the    *)
(* xdpProg that a failed Reload left nil while the FSM stays Running.     *)
NoControllerPanic == crashed = "none"

=============================================================================

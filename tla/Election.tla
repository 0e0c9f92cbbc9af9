------------------------------ MODULE Election ------------------------------
(***************************************************************************)
(* Leader election among orchestrators and the controller it gates.        *)
(*                                                                         *)
(* Each orchestrator runs runController (orch/cmd/server/leader.go): it    *)
(* creates an Election (pkg/election) on one etcd session, subscribes to  *)
(* its pubsub, starts Campaign once, and its main loop turns BecomeLeader  *)
(* into SingleInstance.Run of the controller. Campaign's goroutine runs    *)
(* etcd's concurrency.Election.Campaign (a Txn putting the node's key      *)
(* under the session lease, then waitDeletes for every older key) and     *)
(* its deferred afterCamp marks the node leader and publishes              *)
(* BecomeLeader. The observer goroutine publishes LeaderChanged when the  *)
(* leader key names another node. PubSub.Publish never blocks: a message  *)
(* to a subscriber not waiting on its unbuffered channel is dropped.       *)
(*                                                                         *)
(* etcd's election prefix is modelled by each node's key revision and     *)
(* whether its session lease is alive; the leader is the live key with    *)
(* the lowest revision. A node may stop (crash or shutdown: the key stays  *)
(* until its lease expires, since neither Resign, which runs with an       *)
(* already cancelled context, nor session Close removes it), and a live    *)
(* node's lease may expire (network partition, long pause).                *)
(***************************************************************************)
EXTENDS Naturals, FiniteSets

CONSTANTS
    Nodes,            \* orchestrators
    NoNode,           \* no leader observed yet
    MaxDown,          \* bound on orchestrators that stop
    MaxLiveExpiries,  \* bound on leases of running orchestrators expiring
    MaxCampErrors     \* bound on etcd errors inside Campaign

ASSUME NoNode \notin Nodes

Msgs == {"become_leader", "leader_changed"}
NoMsg == "none"
CampPhases == {"start", "txn", "wait", "after", "done"}

VARIABLES
    up,        \* the orchestrator process is running
    sess,      \* its etcd session lease: "alive" or "expired"
    keyRev,    \* create revision of its election key, 0 before the Txn
    nextRev,   \* etcd's next revision
    cphase,    \* where its Campaign call and goroutine are
    camp,      \* Election.isCampaining
    leader,    \* Election.isLeader
    obs,       \* the leader its observer goroutine last saw
    loop,      \* runController's main loop: "select" or "busy"
    msg,       \* the message the main loop is handling
    running,   \* SingleInstance.load: its controller instance runs
    downs, liveExp, campErrs

vars == <<up, sess, keyRev, nextRev, cphase, camp, leader, obs, loop, msg,
          running, downs, liveExp, campErrs>>

TypeOk ==
    /\ up \in [Nodes -> BOOLEAN]
    /\ sess \in [Nodes -> {"alive", "expired"}]
    /\ keyRev \in [Nodes -> Nat] /\ nextRev \in Nat \ {0}
    /\ cphase \in [Nodes -> CampPhases]
    /\ camp \in [Nodes -> BOOLEAN] /\ leader \in [Nodes -> BOOLEAN]
    /\ obs \in [Nodes -> Nodes \cup {NoNode}]
    /\ loop \in [Nodes -> {"select", "busy"}]
    /\ msg \in [Nodes -> Msgs \cup {NoMsg}]
    /\ running \in [Nodes -> BOOLEAN]
    /\ downs \in 0..MaxDown /\ liveExp \in 0..MaxLiveExpiries
    /\ campErrs \in 0..MaxCampErrors

(* A node's election key exists from its Txn until its lease expires.      *)
HasKey(n) == keyRev[n] > 0 /\ sess[n] = "alive"

(* The leader key: the live key with the lowest create revision.          *)
EtcdLeader ==
    IF \E n \in Nodes : HasKey(n)
       THEN CHOOSE n \in Nodes :
                HasKey(n) /\ \A m \in Nodes : HasKey(m) => keyRev[n] <= keyRev[m]
       ELSE NoNode

(* runController up to the Campaign goroutine: New session, observer      *)
(* started, "controller" subscribed, main loop waiting.                    *)
Init ==
    /\ up = [n \in Nodes |-> TRUE]
    /\ sess = [n \in Nodes |-> "alive"]
    /\ keyRev = [n \in Nodes |-> 0] /\ nextRev = 1
    /\ cphase = [n \in Nodes |-> "start"]
    /\ camp = [n \in Nodes |-> FALSE] /\ leader = [n \in Nodes |-> FALSE]
    /\ obs = [n \in Nodes |-> NoNode]
    /\ loop = [n \in Nodes |-> "select"] /\ msg = [n \in Nodes |-> NoMsg]
    /\ running = [n \in Nodes |-> FALSE]
    /\ downs = 0 /\ liveExp = 0 /\ campErrs = 0

(* PubSub.Publish to node n's only subscriber, its main loop: handed over *)
(* when the loop waits in select, otherwise dropped by the default case.  *)
Publish(n, m) ==
    IF loop[n] = "select"
       THEN /\ loop' = [loop EXCEPT ![n] = "busy"]
            /\ msg' = [msg EXCEPT ![n] = m]
       ELSE UNCHANGED <<loop, msg>>

(* Election.Campaign, run once by "go elec.Campaign()": it returns when    *)
(* already leader or campaigning (never so on this single call), else     *)
(* marks campaigning and starts the campaign goroutine.                    *)
Campaign(n) ==
    /\ up[n] /\ cphase[n] = "start"
    /\ ~leader[n] /\ ~camp[n]
    /\ camp' = [camp EXCEPT ![n] = TRUE]
    /\ cphase' = [cphase EXCEPT ![n] = "txn"]
    /\ UNCHANGED <<up, sess, keyRev, nextRev, leader, obs, loop, msg, running,
                   downs, liveExp, campErrs>>

(* The Txn of concurrency.Election.Campaign: put the node's key under its  *)
(* lease. It fails when etcd is unreachable or the lease has expired;      *)
(* either error ends Campaign, and the deferred afterCamp still runs.     *)
CampTxn(n) ==
    /\ up[n] /\ cphase[n] = "txn"
    /\ \/ /\ sess[n] = "alive"
          /\ keyRev' = [keyRev EXCEPT ![n] = nextRev]
          /\ nextRev' = nextRev + 1
          /\ cphase' = [cphase EXCEPT ![n] = "wait"]
          /\ UNCHANGED campErrs
       \/ /\ sess[n] = "expired"
          /\ cphase' = [cphase EXCEPT ![n] = "after"]
          /\ UNCHANGED <<keyRev, nextRev, campErrs>>
       \/ /\ campErrs < MaxCampErrors
          /\ campErrs' = campErrs + 1
          /\ cphase' = [cphase EXCEPT ![n] = "after"]
          /\ UNCHANGED <<keyRev, nextRev>>
    /\ UNCHANGED <<up, sess, camp, leader, obs, loop, msg, running, downs,
                   liveExp>>

(* waitDeletes: Campaign returns nil once no live key is older than the   *)
(* node's own, whether or not its own key still exists; a failed watch    *)
(* returns an error. Either way the deferred afterCamp runs next.         *)
CampWait(n) ==
    /\ up[n] /\ cphase[n] = "wait"
    /\ \/ /\ \A m \in Nodes : HasKey(m) => keyRev[m] >= keyRev[n]
          /\ UNCHANGED campErrs
       \/ /\ campErrs < MaxCampErrors
          /\ campErrs' = campErrs + 1
    /\ cphase' = [cphase EXCEPT ![n] = "after"]
    /\ UNCHANGED <<up, sess, keyRev, nextRev, camp, leader, obs, loop, msg,
                   running, downs, liveExp>>

(* afterCamp, deferred by the Campaign goroutine: whatever Campaign        *)
(* returned, the node becomes leader and publishes BecomeLeader.          *)
AfterCamp(n) ==
    /\ up[n] /\ cphase[n] = "after"
    /\ leader' = [leader EXCEPT ![n] = TRUE]
    /\ camp' = [camp EXCEPT ![n] = FALSE]
    /\ Publish(n, "become_leader")
    /\ cphase' = [cphase EXCEPT ![n] = "done"]
    /\ UNCHANGED <<up, sess, keyRev, nextRev, obs, running, downs, liveExp,
                   campErrs>>

(* The observer goroutine receives the new leader key from Observe; a key *)
(* holding the node's own value is skipped, another's is published as     *)
(* LeaderChanged.                                                          *)
Observe(n) ==
    /\ up[n]
    /\ EtcdLeader # NoNode /\ EtcdLeader # obs[n]
    /\ obs' = [obs EXCEPT ![n] = EtcdLeader]
    /\ IF EtcdLeader = n THEN UNCHANGED <<loop, msg>>
                        ELSE Publish(n, "leader_changed")
    /\ UNCHANGED <<up, sess, keyRev, nextRev, cphase, camp, leader, running,
                   downs, liveExp, campErrs>>

(* One iteration of runController's main loop on a received message:      *)
(* BecomeLeader runs the controller through SingleInstance.Run (a no-op   *)
(* when load is set), LeaderChanged is only logged. LoseLeader is never   *)
(* published: Resign only runs after the loop has exited.                  *)
Handle(n) ==
    /\ up[n] /\ loop[n] = "busy"
    /\ running' = IF msg[n] = "become_leader"
                     THEN [running EXCEPT ![n] = TRUE] ELSE running
    /\ loop' = [loop EXCEPT ![n] = "select"]
    /\ msg' = [msg EXCEPT ![n] = NoMsg]
    /\ UNCHANGED <<up, sess, keyRev, nextRev, cphase, camp, leader, obs,
                   downs, liveExp, campErrs>>

(* The orchestrator stops, by a crash or by ctx.Done in the main loop.    *)
(* Shutdown stops the controller (ws.Stop); Resign(false) fails on the    *)
(* cancelled e.ctx and the session is never closed, so the key stays     *)
(* until its lease expires.                                                *)
Stop(n) ==
    /\ up[n] /\ downs < MaxDown
    /\ up' = [up EXCEPT ![n] = FALSE]
    /\ running' = [running EXCEPT ![n] = FALSE]
    /\ downs' = downs + 1
    /\ UNCHANGED <<sess, keyRev, nextRev, cphase, camp, leader, obs, loop, msg,
                   liveExp, campErrs>>

(* The lease of a stopped orchestrator expires after its TTL.             *)
DownLeaseExpire(n) ==
    /\ ~up[n] /\ sess[n] = "alive"
    /\ sess' = [sess EXCEPT ![n] = "expired"]
    /\ UNCHANGED <<up, keyRev, nextRev, cphase, camp, leader, obs, loop, msg,
                   running, downs, liveExp, campErrs>>

(* The lease of a running orchestrator expires: keepalives did not reach  *)
(* etcd within the TTL. Nothing in the orchestrator watches session.Done. *)
LiveLeaseExpire(n) ==
    /\ up[n] /\ sess[n] = "alive" /\ liveExp < MaxLiveExpiries
    /\ sess' = [sess EXCEPT ![n] = "expired"]
    /\ liveExp' = liveExp + 1
    /\ UNCHANGED <<up, keyRev, nextRev, cphase, camp, leader, obs, loop, msg,
                   running, downs, campErrs>>

Next ==
    \E n \in Nodes :
        \/ Campaign(n) \/ CampTxn(n) \/ CampWait(n) \/ AfterCamp(n)
        \/ Observe(n) \/ Handle(n)
        \/ Stop(n) \/ DownLeaseExpire(n) \/ LiveLeaseExpire(n)

(* Every goroutine of a running orchestrator keeps being scheduled, and   *)
(* etcd expires the lease of a stopped one. Stops and expiries of live    *)
(* leases are faults and get no fairness.                                  *)
Fairness ==
    \A n \in Nodes :
        /\ WF_vars(Campaign(n)) /\ WF_vars(CampTxn(n)) /\ WF_vars(CampWait(n))
        /\ WF_vars(AfterCamp(n)) /\ WF_vars(Observe(n)) /\ WF_vars(Handle(n))
        /\ WF_vars(DownLeaseExpire(n))

Spec == Init /\ [][Next]_vars /\ Fairness

-----------------------------------------------------------------------------
(* Spec invariant 6: at most one orchestrator runs the controllers.       *)
AtMostOneController == Cardinality({n \in Nodes : running[n]}) <= 1

(* Whenever a running orchestrator holds the leader key, some             *)
(* orchestrator eventually runs the controllers.                           *)
LeaderKeyServed ==
    (\E n \in Nodes : up[n] /\ EtcdLeader = n) ~> (\E n \in Nodes : running[n])
=============================================================================

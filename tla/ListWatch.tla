----------------------------- MODULE ListWatch -----------------------------
(***************************************************************************)
(* The list-watch cache of src/pkg/informer over src/pkg/etcd:             *)
(* Reflectors list a prefix of the KV store and then watch it, feeding one *)
(* shared DeltaFIFO (delta_fifo.go) that the informer's processLoop pops   *)
(* into its ThreadSafeStore (informer.go, thread_safe_store.go).           *)
(*                                                                         *)
(*  - kv, hist: the KV store. hist[r] is the write that produced revision  *)
(*    r (every Put or Delete is one revision), so rev = Len(hist).         *)
(*    Revision 1 is the bootstrap revision of the cluster.                 *)
(*  - rphase, lastSync, wnext, listRev: per reflector, where ListAndWatch *)
(*    is, its lastSyncResourceVersion, the next revision its open watch    *)
(*    will deliver (a watch WithRev(x) delivers revisions x, x+1, ...),    *)
(*    and the Revision its list returned, held from Replace to SyncDone.   *)
(*  - fqueue, fitems, populated, waitInitNum, initCount: the DeltaFIFO     *)
(*    fields queue, items, populated, waitInitNum, initialPopulationCount. *)
(*  - store, storeRev: the informer's cacheStore, and the revision of the  *)
(*    write each cached value came from.                                   *)
(* A watch response is abstracted to one event, so its Header.Revision is *)
(* the event's revision. Lists fit in one page (the pager's page is 500).  *)
(***************************************************************************)
EXTENDS Naturals, Sequences, SequencesExt, FiniteSets

CONSTANTS
    Reflectors,   \* reflectors sharing the DeltaFIFO
    KeysOf,       \* KeysOf[r]: the keys under reflector r's prefix
    Values,       \* values a key can hold
    Absent,       \* no value: key not present
    NoKey,        \* the key of the bootstrap revision (outside every prefix)
    MaxWrites,    \* bound on Put/Delete calls of the KV store's clients
    MaxBreaks     \* bound on watch streams that end (error, EOF, timeout)

Keys == UNION {KeysOf[r] : r \in Reflectors}

ASSUME /\ \A r, s \in Reflectors : r # s => KeysOf[r] \cap KeysOf[s] = {}
       /\ Absent \notin Values /\ NoKey \notin Keys
       /\ MaxWrites \in Nat /\ MaxBreaks \in Nat

VARIABLES kv, hist, rphase, lastSync, wnext, listRev,
          fqueue, fitems, populated, waitInitNum, initCount,
          store, storeRev, writes, breaks

etcdVars == <<kv, hist>>
reflVars == <<rphase, lastSync, wnext, listRev>>
fifoVars == <<fqueue, fitems, populated, waitInitNum, initCount>>
vars == <<kv, hist, rphase, lastSync, wnext, listRev, fqueue, fitems, populated,
          waitInitNum, initCount, store, storeRev, writes, breaks>>

rev == Len(hist)

Delta == [type : {"Sync", "Updated", "Deleted"},
          val : Values \cup {Absent}, rev : Nat]

Phases == {"list", "syncdone", "watch", "watching"}

TypeOk ==
    /\ kv \in [Keys -> Values \cup {Absent}]
    /\ hist \in Seq([key : Keys \cup {NoKey}, val : Values \cup {Absent}])
    /\ rphase \in [Reflectors -> Phases]
    /\ lastSync \in [Reflectors -> Nat]
    /\ wnext \in [Reflectors -> Nat] /\ listRev \in [Reflectors -> Nat]
    /\ fqueue \in Seq(Keys)
    /\ fitems \in [Keys -> Seq(Delta)]
    /\ populated \in BOOLEAN
    /\ waitInitNum \in 0..Cardinality(Reflectors) /\ initCount \in Nat
    /\ store \in [Keys -> Values \cup {Absent}]
    /\ storeRev \in [Keys -> Nat]
    /\ writes \in 0..MaxWrites /\ breaks \in 0..MaxBreaks

(* leader.go newController: NewDeltaFIFOWithWait(len(reflectors)).        *)
Init ==
    /\ kv = [k \in Keys |-> Absent]
    /\ hist = <<[key |-> NoKey, val |-> Absent]>>
    /\ rphase = [r \in Reflectors |-> "list"]
    /\ lastSync = [r \in Reflectors |-> 0]
    /\ wnext = [r \in Reflectors |-> 0] /\ listRev = [r \in Reflectors |-> 0]
    /\ fqueue = <<>>
    /\ fitems = [k \in Keys |-> <<>>]
    /\ populated = FALSE
    /\ waitInitNum = Cardinality(Reflectors)
    /\ initCount = 0
    /\ store = [k \in Keys |-> Absent]
    /\ storeRev = [k \in Keys |-> 0]
    /\ writes = 0 /\ breaks = 0

(* The revision of the last write of k at or before revision r.            *)
ModRev(k, r) ==
    LET rs == {i \in 1..r : hist[i].key = k}
    IN IF rs = {} THEN 0 ELSE CHOOSE i \in rs : \A j \in rs : j <= i

-----------------------------------------------------------------------------
(* KV store clients (orch storage and logic layers): one Put or Delete per *)
(* revision.                                                               *)
Write(k, v) ==
    /\ writes < MaxWrites
    /\ v # Absent \/ kv[k] # Absent
    /\ kv' = [kv EXCEPT ![k] = v]
    /\ hist' = Append(hist, [key |-> k, val |-> v])
    /\ writes' = writes + 1
    /\ UNCHANGED <<reflVars, fifoVars, store, storeRev, breaks>>

-----------------------------------------------------------------------------
(* DeltaFIFO.queueActionLocked with dedupDeltas: a Deleted delta after a   *)
(* Deleted delta is dropped (isDeletionDup keeps the older one, as no      *)
(* DeletedFinalStateUnknown is ever queued); a key's first delta queues it.*)
QueueAction(q, items, k, d) ==
    LET old == items[k]
        dup == old # <<>> /\ Last(old).type = "Deleted" /\ d.type = "Deleted"
    IN [queue |-> IF old = <<>> THEN Append(q, k) ELSE q,
        items |-> IF dup THEN items ELSE [items EXCEPT ![k] = Append(old, d)]]

RECURSIVE QueueAll(_, _, _, _)
(* Replace's loop: a Sync delta for each listed key, in key order.         *)
QueueAll(q, items, ks, f) ==
    IF ks = {} THEN [queue |-> q, items |-> items]
    ELSE LET k == CHOOSE x \in ks : TRUE
             s == QueueAction(q, items, k, f[k])
         IN QueueAll(s.queue, s.items, ks \ {k}, f)

-----------------------------------------------------------------------------
(* Reflector.list + syncWith's Replace: pager.List reads the prefix at the *)
(* latest revision (relistResourceVersion is 0 before the first sync) in   *)
(* one page. client.List sets Revision only when the prefix is empty       *)
(* (countResp.Count == 0); the other return leaves it 0. DeltaFIFO.Replace *)
(* queues a Sync delta per listed key; its deletion detection never runs   *)
(* (keys[k] == struct{}{} holds for every k); only the first Replace sets  *)
(* initialPopulationCount.                                                 *)
List(r) ==
    /\ rphase[r] = "list"
    /\ LET listed == {k \in KeysOf[r] : kv[k] # Absent}
           sync   == [k \in listed |->
                        [type |-> "Sync", val |-> kv[k], rev |-> ModRev(k, rev)]]
           s      == QueueAll(fqueue, fitems, listed, sync)
       IN /\ fqueue' = s.queue
          /\ fitems' = s.items
          /\ populated' = TRUE
          /\ initCount' = IF populated THEN initCount ELSE Cardinality(listed)
          /\ listRev' = [listRev EXCEPT ![r] = IF listed = {} THEN rev ELSE 0]
    /\ rphase' = [rphase EXCEPT ![r] = "syncdone"]
    /\ UNCHANGED <<etcdVars, lastSync, wnext, waitInitNum, store, storeRev,
                   writes, breaks>>

(* syncWith's store.SyncDone, then list's setLastSyncResourceVersion.      *)
SyncDone(r) ==
    /\ rphase[r] = "syncdone"
    /\ waitInitNum' = waitInitNum - 1
    /\ lastSync' = [lastSync EXCEPT ![r] = listRev[r]]
    /\ rphase' = [rphase EXCEPT ![r] = "watch"]
    /\ UNCHANGED <<etcdVars, wnext, listRev, fqueue, fitems, populated,
                   initCount, store, storeRev, writes, breaks>>

(* rewatchResourceVersion (and relistResourceVersion): the reflector's    *)
(* lastSyncResourceVersion, as isLastSyncResourceVersionUnavailable is     *)
(* only ever set to false.                                                 *)
RewatchResourceVersion(r) == lastSync[r]

(* Reflector.watch opens a watch from rewatchResourceVersion; client.Watch *)
(* adds WithRev only when it is not 0, so 0 watches from the revision      *)
(* after the current one.                                                  *)
WatchStart(r) ==
    /\ rphase[r] = "watch"
    /\ wnext' = [wnext EXCEPT ![r] =
                    IF RewatchResourceVersion(r) = 0 THEN rev + 1
                                                     ELSE RewatchResourceVersion(r)]
    /\ rphase' = [rphase EXCEPT ![r] = "watching"]
    /\ UNCHANGED <<etcdVars, lastSync, listRev, fifoVars, store, storeRev,
                   writes, breaks>>

(* The next revision at or after wnext[r] that touches r's prefix.         *)
NextEvent(r) ==
    LET rs == {i \in wnext[r]..rev : hist[i].key \in KeysOf[r]}
    IN IF rs = {} THEN 0 ELSE CHOOSE i \in rs : \A j \in rs : i <= j

(* Faulty variant of Deliver: does not record the event's revision, so a *)
(* new watch resumes from the list revision.                               *)
DeliverNoResync(r) ==
    /\ rphase[r] = "watching"
    /\ NextEvent(r) # 0
    /\ LET i == NextEvent(r)
           e == hist[i]
           d == [type |-> IF e.val = Absent THEN "Deleted" ELSE "Updated",
                 val |-> e.val, rev |-> i]
           s == QueueAction(fqueue, fitems, e.key, d)
       IN /\ fqueue' = s.queue
          /\ fitems' = s.items
          /\ populated' = TRUE
          /\ wnext' = [wnext EXCEPT ![r] = i + 1]
    /\ UNCHANGED <<etcdVars, rphase, lastSync, listRev, waitInitNum,
                   initCount, store, storeRev, writes, breaks>>

(* handleWatch: a Put becomes DeltaFIFO.Update, a Delete becomes           *)
(* DeltaFIFO.Delete with a nil object; then setLastSyncResourceVersion to  *)
(* the response's revision.                                                *)
Deliver(r) ==
    /\ rphase[r] = "watching"
    /\ NextEvent(r) # 0
    /\ LET i == NextEvent(r)
           e == hist[i]
           d == [type |-> IF e.val = Absent THEN "Deleted" ELSE "Updated",
                 val |-> e.val, rev |-> i]
           s == QueueAction(fqueue, fitems, e.key, d)
       IN /\ fqueue' = s.queue
          /\ fitems' = s.items
          /\ populated' = TRUE
          /\ lastSync' = [lastSync EXCEPT ![r] = i]
          /\ wnext' = [wnext EXCEPT ![r] = i + 1]
    /\ UNCHANGED <<etcdVars, rphase, listRev, waitInitNum, initCount, store,
                   storeRev, writes, breaks>>

(* The watch ends (an Error event, the channel closing, a short watch):    *)
(* handleWatch returns, watch() stops it and loops to open a new watch; it *)
(* never goes back to list.                                                *)
WatchEnd(r) ==
    /\ rphase[r] = "watching"
    /\ breaks < MaxBreaks
    /\ breaks' = breaks + 1
    /\ rphase' = [rphase EXCEPT ![r] = "watch"]
    /\ UNCHANGED <<etcdVars, lastSync, wnext, listRev, fifoVars, store,
                   storeRev, writes>>

-----------------------------------------------------------------------------
HasSynced == populated /\ waitInitNum = 0 /\ initCount = 0

(* One delta applied to a cached value by processDeltas: Sync, Added and   *)
(* Updated store the object (cacheStore.Add or Update), Deleted removes   *)
(* the key (cacheStore.Delete).                                            *)
ApplyDelta(v, d) == IF d.type = "Deleted" THEN Absent ELSE d.val

(* processDeltas: the deltas of one key applied from oldest to newest.    *)
ProcessDeltas(v, ds) == FoldLeft(ApplyDelta, v, ds)

(* Faulty variant of Pop: counts down initialPopulationCount unguarded.  *)
PopUnguardedCount ==
    /\ fqueue # <<>>
    /\ LET k  == Head(fqueue)
           ds == fitems[k]
       IN /\ fqueue' = Tail(fqueue)
          /\ fitems' = [fitems EXCEPT ![k] = <<>>]
          /\ store' = [store EXCEPT ![k] = ProcessDeltas(store[k], ds)]
          /\ storeRev' = [storeRev EXCEPT ![k] = Last(ds).rev]
    /\ initCount' = initCount - 1
    /\ UNCHANGED <<etcdVars, reflVars, populated, waitInitNum, writes, breaks>>

(* Faulty variant of Pop: does not count down initialPopulationCount.    *)
PopNoCount ==
    /\ fqueue # <<>>
    /\ LET k  == Head(fqueue)
           ds == fitems[k]
       IN /\ fqueue' = Tail(fqueue)
          /\ fitems' = [fitems EXCEPT ![k] = <<>>]
          /\ store' = [store EXCEPT ![k] = ProcessDeltas(store[k], ds)]
          /\ storeRev' = [storeRev EXCEPT ![k] = Last(ds).rev]
    /\ UNCHANGED <<etcdVars, reflVars, fifoVars, writes, breaks>>

(* informer.processLoop: DeltaFIFO.Pop takes the head key and its deltas   *)
(* and runs process under inf.mu; processDeltas applies them oldest first  *)
(* (Sync/Updated: cacheStore.Add or Update; Deleted: cacheStore.Delete) so *)
(* the newest delta decides the cached value. The store never fails, so    *)
(* the AddIfNotPresent requeue is never taken.                             *)
Pop ==
    /\ fqueue # <<>>
    /\ LET k  == Head(fqueue)
           ds == fitems[k]
       IN /\ fqueue' = Tail(fqueue)
          /\ fitems' = [fitems EXCEPT ![k] = <<>>]
          /\ store' = [store EXCEPT ![k] = ProcessDeltas(store[k], ds)]
          /\ storeRev' = [storeRev EXCEPT ![k] = Last(ds).rev]
    /\ initCount' = IF initCount > 0 THEN initCount - 1 ELSE 0
    /\ UNCHANGED <<etcdVars, reflVars, populated, waitInitNum, writes, breaks>>

ReflectorStep(r) ==
    List(r) \/ SyncDone(r) \/ WatchStart(r) \/ Deliver(r)

Next ==
    \/ \E k \in Keys, v \in Values \cup {Absent} : Write(k, v)
    \/ \E r \in Reflectors : ReflectorStep(r) \/ WatchEnd(r)
    \/ Pop

(* Reflector goroutines and the informer's processLoop are scheduled by    *)
(* the Go runtime; KV clients and watch failures are the environment.      *)
Fairness ==
    /\ \A r \in Reflectors : WF_vars(ReflectorStep(r))
    /\ WF_vars(Pop)

Spec == Init /\ [][Next]_vars /\ Fairness

-----------------------------------------------------------------------------
(* Once the FIFO is drained and every reflector's watch has delivered all  *)
(* revisions of its prefix, the informer's cache equals the KV store: the  *)
(* list revision the reflector remembers lets its watch resume exactly     *)
(* where the list left off (spec 4.1, 4.4; invariant 5).                   *)
CaughtUpCacheMatchesStore ==
    (/\ fqueue = <<>>
     /\ \A r \in Reflectors : rphase[r] = "watching" /\ NextEvent(r) = 0)
    => store = kv

(* The informer never moves a key's cached value back to an older write:   *)
(* re-watching from lastSyncResourceVersion after a watch ends, duplicated *)
(* deliveries and the FIFO's per-key delta lists keep revision order.      *)
StoreRevMonotone ==
    [][\A k \in Keys : storeRev'[k] >= storeRev[k]]_vars

(* WaitForCacheSync returns: every reflector lists and calls SyncDone and  *)
(* processLoop pops the first Replace's items, so HasSynced becomes true.  *)
EventuallySynced == <>HasSynced
=============================================================================

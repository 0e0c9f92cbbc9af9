----------------------------- MODULE WorkQueue -----------------------------
(***************************************************************************)
(* The rate-limited work queue of src/pkg/queue together with the worker   *)
(* loop of src/pkg/controller/controller.go that drains it.                *)
(*                                                                         *)
(*  - queue, dirty, processing, shuttingDown: the fields of workqueue[T]   *)
(*    (workqueue.go); queue is the slice FIFO of queue.go.                 *)
(*  - waiting: items handed to AddAfter with a positive delay, held in     *)
(*    waitingForAddCh / the waitingLoop heap (delay_workqueue.go). The     *)
(*    heap is keyed by item (insert keeps one entry per item), so a set.   *)
(*  - failures: the per-item counter of ItemExponentialFailureRateLimiter. *)
(*  - pc, wkey: where each worker goroutine (runWorker) is, and the key it *)
(*    holds between Get and Done.                                          *)
(*  - requested: history variable, the keys whose Add was accepted since   *)
(*    the worker last took them with Get.                                  *)
(*  - retrying: history variable, the keys whose SyncHandler failed before *)
(*    ShutDown and that no worker has taken with Get since.                *)
(* Time is abstracted to the delay AddRateLimited computes: AddAfter adds  *)
(* an item at once when it is not positive and otherwise hands it to the   *)
(* waiting loop, which may release it at any later step.                   *)
(***************************************************************************)
EXTENDS Naturals, Sequences, Functions

CONSTANTS
    Keys,          \* the keys controllers enqueue (etcd.Key values)
    Workers,       \* worker goroutines calling Get concurrently
    MaxAdds,       \* bound on the informer's calls of enqueue
    MaxFailures,   \* bound on SyncHandler failures per key between Forgets
    NoKey,         \* the zero value a worker holds outside Get..Done
    BaseDelay,     \* ItemExponentialFailureRateLimiter's baseDelay, seconds
    MaxDelay       \* and its maxDelay

ASSUME MaxAdds \in Nat /\ MaxFailures \in Nat /\ NoKey \notin Keys
ASSUME BaseDelay \in Nat /\ MaxDelay \in Nat

(* ItemExponentialFailureRateLimiter.When for an item that has failed exp *)
(* times before: baseDelay * 2^exp, and maxDelay once that exceeds it (the *)
(* float check against MaxInt64 caps to the same maxDelay).                *)
ItemBackoff(exp) ==
    IF BaseDelay * 2^exp > MaxDelay THEN MaxDelay ELSE BaseDelay * 2^exp

(* The token bucket's Reserve().Delay(): zero while tokens are left, and   *)
(* positive once the 100-token burst is used up.                           *)
BucketDelays == {0, 1}

(* MaxOfRateLimiter.When: the largest delay of its limiters, starting      *)
(* from 0; DefaultControllerRateLimiter combines the two above.            *)
MaxOfWhen(exp, bucket) ==
    LET ds == {0, ItemBackoff(exp), bucket}
    IN CHOOSE d \in ds : \A e \in ds : d >= e

VARIABLES queue, dirty, processing, shuttingDown, waiting, failures,
          pc, wkey, adds, requested, retrying

vars == <<queue, dirty, processing, shuttingDown, waiting, failures,
          pc, wkey, adds, requested, retrying>>

WorkerStates == {"get", "sync", "done", "exit"}

TypeOk ==
    /\ queue \in Seq(Keys)
    /\ dirty \subseteq Keys /\ processing \subseteq Keys
    /\ shuttingDown \in BOOLEAN
    /\ waiting \subseteq Keys
    /\ failures \in [Keys -> 0..MaxFailures]
    /\ pc \in [Workers -> WorkerStates]
    /\ wkey \in [Workers -> Keys \cup {NoKey}]
    /\ \A w \in Workers : (wkey[w] = NoKey) <=> (pc[w] \in {"get", "exit"})
    /\ adds \in 0..MaxAdds
    /\ requested \subseteq Keys /\ retrying \subseteq Keys

Init ==
    /\ queue = <<>>
    /\ dirty = {} /\ processing = {}
    /\ shuttingDown = FALSE
    /\ waiting = {}
    /\ failures = [k \in Keys |-> 0]
    /\ pc = [w \in Workers |-> "get"]
    /\ wkey = [w \in Workers |-> NoKey]
    /\ adds = 0
    /\ requested = {} /\ retrying = {}

(* Faulty variant of Add: inserts into dirty only after the processing     *)
(* check, so an item added while it is being processed is forgotten.       *)
AddLate(k) ==
    \/ shuttingDown /\ UNCHANGED <<queue, dirty, requested>>
    \/ ~shuttingDown /\ k \in dirty
       /\ requested' = requested \cup {k} /\ UNCHANGED <<queue, dirty>>
    \/ ~shuttingDown /\ k \notin dirty /\ k \in processing
       /\ requested' = requested \cup {k} /\ UNCHANGED <<queue, dirty>>
    \/ ~shuttingDown /\ k \notin dirty /\ k \notin processing
       /\ requested' = requested \cup {k}
       /\ dirty' = dirty \cup {k} /\ queue' = Append(queue, k)

(* Faulty variant of Add: pushes the item even while a worker holds it.    *)
AddWhileProcessing(k) ==
    \/ shuttingDown /\ UNCHANGED <<queue, dirty, requested>>
    \/ ~shuttingDown /\ k \in dirty
       /\ requested' = requested \cup {k} /\ UNCHANGED <<queue, dirty>>
    \/ ~shuttingDown /\ k \notin dirty
       /\ requested' = requested \cup {k}
       /\ dirty' = dirty \cup {k} /\ queue' = Append(queue, k)

(* workqueue.Add: ignored while shutting down; an item already dirty is    *)
(* only touched; a dirty item that is being processed is not pushed, Done  *)
(* pushes it later.                                                        *)
Add(k) ==
    \/ shuttingDown /\ UNCHANGED <<queue, dirty, requested>>
    \/ ~shuttingDown /\ k \in dirty
       /\ requested' = requested \cup {k} /\ UNCHANGED <<queue, dirty>>
    \/ ~shuttingDown /\ k \notin dirty /\ k \in processing
       /\ requested' = requested \cup {k}
       /\ dirty' = dirty \cup {k} /\ UNCHANGED queue
    \/ ~shuttingDown /\ k \notin dirty /\ k \notin processing
       /\ requested' = requested \cup {k}
       /\ dirty' = dirty \cup {k} /\ queue' = Append(queue, k)

(* Controller.OnAdd/OnUpdate/OnDelete -> enqueue -> queue.Add, called by   *)
(* the informer's dispatch goroutine.                                      *)
Enqueue(k) ==
    /\ adds < MaxAdds
    /\ adds' = adds + 1
    /\ Add(k)
    /\ UNCHANGED <<processing, shuttingDown, waiting, failures, pc, wkey,
                   retrying>>

(* processNextWorkItem: Get pops the head, marks it processing and clean.  *)
Get(w) ==
    /\ pc[w] = "get"
    /\ queue # <<>>
    /\ LET k == Head(queue) IN
       /\ queue' = Tail(queue)
       /\ processing' = processing \cup {k}
       /\ dirty' = dirty \ {k}
       /\ requested' = requested \ {k}
       /\ retrying' = retrying \ {k}
       /\ wkey' = [wkey EXCEPT ![w] = k]
    /\ pc' = [pc EXCEPT ![w] = "sync"]
    /\ UNCHANGED <<shuttingDown, waiting, failures, adds>>

(* Faulty variant of GetShutdown: does not report shutdown while delayed  *)
(* items are pending, though the waiting loop has already returned.        *)
GetShutdownAfterWaiting(w) ==
    /\ pc[w] = "get"
    /\ queue = <<>> /\ shuttingDown /\ waiting = {}
    /\ pc' = [pc EXCEPT ![w] = "exit"]
    /\ UNCHANGED <<queue, dirty, processing, shuttingDown, waiting, failures,
                   wkey, adds, requested, retrying>>

(* Get on an empty queue after ShutDown returns shutdown = true and        *)
(* runWorker returns; wait.Until does not restart it since ctx is done.    *)
GetShutdown(w) ==
    /\ pc[w] = "get"
    /\ queue = <<>> /\ shuttingDown
    /\ pc' = [pc EXCEPT ![w] = "exit"]
    /\ UNCHANGED <<queue, dirty, processing, shuttingDown, waiting, failures,
                   wkey, adds, requested, retrying>>

(* rateLimitingQueue.Forget -> MaxOfRateLimiter.Forget: the per-item     *)
(* limiter deletes the item's failure count (the bucket keeps none).       *)
Forget(k) == failures' = [failures EXCEPT ![k] = 0]

(* delayingType.AddAfter: nothing while shutting down; a delay that is not *)
(* positive adds the item at once; any other goes to the waiting loop.     *)
AddAfter(k, d) ==
    IF shuttingDown
       THEN UNCHANGED <<queue, dirty, requested, waiting, retrying>>
       ELSE /\ retrying' = retrying \cup {k}
            /\ IF d <= 0
                  THEN Add(k) /\ UNCHANGED waiting
                  ELSE /\ waiting' = waiting \cup {k}
                       /\ UNCHANGED <<queue, dirty, requested>>

(* SyncHandler succeeds: queue.Forget resets the failure counter.          *)
SyncOk(w) ==
    /\ pc[w] = "sync"
    /\ Forget(wkey[w])
    /\ pc' = [pc EXCEPT ![w] = "done"]
    /\ UNCHANGED <<queue, dirty, processing, shuttingDown, waiting, wkey,
                   adds, requested, retrying>>

(* SyncHandler fails: AddRateLimited = AddAfter(item, When(item)). When    *)
(* reads the failure count, counts this failure and returns the larger of *)
(* the item's backoff and the bucket's delay.                              *)
SyncFail(w) ==
    /\ pc[w] = "sync"
    /\ failures[wkey[w]] < MaxFailures
    /\ failures' = [failures EXCEPT ![wkey[w]] = @ + 1]
    /\ \E b \in BucketDelays :
          AddAfter(wkey[w], MaxOfWhen(failures[wkey[w]], b))
    /\ pc' = [pc EXCEPT ![w] = "done"]
    /\ UNCHANGED <<processing, shuttingDown, wkey, adds>>

(* Faulty variant of Done: the worker still holds the item afterwards.   *)
DoneKeepsKey(w) ==
    /\ pc[w] = "done"
    /\ LET k == wkey[w] IN
       /\ processing' = processing \ {k}
       /\ queue' = IF k \in dirty THEN Append(queue, k) ELSE queue
    /\ pc' = [pc EXCEPT ![w] = "get"]
    /\ UNCHANGED <<wkey, dirty, shuttingDown, waiting, failures, adds,
                   requested, retrying>>

(* Faulty variant of Done: never re-queues an item dirtied meanwhile.      *)
DoneNoRequeue(w) ==
    /\ pc[w] = "done"
    /\ processing' = processing \ {wkey[w]}
    /\ pc' = [pc EXCEPT ![w] = "get"]
    /\ wkey' = [wkey EXCEPT ![w] = NoKey]
    /\ UNCHANGED <<queue, dirty, shuttingDown, waiting, failures, adds,
                   requested, retrying>>

(* The deferred queue.Done: the item leaves processing and is pushed again *)
(* when it was added while being processed.                                *)
Done(w) ==
    /\ pc[w] = "done"
    /\ LET k == wkey[w] IN
       /\ processing' = processing \ {k}
       /\ queue' = IF k \in dirty THEN Append(queue, k) ELSE queue
    /\ pc' = [pc EXCEPT ![w] = "get"]
    /\ wkey' = [wkey EXCEPT ![w] = NoKey]
    /\ UNCHANGED <<dirty, shuttingDown, waiting, failures, adds, requested,
                   retrying>>

(* waitingLoop: an entry whose readyAt has passed is handed to Add. The    *)
(* loop returns once the queue is shutting down, dropping what it holds.   *)
WaitingFire(k) ==
    /\ k \in waiting
    /\ ~shuttingDown
    /\ waiting' = waiting \ {k}
    /\ Add(k)
    /\ UNCHANGED <<processing, shuttingDown, failures, pc, wkey, adds,
                   retrying>>

(* Controller.stop on ctx.Done: delayingType.ShutDown (once).              *)
ShutDown ==
    /\ ~shuttingDown
    /\ shuttingDown' = TRUE
    /\ UNCHANGED <<queue, dirty, processing, waiting, failures, pc, wkey,
                   adds, requested, retrying>>

WorkerStep(w) ==
    Get(w) \/ GetShutdown(w) \/ SyncOk(w) \/ SyncFail(w) \/ Done(w)

Next ==
    \/ \E k \in Keys : Enqueue(k)
    \/ \E w \in Workers : WorkerStep(w)
    \/ \E k \in Keys : WaitingFire(k)
    \/ ShutDown

(* Worker goroutines and the waiting loop's timer are scheduled by the Go  *)
(* runtime; the informer and ctx cancellation are the environment.         *)
Fairness ==
    /\ \A w \in Workers : WF_vars(WorkerStep(w))
    /\ \A k \in Keys : WF_vars(WaitingFire(k))

Spec == Init /\ [][Next]_vars /\ Fairness

-----------------------------------------------------------------------------
(* The FIFO holds exactly the keys that are dirty and not held by a        *)
(* worker, each once: Add, Get and Done keep queue, dirty and processing   *)
(* in step across every interleaving of informer, workers and waitingLoop. *)
QueueMatchesDirty ==
    /\ IsInjective(queue)
    /\ Range(queue) = dirty \ processing

(* At most one worker processes a key at a time, and processing is        *)
(* exactly the set of keys held between Get and Done.                      *)
ExclusiveProcessing ==
    /\ \A v, w \in Workers :
          v # w /\ pc[v] \in {"sync", "done"} /\ pc[w] \in {"sync", "done"}
             => wkey[v] # wkey[w]
    /\ processing = {wkey[w] : w \in {x \in Workers : pc[x] \in {"sync", "done"}}}

(* An Add that the queue accepted is never lost: the key is handed to a    *)
(* worker by Get afterwards, also when it was added while being processed  *)
(* and also after ShutDown, which drains what was accepted.                *)
EventuallyProcessed ==
    \A k \in Keys : (k \in requested) ~> (k \notin requested)

(* A key whose SyncHandler failed is synced again: AddRateLimited hands   *)
(* it to the waiting loop, whose Add may come before the failing worker's  *)
(* Done, and it is taken by Get again unless the queue shuts down first.   *)
FailedIsRetried ==
    \A k \in Keys : (k \in retrying) ~> (k \notin retrying \/ shuttingDown)

(* After ShutDown every worker goroutine eventually returns from runWorker *)
(* (Get reports shutdown once the queue is drained).                       *)
ShutdownTerminates ==
    shuttingDown ~> (\A w \in Workers : pc[w] = "exit")

-----------------------------------------------------------------------------
(* The refinement mapping to the queue's contract: the pending keys are   *)
(* the dirty set (added and not taken by Get since), a worker holds its   *)
(* key from Get to Done, and exited workers are those Get told to end.    *)
(* Items in the waiting loop are not pending yet: they become so by Add.  *)
KQ == INSTANCE KeyQueue WITH
        pending <- dirty,
        holder  <- [w \in Workers |->
                      IF pc[w] \in {"sync", "done"} THEN wkey[w] ELSE NoKey],
        closed  <- shuttingDown,
        exited  <- {w \in Workers : pc[w] = "exit"}

(* The work queue with its workers implements KeyQueue: every step of Add, *)
(* Get, Done, AddAfter, the waiting loop and ShutDown is a step of the     *)
(* contract or leaves it as it is, and under the Go scheduler's fairness   *)
(* every free pending key is taken, every held key let go and every idle  *)
(* worker told to exit once the queue is shut down and drained.           *)
ImplementsKeyQueue == KQ!Spec
=============================================================================

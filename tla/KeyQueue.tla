------------------------------ MODULE KeyQueue ------------------------------
(***************************************************************************)
(* What the work queue of src/pkg/queue promises the controllers that use *)
(* it (the contract in the comments on Add, Get, Done and ShutDown of     *)
(* workqueue.go), with no FIFO, dirty set or delayed adds:                 *)
(*                                                                         *)
(*  - pending: the keys added and not yet handed to a worker;              *)
(*  - holder[w]: the key worker w holds between Get and Done, or NoKey;    *)
(*  - closed: ShutDown has been called;                                    *)
(*  - exited: workers that Get told to end their goroutine.                *)
(*                                                                         *)
(* A key is handed to one worker at a time; a key added while a worker    *)
(* holds it stays pending and is handed out again after Done; after        *)
(* ShutDown no key is accepted, and a worker is told to exit only when no  *)
(* pending key is free to be handed to it.                                 *)
(***************************************************************************)
EXTENDS FiniteSets

CONSTANTS Keys, Workers, NoKey

VARIABLES pending, holder, closed, exited

avars == <<pending, holder, closed, exited>>

Held == {holder[w] : w \in Workers} \ {NoKey}

TypeOk ==
    /\ pending \subseteq Keys
    /\ holder \in [Workers -> Keys \cup {NoKey}]
    /\ closed \in BOOLEAN
    /\ exited \subseteq Workers

Init ==
    /\ pending = {} /\ holder = [w \in Workers |-> NoKey]
    /\ closed = FALSE /\ exited = {}

(* Add: the key becomes pending, unless the queue is shut down.            *)
Request(k) ==
    /\ ~closed
    /\ pending' = pending \cup {k}
    /\ UNCHANGED <<holder, closed, exited>>

(* Get returns a pending key that no other worker holds.                   *)
Take(w, k) ==
    /\ w \notin exited /\ holder[w] = NoKey
    /\ k \in pending \ Held
    /\ pending' = pending \ {k}
    /\ holder' = [holder EXCEPT ![w] = k]
    /\ UNCHANGED <<closed, exited>>

(* Done: the worker lets go of its key.                                    *)
Release(w) ==
    /\ holder[w] # NoKey
    /\ holder' = [holder EXCEPT ![w] = NoKey]
    /\ UNCHANGED <<pending, closed, exited>>

(* ShutDown.                                                               *)
Close ==
    /\ ~closed
    /\ closed' = TRUE
    /\ UNCHANGED <<pending, holder, exited>>

(* Get returns shutdown = true: the queue is shut down and every pending   *)
(* key is held by some other worker, which will take it again itself.      *)
Exit(w) ==
    /\ closed /\ w \notin exited /\ holder[w] = NoKey
    /\ pending \subseteq Held
    /\ exited' = exited \cup {w}
    /\ UNCHANGED <<pending, holder, closed>>

Next ==
    \/ \E k \in Keys : Request(k)
    \/ \E w \in Workers : Release(w) \/ Exit(w) \/ \E k \in Keys : Take(w, k)
    \/ Close

(* Every worker keeps calling Get and, for what it got, Done.              *)
Spec ==
    /\ Init /\ [][Next]_avars
    /\ \A w \in Workers :
          /\ WF_avars(\E k \in Keys : Take(w, k))
          /\ WF_avars(Release(w))
          /\ WF_avars(Exit(w))
=============================================================================

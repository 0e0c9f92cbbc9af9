----------------------------- MODULE RuleWatch ------------------------------
(***************************************************************************)
(* The rule watch fan-out: RuleService.WatchRuleResources                  *)
(* (orch/service/rule) streaming the rules of one rule-set name to agents, *)
(* over the informer of pkg/informer.                                      *)
(*                                                                         *)
(* A stream looks the prefix up in GlobalInformerRegistry and, when it is  *)
(* missing, creates an informer with the stream's own context and adds it. *)
(* It registers a tempEventHandler and lists the informer cache under the *)
(* informer's mutex, sends the listed rules, then relays what the handler *)
(* puts into its channel (capacity Cap) until the client goes away.        *)
(*                                                                         *)
(* The informer's process loop applies one key's delta to its cache and,  *)
(* still under the mutex, calls every registered handler in registration  *)
(* order; a handler's channel send blocks while the channel is full. A     *)
(* delta carries nil for a deleted key, which the handler cannot parse and *)
(* drops. The informer's reflector and FIFO are abstracted: while the      *)
(* informer's context is live its target `tgt` follows etcd, and the cache *)
(* catches up with it one key at a time (pkg/informer is checked on its    *)
(* own in ListWatch). When the context is cancelled, the reflector stops   *)
(* and the loop still drains what was queued, so `tgt` freezes.           *)
(***************************************************************************)
EXTENDS Naturals, Sequences, SequencesExt

CONSTANTS
    Streams,    \* watch streams of one rule-set name, each served once
    RKeys,      \* rule keys under the prefix
    Vals,       \* rule values
    Absent,     \* no value: the key is not in etcd
    NoInf,      \* no informer
    MaxWrites,  \* bound on writes to the rule keys
    Cap         \* capacity of a handler's event channel

Opt == Vals \cup {Absent}
Event == RKeys \X Vals

(* Stream phases: before the lookup, creating the informer, about to      *)
(* register, sending the listed rules, relaying the channel, returned.     *)
Phases == {"idle", "create", "register", "send", "loop", "done"}

VARIABLES
    kv,         \* the rule keys in etcd
    writes,     \* writes so far
    inf,        \* inf[i]: state of the informer stream i created
    tgt,        \* tgt[i]: what informer i's reflector has seen
    cache,      \* cache[i]: informer i's cache store
    handlers,   \* handlers[i]: the streams whose handlers i calls, in order
    out,        \* out[i]: handlers i has still to call for the current delta
    evt,        \* evt[i]: the event out[i] are to receive
    reg,        \* the informer GlobalInformerRegistry holds for the prefix
    spc,        \* spc[s]: stream s's phase
    using,      \* using[s]: the informer stream s uses
    cancelled,  \* cancelled[s]: stream s's context is done
    snap,       \* snap[s]: listed rules stream s has still to send
    ch,         \* ch[s]: stream s's event channel
    cview       \* cview[s]: the rules the client of s has received

infVars == <<inf, tgt, cache, handlers, out, evt>>
strVars == <<spc, using, cancelled, snap, ch, cview>>
vars == <<kv, writes, reg, infVars, strVars>>

NoEvent == CHOOSE e \in Event : TRUE

TypeOk ==
    /\ kv \in [RKeys -> Opt] /\ writes \in 0..MaxWrites
    /\ inf \in [Streams -> {"none", "live", "dead"}]
    /\ tgt \in [Streams -> [RKeys -> Opt]]
    /\ cache \in [Streams -> [RKeys -> Opt]]
    /\ \A i \in Streams : handlers[i] \in Seq(Streams) /\ out[i] \in Seq(Streams)
    /\ evt \in [Streams -> Event]
    /\ reg \in Streams \cup {NoInf}
    /\ spc \in [Streams -> Phases]
    /\ using \in [Streams -> Streams \cup {NoInf}]
    /\ cancelled \in [Streams -> BOOLEAN]
    /\ snap \in [Streams -> SUBSET Event]
    /\ \A s \in Streams : ch[s] \in Seq(Event) /\ Len(ch[s]) <= Cap
    /\ cview \in [Streams -> [RKeys -> Opt]]

Empty == [k \in RKeys |-> Absent]

Init ==
    /\ kv = Empty /\ writes = 0
    /\ inf = [i \in Streams |-> "none"]
    /\ tgt = [i \in Streams |-> Empty] /\ cache = [i \in Streams |-> Empty]
    /\ handlers = [i \in Streams |-> <<>>] /\ out = [i \in Streams |-> <<>>]
    /\ evt = [i \in Streams |-> NoEvent]
    /\ reg = NoInf
    /\ spc = [s \in Streams |-> "idle"] /\ using = [s \in Streams |-> NoInf]
    /\ cancelled = [s \in Streams |-> FALSE]
    /\ snap = [s \in Streams |-> {}] /\ ch = [s \in Streams |-> <<>>]
    /\ cview = [s \in Streams |-> Empty]

(* The process loop of informer i holds its mutex: it is calling handlers. *)
Locked(i) == out[i] # <<>>

(* A returning RPC cancels its stream context, and with it the reflector   *)
(* and informer the stream created.                                        *)
StopInformer(s) ==
    inf' = [inf EXCEPT ![s] = IF @ = "live" THEN "dead" ELSE @]

(* Rule Add, Update, Delete or a lease expiry changes key k. The watches  *)
(* of live informers see it.                                               *)
Write(k, v) ==
    /\ writes < MaxWrites /\ kv[k] # v
    /\ writes' = writes + 1
    /\ kv' = [kv EXCEPT ![k] = v]
    /\ tgt' = [i \in Streams |-> IF inf[i] = "live" THEN kv' ELSE tgt[i]]
    /\ UNCHANGED <<reg, inf, cache, handlers, out, evt, strVars>>

(* WatchRuleResources up to the sync wait: look the prefix up in the      *)
(* registry and use the informer found; an informer found is synced.      *)
Lookup(s) ==
    /\ spc[s] = "idle"
    /\ IF reg # NoInf
          THEN spc' = [spc EXCEPT ![s] = "register"] /\ using' = [using EXCEPT ![s] = reg]
          ELSE spc' = [spc EXCEPT ![s] = "create"] /\ UNCHANGED using
    /\ UNCHANGED <<kv, writes, reg, infVars, cancelled, snap, ch, cview>>

(* CreateInformerForPrefix with the stream's context: start the reflector *)
(* and the informer, wait until the listed rules are in the cache, then    *)
(* Add it to the registry, over any informer another stream added          *)
(* meanwhile. The sync wait times out (and always does on a cancelled      *)
(* context), and the RPC returns the error.                                *)
Create(s) ==
    /\ spc[s] = "create"
    /\ \/ /\ ~cancelled[s]
          /\ inf' = [inf EXCEPT ![s] = "live"]
          /\ tgt' = [tgt EXCEPT ![s] = kv]
          /\ cache' = [cache EXCEPT ![s] = kv]
          /\ reg' = s
          /\ using' = [using EXCEPT ![s] = s]
          /\ spc' = [spc EXCEPT ![s] = "register"]
       \/ /\ spc' = [spc EXCEPT ![s] = "done"]
          /\ UNCHANGED <<inf, tgt, cache, reg, using>>
    /\ UNCHANGED <<kv, writes, handlers, out, evt, cancelled, snap, ch, cview>>

(* RegisterHandlerAndList, under the informer's mutex: append the stream's *)
(* handler and list the cache; convertMapToWatchRuleResponses turns every  *)
(* listed rule into an Add to send.                                        *)
Register(s) ==
    LET i == using[s] IN
    /\ spc[s] = "register" /\ ~Locked(i)
    /\ handlers' = [handlers EXCEPT ![i] = Append(@, s)]
    /\ snap' = [snap EXCEPT ![s] =
                  {<<k, cache[i][k]>> : k \in {x \in RKeys : cache[i][x] # Absent}}]
    /\ spc' = [spc EXCEPT ![s] = "send"]
    /\ UNCHANGED <<kv, writes, reg, inf, tgt, cache, out, evt, using,
                   cancelled, ch, cview>>

(* The client receives event e.                                             *)
Receive(s, e) == cview' = [cview EXCEPT ![s][e[1]] = e[2]]

(* The loop over the listed rules, in map order: a Send on a cancelled     *)
(* stream fails and the RPC returns the error, with no registry Delete.    *)
SendInit(s) ==
    /\ spc[s] = "send"
    /\ \/ /\ snap[s] # {} /\ ~cancelled[s]
          /\ \E e \in snap[s] : Receive(s, e) /\ snap' = [snap EXCEPT ![s] = @ \ {e}]
          /\ UNCHANGED <<spc, inf>>
       \/ /\ snap[s] # {} /\ cancelled[s]
          /\ spc' = [spc EXCEPT ![s] = "done"] /\ StopInformer(s)
          /\ UNCHANGED <<snap, cview>>
       \/ /\ snap[s] = {}
          /\ spc' = [spc EXCEPT ![s] = "loop"]
          /\ UNCHANGED <<snap, cview, inf>>
    /\ UNCHANGED <<kv, writes, reg, tgt, cache, handlers, out, evt, using,
                   cancelled, ch>>

(* The select's eventCh case: take the head of the channel and Send it.   *)
(* Once the context is done both cases may be ready and Go picks either;  *)
(* this one's Send then fails and the RPC returns without the Delete.     *)
Relay(s) ==
    /\ spc[s] = "loop" /\ ch[s] # <<>>
    /\ ch' = [ch EXCEPT ![s] = Tail(@)]
    /\ \/ /\ ~cancelled[s] /\ Receive(s, Head(ch[s]))
          /\ UNCHANGED <<spc, inf>>
       \/ /\ cancelled[s]
          /\ spc' = [spc EXCEPT ![s] = "done"] /\ StopInformer(s)
          /\ UNCHANGED cview
    /\ UNCHANGED <<kv, writes, reg, tgt, cache, handlers, out, evt, using,
                   cancelled, snap>>

(* The select's Done case: GlobalInformerRegistry.Delete(prefix), whichever *)
(* informer it holds, and return. The handler stays registered.           *)
Leave(s) ==
    /\ spc[s] = "loop" /\ cancelled[s]
    /\ reg' = NoInf
    /\ spc' = [spc EXCEPT ![s] = "done"] /\ StopInformer(s)
    /\ UNCHANGED <<kv, writes, tgt, cache, handlers, out, evt, using,
                   cancelled, snap, ch, cview>>

(* The client goes away: the stream context is done, and the informer the *)
(* stream created stops with it.                                           *)
Disconnect(s) ==
    /\ spc[s] \in {"create", "register", "send", "loop"} /\ ~cancelled[s]
    /\ cancelled' = [cancelled EXCEPT ![s] = TRUE]
    /\ StopInformer(s)
    /\ UNCHANGED <<kv, writes, reg, tgt, cache, handlers, out, evt,
                   spc, using, snap, ch, cview>>

(* The process loop pops key k's delta and, under the mutex, applies it to *)
(* the cache and dispatches it: OnAdd or OnUpdate of a rule value becomes  *)
(* an event for every handler; OnDelete gets a nil object, which          *)
(* parseRuleMeta rejects, and no handler sends anything.                   *)
Process(i, k) ==
    LET v == tgt[i][k] IN
    /\ inf[i] # "none" /\ ~Locked(i) /\ cache[i][k] # v
    /\ cache' = [cache EXCEPT ![i][k] = v]
    /\ IF v # Absent
          THEN out' = [out EXCEPT ![i] = handlers[i]] /\ evt' = [evt EXCEPT ![i] = <<k, v>>]
          ELSE UNCHANGED <<out, evt>>
    /\ UNCHANGED <<kv, writes, reg, inf, tgt, handlers, strVars>>

(* Faulty variant of the handler's send: a select with a default case,   *)
(* which drops the event when the channel is full.                         *)
DeliverDropWhenFull(i) ==
    LET h == Head(out[i]) IN
    /\ Locked(i)
    /\ ch' = [ch EXCEPT ![h] = IF Len(@) < Cap THEN Append(@, evt[i]) ELSE @]
    /\ out' = [out EXCEPT ![i] = Tail(@)]
    /\ UNCHANGED <<kv, writes, reg, inf, tgt, cache, handlers, evt, spc,
                   using, cancelled, snap, cview>>

(* The next handler's channel send; it blocks while the channel is full.  *)
Deliver(i) ==
    LET h == Head(out[i]) IN
    /\ Locked(i) /\ Len(ch[h]) < Cap
    /\ ch' = [ch EXCEPT ![h] = Append(@, evt[i])]
    /\ out' = [out EXCEPT ![i] = Tail(@)]
    /\ UNCHANGED <<kv, writes, reg, inf, tgt, cache, handlers, evt, spc,
                   using, cancelled, snap, cview>>

Next ==
    \/ \E k \in RKeys, v \in Opt : Write(k, v)
    \/ \E s \in Streams :
          \/ Lookup(s) \/ Create(s) \/ Register(s) \/ SendInit(s)
          \/ Relay(s) \/ Leave(s) \/ Disconnect(s)
    \/ \E i \in Streams : Deliver(i) \/ \E k \in RKeys : Process(i, k)

(* Each stream's RPC goroutine and each informer's process loop are       *)
(* scheduled by the Go runtime; etcd writes and clients going away are the *)
(* environment, and are never forced.                                      *)
Fairness ==
    \A s \in Streams :
        /\ WF_vars(Lookup(s) \/ Create(s) \/ Register(s) \/ SendInit(s))
        /\ WF_vars(Relay(s) \/ Leave(s))
        /\ WF_vars(Deliver(s) \/ \E k \in RKeys : Process(s, k))

Spec == Init /\ [][Next]_vars /\ Fairness

-----------------------------------------------------------------------------
(* What the client of s holds once it has received everything queued for  *)
(* it: the listed rules not yet sent, then its channel in order, then the *)
(* event its informer is about to hand its handler.                        *)
Flushed(s) ==
    LET i == using[s]
        q == ch[s] \o (IF s \in Range(out[i]) THEN <<evt[i]>> ELSE <<>>)
        last(k) == {j \in 1..Len(q) : q[j][1] = k}
    IN [k \in RKeys |->
          IF last(k) # {} THEN q[Max(last(k))][2]
          ELSE IF \E e \in snap[s] : e[1] = k THEN (CHOOSE e \in snap[s] : e[1] = k)[2]
          ELSE cview[s][k]]

(* Spec 4.5 and 5: RegisterHandlerAndList lists the cache and registers the *)
(* handler under the informer's mutex, so the listed rules and the events *)
(* that follow leave no gap: every rule in the informer's cache is, with   *)
(* the value cached, what the client of a registered stream ends up with.  *)
SnapshotThenTail ==
    \A s \in Streams :
        spc[s] \in {"send", "loop"} =>
            \A k \in RKeys :
                cache[using[s]][k] # Absent => Flushed(s)[k] = cache[using[s]][k]

(* Spec section 8, invariant 5, and 4.16 (events Add or Delete): a stream *)
(* that has sent everything queued for it leaves its client with the      *)
(* rules of the informer's cache, deleted rules included.                   *)
ClientMirrorsStore ==
    \A s \in Streams :
        /\ spc[s] = "loop" /\ ~cancelled[s] /\ snap[s] = {} /\ ch[s] = <<>>
        /\ s \notin Range(out[using[s]])
        => cview[s] = cache[using[s]]

(* A connected stream is fed by a running informer: the informer it uses   *)
(* was created with some stream's context and stops when that stream goes *)
(* away, or is a stopped one left in the registry.                          *)
StreamServed ==
    \A s \in Streams :
        spc[s] \in {"send", "loop"} /\ ~cancelled[s] => inf[using[s]] = "live"

(* WatchRuleResources gets past RegisterHandlerAndList: a stream waiting   *)
(* for the informer's mutex eventually registers. A handler left behind by *)
(* a stream that returned is still called under that mutex, and its full  *)
(* channel holds the process loop and the mutex for good (tool.go:163).    *)
StreamEventuallyRegisters ==
    \A s \in Streams : spc[s] = "register" ~> spc[s] # "register"

====

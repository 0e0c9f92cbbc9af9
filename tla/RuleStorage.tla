---------------------------- MODULE RuleStorage -----------------------------
(***************************************************************************)
(* Rules in etcd, written by orch/storage/agent/rule (Storage.Add, Delete, *)
(* Update) and removed by etcd when their lease runs out.                  *)
(*                                                                         *)
(* A rule key is /agent/rule/{name}/{cidr}/{proto}/{sport}-{dport}; the     *)
(* identity key /agent/rule/{name}/{cidr}/ holds the identity every rule   *)
(* of that CIDR under that name carries; /agent/ruleNames holds the list   *)
(* of names. Here a rule key is a triple <<name, cidr, port>> (protocol    *)
(* and ports collapsed into one port value), an identity a number drawn    *)
(* fresh for each new one (crc32 of a fresh UUID), and a lease a number    *)
(* granted fresh for each Add. The operator picks every rule's expiry, so  *)
(* any live lease may run out next.                                        *)
(*                                                                         *)
(* Each orchestrator process runs one of Add, Delete and Update at a time  *)
(* (operationLock is a process-wide mutex). Add is two steps: the reads    *)
(* and the Grant, then the transaction; other processes and lease expiry  *)
(* may run in between. Delete and Update are one etcd call each after the  *)
(* lock; Update's Get of the identity key is folded into its write.        *)
(***************************************************************************)
EXTENDS Naturals, FiniteSets

CONSTANTS
    Procs,      \* orchestrator processes serving the rule API
    Names,      \* rule-set names
    Cidrs,      \* CIDRs
    Ports,      \* protocol/port pairs
    MaxLeases,  \* bound on leases granted
    MaxIds      \* bound on identities drawn

Keys == Names \X Cidrs \X Ports
IdKeys == Names \X Cidrs
IdKeyOf(k) == <<k[1], k[2]>>

(* A stored value: its identity and the lease it is attached to (0: none). *)
Val == [ident : 1..MaxIds, lease : 0..MaxLeases]
Missing == [ident |-> 0, lease |-> 0]

VARIABLES
    rule,       \* rule[k]: the rule key's value, or Missing
    idkey,      \* idkey[<<n, c>>]: the identity key's value, or Missing
    names,      \* the names in /agent/ruleNames
    leases,     \* live leases
    nextLease,  \* leases granted so far
    nextId,     \* identities drawn so far
    pc,         \* pc[p]: "idle", or "txn" between Add's reads and its Txn
    op          \* op[p]: what Add read, for its transaction

vars == <<rule, idkey, names, leases, nextLease, nextId, pc, op>>

NoOp == [key |-> CHOOSE k \in Keys : TRUE, nameExists |-> FALSE,
         newNames |-> {}, lease |-> 0, reuse |-> 0]

TypeOk ==
    /\ rule \in [Keys -> Val \cup {Missing}]
    /\ idkey \in [IdKeys -> Val \cup {Missing}]
    /\ names \subseteq Names
    /\ leases \subseteq 1..MaxLeases
    /\ nextLease \in 0..MaxLeases /\ nextId \in 0..MaxIds
    /\ pc \in [Procs -> {"idle", "txn"}]
    /\ op \in [Procs -> [key : Keys, nameExists : BOOLEAN,
                         newNames : SUBSET Names, lease : 0..MaxLeases,
                         reuse : 0..MaxIds]]

Init ==
    /\ rule = [k \in Keys |-> Missing]
    /\ idkey = [i \in IdKeys |-> Missing]
    /\ names = {} /\ leases = {}
    /\ nextLease = 0 /\ nextId = 0
    /\ pc = [p \in Procs |-> "idle"]
    /\ op = [p \in Procs |-> NoOp]

(* Storage.Add up to its transaction: read the names list and add this   *)
(* name to it if missing, Grant a lease for the rule's remaining lifetime, *)
(* read the identity key and keep its identity for reuse when it is set   *)
(* and not "0". Read errors and an expiry in the past return before any   *)
(* write.                                                                  *)
AddRead(p, k) ==
    /\ pc[p] = "idle" /\ nextLease < MaxLeases
    /\ nextLease' = nextLease + 1
    /\ leases' = leases \cup {nextLease + 1}
    /\ op' = [op EXCEPT ![p] = [key |-> k, nameExists |-> k[1] \in names,
                                newNames |-> names \cup {k[1]},
                                lease |-> nextLease + 1,
                                reuse |-> idkey[IdKeyOf(k)].ident]]
    /\ pc' = [pc EXCEPT ![p] = "txn"]
    /\ UNCHANGED <<rule, idkey, names, nextId>>

(* The transaction of Storage.Add. With an identity to reuse, it puts the *)
(* rule under its lease if the rule key is absent, and the names list read *)
(* before plus this name if the name was new. Otherwise it draws a new     *)
(* identity and, if both the rule key and the identity key are absent,    *)
(* puts the rule, the names list and the identity key, the last under the *)
(* rule's lease. A failed compare returns ErrRuleAlreadyExists; a Put     *)
(* under a lease that has already expired fails the commit, and the lease *)
(* is revoked.                                                              *)
AddTxn(p) ==
    LET o == op[p]
        k == o.key
        i == IdKeyOf(k)
    IN
    /\ pc[p] = "txn"
    /\ \/ /\ o.reuse # 0 /\ o.lease \in leases
          /\ rule[k] = Missing
          /\ rule' = [rule EXCEPT ![k] = [ident |-> o.reuse, lease |-> o.lease]]
          /\ names' = IF o.nameExists THEN names ELSE o.newNames
          /\ UNCHANGED <<idkey, leases, nextId>>
       \/ /\ o.reuse = 0 /\ o.lease \in leases /\ nextId < MaxIds
          /\ rule[k] = Missing /\ idkey[i] = Missing
          /\ nextId' = nextId + 1
          /\ rule' = [rule EXCEPT ![k] = [ident |-> nextId + 1,
                                          lease |-> o.lease]]
          /\ idkey' = [idkey EXCEPT ![i] = [ident |-> nextId + 1,
                                            lease |-> o.lease]]
          /\ names' = o.newNames
          /\ UNCHANGED leases
       \/ /\ o.lease \in leases
          /\ rule[k] # Missing \/ (o.reuse = 0 /\ idkey[i] # Missing)
          /\ UNCHANGED <<rule, idkey, names, leases, nextId>>
       \/ /\ o.lease \notin leases
          /\ UNCHANGED <<rule, idkey, names, leases, nextId>>
    /\ pc' = [pc EXCEPT ![p] = "idle"]
    /\ op' = [op EXCEPT ![p] = NoOp]
    /\ UNCHANGED nextLease

(* Storage.Delete: delete the rule key. The identity key and the names    *)
(* list are left as they are.                                              *)
Delete(p, k) ==
    /\ pc[p] = "idle" /\ rule[k] # Missing
    /\ rule' = [rule EXCEPT ![k] = Missing]
    /\ UNCHANGED <<idkey, names, leases, nextLease, nextId, pc, op>>

(* Storage.Update: read the identity key (an error when it is absent),    *)
(* then etcd Client.Update: put the rule with that identity if the rule   *)
(* key exists, else ErrRuleNotFound. The Put carries no lease option, so   *)
(* the key is detached from the rule's lease.                              *)
Update(p, k) ==
    /\ pc[p] = "idle"
    /\ idkey[IdKeyOf(k)] # Missing /\ rule[k] # Missing
    /\ rule' = [rule EXCEPT ![k] = [ident |-> idkey[IdKeyOf(k)].ident,
                                    lease |-> 0]]
    /\ UNCHANGED <<idkey, names, leases, nextLease, nextId, pc, op>>

(* etcd expires lease l and deletes every key attached to it.             *)
LeaseExpire(l) ==
    /\ l \in leases
    /\ leases' = leases \ {l}
    /\ rule' = [k \in Keys |-> IF rule[k].lease = l THEN Missing ELSE rule[k]]
    /\ idkey' = [i \in IdKeys |->
                    IF idkey[i].lease = l THEN Missing ELSE idkey[i]]
    /\ UNCHANGED <<names, nextLease, nextId, pc, op>>

Next ==
    \/ \E p \in Procs :
          \/ AddTxn(p)
          \/ \E k \in Keys : AddRead(p, k) \/ Delete(p, k) \/ Update(p, k)
    \/ \E l \in 1..MaxLeases : LeaseExpire(l)

Spec == Init /\ [][Next]_vars

-----------------------------------------------------------------------------
(* Spec section 8, invariant 1 and the Rule entity of section 3: all live *)
(* rules sharing a CIDR under a rule-set name carry the same identity, and *)
(* it is the one the identity key holds, for as long as any such rule     *)
(* exists. Add reuses the identity key's value and Update copies it.      *)
IdentityStable ==
    \A k1, k2 \in Keys :
        /\ rule[k1] # Missing /\ rule[k2] # Missing
        /\ IdKeyOf(k1) = IdKeyOf(k2)
        => /\ rule[k1].ident = rule[k2].ident
           /\ idkey[IdKeyOf(k1)] # Missing
              => idkey[IdKeyOf(k1)].ident = rule[k1].ident


(* Every name that has a live rule is in the names list /agent/ruleNames, *)
(* which ListRule pages through: Add reads the list and writes it back    *)
(* whole, under operationLock, a mutex of one process only.               *)
NamesIndexed ==
    \A k \in Keys : rule[k] # Missing => k[1] \in names

=============================================================================

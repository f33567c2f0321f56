------------------------------ MODULE Membership ------------------------------
(***************************************************************************)
(* Package cluster: Membership and PartitionMap.  hashicorp/memberlist     *)
(* (external) keeps each process's list of live members and reports every  *)
(* change of it through a callback that may not block: the callback puts   *)
(* an event into a bounded channel and drops it when the channel is full.  *)
(* One goroutine per process, processEvents, takes an event, reads the     *)
(* member list anew and recomputes the partition map from it.              *)
(*                                                                         *)
(* A member is its name (names are numbered in alphabetical order) and its *)
(* address.  What an event says is used by the optional callbacks only, so *)
(* the channel is the number of events in it.                              *)
(***************************************************************************)
EXTENDS Integers, FiniteSets

CONSTANTS
    Name,           \* node names, as their rank in alphabetical order
    Proc,           \* the processes modelled, a subset of Name
    Addr,           \* addresses (with the ports of the node's metadata)
    HomeAddr,       \* the address a process starts with
    NumPartitions,
    ChanCap,        \* capacity of eventCh
    MaxChanges      \* bound on the changes of member lists

ASSUME MembershipAssumption ==
    /\ Name \subseteq Int /\ Proc \subseteq Name /\ HomeAddr \in Addr
    /\ NumPartitions \in Nat \ {0}
    /\ ChanCap \in Nat \ {0}
    /\ MaxChanges \in Nat

VARIABLES
    view,           \* memberlist's live members per process: name -> address
    events,         \* number of events in eventCh
    pc,             \* where the process's rebalancing code is
    snap,           \* result of the Members() call being used
    owners,         \* the partition map: partition -> [name, addr]
    leaving,        \* how far Leave has come
    changes         \* member-list changes so far

vars == <<view, events, pc, snap, owners, leaving, changes>>

Views == UNION {[S -> Addr] : S \in SUBSET Name}
NoView == [n \in {} |-> n]
NoOwners == [i \in {} |-> i]

-----------------------------------------------------------------------------
(* partition.go                                                            *)

\* sorted[i], the member with i smaller names.
SortedName(v, i) ==
    CHOOSE n \in DOMAIN v : Cardinality({m \in DOMAIN v : m < n}) = i

\* Round-robin over the sorted members.
\* Faulty variant: the divisor is one too small.
AssignShort(v) ==
    [i \in IF DOMAIN v = {} THEN {} ELSE 0..(NumPartitions - 1) |->
        LET len == Cardinality(DOMAIN v)
            n == SortedName(v, IF len = 1 THEN 0 ELSE i % (len - 1))
        IN  [name |-> n, addr |-> v[n]]]
Assign(v) ==
    [i \in IF DOMAIN v = {} THEN {} ELSE 0..(NumPartitions - 1) |->
        LET n == SortedName(v, i % Cardinality(DOMAIN v)) IN [name |-> n, addr |-> v[n]]]

\* PartitionMap.Rebalance: the old map plays no part.
\* Faulty variant: a partition stays with its owner while that is a member.
RebalanceSticky(p, v) ==
    owners' = [owners EXCEPT ![p] =
        [i \in DOMAIN Assign(v) |->
            IF i \in DOMAIN owners[p] /\ owners[p][i].name \in DOMAIN v
            THEN [name |-> owners[p][i].name, addr |-> v[owners[p][i].name]]
            ELSE Assign(v)[i]]]
Rebalance(p, v) == owners' = [owners EXCEPT ![p] = Assign(v)]

UniqueOwners(p) == {owners[p][i].name : i \in DOMAIN owners[p]}

-----------------------------------------------------------------------------
(* membership.go                                                           *)

\* Type invariant.
TypeOK ==
    /\ view \in [Proc -> Views]
    /\ events \in [Proc -> 0..ChanCap]
    /\ pc \in [Proc -> {"down", "init", "wait", "got", "members", "stopped"}]
    /\ snap \in [Proc -> Views]
    /\ leaving \in [Proc -> {"no", "left", "closed"}]
    /\ changes \in 0..MaxChanges

Init ==
    /\ view = [p \in Proc |-> NoView]
    /\ events = [p \in Proc |-> 0]
    /\ pc = [p \in Proc |-> "down"]
    /\ snap = [p \in Proc |-> NoView]
    /\ owners = [p \in Proc |-> NoOwners]
    /\ leaving = [p \in Proc |-> "no"]
    /\ changes = 0

Self(p) == [n \in {p} |-> HomeAddr]

\* memberlist.Create inside NewMembership: the list holds the process itself
\* and its join event is in the channel; nobody reads the channel yet.
Create(p) ==
    /\ pc[p] = "down"
    /\ view' = [view EXCEPT ![p] = Self(p)]
    /\ events' = [events EXCEPT ![p] = 1]
    /\ pc' = [pc EXCEPT ![p] = "init"]
    /\ UNCHANGED <<snap, owners, leaving, changes>>

\* The rest of NewMembership: rebalance with the process alone, whatever the
\* list holds by now, and start processEvents.
InitialRebalance(p) ==
    /\ pc[p] = "init"
    /\ Rebalance(p, Self(p))
    /\ pc' = [pc EXCEPT ![p] = "wait"]
    /\ UNCHANGED <<view, events, snap, leaving, changes>>

\* Faulty variant: every event is dropped.
NotifyNothing(p) == events' = events
\* NotifyJoin, NotifyLeave, NotifyUpdate: a send that gives up when it is full.
Notify(p) ==
    events' = [events EXCEPT ![p] = IF @ < ChanCap THEN @ + 1 ELSE @]

\* memberlist learns that n is alive at address a (join, or update of the
\* address or metadata), or takes n for dead.  The list and the callback change
\* under memberlist's lock.
MemberAlive(p, n, a) ==
    /\ pc[p] \notin {"down", "stopped"} /\ n # p
    /\ changes < MaxChanges /\ changes' = changes + 1
    /\ n \in DOMAIN view[p] => view[p][n] # a
    /\ view' = [view EXCEPT ![p] = [m \in DOMAIN @ \cup {n} |-> IF m = n THEN a ELSE @[m]]]
    /\ Notify(p)
    /\ UNCHANGED <<pc, snap, owners, leaving>>

MemberDead(p, n) ==
    /\ pc[p] \notin {"down", "stopped"} /\ n # p
    /\ changes < MaxChanges /\ changes' = changes + 1
    /\ n \in DOMAIN view[p]
    /\ view' = [view EXCEPT ![p] = [m \in DOMAIN @ \ {n} |-> @[m]]]
    /\ Notify(p)
    /\ UNCHANGED <<pc, snap, owners, leaving>>

\* processEvents takes an event.
TakeEvent(p) ==
    /\ pc[p] = "wait" /\ events[p] > 0
    /\ events' = [events EXCEPT ![p] = @ - 1]
    /\ pc' = [pc EXCEPT ![p] = "got"]
    /\ UNCHANGED <<view, snap, owners, leaving, changes>>

\* m.Members(): a copy of the list, taken after the event.
ReadMembers(p) ==
    /\ pc[p] = "got"
    /\ snap' = [snap EXCEPT ![p] = view[p]]
    /\ pc' = [pc EXCEPT ![p] = "members"]
    /\ UNCHANGED <<view, events, owners, leaving, changes>>

\* Rebalance with that copy, then the callbacks.
ApplyMembers(p) ==
    /\ pc[p] = "members"
    /\ Rebalance(p, snap[p])
    /\ pc' = [pc EXCEPT ![p] = "wait"]
    /\ UNCHANGED <<view, events, snap, leaving, changes>>

\* Leave, once (stopOnce): list.Leave takes the process itself off its list,
\* which is an event like any other.
Leave(p) ==
    /\ pc[p] \in {"wait", "got", "members"} /\ leaving[p] = "no"
    /\ view' = [view EXCEPT ![p] = [m \in DOMAIN @ \ {p} |-> @[m]]]
    /\ Notify(p)
    /\ leaving' = [leaving EXCEPT ![p] = "left"]
    /\ UNCHANGED <<pc, snap, owners, changes>>

\* ... then close(stopCh), whether or not list.Leave failed.
CloseStop(p) ==
    /\ leaving[p] = "left"
    /\ leaving' = [leaving EXCEPT ![p] = "closed"]
    /\ UNCHANGED <<view, events, pc, snap, owners, changes>>

\* The select in processEvents sees stopCh; a waiting event may win first.
Stop(p) ==
    /\ pc[p] = "wait" /\ leaving[p] = "closed"
    /\ pc' = [pc EXCEPT ![p] = "stopped"]
    /\ UNCHANGED <<view, events, snap, owners, leaving, changes>>

ProcessEvents(p) == TakeEvent(p) \/ ReadMembers(p) \/ ApplyMembers(p) \/ Stop(p)

Next ==
    \E p \in Proc :
        \/ Create(p) \/ InitialRebalance(p) \/ ProcessEvents(p) \/ Leave(p) \/ CloseStop(p)
        \/ \E n \in Name : MemberDead(p, n) \/ \E a \in Addr : MemberAlive(p, n, a)

Spec == Init /\ [][Next]_vars

\* NewMembership runs to its end and processEvents is always scheduled again.
FairSpec ==
    /\ Spec
    /\ \A p \in Proc : WF_vars(InitialRebalance(p)) /\ WF_vars(ProcessEvents(p))

-----------------------------------------------------------------------------
(* Properties.                                                             *)

\* processEvents is going to rebalance with the current list.
Pending(p) ==
    \/ events[p] > 0
    \/ pc[p] = "got"
    \/ pc[p] = "members" /\ snap[p] = view[p]

\* A partition map that disagrees with the member list is about to be replaced:
\* dropped events lose nothing, since an event is only dropped when another one
\* is still waiting and Members() is read after an event is taken.
StaleMapIsPending ==
    \A p \in Proc :
        pc[p] \in {"wait", "got", "members"} => owners[p] = Assign(view[p]) \/ Pending(p)

\* "All nodes compute the same partition map independently": two settled
\* processes with the same member list have the same owner for every partition.
SameListSameMap ==
    \A p, q \in Proc :
        /\ pc[p] = "wait" /\ ~Pending(p) /\ pc[q] = "wait" /\ ~Pending(q)
        /\ view[p] = view[q]
        => owners[p] = owners[q]

\* Round-robin over the sorted members: while there is a member, every partition
\* of a settled process's map has an owner and no member has two partitions more
\* than another; the router's unique owners are all members, or one per partition.
Balanced ==
    \A p \in Proc :
        pc[p] = "wait" /\ ~Pending(p) /\ DOMAIN view[p] # {} =>
            /\ DOMAIN owners[p] = 0..(NumPartitions - 1)
            /\ \A m, n \in DOMAIN view[p] :
                  Cardinality({i \in DOMAIN owners[p] : owners[p][i].name = m})
                  <= Cardinality({i \in DOMAIN owners[p] : owners[p][i].name = n}) + 1
            /\ UniqueOwners(p) = DOMAIN view[p] \/ Cardinality(UniqueOwners(p)) = NumPartitions

\* Once membership stops changing, every process settles on the map of its list
\* or has left.
MapFollowsList ==
    \A p \in Proc :
        <>[](pc[p] \in {"down", "stopped"} \/ (pc[p] = "wait" /\ owners[p] = Assign(view[p])))
=============================================================================

----------------------------- MODULE StaticGroup -----------------------------
(***************************************************************************)
(* The operations of a static group: its creation, which every member      *)
(* joins, the barrier (SBarrier::Synchronize) and the collective creation  *)
(* of a resource, in the ResourceManager of each pod and the Controller    *)
(* messages between them (resource_manager.cpp and .tpp, controller.cpp).  *)
(*                                                                         *)
(* A member's operation multicasts a message to every pod; each pod counts *)
(* the messages and lets its member go on when they are as many as the     *)
(* members.  HandleRegularMessage starts a detached thread for each        *)
(* message, so those delivered to a pod are handled in any order.  A step  *)
(* is what a thread does in one critical section of _mtx, with the send    *)
(* next to it.                                                             *)
(*                                                                         *)
(* An operator named <Definition>_<fault> is a faulty variant of the       *)
(* definition below it; the specification does not use it.                 *)
(***************************************************************************)
EXTENDS Naturals, Sequences, FiniteSets

CONSTANTS Pods,
          Members,  \* the members of the group, each an agent with its thread
          Home,     \* Home[m]: the pod of member m
          Root,     \* the member with rank 0
          Program   \* what every member does after the creation of the group

ASSUME StaticGroupAssumption ==
    /\ Home \in [Members -> Pods]
    /\ Root \in Members
    /\ Program \in Seq({"synchronize", "collective"})
    /\ IsFiniteSet(Members)

VARIABLES
    entry,   \* pods whose _sg_vars has the group
    count,   \* _sg_vars[comm].first
    total,   \* _sg_vars[comm].second
    cc,      \* _sg_cc[comm], 0 if there is none: the resource of which collective
    inbox,   \* messages delivered to each pod and not handled
    late,    \* threads of HandleCreateStaticGroup that wait for the entry
    pc,      \* where each member is
    asleep,  \* members in a wait on _sg_cv[comm] that were not notified
    entered, \* operations each member has entered, the creation included
    got      \* the resource of each member's last collective

records == <<entry, count, total, cc>>
members == <<pc, asleep, entered, got>>
vars    == <<records, inbox, late, members>>

N == Cardinality(Members)

Places == {"new", "creating", "ready", "asking", "made", "syncing"}

\* Nobody resets the count of a pod without a member.
TypeOK ==
    /\ entry \in SUBSET Pods
    /\ count \in [Pods -> Nat]
    /\ \A m \in Members : count[Home[m]] < 2 * N
    /\ total \in [Pods -> {0, N}]
    /\ cc \in [Pods -> 0 .. Len(Program)]
    /\ inbox \in [Pods -> SUBSET [type : {"create", "woken", "synchronize", "idp"},
                                  from : Members, no : 1 .. Len(Program) + 1]]
    /\ late \in [Pods -> SUBSET Members]
    /\ pc \in [Members -> Places]
    /\ asleep \in SUBSET Members
    /\ entered \in [Members -> 0 .. Len(Program) + 1]
    /\ got \in [Members -> 0 .. Len(Program)]

------------------------------------------------------------------------------
(* Messages and the condition variable of the group *)

Message(type, m, no) == [type |-> type, from |-> m, no |-> no]

Multicast(msg) == inbox' = [p \in Pods |-> inbox[p] \cup {msg}]

Sleep(m) == asleep' = asleep \cup {m}

\* _sg_cv[comm].notify_all(): the members and the threads of
\* HandleCreateStaticGroup wait on the same variable.
Notify(p, boxes) ==
    /\ asleep' = {m \in asleep : Home[m] # p}
    /\ late' = [late EXCEPT ![p] = {}]
    /\ inbox' = [boxes EXCEPT ![p] = @ \cup {Message("woken", m, 1) : m \in late[p]}]

------------------------------------------------------------------------------
(* The members *)

NewEntry_swapped(p) ==
    IF p \in entry THEN UNCHANGED <<count, total>>
    ELSE count' = [count EXCEPT ![p] = N] /\ total' = [total EXCEPT ![p] = 0]

NewEntry(p) ==
    IF p \in entry THEN UNCHANGED <<count, total>>
    ELSE count' = [count EXCEPT ![p] = 0] /\ total' = [total EXCEPT ![p] = N]

CreateStaticGroup_silent(m) ==
    LET p == Home[m] IN
    /\ pc[m] = "new"
    /\ pc' = [pc EXCEPT ![m] = "creating"]
    /\ entered' = [entered EXCEPT ![m] = 1]
    /\ NewEntry(p)
    /\ entry' = entry \cup {p}
    /\ Multicast(Message("create", m, 1))
    /\ UNCHANGED <<cc, late, asleep, got>>

CreateStaticGroup(m) ==
    LET p == Home[m] IN
    /\ pc[m] = "new"
    /\ pc' = [pc EXCEPT ![m] = "creating"]
    /\ entered' = [entered EXCEPT ![m] = 1]
    /\ NewEntry(p)
    /\ entry' = entry \cup {p}
    /\ Notify(p, [q \in Pods |-> inbox[q] \cup {Message("create", m, 1)}])
    /\ UNCHANGED <<cc, got>>

Doing(m, what) ==
    /\ entered[m] <= Len(Program)
    /\ Program[entered[m]] = what

SynchronizeStaticGroup(m) ==
    /\ (pc[m] = "ready" /\ Doing(m, "synchronize")) \/ pc[m] = "made"
    /\ pc' = [pc EXCEPT ![m] = "syncing"]
    /\ entered' = [entered EXCEPT ![m] = @ + 1]
    /\ Multicast(Message("synchronize", m, entered[m] + 1))
    /\ UNCHANGED <<records, late, asleep, got>>

Reset_keepsCount(m) ==
    /\ cc' = [cc EXCEPT ![Home[m]] = IF pc[m] = "syncing" THEN 0 ELSE @]
    /\ UNCHANGED count

Reset_keepsIdp(m) ==
    /\ count' = [count EXCEPT ![Home[m]] = 0]
    /\ UNCHANGED cc

\* A synchronization also erases the resource of the last collective.
Reset(m) ==
    /\ count' = [count EXCEPT ![Home[m]] = 0]
    /\ cc' = [cc EXCEPT ![Home[m]] = IF pc[m] = "syncing" THEN 0 ELSE @]

\* The end of CreateStaticGroup and of SynchronizeStaticGroup.
AwaitAll(m) ==
    LET p == Home[m] IN
    /\ pc[m] \in {"creating", "syncing"} /\ m \notin asleep
    /\ IF count[p] = total[p]
       THEN /\ pc' = [pc EXCEPT ![m] = "ready"]
            /\ Reset(m)
            /\ UNCHANGED asleep
       ELSE Sleep(m) /\ UNCHANGED <<pc, count, cc>>
    /\ UNCHANGED <<entry, total, inbox, late, entered, got>>

\* CreateCollective: rank 0 creates the resource and tells every pod its idp.
CreateCollective(m) ==
    /\ pc[m] = "ready" /\ Doing(m, "collective")
    /\ IF m = Root
       THEN /\ pc' = [pc EXCEPT ![m] = "made"]
            /\ got' = [got EXCEPT ![m] = entered[m]]
            /\ Multicast(Message("idp", m, entered[m]))
       ELSE /\ pc' = [pc EXCEPT ![m] = "asking"]
            /\ UNCHANGED <<got, inbox>>
    /\ UNCHANGED <<records, late, asleep, entered>>

GetStaticGroupCCIdp(m) ==
    LET p == Home[m] IN
    /\ pc[m] = "asking" /\ m \notin asleep
    /\ IF cc[p] = 0
       THEN Sleep(m) /\ UNCHANGED <<pc, got>>
       ELSE /\ pc' = [pc EXCEPT ![m] = "made"]
            /\ got' = [got EXCEPT ![m] = cc[p]]
            /\ UNCHANGED asleep
    /\ UNCHANGED <<records, inbox, late, entered>>

SpuriousWakeup(m) ==
    /\ m \in asleep
    /\ asleep' = asleep \ {m}
    /\ UNCHANGED <<records, inbox, late, pc, entered, got>>

------------------------------------------------------------------------------
(* The handlers *)

Handled(p, msg) == [inbox EXCEPT ![p] = @ \ {msg}]

Count_late(p, boxes) ==
    /\ entry' = entry \cup {p}
    /\ count' = [count EXCEPT ![p] = @ + 1]
    /\ IF count[p] + 1 > total[p]
       THEN Notify(p, boxes)
       ELSE inbox' = boxes /\ UNCHANGED <<late, asleep>>

\* _sg_vars[comm] makes the entry, with no members, if there is none.
Count(p, boxes) ==
    /\ entry' = entry \cup {p}
    /\ count' = [count EXCEPT ![p] = @ + 1]
    /\ IF count[p] + 1 = total[p]
       THEN Notify(p, boxes)
       ELSE inbox' = boxes /\ UNCHANGED <<late, asleep>>

\* Waits once for the entry and does not look again.
HandleCreateStaticGroup(p, msg) ==
    \/ /\ msg.type = "create" /\ p \notin entry
       /\ late' = [late EXCEPT ![p] = @ \cup {msg.from}]
       /\ inbox' = Handled(p, msg)
       /\ UNCHANGED <<records, members>>
    \/ /\ msg.type = "woken" \/ (msg.type = "create" /\ p \in entry)
       /\ Count(p, Handled(p, msg))
       /\ UNCHANGED <<total, cc, pc, entered, got>>

HandleSynchronizeStaticGroup(p, msg) ==
    /\ msg.type = "synchronize"
    /\ Count(p, Handled(p, msg))
    /\ UNCHANGED <<total, cc, pc, entered, got>>

HandleStaticGroupCCIdp(p, msg) ==
    /\ msg.type = "idp"
    /\ cc' = [cc EXCEPT ![p] = msg.no]
    /\ Notify(p, Handled(p, msg))
    /\ UNCHANGED <<entry, count, total, pc, entered, got>>

LateWakeup(p) ==
    \E m \in late[p] :
        /\ late' = [late EXCEPT ![p] = @ \ {m}]
        /\ inbox' = [inbox EXCEPT ![p] = @ \cup {Message("woken", m, 1)}]
        /\ UNCHANGED <<records, members>>

------------------------------------------------------------------------------
Init ==
    /\ entry = {}
    /\ count = [p \in Pods |-> 0] /\ total = [p \in Pods |-> 0] /\ cc = [p \in Pods |-> 0]
    /\ inbox = [p \in Pods |-> {}] /\ late = [p \in Pods |-> {}]
    /\ pc = [m \in Members |-> "new"] /\ asleep = {}
    /\ entered = [m \in Members |-> 0] /\ got = [m \in Members |-> 0]

Proceed(m) ==
    \/ CreateStaticGroup(m) \/ SynchronizeStaticGroup(m) \/ CreateCollective(m)
    \/ AwaitAll(m) \/ GetStaticGroupCCIdp(m)

Handle(p) ==
    \E msg \in inbox[p] :
        \/ HandleCreateStaticGroup(p, msg) \/ HandleSynchronizeStaticGroup(p, msg)
        \/ HandleStaticGroupCCIdp(p, msg)

Next ==
    \/ \E m \in Members : Proceed(m) \/ SpuriousWakeup(m)
    \/ \E p \in Pods : Handle(p) \/ LateWakeup(p)

Spec == Init /\ [][Next]_vars

\* Members execute the program and started threads get _mtx in the end.
FairSpec ==
    /\ Spec
    /\ \A m \in Members : WF_vars(Proceed(m))
    /\ \A p \in Pods : WF_vars(Handle(p))
------------------------------------------------------------------------------
\* The operations each member has left.
Left == [m \in Members |->
           IF pc[m] \in {"creating", "syncing"} THEN entered[m] - 1 ELSE entered[m]]

\* Nobody leaves the creation of the group, a barrier or a collective before
\* every member has entered it, although pods count messages that their
\* threads handle in any order and never ask which operation they belong to.
B == INSTANCE Barrier WITH left <- Left

ImplementsBarrier == B!Spec

\* Every member of a collective gets the resource that rank 0 created in it,
\* never one of an earlier collective.
CollectiveAgrees ==
    \A m \in Members : pc[m] = "made" => got[m] = entered[m]

\* Nobody sleeps on what has happened: every member that waits for the group
\* or for an idp is told.
NoneOversleeps ==
    \A m \in asleep :
        IF pc[m] = "asking" THEN cc[Home[m]] = 0 ELSE count[Home[m]] # total[Home[m]]

\* A member waits for a count that has passed its total: Reset comes only after
\* the wait, so the count never equals the total again.
Overshot(m) ==
    /\ pc[m] \in {"creating", "syncing"}
    /\ count[Home[m]] > total[Home[m]]

\* An operation that every member has entered returns in every member, unless
\* the count of a pod passed the total before its member looked at it. Joining
\* a closure counts on it ("Synchronize join", static_organizer.cpp:58).
OperationsReturn ==
    \A k \in 1 .. Len(Program) + 1 :
        (\A m \in Members : entered[m] >= k)
            ~> (\A m \in Members : Left[m] >= k) \/ (\E m \in Members : Overshot(m))
==============================================================================

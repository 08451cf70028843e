--------------------------- MODULE ResourceManager ---------------------------
(***************************************************************************)
(* The directory of resources: the ResourceManager of every pod            *)
(* (resource_manager.cpp and .tpp) and the messages by which they find a   *)
(* resource, its predecessor and its owner and get replicas of it          *)
(* (controller.cpp).  MetaDomain is allocated by the first pod; every pod  *)
(* that starts gets a replica of it, maybe before it exists.  The idp of   *)
(* another resource is known to others once its allocation has returned.   *)
(*                                                                         *)
(* Each message is handled by a detached thread, so those delivered to a   *)
(* pod are handled in any order.  A step is what a thread does in one      *)
(* critical section of _mtx, with the message it sends in it.              *)
(*                                                                         *)
(* CreateReplica and GetPredecessorIdp wait without a condition; here a    *)
(* wait returns only when it is notified.  Abstracted: the context that a  *)
(* resource joins (an organizer), the mailbox of a resource (Mailer) and   *)
(* the token: nobody writes, so the creator is the one that answers joins  *)
(* of the group (ConsistencyObject has the whole story).  Of a pod's start *)
(* only the join of the application's group is modelled.                   *)
(*                                                                         *)
(* An operator named <Definition>_<fault> is a faulty variant of the       *)
(* definition below it; the specification does not use it.                 *)
(***************************************************************************)
EXTENDS Naturals, Sequences, FiniteSets

CONSTANTS Pods,
          Main,       \* the pod with _is_main_mgr
          Threads,    \* application threads
          Home,       \* the pod every thread runs in
          Meta,       \* cor::MetaDomain
          Resources,
          Program,    \* what each thread calls: a sequence of calls
          None        \* the empty name of a controller

Calls == [op : {"allocate", "replica", "reference", "search", "predecessor"}, rsc : Resources]

Creates(t, r) == [op |-> "allocate", rsc |-> r] \in {Program[t][i] : i \in DOMAIN Program[t]}

ASSUME DirectoryAssumption ==
    /\ Main \in Pods /\ Meta \in Resources /\ None \notin Pods
    /\ IsFiniteSet(Pods)
    /\ Home \in [Threads -> Pods]
    /\ Program \in [Threads -> Seq(Calls)]
    /\ \A r \in Resources : \E t \in Threads : Creates(t, r)
    /\ \A t, u \in Threads, r \in Resources : Creates(t, r) /\ Creates(u, r) => t = u
    /\ \A t \in Threads : Creates(t, Meta) => Home[t] = Main

\* The pod that allocates r.
Creator(r) == Home[CHOOSE t \in Threads : Creates(t, r)]

VARIABLES
    up,         \* pods in the application's group
    npods,      \* _init_total_npods of each controller
    at,         \* the call each thread is in, or will make next
    pc,         \* where it is in that call
    notified,   \* threads whose wait was notified
    total,      \* total_pods in SearchResource of each thread
    group,      \* the members of each resource's group
    objs,       \* the keys of _cst_objs
    rscs,       \* those whose consistency object has its _rsc
    preds,      \* the keys of _predecessors
    requested,  \* the keys of _sync_replicas
    cached,     \* the keys of _cache_preds
    search,     \* _sr_vars, with the number of pods that were asked
    missed,     \* history: whose search of what threw
    inbox       \* messages delivered to each pod and not handled

calls   == <<at, pc, notified, total, missed>>
tables  == <<group, objs, rscs, preds, requested, cached>>
vars    == <<up, npods, calls, tables, search, inbox>>

Waits  == {"finding", "replicating", "asking", "searching"}
Places == {"ready", "listed", "grouped", "announcing", "referencing", "counted"} \cup Waits

NotSearched == [asked |-> 0, count |-> 0, total |-> 0, info |-> None]

Kinds == {"Allocation", "FindRequest", "FindReply", "PredRequest", "PredReply", "Join",
          "CreateReplica", "SearchRequest", "SearchReply"}
Messages == [type : Kinds, rsc : Resources, from : Pods, by : Threads, info : Pods \cup {None}]

TypeOK ==
    /\ up \in SUBSET Pods
    /\ npods \in [Pods -> 0 .. Cardinality(Pods)]
    /\ at \in [Threads -> Nat \ {0}] /\ pc \in [Threads -> Places]
    /\ total \in [Threads -> Nat]
    /\ notified \in SUBSET Threads /\ missed \in SUBSET (Threads \X Resources)
    /\ group \in [Resources -> SUBSET Pods]
    /\ \A table \in {objs, rscs, preds, requested, cached} :
          table \in [Pods -> SUBSET Resources]
    /\ search \in [Pods -> [Resources -> [asked : Nat, count : Nat, total : Nat,
                                          info : Pods \cup {None}]]]
    /\ inbox \in [Pods -> SUBSET Messages]
------------------------------------------------------------------------------
(* Threads and messages *)

Rsc(t) == Program[t][at[t]].rsc

\* CreateInitialContext of p returned.
Started(p) == \E t \in Threads : Home[t] = p /\ at[t] > 1 /\ Program[t][1].rsc = Meta

\* The allocation of r returned, and its creator may tell its idp.
Allocated(r) ==
    \E t \in Threads : \E i \in 1 .. at[t] - 1 : Program[t][i] = [op |-> "allocate", rsc |-> r]

\* t calls op for r next. CreateInitialContext makes MetaDomain or a replica of
\* it, and the application runs after that; MetaDomain's idp is a constant,
\* another's is told.
Calling(t, op, r) ==
    /\ Home[t] \in up
    /\ pc[t] = "ready" /\ at[t] \in DOMAIN Program[t]
    /\ Program[t][at[t]] = [op |-> op, rsc |-> r]
    /\ r # Meta \/ op \notin {"allocate", "replica"} => Started(Home[t])
    /\ r # Meta /\ op # "allocate" => Allocated(r)

At(t, place) == pc[t] = place /\ (place \in Waits => t \in notified)

Move(t, place) ==
    /\ pc' = [pc EXCEPT ![t] = place] /\ notified' = notified \ {t}
    /\ UNCHANGED <<at, missed>>

Goto(t, place) == Move(t, place) /\ UNCHANGED total

Return(t) ==
    /\ pc' = [pc EXCEPT ![t] = "ready"] /\ at' = [at EXCEPT ![t] = @ + 1]
    /\ notified' = notified \ {t}

Done(t) == Return(t) /\ UNCHANGED <<total, missed>>

Note(t, type, from, info) ==
    [type |-> type, rsc |-> Rsc(t), from |-> from, by |-> t, info |-> info]

Delivered(box, to, m) == [p \in Pods |-> IF p \in to THEN box[p] \cup {m} ELSE box[p]]

Post(to, m) == inbox' = Delivered(inbox, to, m)

Add(table, p, r) == [table EXCEPT ![p] = @ \cup {r}]

\* The threads of p that wait at a place for r.
WaitingAt(place, p, r) == {t \in Threads : pc[t] = place /\ Home[t] = p /\ Rsc(t) = r}

NotifyAll(place, p, r) == notified' = notified \cup WaitingAt(place, p, r)
------------------------------------------------------------------------------
(* Pods *)

\* Initialize: the first pod to join the application's group is the main one.
Start(p) ==
    /\ p \notin up /\ (p = Main \/ Main \in up)
    /\ up' = up \cup {p}
    /\ npods' = [npods EXCEPT ![p] = Cardinality(up')]
    /\ UNCHANGED <<calls, tables, search, inbox>>

HandleInitialize_again(p) ==
    /\ p \in up
    /\ npods' = [npods EXCEPT ![p] = @ + 1]
    /\ UNCHANGED <<up, calls, tables, search, inbox>>

\* HandleInitialize for the next pod that joined, in the service thread.
HandleInitialize(p) ==
    /\ p \in up /\ npods[p] < Cardinality(up)
    /\ npods' = [npods EXCEPT ![p] = @ + 1]
    /\ UNCHANGED <<up, calls, tables, search, inbox>>
------------------------------------------------------------------------------
(* AllocateResource and CreateMetaDomain *)

\* Join of the context; MetaDomain joins itself later.
JoinContext(t) ==
    /\ Calling(t, "allocate", Rsc(t)) /\ Rsc(t) # Meta
    /\ Goto(t, "listed")
    /\ UNCHANGED <<up, npods, tables, search, inbox>>

\* JoinResourceGroup: a membership message to the group if it has others; at
\* the joiner itself it changes nothing and is left out.
JoinGroup(t, p) ==
    LET r == Rsc(t) IN
    /\ group' = [group EXCEPT ![r] = @ \cup {p}]
    /\ IF group[r] \subseteq {p} THEN UNCHANGED inbox
       ELSE Post(group[r] \ {p}, Note(t, "Join", p, None))

JoinOwnGroup(t) ==
    /\ At(t, "listed") \/ Calling(t, "allocate", Meta)
    /\ JoinGroup(t, Home[t])
    /\ Goto(t, "grouped")
    /\ UNCHANGED <<up, npods, objs, rscs, preds, requested, cached, search>>

Register_predecessorFirst(t) ==
    LET p == Home[t] IN
    /\ At(t, "grouped")
    /\ IF Rsc(t) \notin preds[p]
       THEN preds' = Add(preds, p, Rsc(t)) /\ UNCHANGED <<objs, rscs, calls>>
       ELSE /\ objs' = Add(objs, p, Rsc(t)) /\ rscs' = Add(rscs, p, Rsc(t))
            /\ IF Rsc(t) = Meta THEN Goto(t, "announcing") ELSE Done(t)
            /\ UNCHANGED preds
    /\ UNCHANGED <<up, npods, group, requested, cached, search, inbox>>

Register_unannounced(t) ==
    LET p == Home[t] IN
    /\ At(t, "grouped")
    /\ objs' = Add(objs, p, Rsc(t)) /\ rscs' = Add(rscs, p, Rsc(t))
    /\ preds' = Add(preds, p, Rsc(t))
    /\ Done(t)
    /\ UNCHANGED <<up, npods, group, requested, cached, search, inbox>>

\* The consistency object and the predecessor enter the tables together.
Register(t) ==
    LET p == Home[t] IN
    /\ At(t, "grouped")
    /\ objs' = Add(objs, p, Rsc(t)) /\ rscs' = Add(rscs, p, Rsc(t))
    /\ preds' = Add(preds, p, Rsc(t))
    /\ IF Rsc(t) = Meta THEN Goto(t, "announcing") ELSE Done(t)
    /\ UNCHANGED <<up, npods, group, requested, cached, search, inbox>>

\* SendResourceAllocationInfo, only for MetaDomain, which no thread of the
\* sender's pod waits for.
Announce(t) ==
    /\ At(t, "announcing")
    /\ Post(up \ {Home[t]}, Note(t, "Allocation", Home[t], None))
    /\ Done(t)
    /\ UNCHANGED <<up, npods, tables, search>>
------------------------------------------------------------------------------
(* CreateReplica and CreateReference *)

\* FindGlobalResource asks the other pods.
StartFind(t) ==
    /\ \E op \in {"replica", "reference"}, r \in Resources : Calling(t, op, r)
    /\ Post(up \ {Home[t]}, Note(t, "FindRequest", Home[t], None))
    /\ Goto(t, "finding")
    /\ UNCHANGED <<up, npods, tables, search>>

RequestReplica_always(t) ==
    LET p == Home[t] IN
    /\ At(t, "finding")
    /\ requested' = Add(requested, p, Rsc(t))
    /\ objs' = Add(objs, p, Rsc(t))
    /\ JoinGroup(t, p)
    /\ Goto(t, "replicating")
    /\ UNCHANGED <<up, npods, rscs, preds, cached, search>>

\* The resource was found: join its group unless another thread has done so,
\* and wait for the replica.
RequestReplica(t) ==
    LET p == Home[t] IN
    /\ At(t, "finding")
    /\ requested' = Add(requested, p, Rsc(t))
    /\ objs' = Add(objs, p, Rsc(t))
    /\ IF Rsc(t) \in requested[p] THEN UNCHANGED <<group, inbox>> ELSE JoinGroup(t, p)
    /\ Goto(t, "replicating")
    /\ UNCHANGED <<up, npods, rscs, preds, cached, search>>

HaveReplica(t) ==
    /\ At(t, "replicating")
    /\ IF Program[t][at[t]].op = "replica" THEN Done(t) ELSE Goto(t, "referencing")
    /\ UNCHANGED <<up, npods, tables, search, inbox>>

\* The rest of CreateReference: the alias, which nothing here looks up.
InsertAlias(t) ==
    /\ At(t, "referencing")
    /\ Done(t)
    /\ UNCHANGED <<up, npods, tables, search, inbox>>
------------------------------------------------------------------------------
(* GetPredecessorIdp *)

GetPredecessorIdp(t) ==
    /\ \E r \in Resources : Calling(t, "predecessor", r)
    /\ IF Rsc(t) \in preds[Home[t]] \cup cached[Home[t]]
       THEN Done(t) /\ UNCHANGED inbox
       ELSE Goto(t, "asking") /\ Post(up \ {Home[t]}, Note(t, "PredRequest", Home[t], None))
    /\ UNCHANGED <<up, npods, tables, search>>

HavePredecessor(t) ==
    /\ At(t, "asking")
    /\ Done(t)
    /\ UNCHANGED <<up, npods, tables, search, inbox>>
------------------------------------------------------------------------------
(* SearchResource *)

\* GetTotalPods, before the lock is taken.
CountPods(t) ==
    /\ \E r \in Resources : Calling(t, "search", r)
    /\ Move(t, "counted")
    /\ total' = [total EXCEPT ![t] = npods[Home[t]]]
    /\ UNCHANGED <<up, npods, tables, search, inbox>>

\* The end of the loop, with the record of the search as it is then.
Conclude(t, s) ==
    IF s.count # s.total THEN Goto(t, "searching")
    ELSE /\ Return(t)
         /\ missed' = IF s.info = None THEN missed \cup {<<t, Rsc(t)>>} ELSE missed
         /\ UNCHANGED total

\* The first search of the pod for the resource asks all pods, itself too.
StartSearch(t) ==
    LET p == Home[t]
        s == search[p][Rsc(t)]
        new == [asked |-> Cardinality(up), count |-> 0, total |-> total[t], info |-> None]
    IN
    /\ At(t, "counted")
    /\ IF s = NotSearched
       THEN /\ search' = [search EXCEPT ![p][Rsc(t)] = new]
            /\ Post(up, Note(t, "SearchRequest", p, None))
            /\ Conclude(t, new)
       ELSE Conclude(t, s) /\ UNCHANGED <<search, inbox>>
    /\ UNCHANGED <<up, npods, tables>>

RetrySearch(t) ==
    /\ At(t, "searching")
    /\ Conclude(t, search[Home[t]][Rsc(t)])
    /\ UNCHANGED <<up, npods, tables, search, inbox>>

------------------------------------------------------------------------------
(* Handlers *)

\* The inboxes once p has handled m and replied to its sender.
Reply(p, m, type, info) ==
    inbox' = Delivered([inbox EXCEPT ![p] = @ \ {m}], {m.from},
                       [m EXCEPT !.type = type, !.from = p, !.info = info])

Drop(p, m) == inbox' = [inbox EXCEPT ![p] = @ \ {m}]

Wake(place, p, r) == NotifyAll(place, p, r) /\ UNCHANGED <<at, pc, total, missed>>

\* HandleFindGlobalResource, HandleFindPredecessor
HandleRequest(p, m) ==
    /\ m.type \in {"FindRequest", "PredRequest"}
    /\ IF m.rsc \in preds[p]
       THEN Reply(p, m, IF m.type = "FindRequest" THEN "FindReply" ELSE "PredReply", None)
       ELSE Drop(p, m)
    /\ UNCHANGED <<calls, tables, search>>

\* GlobalResourceFound
HandleFound(p, m) ==
    /\ m.type \in {"FindReply", "Allocation"}
    /\ Wake("finding", p, m.rsc)
    /\ Drop(p, m)
    /\ UNCHANGED <<tables, search>>

HandlePredecessor_silent(p, m) ==
    /\ m.type = "PredReply"
    /\ cached' = Add(cached, p, m.rsc)
    /\ Drop(p, m)
    /\ UNCHANGED <<calls, group, objs, rscs, preds, requested, search>>

\* PredecessorFound
HandlePredecessor(p, m) ==
    /\ m.type = "PredReply"
    /\ cached' = Add(cached, p, m.rsc)
    /\ Wake("asking", p, m.rsc)
    /\ Drop(p, m)
    /\ UNCHANGED <<group, objs, rscs, preds, requested, search>>

\* CheckReplica: the pod with the token sends the replica. That is the creator,
\* whose replica stays valid, as long as nobody writes.
HandleJoin(p, m) ==
    /\ m.type = "Join"
    /\ IF p = Creator(m.rsc)
       THEN Reply(p, m, "CreateReplica", None) ELSE Drop(p, m)
    /\ UNCHANGED <<calls, tables, search>>

\* InsertResourceReplica
HandleCreateReplica(p, m) ==
    /\ m.type = "CreateReplica"
    /\ rscs' = Add(rscs, p, m.rsc)
    /\ Wake("replicating", p, m.rsc)
    /\ Drop(p, m)
    /\ UNCHANGED <<group, objs, preds, requested, cached, search>>

HandleSearch_replicas(p, m) ==
    /\ m.type = "SearchRequest"
    /\ Reply(p, m, "SearchReply", IF m.rsc \in rscs[p] THEN p ELSE None)
    /\ UNCHANGED <<calls, tables, search>>

\* HandleSearchResource: the owner gives its name.
HandleSearch(p, m) ==
    /\ m.type = "SearchRequest"
    /\ Reply(p, m, "SearchReply", IF m.rsc \in objs[p] /\ p = Creator(m.rsc) THEN p ELSE None)
    /\ UNCHANGED <<calls, tables, search>>

Answered_overwriting(s, info) == [s EXCEPT !.count = @ + 1, !.info = info]

Answered(s, info) ==
    [s EXCEPT !.count = @ + 1, !.info = IF info = None THEN @ ELSE info]

\* HandleSearchResourceInfo
HandleSearchReply(p, m) ==
    LET s == Answered(search[p][m.rsc], m.info) IN
    /\ m.type = "SearchReply"
    /\ search' = [search EXCEPT ![p][m.rsc] = s]
    /\ IF s.count = s.total THEN Wake("searching", p, m.rsc) ELSE UNCHANGED calls
    /\ Drop(p, m)
    /\ UNCHANGED tables

Handle(p) ==
    /\ \E m \in inbox[p] :
          \/ HandleRequest(p, m) \/ HandleFound(p, m) \/ HandlePredecessor(p, m)
          \/ HandleJoin(p, m) \/ HandleCreateReplica(p, m)
          \/ HandleSearch(p, m) \/ HandleSearchReply(p, m)
    /\ UNCHANGED <<up, npods>>
------------------------------------------------------------------------------
Init ==
    /\ up = {} /\ npods = [p \in Pods |-> 0]
    /\ at = [t \in Threads |-> 1] /\ pc = [t \in Threads |-> "ready"]
    /\ notified = {} /\ total = [t \in Threads |-> 0] /\ missed = {}
    /\ group = [r \in Resources |-> {}]
    /\ objs = [p \in Pods |-> {}] /\ rscs = objs /\ preds = objs
    /\ requested = objs /\ cached = objs
    /\ search = [p \in Pods |-> [r \in Resources |-> NotSearched]]
    /\ inbox = [p \in Pods |-> {}]

Proceed(t) ==
    \/ JoinContext(t) \/ JoinOwnGroup(t) \/ Register(t) \/ Announce(t)
    \/ StartFind(t) \/ RequestReplica(t) \/ HaveReplica(t) \/ InsertAlias(t)
    \/ GetPredecessorIdp(t) \/ HavePredecessor(t)
    \/ CountPods(t) \/ StartSearch(t) \/ RetrySearch(t)

Run ==
    \/ \E p \in Pods : HandleInitialize(p) \/ Handle(p)
    \/ \E t \in Threads : Proceed(t)

Next == Run \/ \E p \in Pods : Start(p)

Spec == Init /\ [][Next]_vars

\* The pods do not stop while a thread or a handler may go on. No thread and no
\* handler goes on for ever, so this gives each of them its turn.
FairSpec == Spec /\ WF_vars(Run)
------------------------------------------------------------------------------
\* Whatever is handled in a resource's group finds its consistency object: a
\* handler that does not ends the process (GetConsistencyObject throws in it).
ObjectsExist ==
    \A p \in Pods : \A m \in inbox[p] :
        m.type \in {"Join", "CreateReplica"} => m.rsc \in objs[p]

\* A pod asks for one replica of a resource and gets one, however many of its
\* threads create it: a second one would replace the object under its users.
OneReplicaEach ==
    \A p \in Pods, r \in Resources : p # Creator(r) =>
        LET Of(q, type) == {m \in inbox[q] : m.type = type /\ m.rsc = r}
        IN  Cardinality({m \in Of(Creator(r), "Join") : m.from = p})
              + Cardinality(Of(p, "CreateReplica"))
              + (IF r \in rscs[p] THEN 1 ELSE 0) <= 1

\* A search names nobody but the owner, and one that asked as many pods as it
\* counts on finds it: the answers of the others do not hide the owner's.
SearchTruthful ==
    /\ \A p \in Pods, r \in Resources : search[p][r].info \in {None, Creator(r)}
    /\ \A t \in Threads, r \in Resources :
          LET s == search[Home[t]][r] IN <<t, r>> \in missed => s.asked # s.total

\* A pod that asks for a resource gets its replica: also one that asks for
\* MetaDomain before the first pod has made it, or while it is being made.
ReplicaArrives ==
    \A p \in Pods, r \in Resources :
        WaitingAt("finding", p, r) # {} ~> r \in rscs[p]

\* A thread that asked for a predecessor, or searches and asked as many pods as
\* it counts on, goes on.
QuestionsAnswered ==
    \A t \in Threads :
        (\/ pc[t] = "asking"
         \/ /\ pc[t] = "searching"
            /\ LET s == search[Home[t]][Rsc(t)] IN s.asked = s.total) ~> pc[t] = "ready"
==============================================================================

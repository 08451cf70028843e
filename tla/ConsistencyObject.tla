-------------------------- MODULE ConsistencyObject --------------------------
(***************************************************************************)
(* The protocol that keeps the replicas of one resource consistent: one    *)
(* ConsistencyObject per pod (consistency_object.cpp), the messages the    *)
(* controllers exchange for it (controller.cpp) and the application        *)
(* threads that read and write the resource.                               *)
(*                                                                         *)
(* A pod that holds the token may write.  A pod without it asks the        *)
(* resource group for it, and the holder sends it together with its copy   *)
(* of the resource.  Releasing a write invalidates the other replicas; a   *)
(* reader of an invalid replica asks the group for an update.              *)
(*                                                                         *)
(* Spread delivers every message in one total order, but the controller    *)
(* runs each consistency message in a detached thread of its own           *)
(* (std::thread t(...); t.detach()), so the handlers of a pod may take     *)
(* effect in any order.  inbox[p] is the set of messages delivered at p    *)
(* whose handler thread has not yet locked _mtx.  InOrder = FALSE is the   *)
(* code; InOrder = TRUE restricts it to the schedules where handler        *)
(* threads do not overtake each other, and says what the protocol gives    *)
(* then.                                                                   *)
(*                                                                         *)
(* Not modelled: _wreplica and _wupdate (written, never read), the         *)
(* reference counters (no code reads them any more) and ReleaseReplica,    *)
(* which only answers a message that ReleaseReplica itself sends.          *)
(*                                                                         *)
(* An operator named <Definition>_<fault> is a faulty variant of the       *)
(* definition below it; the specification does not use it.                 *)
(***************************************************************************)
EXTENDS Integers, Sequences, FiniteSets, FiniteSetsExt

CONSTANTS Pods,      \* pods (processes), each with one replica at most
          Threads,   \* application threads
          Home,      \* the pod every thread runs in
          Owner,     \* the pod that created the resource
          Joined,    \* the pods that have a replica from the start
          MaxOps,    \* bound: how often a thread acquires the resource
          InOrder    \* do handler threads run in delivery order?

ASSUME PodAssumption ==
    /\ Joined \in SUBSET Pods
    /\ Owner \in Joined
    /\ IsFiniteSet(Threads)
    /\ Home \in [Threads -> Pods]
    /\ MaxOps \in Nat
    /\ InOrder \in BOOLEAN

VARIABLES
    members,     \* pods in the resource's group
    replica,     \* pods whose _rsc is set
    token,       \* _token
    validity,    \* _validity
    reading,     \* _reading
    writing,     \* _writing
    wwriters,    \* _wwriters
    wtoken,      \* _wtoken
    wtoken_ack,  \* _wtoken_ack
    queue,       \* requests that drew a ticket (_total_req), not yet served
    data,        \* the copy of the resource: how many writes it has seen
    inbox,       \* delivered messages whose handler has not run
    pc,          \* where each thread is
    asleep,      \* threads blocked on _rwq or _wwq and not notified
    ops,         \* acquisitions started by each thread
    writes       \* history: writes made to the resource by anyone

flags    == <<token, validity, wtoken, wtoken_ack>>
counters == <<reading, writing, wwriters>>
group    == <<members, replica>>
threads  == <<pc, asleep, ops>>
vars     == <<group, flags, counters, queue, data, inbox, threads, writes>>

Requests == {"UpdateRequest", "TokenUpdateRequest", "Join"}
Notices  == {"UpdateReply", "TokenUpdateReply", "TokenAck", "Invalidate",
             "CreateReplica"}

IsMessage(m) == m.type \in Requests \cup Notices /\ m.from \in Pods /\ m.data \in Nat

AtRead  == {"read_turn", "read_update"}    \* waiting on _rwq
AtWrite == {"write_turn", "write_token"}   \* waiting on _wwq
Readers == {"read_update", "reading"}      \* counted by _reading
Writers == {"writing", "wrote"}            \* counted by _writing
Places  == {"idle"} \cup AtRead \cup AtWrite \cup Readers \cup Writers

TypeOK ==
    /\ members \in SUBSET Pods
    /\ replica \in SUBSET Pods
    /\ token \in [Pods -> BOOLEAN]
    /\ validity \in [Pods -> BOOLEAN]
    /\ reading \in [Pods -> Nat]
    /\ writing \in [Pods -> Nat]
    /\ wwriters \in [Pods -> Nat]
    /\ wtoken \in [Pods -> BOOLEAN]
    /\ wtoken_ack \in [Pods -> BOOLEAN]
    /\ queue \in [Pods -> Seq([type : Requests, from : Pods])]
    /\ data \in [Pods -> Nat]
    /\ DOMAIN inbox = Pods
    /\ \A p \in Pods : \A m \in inbox[p] : IsMessage(m)
    /\ pc \in [Threads -> Places]
    /\ asleep \in SUBSET Threads
    /\ ops \in [Threads -> Nat]
    /\ writes \in Nat

------------------------------------------------------------------------------
(* Messages *)

\* The place of a new message in box: after every message there if handlers
\* run in delivery order, else after those equal to it.
Place(box, type, from, value) ==
    LET before == IF InOrder THEN box
                  ELSE {m \in box : m.type = type /\ m.from = from /\ m.data = value}
    IN  Max({m.no : m \in before} \cup {0}) + 1

Deliver(box, type, from, value) ==
    box \cup {[type |-> type, from |-> from, data |-> value,
               no |-> Place(box, type, from, value)]}

Multicast(boxes, to, type, from, value) ==
    [q \in Pods |-> IF q \in to THEN Deliver(boxes[q], type, from, value) ELSE boxes[q]]

\* The messages at p whose handler thread may be the next to lock _mtx.
Runnable(p) == {m \in inbox[p] : InOrder => \A n \in inbox[p] : m.no <= n.no}

Taken(p, m) == [inbox EXCEPT ![p] = @ \ {m}]

------------------------------------------------------------------------------
(* Condition variables *)

Waiting(p, states) == {t \in asleep : Home[t] = p /\ pc[t] \in states}

NotifyAll(p, states) == asleep' = asleep \ Waiting(p, states)

NotifyOne(p, states) ==
    IF Waiting(p, states) = {} THEN UNCHANGED asleep
    ELSE \E t \in Waiting(p, states) : asleep' = asleep \ {t}

Sleep(t, at) == pc' = [pc EXCEPT ![t] = at] /\ asleep' = asleep \cup {t}

\* A condition variable may also wake a thread nobody notified.
SpuriousWakeup(t) ==
    /\ t \in asleep
    /\ asleep' = asleep \ {t}
    /\ UNCHANGED <<group, flags, counters, queue, data, inbox, pc, ops, writes>>

------------------------------------------------------------------------------
(* Reading *)

ReadBlocked_ignoresWaitingWriters(p) ==
    writing[p] > 0 \/ (~validity[p] /\ reading[p] = 1)

ReadBlocked(p) ==
    writing[p] > 0 \/ wwriters[p] > 0 \/ (~validity[p] /\ reading[p] = 1)

EnterRead(t) ==
    LET p == Home[t] IN
    /\ IF ReadBlocked(p)
       THEN Sleep(t, "read_turn") /\ UNCHANGED <<reading, inbox>>
       ELSE /\ reading' = [reading EXCEPT ![p] = @ + 1]
            /\ IF validity[p]
               THEN pc' = [pc EXCEPT ![t] = "reading"] /\ UNCHANGED <<asleep, inbox>>
               ELSE /\ inbox' = Multicast(inbox, members, "UpdateRequest", p, 0)
                    /\ Sleep(t, "read_update")
    /\ UNCHANGED <<group, flags, writing, wwriters, queue, data, writes>>

AcquireRead(t) ==
    /\ pc[t] = "idle" /\ Home[t] \in replica /\ ops[t] < MaxOps
    /\ ops' = [ops EXCEPT ![t] = @ + 1]
    /\ EnterRead(t)

RetryRead(t) ==
    /\ pc[t] = "read_turn" /\ t \notin asleep
    /\ UNCHANGED ops
    /\ EnterRead(t)

\* The end of AcquireRead's wait for an update.
AwaitUpdate(t) ==
    LET p == Home[t] IN
    /\ pc[t] = "read_update" /\ t \notin asleep
    /\ IF validity[p]
       THEN pc' = [pc EXCEPT ![t] = "reading"] /\ NotifyAll(p, AtRead)
       ELSE Sleep(t, "read_update")
    /\ UNCHANGED <<group, flags, counters, queue, data, inbox, ops, writes>>

ReleaseRead(t) ==
    LET p == Home[t] IN
    /\ pc[t] = "reading"
    /\ pc' = [pc EXCEPT ![t] = "idle"]
    /\ reading' = [reading EXCEPT ![p] = @ - 1]
    /\ IF reading[p] = 1 /\ wwriters[p] > 0
       THEN NotifyOne(p, AtWrite)
       ELSE UNCHANGED asleep
    /\ UNCHANGED <<group, flags, writing, wwriters, queue, data, inbox, ops, writes>>

------------------------------------------------------------------------------
(* Writing *)

\* Leaves the waiting writers (waiting counts them, with this thread).
StartWriting(t, waiting) ==
    LET p == Home[t] IN
    /\ pc' = [pc EXCEPT ![t] = "writing"]
    /\ wwriters' = [wwriters EXCEPT ![p] = waiting - 1]
    /\ writing' = [writing EXCEPT ![p] = @ + 1]
    /\ UNCHANGED asleep

EnterWrite(t, waiting) ==
    LET p == Home[t] IN
    /\ IF reading[p] > 0 \/ writing[p] > 0
       THEN /\ Sleep(t, "write_turn")
            /\ wwriters' = [wwriters EXCEPT ![p] = waiting]
            /\ UNCHANGED <<writing, inbox>>
       ELSE IF token[p]
       THEN StartWriting(t, waiting) /\ UNCHANGED inbox
       ELSE /\ Sleep(t, "write_token")
            /\ wwriters' = [wwriters EXCEPT ![p] = waiting]
            /\ inbox' = Multicast(inbox, members, "TokenUpdateRequest", p, 0)
            /\ UNCHANGED writing
    /\ UNCHANGED <<group, flags, reading, queue, data, writes>>

AcquireWrite_uncounted(t) ==
    /\ pc[t] = "idle" /\ Home[t] \in replica /\ ops[t] < MaxOps
    /\ ops' = [ops EXCEPT ![t] = @ + 1]
    /\ EnterWrite(t, wwriters[Home[t]])

AcquireWrite(t) ==
    /\ pc[t] = "idle" /\ Home[t] \in replica /\ ops[t] < MaxOps
    /\ ops' = [ops EXCEPT ![t] = @ + 1]
    /\ EnterWrite(t, wwriters[Home[t]] + 1)

RetryWrite(t) ==
    /\ pc[t] = "write_turn" /\ t \notin asleep
    /\ UNCHANGED ops
    /\ EnterWrite(t, wwriters[Home[t]])

AwaitToken_staysExpecting(t) ==
    LET p == Home[t] IN
    /\ pc[t] = "write_token" /\ t \notin asleep
    /\ IF token[p] /\ validity[p]
       THEN StartWriting(t, wwriters[p])
       ELSE Sleep(t, "write_token") /\ UNCHANGED <<writing, wwriters>>
    /\ UNCHANGED <<group, flags, reading, queue, data, inbox, ops, writes>>

\* The end of AcquireWrite's wait for the token.
AwaitToken(t) ==
    LET p == Home[t] IN
    /\ pc[t] = "write_token" /\ t \notin asleep
    /\ IF token[p] /\ validity[p]
       THEN /\ StartWriting(t, wwriters[p])
            /\ wtoken' = [wtoken EXCEPT ![p] = FALSE]
       ELSE /\ Sleep(t, "write_token")
            /\ UNCHANGED <<writing, wwriters, wtoken>>
    /\ UNCHANGED <<group, token, validity, wtoken_ack, reading, queue, data,
                   inbox, ops, writes>>

\* The application changes the resource while it holds the write access.
Write(t) ==
    /\ pc[t] = "writing"
    /\ pc' = [pc EXCEPT ![t] = "wrote"]
    /\ data' = [data EXCEPT ![Home[t]] = @ + 1]
    /\ writes' = writes + 1
    /\ UNCHANGED <<group, flags, counters, queue, inbox, asleep, ops>>

Invalidated_withSelf(p) == members

\* The message carries set_self_discard: the writer does not get it.
Invalidated(p) == members \ {p}

ReleaseWrite(t) ==
    LET p == Home[t] IN
    /\ pc[t] = "wrote"
    /\ pc' = [pc EXCEPT ![t] = "idle"]
    /\ inbox' = Multicast(inbox, Invalidated(p), "Invalidate", p, 0)
    /\ writing' = [writing EXCEPT ![p] = @ - 1]
    /\ IF wwriters[p] > 0 THEN NotifyOne(p, AtWrite) ELSE NotifyAll(p, AtRead)
    /\ UNCHANGED <<group, flags, reading, wwriters, queue, data, ops, writes>>

------------------------------------------------------------------------------
(* Replicas *)

\* CreateReplica: the pod enters the resource's group and inserts an empty
\* consistency object; every member is told who joined.
JoinGroup(p) ==
    /\ p \notin members
    /\ members' = members \cup {p}
    /\ inbox' = Multicast(inbox, members', "Join", p, 0)
    /\ UNCHANGED <<replica, flags, counters, queue, data, threads, writes>>

AcquireReplica(p, m) ==
    /\ m.type = "CreateReplica"
    /\ inbox' = Taken(p, m)
    /\ replica' = replica \cup {p}
    /\ data' = [data EXCEPT ![p] = m.data]
    /\ UNCHANGED <<members, flags, counters, queue, threads, writes>>

------------------------------------------------------------------------------
(* Requests: CheckReplica, CheckUpdate and CheckTokenUpdate.  A handler     *)
(* draws a ticket and waits for its turn; the request of another pod also   *)
(* waits while the pod writes, expects the token or expects an ack.         *)

CanServe_whileWriting(p, m) == m.from = p \/ ~(wtoken[p] \/ wtoken_ack[p])

CanServe_beforeToken(p, m) == m.from = p \/ ~(writing[p] > 0 \/ wtoken_ack[p])

CanServe_beforeAck(p, m) == m.from = p \/ ~(writing[p] > 0 \/ wtoken[p])

CanServe(p, m) ==
    m.from = p \/ ~(writing[p] > 0 \/ wtoken[p] \/ wtoken_ack[p])

Answers_withoutToken(p, m) ==
    IF m.type = "TokenUpdateRequest" THEN token[p] ELSE validity[p]

\* Does the pod send its copy of the resource to the pod that asks?
Answers(p, m) == token[p] /\ (m.type = "TokenUpdateRequest" \/ validity[p])

ReplyTo == [UpdateRequest |-> "UpdateReply", TokenUpdateRequest |-> "TokenUpdateReply",
            Join |-> "CreateReplica"]

Reply(p, m, boxes) ==
    IF m.from # p /\ Answers(p, m)
    THEN Multicast(boxes, {m.from}, ReplyTo[m.type], p, data[p])
    ELSE boxes

KeepsToken_afterReply(p, m) == token[p]

\* Serving m leaves the pod with the token it has.
KeepsToken(p, m) == token[p] /\ ~(m.type = "TokenUpdateRequest" /\ m.from # p)

Serve(p, m, boxes) ==
    /\ inbox' = Reply(p, m, boxes)
    /\ token' = [token EXCEPT ![p] = KeepsToken(p, m)]
    /\ wtoken' = [wtoken EXCEPT ![p] = @ \/ (m.type = "TokenUpdateRequest" /\ m.from = p)]
    /\ wtoken_ack' = [wtoken_ack EXCEPT ![p] =
                        @ \/ (m.type = "TokenUpdateRequest" /\ m.from # p /\ token[p])]
    /\ UNCHANGED <<group, validity, counters, data, threads, writes>>

HandleRequest(p, m) ==
    /\ m.type \in Requests
    /\ IF queue[p] = <<>> /\ CanServe(p, m)
       THEN Serve(p, m, Taken(p, m)) /\ UNCHANGED queue
       ELSE /\ queue' = [queue EXCEPT ![p] = Append(@, [type |-> m.type, from |-> m.from])]
            /\ inbox' = Taken(p, m)
            /\ UNCHANGED <<group, flags, counters, data, threads, writes>>

\* The waiting handler whose ticket is _next_req gets its turn.
ServeNext(p) ==
    /\ queue[p] # <<>>
    /\ CanServe(p, Head(queue[p]))
    /\ Serve(p, Head(queue[p]), inbox)
    /\ queue' = [queue EXCEPT ![p] = Tail(@)]

------------------------------------------------------------------------------
(* Replies and notices *)

AcquireTokenUpdate(p, m) ==
    /\ m.type = "TokenUpdateReply"
    /\ token' = [token EXCEPT ![p] = TRUE]
    /\ validity' = [validity EXCEPT ![p] = TRUE]
    /\ data' = [data EXCEPT ![p] = m.data]
    /\ inbox' = Multicast(Taken(p, m), {m.from}, "TokenAck", p, 0)
    /\ NotifyAll(p, AtWrite)
    /\ UNCHANGED <<group, wtoken, wtoken_ack, counters, queue, pc, ops, writes>>

TokenAck(p, m) ==
    /\ m.type = "TokenAck"
    /\ wtoken_ack' = [wtoken_ack EXCEPT ![p] = FALSE]
    /\ inbox' = Taken(p, m)
    /\ UNCHANGED <<group, token, validity, wtoken, counters, queue, data,
                   threads, writes>>

Invalidate(p, m) ==
    /\ m.type = "Invalidate"
    /\ validity' = [validity EXCEPT ![p] = FALSE]
    /\ inbox' = Taken(p, m)
    /\ UNCHANGED <<group, token, wtoken, wtoken_ack, counters, queue, data,
                   threads, writes>>

Update(p, m) ==
    /\ m.type = "UpdateReply"
    /\ validity' = [validity EXCEPT ![p] = TRUE]
    /\ data' = [data EXCEPT ![p] = m.data]
    /\ inbox' = Taken(p, m)
    /\ NotifyAll(p, AtRead)
    /\ UNCHANGED <<group, token, wtoken, wtoken_ack, counters, queue, pc, ops,
                   writes>>

------------------------------------------------------------------------------
Init ==
    /\ members = Joined
    /\ replica = Joined
    /\ token = [p \in Pods |-> p = Owner]
    /\ validity = [p \in Pods |-> p = Owner]
    /\ reading = [p \in Pods |-> 0]
    /\ writing = [p \in Pods |-> 0]
    /\ wwriters = [p \in Pods |-> 0]
    /\ wtoken = [p \in Pods |-> FALSE]
    /\ wtoken_ack = [p \in Pods |-> FALSE]
    /\ queue = [p \in Pods |-> <<>>]
    /\ data = [p \in Pods |-> 0]
    /\ inbox = [p \in Pods |-> {}]
    /\ pc = [t \in Threads |-> "idle"]
    /\ asleep = {}
    /\ ops = [t \in Threads |-> 0]
    /\ writes = 0

Acquire(t) == AcquireRead(t) \/ AcquireWrite(t)

\* What a thread does once it has called AcquireRead or AcquireWrite.
Proceed(t) ==
    \/ RetryRead(t) \/ AwaitUpdate(t) \/ ReleaseRead(t)
    \/ RetryWrite(t) \/ AwaitToken(t) \/ Write(t) \/ ReleaseWrite(t)

Handle(p, m) ==
    \/ HandleRequest(p, m) \/ AcquireReplica(p, m) \/ AcquireTokenUpdate(p, m)
    \/ TokenAck(p, m) \/ Invalidate(p, m) \/ Update(p, m)

HandleSome(p) == \E m \in Runnable(p) : Handle(p, m)

Next ==
    \/ \E t \in Threads : Acquire(t) \/ Proceed(t) \/ SpuriousWakeup(t)
    \/ \E p \in Pods : JoinGroup(p) \/ HandleSome(p) \/ ServeNext(p)

Spec == Init /\ [][Next]_vars

\* Every started handler thread gets _mtx in the end, every notified thread
\* runs on, and the application releases what it acquired.  Threads need not
\* acquire, pods need not join, and nothing wakes an unnotified thread.
Fairness ==
    /\ \A t \in Threads : WF_vars(Proceed(t))
    /\ \A p \in Pods : WF_vars(HandleSome(p)) /\ WF_vars(ServeNext(p))

FairSpec == Spec /\ Fairness
------------------------------------------------------------------------------
(* Properties that hold whatever order the handlers run in *)

InFlight(p, type) == {m \in inbox[p] : m.type = type}

\* There is one token: a single pod holds it, or it travels in a single
\* TokenUpdateReply, whatever order requests, replies and acks are handled in.
OneToken ==
    /\ \A p, q \in Pods : token[p] /\ token[q] => p = q
    /\ \A p, q \in Pods : token[p] => InFlight(q, "TokenUpdateReply") = {}
    /\ \A p, q \in Pods :
          \A m \in InFlight(p, "TokenUpdateReply"), n \in InFlight(q, "TokenUpdateReply") :
             p = q /\ m = n
    /\ \E p \in Pods : token[p] \/ InFlight(p, "TokenUpdateReply") # {}

\* A thread writes only while its pod holds the token: CheckTokenUpdate never
\* gives the token away under a local writer.
WriterHoldsToken == \A t \in Threads : pc[t] \in Writers => token[Home[t]]

\* Threads of different pods never write at the same time.
WritersShareAPod ==
    \A t, u \in Threads : pc[t] \in Writers /\ pc[u] \in Writers => Home[t] = Home[u]

\* No thread of a pod reads, or waits for an update, while another one of that
\* pod writes.
ReadersExcludeWriters ==
    \A t, u \in Threads :
        pc[t] \in Readers /\ pc[u] \in Writers => Home[t] # Home[u]

ThreadsAt(where, p, states) == {t \in Threads : Home[t] = p /\ where[t] \in states}

\* The counters of the consistency object say how many threads are where.
CountersMatch ==
    \A p \in Pods :
        /\ reading[p] = Cardinality(ThreadsAt(pc, p, Readers))
        /\ writing[p] = Cardinality(ThreadsAt(pc, p, Writers))
        /\ wwriters[p] = Cardinality(ThreadsAt(pc, p, AtWrite))

\* A pod waits for an ack exactly while the token it gave away travels to the
\* new holder or the new holder's ack travels back, and for one ack only.
AckIsOutstanding ==
    \A p \in Pods :
        LET handed == {m \in UNION {InFlight(q, "TokenUpdateReply") : q \in Pods} : m.from = p}
        IN  Cardinality(handed) + Cardinality(InFlight(p, "TokenAck"))
              = IF wtoken_ack[p] THEN 1 ELSE 0

------------------------------------------------------------------------------
(* What the protocol gives when handlers run in delivery order *)

\* The token always comes with the resource: its holder, or the reply that
\* carries it, has every write made so far, and the holder knows it (it is the
\* only pod that answers requests, and only while its replica is valid).
HolderIsCurrent ==
    \A p \in Pods :
        /\ token[p] => validity[p] /\ data[p] = writes
        /\ \A m \in InFlight(p, "TokenUpdateReply") : m.data = writes

\* A replica marked valid has every write that was released, unless the
\* invalidation of that write is still to be handled at its pod.
ValidReplicaIsCurrent ==
    \A p \in replica :
        \/ ~validity[p] \/ data[p] = writes
        \/ InFlight(p, "Invalidate") # {}
        \/ \E t \in Threads : pc[t] = "wrote"

\* No pod's replica is ever replaced by one with fewer writes.
ReplicasNeverGoBack == [][\A p \in Pods : data'[p] >= data[p]]_vars

\* A thread that asks for write access gets it.
WriterServed == \A t \in Threads : pc[t] \in AtWrite ~> pc[t] = "writing"

\* No member has dealt with p's request for an update yet.
JustRequested(p) ==
    \A q \in members :
        \E m \in inbox[q] \cup {queue[q][i] : i \in DOMAIN queue[q]} :
            m.type = "UpdateRequest" /\ m.from = p

\* An update request is answered: it never meets the moving token so that
\* every pod finds another one has to answer.
UpdateAnswered ==
    \A p \in Pods : JustRequested(p) ~> InFlight(p, "UpdateReply") # {}

\* A pod that enters the resource's group gets its replica.
ReplicaCreated == \A p \in Pods : p \in members ~> p \in replica

------------------------------------------------------------------------------
(* What the code is meant to give and does not: refuted by a run *)

\* One thread at a time writes the resource, so a mutex or a value guarded by
\* AcquireWrite and ReleaseWrite belongs to one agent.
OneWriter == \A t, u \in Threads : pc[t] \in Writers /\ pc[u] \in Writers => t = u

------------------------------------------------------------------------------
(* The protocol implements a token that moves between pods *)

WT == INSTANCE WriteToken
        WITH holders <- {p \in Pods : token[p]},
             busy <- {t \in Threads : pc[t] \in Writers}

\* Seen from the token and the writers, the code does what WriteToken allows,
\* in whatever order the handlers run.
ImplementsWriteToken == WT!Spec
==============================================================================

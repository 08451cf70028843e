# PlaCoR in TLA+

PlaCoR runs one application on several *pods* (processes). Resources — agents,
data, mutexes, barriers, closures — live in a shared directory; a pod that uses
a resource of another pod gets a replica of it. The pods talk through Spread:
they multicast to groups, and every member of a group receives the same
messages in the same order.

These modules model the protocols that the library runs between pods and
between the threads of a pod. Line numbers below are those of the source files
they name; `PROJECT.json` maps every definition to the lines it stands for.

## 1. The system

| Component | State | Operations | Talks to |
|---|---|---|---|
| **ConsistencyObject** (`consistency_object.cpp`), one per replica | `_rsc`, `_token`, `_validity`, counters `_reading`, `_writing`, `_wwriters`, wait flags `_wtoken`, `_wtoken_ack`, tickets `_total_req`/`_current_req`, condition variables `_rwq`, `_wwq` | Acquire/Release Read/Write; `CheckReplica`, `AcquireReplica`, `CheckUpdate`, `Update`, `Invalidate`, `CheckTokenUpdate`, `AcquireTokenUpdate`, `TokenAck` | its peers, through the Controller |
| **Controller** (`controller.cpp`) | the Spread mailbox, counters of pods and contexts, variables of collective creations | sends and handles every control message; pods entering and leaving (`Initialize`, `Finalize` and those of a context); `Spawn`; the collective creation in a context | Spread, ResourceManager, PageManager |
| **ResourceManager** (`resource_manager.cpp`, `.tpp`) | `_cst_objs`, `_alias`, search results, `_sg_vars`, `_sg_cc` of static groups | `AllocateResource`, `CreateReplica`, `CreateReference`, searches; `CreateStaticGroup`, `SynchronizeStaticGroup` | Controller, Mailer, PageManager |
| **PageManager** (`page_manager.cpp`) | `_current_page`, `_ids_counter`, `_page_requested`, `_next_page` | `GenerateIdp`, `UpdatePage` | Controller |
| **Mailer** (`mailer.cpp`) | output queue and its `ongoingWrite`, the outgoing message, write event, mailboxes | `SendMessage`, `HandleWrite`, `HandleRead`, `ReceiveMessage`, `CreateMailbox` | Spread, libevent |
| **Organizers** (`dynamic_organizer.cpp`, `static_organizer.cpp`) | table of members of a domain, group or closure, under the write access of its resource | `Join`, `Leave`, queries by idp, rank or name | ConsistencyObject, static groups |
| **Pool** (`units/pool.cpp`) | barrier counter and status, `_is_idle`, `_fct`, `_shut` | `Dispatch`, `WaitForIdle`, destructor | its agents' threads |

The service thread of the Controller handles messages of membership, pages and
collectives itself, in the order of delivery. For each message of a
consistency object, a static group or a search it starts a *detached thread*
(`std::thread t(...); t.detach();`), so those messages are delivered in one
order everywhere and take effect in any order. That is what makes the system
hard: no pod can count on what it received first having been done first. The
other sources of trouble are condition variables that several kinds of threads
share, waits without a condition, state that two threads use without a lock
(the outgoing message of the Mailer), counters that successive operations
share, and requests that are broadcast once and answered by whoever finds
itself responsible.

What would make each component correct:

* *ConsistencyObject*: one token; no writers in two pods; readers and writers
  of a pod exclude each other; the token's holder has every write; whoever
  waits is served.
* *PageManager*: no id twice; whoever waits for a page gets one.
* *Mailer*: messages from one agent to another arrive, once and in order;
  receivers do not sleep on a message.
* *Static groups*: nobody leaves an operation before all have entered it; all
  leave it; a collective gives every member the same new resource.
* *ResourceManager*: every registered resource has a consistency object and a
  mailbox; one replica per pod; a search ends and finds what exists.
* *Controller, life of a pod*: a context starts together, works in one closure
  and finishes together; nobody leaves the application while a pod that joined
  it works; all pods stop.
* *Organizers*: the replicas behave as one table of the agents that joined and
  have not left; ranks are unique; a closure is complete when its `Join`
  returns; whoever waits for write access gets it.
* *Pool*: every agent runs every task exactly once; `WaitForIdle` returns when all are
  done and only then.

`PROJECT.json` lists the hazards at their lines, each with the properties that
would catch it, or the reason why none does.

## 2. The modules

| Module | Models | Abstract specification |
|---|---|---|
| `ConsistencyObject` | the replicas of one resource, their messages and the threads that use it | `WriteToken`: one token that moves; only its pod writes |
| `PageManager` | the pods' page managers and the page messages | — |
| `Mailer` | senders, service thread, mailboxes and receivers of a pod | `Mail`: lossy, ordered mail between agents |
| `ResourceManager` | the directory of resources of every pod, allocation, replicas, references and searches | — |
| `StaticGroup` | creation, barrier and collective of a static group | `Barrier`: nobody leaves before all have entered |
| `Lifecycle` | main and service threads of all pods from `Initialize` to the end of the process, the collective creation of a context's closure, `Spawn` | `Session`: contexts enter, work and rest together, and nobody stops too early |
| `Organizer` | the replicas of one domain, group or closure, and the agents that join, leave and query it | `Membership`: one table of members, and the parent told once |
| `Pool` | program and agents of a thread pool | `ForkJoin`: all run each task once |

`MCConsistency`, `MCPageManager`, `MCMailer`, `MCResourceManager`,
`MCStaticGroup`, `MCLifecycle`, `MCOrganizer` and `MCPool` give the constants
values for TLC. `ConsistencyObjectProofs`, `PageManagerProofs`, `MailerProofs`,
`ResourceManagerProofs`, `StaticGroupProofs`, `LifecycleProofs`,
`OrganizerProofs` and `PoolProofs` hold the theorems about the module they are
named after. `Organizer` stands on other components: it instantiates
`WriteToken` for its token, and takes from `ConsistencyObject` and
`StaticGroup` what their runs show. In every module an operator named
`X_something` is a faulty variant of `X`, kept to show that the properties see
the fault; no specification uses one.

### ConsistencyObject

A step is what one thread does while it holds `_mtx`, up to a wait or a
release, with the messages it sends on the way (they go out before the lock is
given up, and Spread's total order makes "sent" and "delivered to all" one
moment). `inbox[p]` has the messages delivered at pod `p` whose handler thread
has not got the lock yet. `HandleSome(p)` picks any of them; with `InOrder` it
picks the oldest. The code is `InOrder = FALSE`. `InOrder = TRUE` leaves out
the schedules in which handler threads overtake one another: what holds there
and fails otherwise is lost by the detached threads, and what fails even there
is wrong in the protocol itself.

Requests that must wait (for their ticket's turn, for the pod's writer, for
an expected token or an ack) stay in `queue[p]`, in the order of the tickets
they drew under the lock; `ServeNext(p)` answers the first one when the
conditions of its wait hold. A thread of the application goes through
`read_turn`, `read_update`, `reading` or `write_turn`, `write_token`,
`writing`, `wrote`; `asleep` has those blocked on `_rwq` or `_wwq` and not
notified. Spurious wakeups are allowed where they can matter. The value of the
resource is the number of writes it has seen, so a copy that misses one is
told from a copy that has it.

Left out: `ReleaseReplica` (it only answers a message nothing sends), the
reference counters and `_wreplica`, `_wupdate` (written, never read to decide).

### PageManager

`GenerateIdp` holds `_mtx` from its test to the request it sends, so a call is
one step up to its wait and `Retry` what follows a wakeup. `UpdatePage` and
`HandlePageRequest` run in the service threads, in order of delivery. `issued`
counts how often each id was returned.

### Mailer

`SendMessage` is three steps: `EndWrite` (`event_del`, which waits for a
callback that runs), `Submit` under the monitor of the queue, `StartWrite`.
`HandleWrite` is `BuildMessage` and `Send`, which read the outgoing message
without the monitor, `Pop` under it, `Disarm` and `Rearm`. `HandleRead` puts a
message in its mailbox and wakes the receivers; `Join` and `CreateMailbox` are
the two halves of `CreateMailbox`; `ReceiveMessage` covers both forms, for
any sender and for one. External: Spread delivers a message to the members of
its group at that moment, and a message without a group to nobody. A body
with nothing in it makes the deserialization throw in the service thread,
where nothing catches it: the process ends (`svc = "aborted"`).

### ResourceManager

`objs`, `preds`, `requested`, `cached` and `search` are the keys or records of
`_cst_objs`, `_predecessors`, `_sync_replicas`, `_cache_preds` and `_sr_vars`;
`rscs` says which consistency objects have their resource. `JoinContext`,
`JoinOwnGroup`, `Register` and `Announce` are the steps of an allocation,
`StartFind`, `RequestReplica` and `HaveReplica` those of `CreateReplica`
between its two waits, `CountPods`, `StartSearch` and `RetrySearch` those of a
search. `Handle(p)` runs any message delivered at `p`. `CreateReplica` and
`GetPredecessorIdp` wait without a condition; the module lets a wait return
only when it is notified, so what it shows holds up to spurious wakeups. The
idp of MetaDomain is a constant that a pod may ask for at any time; another
resource is used when its allocation has returned. Nobody writes, so the
creator keeps the token and answers the joins of the group: `HandleJoin` says
"is the creator" where `CheckReplica` tests `_token` and `_validity`, which it
then has for ever. What happens when the token moves is in `ConsistencyObject`.

### StaticGroup

`count[p]`/`total[p]` are the pair in `_sg_vars`, `cc[p]` the idp in `_sg_cc`.
`Handle(p)` runs any delivered message, as the detached threads do;
`HandleCreateStaticGroup` may find no entry yet and wait (`late`) for a
wakeup that it does not check. Members run `Program`, a sequence of barriers
and collectives, after creating the group.

### Lifecycle

A step is what a main thread does up to its next wait or send, or what a
service thread does with one message. `inbox[p]` is the pod's share of Spread's
total order, memberships included; a pod's own leave (`SelfLeave`) ends its
service thread. `Initialize` to `AwaitContext` are the construction of the pod
(`StartService`); `InitCreateCollective` to `GetCreateCollectiveIdp` what `corx`
does to make or get the closure of its context; `FinalizeContext` to
`StopService` the end of the process (`Stop`). The handlers run in the service
thread, but for `HandleInitCreateCollective`, the detached thread of each
`CreateCollectiveInit`; `InOrder` restricts those to the order of delivery.
`asleep` has the main threads that wait and were not notified: every handler
notifies under a condition of its own, so a wakeup may miss its reader. A
promise (`_cc_first`) is a value that is there or not.

Of the messages of other components one kind is modelled, the announcement of
MetaDomain and the search for it (`Directory`), because it meets pods that have
joined the application's group and have no resource manager yet: their service
thread calls through a null pointer and the process ends (`HandleTooEarly`,
`"dead"`). `_groups.size()` is the size of the group at the join
(`msg.size`). `Spawned` stands for the message of the new closure's rank 0,
which `Organizer` shows to be sent once all its agents have joined.

`LifecycleAssumption` says that the application is started by one launch and
that one launch starts each context (see section 4).

### Organizer

Every pod has one agent and one replica of the organizer, which is static (a
closure) or dynamic (a domain or group) from the start. `CallUpdate`,
`AcquireWrite`, `Join`/`RefuseJoin`/`Leave` and `ReleaseWrite` are the steps of
`Join` and `Leave`; `CreateStaticGroup` and `AllJoined` the rest of a closure's
`Join`; `CallQuery`, `AwaitUpdate` and `Get` a query. Both `RefuseJoin` and a
`Get` that finds nothing throw with the access they acquired (`"threw"`), and
nobody releases it. The token moves and its holder writes as in `WriteToken`,
and the message that carries it carries the table; `ReleaseWrite` invalidates
the other replicas, and a reader of an invalid one has `asked` until the
token's holder replies. A name is a model value, and the decimal form of an
idp, which an agent without a name gets, is the pod itself.

`Handle(p)` runs the handler thread of any message delivered at `p`, with
`InOrder` that of the oldest one. As in `ConsistencyObject`, the code is
`InOrder = FALSE`: every message gets a detached thread (`controller.cpp:858`
to `991`, `1144` to `1183`). There a request for an update may also be answered
again by the next holder; the model then allows any number of answers where the
code has one of each pod, and leaves out `AcquireWrite`'s wait for `_validity`,
so it has more behaviours than the code. All but the types rests on `InOrder`;
section 4 says what fails without.

### Pool

One program thread (`User`) and the agents; `Dispatch`, `WaitForIdle` and the
destructor are split at their waits. `ran[a]` counts how often agent `a` has run
each task, so that a second run is seen. The pool is used by one thread which
waits for idle before it deletes the pool, as every program of the repository
does.

## 3. The runs

| Run (cfg) | Instance | Checks |
|---|---|---|
| `ConsistencyAnyOrder` | 2 pods, 3 threads, two of them in one pod, one acquisition each, pod b without a replica at first; handlers in any order | types, `OneToken`, `WritersShareAPod`, `ReadersExcludeWriters`, `AckIsOutstanding`, `ImplementsWriteToken` |
| `ConsistencyInOrder` | 3 pods, 2 threads in the pods that do not own the resource, one of which joins later; handlers in order; fairness | `HolderIsCurrent`, `ValidReplicaIsCurrent`, `ReplicasNeverGoBack`, `WriterServed`, `UpdateAnswered`, `ReplicaCreated` |
| `ConsistencyTwoWriters` | 2 threads of one pod without the token | refutes `OneWriter` |
| `PageManager` | 3 pods, 4 threads, pages of 2 ids; pods other than the main one need one page | types, `UniqueIds`, `NoForgottenThread`, `IdGenerated` |
| `Mailer` | 2 senders (2 messages and 1), 2 mailboxes, 2 receivers of one mailbox, one of which wants a single sender; fairness | types, `NoneOversleeps`, `ImplementsMail`, `WritesEnd` |
| `MailerLoss` | the same | refutes `NoneLost` |
| `ResourceManager` | 2 pods, 2 threads each; MetaDomain and one resource; the second pod starts while the first allocates and searches; fairness | types, `ObjectsExist`, `OneReplicaEach`, `SearchTruthful`, `ReplicaArrives`, `QuestionsAnswered` |
| `StaticGroup` | 2 members in 2 pods; creation, two collectives, a barrier; handlers in any order; fairness | types, `CollectiveAgrees`, `NoneOversleeps`, `ImplementsBarrier`, `OperationsReturn` |
| `Lifecycle` | 2 pods of a first context, one of which spawns a context of one pod at any moment of its work, or does not; handlers of the collective in order | types, `ImplementsSession` |
| `LifecycleSpawns` | a pod that may spawn two contexts of one pod, one after the other; handlers in any order; fairness | refutes `AllStop` |
| `Organizer` | 3 pods, 2 calls each, static and dynamic organizer; joins under one name and without a name, leaves, queries of a rank that exists or not; handlers in order; fairness | types, `ClosureComplete`, `ImplementsMembership`, `WriteAccessComes` |
| `Pool` | 3 agents, 2 tasks; fairness | types, `ImplementsForkJoin`, `CallsReturn` |

Bounds, and why they are enough. Two pods let the token travel both ways and
two threads of a pod compete for it; three pods in order give a request that
meets a moving token at a pod that is neither its old nor its new holder, and
a replica that is created meanwhile. One acquisition per thread starts every
handler. Three messages are enough for one
to be on its way, one outgoing and one queued; two receivers of a mailbox for
a wakeup that reaches the wrong one. In the directory two pods give a request
that meets an allocation at each of its steps, a search that counts a pod less
than it asks, and two threads that create one replica. Two members suffice for counts of two
operations to meet in one counter, and the program has each kind of operation
after each other kind. Three agents make the last one, a middle one and the
first one to leave the barrier different threads, and two tasks bring a
barrier round after another. Two pods of one context make one of them first
in the collective and the other one wait, with either of them late; the third
pod, spawned, joins the application after the others have counted it, and its
messages meet pods at every stage. Three pods of an organizer are a writer,
one that waits for the token and one that reads an old replica; two calls let
an agent leave what it joined, or query what it has seen. Three members of a static group
with one collective were explored as well, without an error (1.3 million states).

No run checks for deadlock: threads make a bounded number of calls and then
stop. What must not stop is stated as a liveness property instead.

Fairness. A started handler thread gets `_mtx` in the end, a notified thread
runs, and the application releases what it acquired: weak fairness of
`HandleSome`, `ServeNext`, `Proceed`, `Retry`, `Handle`, `Agent`, `User`. Every
wait of the code is a step that is enabled only when its condition holds, so
weak fairness asks nothing of a thread that nobody notified. In
`Lifecycle` (for `AllStop`) it is asked of the main thread (`Main`: a program
ends its work in the end), of the service thread and of the detached ones, not
of `Spawn`; in
`Organizer` of an agent within a call (`Proceed`, not `Call`) and of a pod's
service (`Serve`), which grants requests for the token in some order; calls
are bounded, so a request is overtaken finitely often. In
`ResourceManager` no thread or handler goes on for ever, so it is enough that
the pods do not stop while one of them may go on (`WF_vars(Run)`). In the Mailer
`_evwrite` is added and deleted again by others, so `BuildMessage` is enabled
on and off: libevent serves ready events in turn, which is strong fairness of
the service thread's callbacks; likewise `event_del` of a sender, which waits
for the callback that runs and no longer.

## 4. What the checks found

* Two threads of one pod write at once (`consistency_object.cpp:90,98`): both
  wait for the token, and the predicate they wait with looks at the token and
  not at `_writing`. `OneWriter`.
* A message vanishes, or an empty one is sent that ends its receiver
  (`mailer.cpp:216`): `HandleWrite` reads the outgoing message before it takes
  the monitor under which a sender sets it. `NoneLost`. What does arrive
  arrives once and in order (`ImplementsMail`).
* A spawned pod does not stop (`controller.cpp:467`): when a pod spawns two
  contexts one after another, as `tests/test_spawn.cpp:17` does, a pod of one
  may join the application after one of the other has sent its Finalize and
  before that pod has left. It counts that pod and will not get its message, so
  it waits in `Finalize` for ever, and the spawner waits for its process.
  `AllStop`. It fails in delivery order too. Nobody leaves too early
  (`ImplementsSession`, with `InOrder`).

Other things fail in the models and have no run that refutes them; most are among the
hazards:

* A member stays in a static group's barrier for ever
  (`resource_manager.cpp:437`): it is notified when the count is complete, but
  before it runs, a member of another pod enters the next operation and the
  count moves past the total. `OperationsReturn` names that case (`Overshot`)
  and shows that it is the only one: without it the property fails. Nobody
  leaves early (`ImplementsBarrier`).
* With `InOrder = FALSE`, an organizer keeps neither promise. `ClosureComplete`
  fails when the thread for a `StaticGroupCreate` overtakes the one for an
  earlier `Invalidate`: `Join` may return, and a query finds the old replica
  still marked valid. `ImplementsMembership` fails when a reader's request is
  answered by two holders and the second answer is handled late, when the pod
  holds the token itself (`Update`, `consistency_object.cpp:310`, has no guard):
  a member that joined is overwritten.
* With handlers in any order and three pods `HolderIsCurrent` fails: while the
  token moves, its old and its new holder both answer a pod that joins, and the
  second `CreateReplica` replaces the object that the pod already writes
  (`consistency_object.cpp:141`). In order it holds.
* A pod asks for a page once in its life: `_page_requested` is never cleared,
  so the second page of a pod other than the main one never comes
  (`page_manager.cpp:46`). With `MCPageManager`'s `TwoPages` for `Calls`,
  `IdGenerated` fails.
* A reader may stay asleep when the update it waited for is invalidated before
  it runs (`consistency_object.cpp:52`), so the return of a query of an
  organizer is not stated either.
* `CreateReplica` does not return in a thread that calls it when the replica is
  there already, nor in the pod that owns the resource
  (`resource_manager.tpp:138,163`).
* A search may miss a resource when a pod starts between its count and its
  request (`resource_manager.cpp:509`).
* With `InOrder = FALSE`, `Lifecycle` does not implement `Session`: the pods of
  a context count the entering members in threads that overtake each other
  (`controller.cpp:1062`), so that several pods or none may find themselves
  first. None leaves all of them waiting for an idp, several make several
  closures.
* An application started by two launches is counted by a first pod that may
  stop before the second launch joins; and two launches of one context share
  its group, so that a pod whose main thread sleeps when the group grows past
  `_npods` is not notified (`controller.cpp:412`), and a second collective in
  a context finds the count of the first. `LifecycleAssumption` excludes both;
  `examples/spawn.cpp:19`, run with more than one pod, does the latter.
* A pod that receives a message between its join and the construction of its
  managers dies (`controller.cpp:372`), and the others, which count it, never
  stop; `AllStop` and `Session` name that case.
* Whoever joins an organizer under a taken name keeps the write access
  (`dynamic_organizer.cpp:42`); `WriteAccessComes` names that case.

The run of each finding, and the sentence of the repository it disagrees with, are in
`PROJECT.json` under `findings`.

## 5. What is proved

Every theorem holds for all values of the constants that the module's own
assumption allows: any finite set of pods, threads or members, any program of
calls, any bound. Every safety property that a passing run checks is a theorem;
the liveness properties are not.

**`ConsistencyObjectProofs`**, from `PodAssumption`, for handlers in any order:

* `TypeCorrect`, `TokenUnique`, `CountersCorrect`, `AcksOutstanding`,
  `WritersExcluded`, `ReadersExcluded`, and `TokenRefines`:
  `Spec => ImplementsWriteToken`.

The inductive invariant is `Inv == TypeOK /\ CountersMatch /\ OneToken /\
WriterHoldsToken /\ AdmittedShutsReadersOut /\ AcksMatch`.
Mutual exclusion alone is not inductive: a pod gives its token away when
`_writing` is 0, which says nothing about threads unless the counters are right
(`CountersMatch`), and a reader enters when `_writing` and `_wwriters` are 0,
so a writer that waits for the token must be known to be counted and to have
found no reader (`AdmittedShutsReadersOut`). `OneToken` counts the token in
pods and in replies on their way; a reply is taken by one handler only because
no two messages in flight are equal, which `inbox` being a set of numbered
messages gives. `AcksMatch` says that a pod's `_wtoken_ack` is set exactly while
the token it gave travels or the ack of it does, and that never both do.

For handlers in delivery order (`InOrder /\ Spec`), with the invariant
`OrderInv == Inv /\ Situated /\ AllNumbered(inbox) /\ Informed(inbox)`:

* `HolderCurrent`, `ValidCurrent`, `CopiesGoForward`.

`Informed` says of every pod what its messages are about to do to its copy
(`Knows`): copies in the inbox are in order and none is older than the pod's
own; an old copy has an invalidation behind it or a writer that has not
released; the token comes after all of them and carries every write. That the
oldest message exists is the least-number principle (`LeastOfNaturals`), from
the library's theorem that `<` on the naturals is well-founded.

**`PageManagerProofs`**, from `PageAssumption`: `TypeCorrect`; `IdsUnique`,
where the invariant says that what a pod has still to give out was never issued
(`FreshIds`) and that pages in use and on their way lie above the next page
(`PagesAbove`) and do not overlap (`PagesApart`); `NoThreadForgotten`.

**`MailerProofs`**, from `MailerAssumption`:

* `TypeCorrect`, and `ReceiversAwake`, which is inductive with the types: a
  message is put in the mailbox and its receivers notified under one lock, and a
  receiver looks again before it sleeps.
* `MailRefined` (`Spec => ImplementsMail`), with `MailInv`: while no write goes
  on the queue is empty, what `HandleWrite` holds is the outgoing message or
  nothing (`OutMatches`), a message travels to the group it was sent to
  (`WireMatches`), and there is no mail before the mailbox (`BoxesMatch`).

The refinement joins the outgoing message, the queue, the wire and the mailboxes
and looks only at the messages of one agent to another (`Between`). So the
proof has two halves. One says what a step does to what is `Going` out and what
is `Coming` to each mailbox: it appends, drops or moves one message (`EffectIs`).
The other says what leaving out or appending an element does to `Between`: what
does not match is not missed, the first that matches is the head
(`BetweenOthers`, `BetweenHead`, `BetweenAppended`). `Between` selects by rank
and not by recursion, so that these follow from an ascending list of the places
that match (`ListExists`, `SelectedIs`) and not by induction over the sequence.

**`ResourceManagerProofs`**, from `DirectoryAssumption`:

* `TypeCorrect` and `ObjectsAlwaysExist`, with `DirectoryInv`: a message says
  what its sender knew when it sent it (`Fits`), and nobody asks for a replica
  before the resource is registered, because what a thread knows of a resource
  is in its place (`PlacesMatch`) or in the calls that have returned
  (`ReturnsMatch`).
* `OneReplica`, with `ReplicaInv`: the request for a replica, the message with
  it and the replica itself follow each other and exclude each other
  (`OneCopy`).
* `SearchesTruthful`, with `SearchInv`: a search still waits for as many pods
  as have its question or have answered (`Counts`), and the owner, if it was
  asked and its name is not known yet, is among them (`OwnerAnswers`).

**`StaticGroupProofs`**, from `StaticGroupAssumption`: `TypeCorrect`,
`GroupIsBarrier` (`Spec => ImplementsBarrier`), `CollectivesAgree` and
`NobodyOversleeps`. The counter of a pod takes messages of several operations,
in any order, so its value says nothing about one of them. What is invariant is
a sum (`RoundsMatch`): the messages counted so far are the counter plus the
number of members for every operation that the pod's foremost member has left.
With `CountedBound` (operations up to k have at most N * k messages) a member
that leaves finds that all have entered. `IdpsMatch` says that an idp is in
flight or kept, not both, while somebody in the pod still needs it.

**`LifecycleProofs`**, from `LifecycleAssumption`:

* `TypeCorrect`, with `CountInv`: a counter of a pod is at most the number of
  pods that have sent what it counts and whose message the pod has handled
  (`Heard`), because a pod sends each kind of message once and none is in an
  inbox twice (`MailMatches`), nor in an inbox and in the threads of the
  collective (`ThreadsMatch`).
* `NoneStopsEarly` (`Together /\ Over`), in whatever order the threads of a
  collective run, and `SessionRefined`: `InOrder /\ Spec =>
  ImplementsSession`, both with `SessionInv`.

The counts of a context are compared with a fixed number, so for `Together` the
bounds from above are enough: a pod that counts all its mates has heard of all.
The counts of the application are compared with each other, and `Over` needs a
bound from below as well: a pod knows of as many pods as are in the application
but for those whose Join is still in its inbox (`TotalsMatch`), and there is
none when it has as many Finalize messages as pods, because a Join comes before
the Finalize of its pod and of the pod that spawned it (`InboxOrdered`), which
is in the middle of `Spawn` until the pods it started have their closure
(`SpawnersWait`). That two pods of a context do not work in different closures
is because one of them is first for all (`OneFirst`): whoever has counted
nobody has its message as the next one, which holds only in delivery order.

**`OrganizerProofs`**, from `OrganizerAssumption`: `TypeCorrect`, for handlers
in any order; and for handlers in delivery order `ClosureCompleted`:
`InOrder /\ Spec => []ClosureComplete`, and `MembershipRefined`:
`InOrder /\ Spec => ImplementsMembership`. The steps in order are those in
which the first message of an inbox is handled and a request is answered once
(`StepsInOrder`). The invariant has three parts. The table that counts is the one at the token,
which is in one place (`OneToken`), and what is on its way to the holder does
not make that table old (`MessagesMatch`); no replica is ahead of it
(`NoneAhead`). Its number of joins is the number of agents that are through
their `Join` (`JoinsOnce`, `JoinsCounted`), so the agent of rank 0 is one
(`ParentToldOnce`). And a replica, or a table on its way, has every join that
its pod hears of before the next invalidation (`Informed`): an agent
invalidates the others before it tells them that it is in, and both Spread and
handlers in order keep that order, so that who has counted all members has an invalid replica or a
complete one.

**`PoolProofs`**, from `PoolAssumption`: `PoolForksAndJoins`
(`Spec => ImplementsForkJoin`), `IdleIsDone` (`IdleMeansDone`, what every return
from `WaitForIdle` rests on) and `TypeCorrect`.
The inductive invariant says that the barrier's counter is the number of
agents in this round of it (`CountMatches`), that exactly the agents that
were let out have the last task to run and all have run each earlier one once
(`TasksMatch`, `HasRun`), and what each place of
the program says about the pool (`ProgramMatches`): `_fct` changes, and the
barrier opens, only while all agents are in it, although agents read `_fct`
and `_shut` without a lock.

In all of them one lemma says what posting or taking a message does to the sets
the invariant speaks about, and there is one lemma for each part of the
invariant, with a step for each action that can disturb it.

Liveness is only model-checked: every property under fairness is out of the
prover's reach. What rests on `InOrder` is shown of no schedule in which
handlers overtake one another, and is false there (section 4).

No theorem is by induction over data, and no module declares a recursive
operator.

## 6. What is not modelled, and the plan

The components that are not modelled and the reason are in `PROJECT.json`.
What the models should get next:

1. Readers whose object is replaced under them: the read of `ConsistencyObject`
   split into its start and end.
2. Two launches of a context, and two members of a static group in one pod,
   once the code decides how they are counted.

Out of scope: ssh sessions and launchers beyond what `Lifecycle` says of them,
the remote procedure calls (a third-party library over a transport like the
Mailer's), dynamic loading and the wrappers of libevent and libssh,
serialization formats, and crashes of pods other than the one above: the code
does not handle a pod that dies.

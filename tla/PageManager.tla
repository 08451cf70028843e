----------------------------- MODULE PageManager -----------------------------
(***************************************************************************)
(* The identifiers of resources (page_manager.cpp).  Every pod has a page  *)
(* manager that hands out the ids of its current page, from the highest    *)
(* down.  The pod that started first is the main one: it cuts pages off    *)
(* the id space.  Another pod asks for a page with a PageRequest, which    *)
(* the controller of the main pod answers with a PageReply; both are       *)
(* handled by the service thread itself, in delivery order.                *)
(*                                                                         *)
(* GenerateIdp holds _mtx from its test to the send of the request, so a   *)
(* call is one step up to its wait.                                        *)
(*                                                                         *)
(* An operator named <Definition>_<fault> is a faulty variant of the       *)
(* definition below it; the specification does not use it.                 *)
(***************************************************************************)
EXTENDS Integers, Sequences, FiniteSets

CONSTANTS Pods,      \* pods
          Main,      \* the pod with _is_main_mgr
          Threads,   \* application threads
          Home,      \* the pod every thread runs in
          Calls,     \* bound: how often each thread calls GenerateIdp
          PageSize,  \* _page_size (0x100)
          FirstPage  \* _current_page of the main pod (0xffffff00)

ASSUME PageAssumption ==
    /\ Main \in Pods
    /\ Home \in [Threads -> Pods]
    /\ Calls \in [Threads -> Nat]
    /\ PageSize \in Nat \ {0}
    /\ FirstPage \in Nat /\ FirstPage >= PageSize

VARIABLES
    next_page,       \* _next_page of the main pod
    current_page,    \* _current_page
    ids_counter,     \* _ids_counter
    page_requested,  \* _page_requested
    requests,        \* PageRequests on their way to the main pod: who sent them
    replies,         \* PageReplies on their way to each pod: the pages
    waiting,         \* threads in the wait of GenerateIdp
    asleep,          \* those of them that were not notified
    calls,           \* calls of GenerateIdp started by each thread
    issued           \* history: how often each id was returned

pages   == <<next_page, current_page, ids_counter>>
network == <<requests, replies>>
threads == <<waiting, asleep, calls>>
vars    == <<pages, page_requested, network, threads, issued>>

Ids == 0 .. FirstPage

\* next_page, an unsigned 32-bit number, is not followed past zero: the main
\* pod cuts off at most FirstPage \div PageSize pages (2^24 in the code).
Bound == next_page >= PageSize

TypeOK ==
    /\ next_page \in Nat /\ next_page <= FirstPage
    /\ current_page \in [Pods -> Ids]
    /\ ids_counter \in [Pods -> 0 .. PageSize]
    /\ page_requested \in [Pods -> BOOLEAN]
    /\ requests \in Seq(Pods)
    /\ replies \in [Pods -> Seq(Ids)]
    /\ waiting \in SUBSET Threads
    /\ asleep \in SUBSET waiting
    /\ calls \in [Threads -> Nat]
    /\ issued \in [Ids -> Nat]

------------------------------------------------------------------------------
Issue(id) == issued' = [issued EXCEPT ![id] = @ + 1]

\* The id that GenerateIdp returns from a page of which n ids are used.
Return(p, t, page, n) ==
    /\ Issue(page - n)
    /\ current_page' = [current_page EXCEPT ![p] = page]
    /\ ids_counter' = [ids_counter EXCEPT ![p] = n + 1]
    /\ waiting' = waiting \ {t}
    /\ UNCHANGED asleep

\* The request, under _mtx, and the wait.
AwaitPage(p, t) ==
    /\ IF page_requested[p]
       THEN UNCHANGED <<requests, page_requested>>
       ELSE /\ requests' = Append(requests, p)
            /\ page_requested' = [page_requested EXCEPT ![p] = TRUE]
    /\ waiting' = waiting \cup {t} /\ asleep' = asleep \cup {t}

HasIds_oneMore(p) == ids_counter[p] <= PageSize

HasIds(p) == ids_counter[p] < PageSize

\* One turn of GenerateIdp's loop, and the rest of it when the loop ends.
Generate(t) ==
    LET p == Home[t] IN
    \/ /\ HasIds(p)
       /\ Return(p, t, current_page[p], ids_counter[p])
       /\ UNCHANGED <<next_page, page_requested, network>>
    \/ /\ ~HasIds(p) /\ p = Main /\ Bound
       /\ Return(p, t, next_page, 0)
       /\ next_page' = next_page - PageSize
       /\ UNCHANGED <<page_requested, network>>
    \/ /\ ~HasIds(p) /\ p # Main
       /\ AwaitPage(p, t)
       /\ UNCHANGED <<pages, replies, issued>>

GenerateIdp(t) ==
    /\ t \notin waiting /\ calls[t] < Calls[t]
    /\ calls' = [calls EXCEPT ![t] = @ + 1]
    /\ Generate(t)

\* A notified thread runs the loop again.
Retry(t) ==
    /\ t \in waiting \ asleep
    /\ UNCHANGED calls
    /\ Generate(t)

SpuriousWakeup(t) ==
    /\ t \in asleep
    /\ asleep' = asleep \ {t}
    /\ UNCHANGED <<pages, page_requested, network, waiting, calls, issued>>

GeneratePage_twice == UNCHANGED next_page

GeneratePage == next_page' = next_page - PageSize

\* The main controller's answer to the oldest request.
HandlePageRequest ==
    /\ requests # <<>> /\ Bound
    /\ requests' = Tail(requests)
    /\ replies' = [replies EXCEPT ![Head(requests)] = Append(@, next_page)]
    /\ GeneratePage
    /\ UNCHANGED <<current_page, ids_counter, page_requested, threads, issued>>

Notify_one(p) ==
    IF \E t \in asleep : Home[t] = p
    THEN \E t \in asleep : Home[t] = p /\ asleep' = asleep \ {t}
    ELSE UNCHANGED asleep

Notify(p) == asleep' = {t \in asleep : Home[t] # p}

UpdatePage(p) ==
    /\ replies[p] # <<>>
    /\ current_page' = [current_page EXCEPT ![p] = Head(replies[p])]
    /\ ids_counter' = [ids_counter EXCEPT ![p] = 0]
    /\ replies' = [replies EXCEPT ![p] = Tail(@)]
    /\ Notify(p)
    /\ UNCHANGED <<next_page, page_requested, requests, waiting, calls, issued>>

------------------------------------------------------------------------------
\* CreateInitialContext; a pod that is not the main one starts with a used-up
\* page, so its _current_page is never read before its first UpdatePage.
Init ==
    /\ next_page = FirstPage - PageSize
    /\ current_page = [p \in Pods |-> FirstPage]
    /\ ids_counter = [p \in Pods |-> IF p = Main THEN 0 ELSE PageSize]
    /\ page_requested = [p \in Pods |-> FALSE]
    /\ requests = <<>>
    /\ replies = [p \in Pods |-> <<>>]
    /\ waiting = {}
    /\ asleep = {}
    /\ calls = [t \in Threads |-> 0]
    /\ issued = [id \in Ids |-> 0]

Next ==
    \/ \E t \in Threads : GenerateIdp(t) \/ Retry(t) \/ SpuriousWakeup(t)
    \/ \E p \in Pods : UpdatePage(p)
    \/ HandlePageRequest

Spec == Init /\ [][Next]_vars

\* Notified threads run and the service threads handle what is delivered.
Fairness ==
    /\ \A t \in Threads : WF_vars(Retry(t))
    /\ \A p \in Pods : WF_vars(UpdatePage(p))
    /\ WF_vars(HandlePageRequest)

FairSpec == Spec /\ Fairness
------------------------------------------------------------------------------
\* No two calls of GenerateIdp, in whatever pods, return the same id.
UniqueIds == \A id \in Ids : issued[id] <= 1

\* No thread sleeps while its pod has ids to give: the wakeup that comes with
\* a page reaches every thread that waits for it.
NoForgottenThread == \A t \in asleep : ids_counter[Home[t]] = PageSize

\* GenerateIdp returns.
IdGenerated == \A t \in Threads : t \in waiting ~> t \notin waiting
==============================================================================

-------------------------- MODULE PageManagerProofs --------------------------
(***************************************************************************)
(* No id is handed out twice, whatever the number of pods and threads, the *)
(* page size and the size of the id space.                                 *)
(***************************************************************************)
EXTENDS PageManager, SequenceTheorems, TLAPS

\* Pages that have no id in common.
Apart(a, b) == a - b >= PageSize \/ b - a >= PageSize

\* Every id that may still be handed out was not handed out yet: those the
\* main pod has not cut off, those left of a pod's page and those of a page on
\* its way.
FreshIds ==
    /\ \A id \in Ids : id <= next_page => issued[id] = 0
    /\ \A p \in Pods : \A n \in ids_counter[p] .. PageSize - 1 :
          issued[current_page[p] - n] = 0
    /\ \A p \in Pods : \A i \in DOMAIN replies[p] : \A n \in 0 .. PageSize - 1 :
          issued[replies[p][i] - n] = 0

\* Pages in use or on their way lie above what is not cut off yet.
PagesAbove ==
    /\ \A p \in Pods : HasIds(p) => current_page[p] - PageSize >= next_page
    /\ \A p \in Pods : \A i \in DOMAIN replies[p] : replies[p][i] - PageSize >= next_page

\* Pages in use or on their way do not overlap.
PagesApart ==
    /\ \A p, q \in Pods :
          p # q /\ HasIds(p) /\ HasIds(q) => Apart(current_page[p], current_page[q])
    /\ \A p, q \in Pods : \A i \in DOMAIN replies[q] :
          HasIds(p) => Apart(current_page[p], replies[q][i])
    /\ \A p, q \in Pods : \A i \in DOMAIN replies[p], j \in DOMAIN replies[q] :
          p # q \/ i # j => Apart(replies[p][i], replies[q][j])

\* The inductive invariant.
Inv == TypeOK /\ UniqueIds /\ FreshIds /\ PagesAbove /\ PagesApart

LEMMA Sizes == PageSize \in Nat /\ PageSize >= 1 /\ FirstPage \in Nat /\ FirstPage >= PageSize
BY PageAssumption

LEMMA InitInv == Init => Inv
<1> SUFFICES ASSUME Init PROVE Inv
  OBVIOUS
<1>1. TypeOK
  BY PageAssumption DEF Init, TypeOK, Ids
<1>2. UniqueIds /\ FreshIds
  <2>1. \A n \in 0 .. PageSize - 1 : FirstPage - n \in Ids
    BY PageAssumption DEF Ids
  <2>2. \A p \in Pods : ids_counter[p] \in {0, PageSize} /\ current_page[p] = FirstPage
    BY DEF Init
  <2> QED
    BY PageAssumption, <2>1, <2>2 DEF Init, UniqueIds, FreshIds, Ids
<1>3. PagesAbove /\ PagesApart
  BY PageAssumption DEF Init, PagesAbove, PagesApart, HasIds
<1> QED
  BY <1>1, <1>2, <1>3 DEF Inv

\* The steps that touch no page and no id.
LEMMA PagesSame ==
    ASSUME Inv, TypeOK', UNCHANGED <<pages, replies, issued>>
    PROVE  Inv'
BY DEF Inv, pages, UniqueIds, FreshIds, PagesAbove, PagesApart, HasIds, Apart

\* GenerateIdp takes the next id of the pod's own page.
LEMMA OwnPage ==
    ASSUME Inv, TypeOK', NEW t \in Threads, Home[t] \in Pods, HasIds(Home[t]),
           Return(Home[t], t, current_page[Home[t]], ids_counter[Home[t]]),
           UNCHANGED <<next_page, replies>>
    PROVE  Inv'
<1> DEFINE p == Home[t]
           id == current_page[p] - ids_counter[p]
<1>1. /\ current_page \in [Pods -> Ids] /\ ids_counter \in [Pods -> 0 .. PageSize]
      /\ replies \in [Pods -> Seq(Ids)] /\ issued \in [Ids -> Nat]
      /\ next_page \in Nat /\ PageSize \in Nat /\ p \in Pods
  BY PageAssumption DEF Inv, TypeOK
<1>2. /\ issued' = [issued EXCEPT ![id] = @ + 1]
      /\ current_page' = current_page
      /\ ids_counter' = [ids_counter EXCEPT ![p] = @ + 1]
  BY <1>1 DEF Return, Issue
<1>3. id \in Ids /\ id > next_page /\ issued[id] = 0
  <2>1. current_page[p] \in 0 .. FirstPage /\ ids_counter[p] \in 0 .. PageSize - 1
    BY <1>1 DEF HasIds, Ids
  <2>2. current_page[p] - PageSize >= next_page
    BY <1>1 DEF Inv, PagesAbove
  <2>3. issued[id] = 0
    BY <1>1, <2>1 DEF Inv, FreshIds
  <2>4. id \in Nat /\ id <= FirstPage /\ id > next_page
    BY <1>1, <2>1, <2>2, Sizes
  <2> QED
    BY <2>3, <2>4, Sizes DEF Ids
<1>4. UniqueIds'
  BY <1>1, <1>2, <1>3 DEF Inv, UniqueIds
<1>5. PagesAbove' /\ PagesApart'
  <2>1. \A q \in Pods : HasIds(q)' => HasIds(q)
    BY <1>1, <1>2 DEF HasIds
  <2> QED
    BY <1>2, <2>1 DEF Inv, PagesAbove, PagesApart, Apart
<1>6. FreshIds'
  <2>1. ASSUME NEW other, other # id, issued[other] = 0 PROVE issued'[other] = 0
    BY <1>1, <1>2, <2>1
  <2>2. \A x \in Ids : x <= next_page' => issued'[x] = 0
    BY <1>1, <1>3, <2>1 DEF Inv, FreshIds, Ids
  <2>3. ASSUME NEW q \in Pods, NEW n \in ids_counter'[q] .. PageSize - 1
        PROVE  issued'[current_page'[q] - n] = 0
    <3>1. n \in ids_counter[q] .. PageSize - 1 /\ issued[current_page[q] - n] = 0
      BY <1>1, <1>2, <2>3 DEF Inv, FreshIds
    <3>2. current_page[q] - n # id
      <4>1. CASE q = p
        BY <1>1, <1>2, <2>3, <4>1 DEF Ids
      <4>2. CASE q # p
        <5>1. Apart(current_page[q], current_page[p])
          BY <1>1, <3>1, <4>2 DEF Inv, PagesApart, HasIds
        <5> QED
          BY <1>1, <3>1, <5>1 DEF Apart, Ids, HasIds
      <4> QED
        BY <4>1, <4>2
    <3> QED
      BY <1>2, <2>1, <3>1, <3>2
  <2>4. ASSUME NEW q \in Pods, NEW i \in DOMAIN replies'[q], NEW n \in 0 .. PageSize - 1
        PROVE  issued'[replies'[q][i] - n] = 0
    <3>1. /\ issued[replies[q][i] - n] = 0
          /\ Apart(current_page[p], replies[q][i])
          /\ replies[q][i] \in Ids
      BY <1>1, <2>4 DEF Inv, FreshIds, PagesApart
    <3>2. replies[q][i] - n # id
      BY <1>1, <3>1 DEF Apart, Ids, HasIds
    <3> QED
      BY <2>1, <3>1, <3>2
  <2> QED
    BY <2>2, <2>3, <2>4 DEF FreshIds
<1> QED
  BY <1>4, <1>5, <1>6 DEF Inv

\* The main pod opens a new page for itself and takes its first id.
LEMMA NewPage ==
    ASSUME Inv, TypeOK', NEW t \in Threads, Home[t] \in Pods, Bound,
           Return(Home[t], t, next_page, 0),
           next_page' = next_page - PageSize, UNCHANGED replies
    PROVE  Inv'
<1> DEFINE p == Home[t]
<1>1. /\ current_page \in [Pods -> Ids] /\ ids_counter \in [Pods -> 0 .. PageSize]
      /\ replies \in [Pods -> Seq(Ids)] /\ issued \in [Ids -> Nat]
      /\ next_page \in Nat /\ next_page <= FirstPage /\ p \in Pods
      /\ next_page >= PageSize /\ next_page \in Ids
  <2>1. next_page \in Nat /\ next_page <= FirstPage
    BY DEF Inv, TypeOK
  <2>2. next_page \in Ids
    BY <2>1, Sizes DEF Ids
  <2> QED
    BY <2>1, <2>2 DEF Inv, TypeOK, Bound
<1>2. /\ issued' = [issued EXCEPT ![next_page] = @ + 1]
      /\ current_page' = [current_page EXCEPT ![p] = next_page]
      /\ ids_counter' = [ids_counter EXCEPT ![p] = 1]
  BY <1>1 DEF Return, Issue
<1>3. issued[next_page] = 0
  BY <1>1 DEF Inv, FreshIds
<1>4. UniqueIds'
  BY <1>1, <1>2, <1>3 DEF Inv, UniqueIds
<1>5. /\ \A q \in Pods : q # p => /\ current_page'[q] = current_page[q]
                                 /\ ids_counter'[q] = ids_counter[q]
      /\ current_page'[p] = next_page /\ ids_counter'[p] = 1
  BY <1>1, <1>2
<1>6. /\ \A q \in Pods : q # p /\ HasIds(q)' => current_page'[q] - PageSize >= next_page
      /\ \A q \in Pods : \A i \in DOMAIN replies[q] : replies[q][i] - PageSize >= next_page
  BY <1>5 DEF Inv, PagesAbove, HasIds
<1>7. /\ \A q \in Pods : current_page[q] \in 0 .. FirstPage /\ current_page'[q] \in 0 .. FirstPage
      /\ \A q \in Pods : \A i \in DOMAIN replies[q] : replies[q][i] \in 0 .. FirstPage
  <2>1. \A q \in Pods : current_page[q] \in Ids /\ current_page'[q] \in Ids
    BY <1>1, <1>5
  <2>2. ASSUME NEW q \in Pods, NEW i \in DOMAIN replies[q] PROVE replies[q][i] \in Ids
    BY <1>1
  <2> QED
    BY <2>1, <2>2 DEF Ids
<1>8. PagesAbove'
  <2>1. ASSUME NEW q \in Pods, HasIds(q)' PROVE current_page'[q] - PageSize >= next_page'
    <3>1. CASE q = p
      BY <1>1, <1>5, <3>1, Sizes
    <3>2. CASE q # p
      <4>1. current_page'[q] \in Int /\ current_page'[q] - PageSize >= next_page
        BY <1>6, <1>7, <2>1, <3>2, Sizes
      <4> QED
        BY <1>1, <4>1, Sizes
    <3> QED
      BY <3>1, <3>2
  <2>2. ASSUME NEW q \in Pods, NEW i \in DOMAIN replies[q]
        PROVE  replies[q][i] - PageSize >= next_page'
    <3>1. replies[q][i] \in Int /\ replies[q][i] - PageSize >= next_page
      BY <1>6, <1>7, Sizes
    <3> QED
      BY <1>1, <3>1, Sizes
  <2> QED
    BY <2>1, <2>2 DEF PagesAbove
<1>9. PagesApart'
  <2>1. ASSUME NEW q \in Pods, NEW r \in Pods, q # r, HasIds(q)', HasIds(r)'
        PROVE  Apart(current_page'[q], current_page'[r])
    <3>1. CASE q # p /\ r # p
      BY <1>5, <2>1, <3>1 DEF Inv, PagesApart, HasIds
    <3>2. CASE q = p
      <4>1. current_page'[q] = next_page /\ current_page'[r] - PageSize >= next_page
        BY <1>5, <1>6, <2>1, <3>2
      <4>2. current_page'[r] \in Int /\ next_page \in Int
        BY <1>1, <1>7
      <4> QED
        BY <4>1, <4>2, Sizes DEF Apart
    <3>3. CASE r = p
      <4>1. current_page'[r] = next_page /\ current_page'[q] - PageSize >= next_page
        BY <1>5, <1>6, <2>1, <3>3
      <4>2. current_page'[q] \in Int /\ next_page \in Int
        BY <1>1, <1>7
      <4> QED
        BY <4>1, <4>2, Sizes DEF Apart
    <3> QED
      BY <3>1, <3>2, <3>3
  <2>2. ASSUME NEW q \in Pods, NEW r \in Pods, NEW i \in DOMAIN replies[r], HasIds(q)'
        PROVE  Apart(current_page'[q], replies[r][i])
    <3>1. CASE q # p
      BY <1>5, <2>2, <3>1 DEF Inv, PagesApart, HasIds
    <3>2. CASE q = p
      BY <1>1, <1>5, <1>6, <1>7, <2>2, <3>2, Sizes DEF Apart
    <3> QED
      BY <3>1, <3>2
  <2> QED
    BY <2>1, <2>2 DEF Inv, PagesApart, Apart
<1>10. FreshIds'
  <2>1. ASSUME NEW other, other # next_page, issued[other] = 0 PROVE issued'[other] = 0
    BY <1>1, <1>2, <2>1
  <2>2. \A x \in Ids : x <= next_page' => issued'[x] = 0
    <3>1. ASSUME NEW x \in Ids, x <= next_page - PageSize
          PROVE  x <= next_page /\ x # next_page
      BY <1>1, <3>1, Sizes DEF Ids
    <3> QED
      BY <2>1, <3>1 DEF Inv, FreshIds
  <2>3. ASSUME NEW q \in Pods, NEW n \in ids_counter'[q] .. PageSize - 1
        PROVE  issued'[current_page'[q] - n] = 0
    <3>1. n \in Nat /\ n < PageSize
      <4>1. CASE q = p
        <5>1. ids_counter'[q] = 1
          BY <1>5, <4>1
        <5> QED
          BY <2>3, <5>1, Sizes
      <4>2. CASE q # p
        <5>1. ids_counter'[q] = ids_counter[q] /\ ids_counter[q] \in 0 .. PageSize
          BY <1>1, <1>5, <4>2
        <5> QED
          BY <2>3, <5>1, Sizes
      <4> QED
        BY <4>1, <4>2
    <3>2. CASE q = p
      <4>1. n >= 1 /\ next_page - n \in Ids /\ next_page - n # next_page /\ next_page - n <= next_page
        <5>1. ids_counter'[q] = 1
          BY <1>5, <3>2
        <5>2. n >= 1
          BY <2>3, <5>1, Sizes
        <5>3. next_page \in Nat /\ next_page <= FirstPage /\ next_page >= PageSize
          BY <1>1
        <5> QED
          BY <3>1, <5>2, <5>3, Sizes DEF Ids
      <4>2. issued[next_page - n] = 0
        BY <4>1 DEF Inv, FreshIds
      <4> QED
        BY <1>5, <2>1, <3>2, <4>1, <4>2
    <3>3. CASE q # p
      <4>1. issued[current_page[q] - n] = 0
        BY <1>5, <2>3, <3>3 DEF Inv, FreshIds
      <4>2. ids_counter[q] < PageSize /\ current_page[q] - PageSize >= next_page
        BY <1>1, <1>5, <2>3, <3>3, Sizes DEF Inv, PagesAbove, HasIds
      <4>3. current_page[q] - n # next_page
        BY <1>1, <1>7, <3>1, <4>2, Sizes
      <4> QED
        BY <1>5, <2>1, <3>3, <4>1, <4>3
    <3> QED
      BY <3>2, <3>3
  <2>4. ASSUME NEW q \in Pods, NEW i \in DOMAIN replies'[q], NEW n \in 0 .. PageSize - 1
        PROVE  issued'[replies'[q][i] - n] = 0
    <3>1. issued[replies[q][i] - n] = 0 /\ replies[q][i] - PageSize >= next_page
      BY <1>6, <2>4 DEF Inv, FreshIds
    <3>2. replies[q][i] - n # next_page
      BY <1>1, <1>7, <2>4, <3>1, Sizes
    <3> QED
      BY <2>1, <3>1, <3>2
  <2> QED
    BY <2>2, <2>3, <2>4 DEF FreshIds
<1> QED
  BY <1>4, <1>8, <1>9, <1>10 DEF Inv

\* The main pod cuts a page off for another pod and sends it.
LEMMA SentPage ==
    ASSUME Inv, TypeOK', HandlePageRequest
    PROVE  Inv'
<1> DEFINE to == Head(requests)
           last == Len(replies[to]) + 1
<1>1. /\ current_page \in [Pods -> Ids] /\ ids_counter \in [Pods -> 0 .. PageSize]
      /\ replies \in [Pods -> Seq(Ids)] /\ to \in Pods
      /\ next_page \in Nat /\ next_page <= FirstPage
      /\ next_page >= PageSize /\ next_page \in Ids
  <2>1. next_page \in Nat /\ next_page <= FirstPage /\ requests \in Seq(Pods) /\ requests # <<>>
    BY DEF Inv, TypeOK, HandlePageRequest
  <2>2. next_page \in Ids
    BY <2>1, Sizes DEF Ids
  <2>3. to \in Pods
    BY <2>1, HeadTailProperties
  <2> QED
    BY <2>1, <2>2, <2>3 DEF Inv, TypeOK, HandlePageRequest, Bound
<1>2. /\ replies' = [replies EXCEPT ![to] = Append(@, next_page)]
      /\ next_page' = next_page - PageSize
      /\ UNCHANGED <<current_page, ids_counter, issued>>
  BY DEF HandlePageRequest, GeneratePage
<1>3. ASSUME NEW q \in Pods, NEW i \in DOMAIN replies'[q], ~(q = to /\ i = last)
      PROVE  i \in DOMAIN replies[q] /\ replies'[q][i] = replies[q][i]
  <2>1. CASE q = to
    <3>1. replies[to] \in Seq(Ids) /\ replies'[to] = Append(replies[to], next_page)
      BY <1>1, <1>2
    <3> QED
      BY <1>3, <2>1, <3>1, <1>1, AppendProperties
  <2>2. CASE q # to
    BY <1>1, <1>2, <1>3, <2>2
  <2> QED
    BY <2>1, <2>2
<1>4. replies'[to][last] = next_page
  BY <1>1, <1>2, AppendProperties
<1>5. /\ \A q \in Pods : current_page[q] \in 0 .. FirstPage
      /\ \A q \in Pods : \A i \in DOMAIN replies[q] : replies[q][i] \in 0 .. FirstPage
  <2>1. ASSUME NEW q \in Pods, NEW i \in DOMAIN replies[q] PROVE replies[q][i] \in Ids
    BY <1>1
  <2> QED
    BY <1>1, <2>1 DEF Ids
<1>6. /\ \A q \in Pods : HasIds(q) => current_page[q] - PageSize >= next_page
      /\ \A q \in Pods : \A i \in DOMAIN replies[q] : replies[q][i] - PageSize >= next_page
  BY DEF Inv, PagesAbove
<1>7. PagesAbove'
  <2>1. ASSUME NEW q \in Pods, HasIds(q) PROVE current_page[q] - PageSize >= next_page - PageSize
    <3>1. current_page[q] \in Int /\ current_page[q] - PageSize >= next_page
      BY <1>5, <1>6, <2>1, Sizes
    <3> QED
      BY <1>1, <3>1, Sizes
  <2>2. ASSUME NEW q \in Pods, NEW i \in DOMAIN replies'[q]
        PROVE  replies'[q][i] - PageSize >= next_page - PageSize
    <3>1. CASE q = to /\ i = last
      BY <1>1, <1>4, <3>1, Sizes
    <3>2. CASE ~(q = to /\ i = last)
      <4>1. replies'[q][i] \in Int /\ replies'[q][i] - PageSize >= next_page
        BY <1>3, <1>5, <1>6, <2>2, <3>2, Sizes
      <4> QED
        BY <1>1, <4>1, Sizes
    <3> QED
      BY <3>1, <3>2
  <2> QED
    BY <1>2, <2>1, <2>2 DEF PagesAbove, HasIds
<1>8. ASSUME NEW a \in 0 .. FirstPage, a - PageSize >= next_page
      PROVE  Apart(a, next_page) /\ Apart(next_page, a)
  BY <1>1, <1>8, Sizes DEF Apart
<1>9. PagesApart'
  <2>1. ASSUME NEW q \in Pods, NEW r \in Pods, NEW i \in DOMAIN replies'[r], HasIds(q)
        PROVE  Apart(current_page[q], replies'[r][i])
    <3>1. CASE r = to /\ i = last
      BY <1>4, <1>5, <1>6, <1>8, <2>1, <3>1
    <3>2. CASE ~(r = to /\ i = last)
      BY <1>3, <2>1, <3>2 DEF Inv, PagesApart
    <3> QED
      BY <3>1, <3>2
  <2>2. ASSUME NEW q \in Pods, NEW r \in Pods, NEW i \in DOMAIN replies'[q],
               NEW j \in DOMAIN replies'[r], q # r \/ i # j
        PROVE  Apart(replies'[q][i], replies'[r][j])
    <3>1. CASE q = to /\ i = last
      <4>1. ~(r = to /\ j = last)
        BY <2>2, <3>1
      <4> QED
        BY <1>3, <1>4, <1>5, <1>6, <1>8, <2>2, <3>1, <4>1
    <3>2. CASE r = to /\ j = last
      <4>1. ~(q = to /\ i = last)
        BY <2>2, <3>2
      <4> QED
        BY <1>3, <1>4, <1>5, <1>6, <1>8, <2>2, <3>2, <4>1
    <3>3. CASE ~(q = to /\ i = last) /\ ~(r = to /\ j = last)
      <4>1. /\ i \in DOMAIN replies[q] /\ replies'[q][i] = replies[q][i]
            /\ j \in DOMAIN replies[r] /\ replies'[r][j] = replies[r][j]
        BY <1>3, <2>2, <3>3
      <4> QED
        BY <2>2, <4>1 DEF Inv, PagesApart
    <3> QED
      BY <3>1, <3>2, <3>3
  <2> QED
    BY <1>2, <2>1, <2>2 DEF Inv, PagesApart, HasIds, Apart
<1>10. FreshIds'
  <2>1. ASSUME NEW x \in Ids, x <= next_page - PageSize PROVE issued[x] = 0
    <3>1. x <= next_page
      BY <1>1, <2>1, Sizes DEF Ids
    <3> QED
      BY <3>1 DEF Inv, FreshIds
  <2>2. ASSUME NEW q \in Pods, NEW i \in DOMAIN replies'[q], NEW n \in 0 .. PageSize - 1
        PROVE  issued[replies'[q][i] - n] = 0
    <3>1. CASE q = to /\ i = last
      <4>1. next_page - n \in Ids /\ next_page - n <= next_page
        BY <1>1, Sizes DEF Ids
      <4> QED
        BY <1>4, <3>1, <4>1 DEF Inv, FreshIds
    <3>2. CASE ~(q = to /\ i = last)
      BY <1>3, <2>2, <3>2 DEF Inv, FreshIds
    <3> QED
      BY <3>1, <3>2
  <2> QED
    BY <1>2, <2>1, <2>2 DEF Inv, FreshIds
<1> QED
  BY <1>2, <1>7, <1>9, <1>10 DEF Inv, UniqueIds

\* A pod opens the page it was sent.
LEMMA OpenedPage ==
    ASSUME Inv, TypeOK', NEW p \in Pods, UpdatePage(p)
    PROVE  Inv'
<1> DEFINE page == Head(replies[p])
<1>1. /\ current_page \in [Pods -> Ids] /\ ids_counter \in [Pods -> 0 .. PageSize]
      /\ replies \in [Pods -> Seq(Ids)] /\ replies[p] # <<>>
  BY DEF Inv, TypeOK, UpdatePage
<1>2. /\ replies' = [replies EXCEPT ![p] = Tail(@)]
      /\ current_page' = [current_page EXCEPT ![p] = page]
      /\ ids_counter' = [ids_counter EXCEPT ![p] = 0]
      /\ UNCHANGED <<next_page, issued>>
  BY DEF UpdatePage
<1>3. 1 \in DOMAIN replies[p] /\ page = replies[p][1]
  BY <1>1
<1>4. ASSUME NEW q \in Pods, NEW i \in DOMAIN replies'[q]
      PROVE  \E k \in DOMAIN replies[q] :
                /\ replies'[q][i] = replies[q][k]
                /\ k = IF q = p THEN i + 1 ELSE i
                /\ q = p => k # 1
  <2>1. CASE q = p
    <3>1. replies[p] \in Seq(Ids) /\ replies[p] # <<>> /\ replies'[p] = Tail(replies[p])
      BY <1>1, <1>2
    <3>2. /\ DOMAIN Tail(replies[p]) = 1 .. Len(replies[p]) - 1
          /\ \A k \in 1 .. Len(replies[p]) - 1 : Tail(replies[p])[k] = replies[p][k + 1]
      BY <3>1
    <3>3. i \in 1 .. Len(replies[p]) - 1 /\ Len(replies[p]) \in Nat
      BY <1>4, <2>1, <3>1, <3>2
    <3>4. i + 1 \in DOMAIN replies[p] /\ i + 1 # 1
      BY <3>1, <3>3
    <3> QED
      BY <2>1, <3>1, <3>2, <3>3, <3>4
  <2>2. CASE q # p
    BY <1>1, <1>2, <1>4, <2>2
  <2> QED
    BY <2>1, <2>2
<1>5. ASSUME NEW q \in Pods, HasIds(q)', q # p
      PROVE  HasIds(q) /\ current_page'[q] = current_page[q]
  BY <1>1, <1>2, <1>5 DEF HasIds
<1>6. current_page'[p] = replies[p][1]
  BY <1>1, <1>2, <1>3
<1>7. PagesAbove'
  <2>1. ASSUME NEW q \in Pods, HasIds(q)' PROVE current_page'[q] - PageSize >= next_page
    BY <1>3, <1>5, <1>6, <2>1 DEF Inv, PagesAbove
  <2>2. ASSUME NEW q \in Pods, NEW i \in DOMAIN replies'[q]
        PROVE  replies'[q][i] - PageSize >= next_page
    BY <1>4, <2>2 DEF Inv, PagesAbove
  <2> QED
    BY <1>2, <2>1, <2>2 DEF PagesAbove
<1>8. PagesApart'
  <2>1. ASSUME NEW q \in Pods, NEW r \in Pods, q # r, HasIds(q)', HasIds(r)'
        PROVE  Apart(current_page'[q], current_page'[r])
    <3>1. CASE q # p /\ r # p
      BY <1>5, <2>1, <3>1 DEF Inv, PagesApart
    <3>2. CASE q # p /\ r = p
      BY <1>3, <1>5, <1>6, <2>1, <3>2 DEF Inv, PagesApart
    <3>3. CASE q = p
      <4>1. Apart(current_page[r], replies[p][1])
        BY <1>3, <1>5, <2>1, <3>3 DEF Inv, PagesApart
      <4> QED
        BY <1>5, <1>6, <2>1, <3>3, <4>1 DEF Apart
    <3> QED
      BY <3>1, <3>2, <3>3
  <2>2. ASSUME NEW q \in Pods, NEW r \in Pods, NEW i \in DOMAIN replies'[r], HasIds(q)'
        PROVE  Apart(current_page'[q], replies'[r][i])
    <3>1. PICK k \in DOMAIN replies[r] : replies'[r][i] = replies[r][k] /\ (r = p => k # 1)
      BY <1>4
    <3>2. CASE q = p
      <4>1. Apart(replies[p][1], replies[r][k])
        BY <1>3, <3>1 DEF Inv, PagesApart
      <4> QED
        BY <1>6, <3>1, <3>2, <4>1
    <3>3. CASE q # p
      BY <1>5, <2>2, <3>1, <3>3 DEF Inv, PagesApart
    <3> QED
      BY <3>2, <3>3
  <2>3. ASSUME NEW q \in Pods, NEW r \in Pods, NEW i \in DOMAIN replies'[q],
               NEW j \in DOMAIN replies'[r], q # r \/ i # j
        PROVE  Apart(replies'[q][i], replies'[r][j])
    <3>1. PICK k \in DOMAIN replies[q] :
             replies'[q][i] = replies[q][k] /\ k = IF q = p THEN i + 1 ELSE i
      BY <1>4
    <3>2. PICK l \in DOMAIN replies[r] :
             replies'[r][j] = replies[r][l] /\ l = IF r = p THEN j + 1 ELSE j
      BY <1>4
    <3>3. i \in Int /\ j \in Int
      <4>1. replies'[q] \in Seq(Ids) /\ replies'[r] \in Seq(Ids)
        BY DEF TypeOK
      <4> QED
        BY <2>3, <4>1
    <3>4. q # r \/ k # l
      BY <2>3, <3>1, <3>2, <3>3
    <3> QED
      BY <3>1, <3>2, <3>4 DEF Inv, PagesApart
  <2> QED
    BY <2>1, <2>2, <2>3 DEF PagesApart, Apart
<1>9. FreshIds'
  <2>1. ASSUME NEW q \in Pods, NEW n \in ids_counter'[q] .. PageSize - 1
        PROVE  issued[current_page'[q] - n] = 0
    <3>1. CASE q = p
      BY <1>1, <1>2, <1>3, <1>6, <2>1, <3>1 DEF Inv, FreshIds
    <3>2. CASE q # p
      BY <1>1, <1>2, <2>1, <3>2 DEF Inv, FreshIds
    <3> QED
      BY <3>1, <3>2
  <2>2. ASSUME NEW q \in Pods, NEW i \in DOMAIN replies'[q], NEW n \in 0 .. PageSize - 1
        PROVE  issued[replies'[q][i] - n] = 0
    BY <1>4, <2>2 DEF Inv, FreshIds
  <2> QED
    BY <1>2, <2>1, <2>2 DEF Inv, FreshIds
<1> QED
  BY <1>2, <1>7, <1>8, <1>9 DEF Inv, UniqueIds

LEMMA TypeStep ==
    ASSUME TypeOK, [Next]_vars
    PROVE  TypeOK'
<1> USE Sizes DEF pages, network, threads
<1>1. /\ \A t \in Threads : Home[t] \in Pods
      /\ next_page \in Nat /\ next_page <= FirstPage /\ next_page \in Ids
      /\ current_page \in [Pods -> Ids] /\ ids_counter \in [Pods -> 0 .. PageSize]
      /\ requests \in Seq(Pods) /\ replies \in [Pods -> Seq(Ids)]
      /\ calls \in [Threads -> Nat]
  BY PageAssumption DEF TypeOK, Ids
<1>2. ASSUME Bound
      PROVE  next_page - PageSize \in Nat /\ next_page - PageSize <= FirstPage
  BY <1>1, <1>2 DEF Bound
<1>3. ASSUME NEW p \in Pods, NEW t \in Threads, NEW page \in Ids, NEW n \in 0 .. PageSize - 1,
             Return(p, t, page, n)
      PROVE  /\ current_page' \in [Pods -> Ids] /\ ids_counter' \in [Pods -> 0 .. PageSize]
             /\ waiting' \in SUBSET Threads /\ issued' \in [Ids -> Nat]
             /\ waiting' = waiting \ {t} /\ asleep' = asleep
  <2>1. issued' \in [Ids -> Nat]
    <3>1. issued \in [Ids -> Nat] /\ issued' = [issued EXCEPT ![page - n] = @ + 1]
      BY <1>3 DEF Return, Issue, TypeOK
    <3>2. ASSUME NEW x \in Ids PROVE issued'[x] \in Nat
      BY <3>1
    <3> QED
      BY <3>1, <3>2
  <2>2. n + 1 \in 0 .. PageSize
    OBVIOUS
  <2>3. ids_counter' \in [Pods -> 0 .. PageSize] /\ current_page' \in [Pods -> Ids]
    BY <1>1, <1>3, <2>2 DEF Return
  <2> QED
    BY <1>3, <2>1, <2>3 DEF Return, TypeOK
<1>4. ASSUME NEW t \in Threads, Generate(t), t \notin asleep, calls' \in [Threads -> Nat]
      PROVE  TypeOK'
  <2> DEFINE p == Home[t]
  <2>1. p \in Pods /\ ids_counter[p] \in 0 .. PageSize /\ current_page[p] \in Ids
    BY <1>1
  <2>2. CASE /\ ids_counter[p] < PageSize
             /\ Return(p, t, current_page[p], ids_counter[p])
             /\ UNCHANGED <<next_page, page_requested, network>>
    <3>1. ids_counter[p] \in 0 .. PageSize - 1
      BY <2>1, <2>2
    <3>2. /\ current_page' \in [Pods -> Ids] /\ ids_counter' \in [Pods -> 0 .. PageSize]
          /\ issued' \in [Ids -> Nat]
          /\ waiting' = waiting \ {t} /\ asleep' = asleep
      BY <1>3, <2>1, <2>2, <3>1
    <3> QED
      BY <1>4, <2>2, <3>2 DEF TypeOK
  <2>3. CASE /\ Bound /\ Return(p, t, next_page, 0)
             /\ next_page' = next_page - PageSize
             /\ UNCHANGED <<page_requested, network>>
    <3>1. 0 \in 0 .. PageSize - 1
      OBVIOUS
    <3>2. /\ current_page' \in [Pods -> Ids] /\ ids_counter' \in [Pods -> 0 .. PageSize]
          /\ issued' \in [Ids -> Nat]
          /\ waiting' = waiting \ {t} /\ asleep' = asleep
      BY <1>1, <1>3, <2>1, <2>3, <3>1
    <3> QED
      BY <1>2, <1>4, <2>3, <3>2 DEF TypeOK
  <2>4. CASE AwaitPage(p, t) /\ UNCHANGED <<pages, replies, issued>>
    <3>1. requests' \in Seq(Pods) /\ page_requested' \in [Pods -> BOOLEAN]
      <4>1. Append(requests, p) \in Seq(Pods)
        BY <1>1, <2>1
      <4> QED
        BY <2>4, <4>1 DEF AwaitPage, TypeOK
    <3>2. waiting' \in SUBSET Threads /\ asleep' \in SUBSET waiting'
      BY <2>4 DEF AwaitPage, TypeOK
    <3> QED
      BY <1>4, <2>4, <3>1, <3>2 DEF TypeOK
  <2> QED
    BY <1>4, <2>2, <2>3, <2>4 DEF Generate, HasIds
<1>5. ASSUME NEW t \in Threads, GenerateIdp(t) \/ Retry(t) PROVE TypeOK'
  <2>1. calls' \in [Threads -> Nat] /\ t \notin asleep /\ Generate(t)
    <3>1. asleep \subseteq waiting
      BY DEF TypeOK
    <3>2. calls' = calls \/ calls' = [calls EXCEPT ![t] = @ + 1]
      BY <1>5 DEF GenerateIdp, Retry
    <3>3. calls' \in [Threads -> Nat]
      <4>1. CASE calls' = [calls EXCEPT ![t] = @ + 1]
        <5>1. calls[t] + 1 \in Nat
          BY <1>1
        <5> QED
          BY <1>1, <4>1, <5>1
      <4> QED
        BY <1>1, <3>2, <4>1
    <3> QED
      BY <1>5, <3>1, <3>3 DEF GenerateIdp, Retry
  <2> QED
    BY <1>4, <2>1
<1>6. ASSUME NEW t \in Threads, SpuriousWakeup(t) PROVE TypeOK'
  BY <1>6 DEF SpuriousWakeup, TypeOK
<1>7. ASSUME NEW p \in Pods, UpdatePage(p) PROVE TypeOK'
  <2>1. replies[p] \in Seq(Ids) /\ replies[p] # <<>>
    BY <1>1, <1>7 DEF UpdatePage
  <2>2. Head(replies[p]) \in Ids /\ Tail(replies[p]) \in Seq(Ids)
    BY <2>1, HeadTailProperties
  <2>3. /\ current_page' \in [Pods -> Ids] /\ replies' \in [Pods -> Seq(Ids)]
        /\ ids_counter' \in [Pods -> 0 .. PageSize]
    BY <1>1, <1>7, <2>2 DEF UpdatePage
  <2> QED
    BY <1>7, <2>3 DEF UpdatePage, Notify, TypeOK
<1>8. ASSUME HandlePageRequest PROVE TypeOK'
  <2>1. Tail(requests) \in Seq(Pods)
    BY <1>1, <1>8, HeadTailProperties DEF HandlePageRequest
  <2>2. replies' \in [Pods -> Seq(Ids)]
    BY <1>1, <1>8 DEF HandlePageRequest
  <2> QED
    BY <1>2, <1>8, <2>1, <2>2 DEF HandlePageRequest, GeneratePage, TypeOK
<1>9. CASE UNCHANGED vars
  BY <1>9 DEF vars, TypeOK
<1> QED
  BY <1>5, <1>6, <1>7, <1>8, <1>9 DEF Next

LEMMA NextInv == Inv /\ [Next]_vars => Inv'
<1> SUFFICES ASSUME Inv, [Next]_vars PROVE Inv'
  OBVIOUS
<1> USE DEF pages, network, threads
<1>1. TypeOK'
  BY TypeStep DEF Inv
<1>2. ASSUME NEW t \in Threads, Generate(t) PROVE Inv'
  <2>1. Home[t] \in Pods
    BY PageAssumption
  <2>2. CASE /\ ids_counter[Home[t]] < PageSize
             /\ Return(Home[t], t, current_page[Home[t]], ids_counter[Home[t]])
             /\ UNCHANGED <<next_page, page_requested, network>>
    BY <1>1, <2>1, <2>2, OwnPage DEF HasIds
  <2>3. CASE /\ Bound /\ Return(Home[t], t, next_page, 0)
             /\ next_page' = next_page - PageSize
             /\ UNCHANGED <<page_requested, network>>
    BY <1>1, <2>1, <2>3, NewPage
  <2>4. CASE UNCHANGED <<pages, replies, issued>>
    BY <1>1, <2>4, PagesSame
  <2> QED
    BY <1>2, <2>2, <2>3, <2>4 DEF Generate, HasIds
<1>3. ASSUME NEW t \in Threads, SpuriousWakeup(t) PROVE Inv'
  BY <1>1, <1>3, PagesSame DEF SpuriousWakeup
<1>4. CASE UNCHANGED vars
  BY <1>1, <1>4, PagesSame DEF vars
<1> QED
  BY <1>1, <1>2, <1>3, <1>4, OpenedPage, SentPage DEF Next, GenerateIdp, Retry

LEMMA SpecInv == Spec => []Inv
BY InitInv, NextInv, PTL DEF Spec

\* The variables keep their types in every pod: no range of ids grows past a
\* page, and GetPage only hands out ids below those of its last call.
THEOREM TypeCorrect == Spec => []TypeOK
<1>1. Inv => TypeOK
  BY DEF Inv
<1> QED
  BY <1>1, SpecInv, PTL

\* GenerateIdp returns an id to one caller only, in whatever pods the callers
\* are and however their requests for pages interleave, until the id space is
\* used up.
THEOREM IdsUnique == Spec => []UniqueIds
<1>1. Inv => UniqueIds
  BY DEF Inv
<1> QED
  BY <1>1, SpecInv, PTL

------------------------------------------------------------------------------
(* Waking up *)

\* No thread of the main pod ever waits for a page.
MainNeverWaits == \A t \in asleep : Home[t] # Main

LEMMA WakeStep ==
    ASSUME TypeOK, NoForgottenThread, MainNeverWaits, [Next]_vars
    PROVE  NoForgottenThread' /\ MainNeverWaits'
<1> USE DEF pages, network, threads
<1>1. /\ \A t \in Threads : Home[t] \in Pods
      /\ ids_counter \in [Pods -> 0 .. PageSize] /\ asleep \subseteq Threads
  BY PageAssumption DEF TypeOK
<1>2. ASSUME NEW t \in Threads, Generate(t) PROVE NoForgottenThread' /\ MainNeverWaits'
  <2> DEFINE p == Home[t]
  <2>1. CASE /\ ids_counter[p] >= PageSize /\ p # Main
             /\ AwaitPage(p, t) /\ UNCHANGED <<pages, replies, issued>>
    <3>1. ids_counter[p] = PageSize
      BY <1>1, <2>1, Sizes
    <3> QED
      BY <2>1, <3>1 DEF AwaitPage, NoForgottenThread, MainNeverWaits
  <2>2. ASSUME NEW page, NEW n, Return(p, t, page, n), ids_counter[p] < PageSize \/ p = Main
        PROVE  NoForgottenThread' /\ MainNeverWaits'
    <3>1. asleep' = asleep /\ \A q \in Pods : q # p => ids_counter'[q] = ids_counter[q]
      BY <1>1, <2>2 DEF Return
    <3>2. \A u \in asleep : Home[u] # p
      BY <1>1, <2>2, Sizes DEF NoForgottenThread, MainNeverWaits
    <3> QED
      BY <1>1, <3>1, <3>2 DEF NoForgottenThread, MainNeverWaits
  <2> QED
    BY <1>1, <1>2, <2>1, <2>2, Sizes DEF Generate, HasIds
<1>3. ASSUME NEW t \in Threads, SpuriousWakeup(t) PROVE NoForgottenThread' /\ MainNeverWaits'
  BY <1>3 DEF SpuriousWakeup, NoForgottenThread, MainNeverWaits
<1>4. ASSUME NEW p \in Pods, UpdatePage(p) PROVE NoForgottenThread' /\ MainNeverWaits'
  BY <1>1, <1>4 DEF UpdatePage, Notify, NoForgottenThread, MainNeverWaits
<1>5. CASE UNCHANGED vars \/ HandlePageRequest
  BY <1>5 DEF vars, HandlePageRequest, NoForgottenThread, MainNeverWaits
<1> QED
  BY <1>2, <1>3, <1>4, <1>5 DEF Next, GenerateIdp, Retry

\* A thread that sleeps in GenerateIdp has nothing to wake up for: UpdatePage
\* notifies every thread of its pod.
THEOREM NoThreadForgotten == Spec => []NoForgottenThread
<1>1. Init => NoForgottenThread /\ MainNeverWaits
  BY DEF Init, NoForgottenThread, MainNeverWaits
<1>2. Inv /\ NoForgottenThread /\ MainNeverWaits /\ [Next]_vars
        => NoForgottenThread' /\ MainNeverWaits'
  BY WakeStep DEF Inv
<1> QED
  BY <1>1, <1>2, SpecInv, PTL DEF Spec
==============================================================================

------------------------ MODULE ResourceManagerProofs ------------------------
(***************************************************************************)
(* The directory of resources, whatever the pods, the resources and the    *)
(* calls of the threads: no message finds a pod without the consistency    *)
(* object it is for, a pod gets one replica, and a search that asked as    *)
(* many pods as it counts on finds the owner.                              *)
(***************************************************************************)
EXTENDS ResourceManager, FiniteSetTheorems, TLAPS

------------------------------------------------------------------------------
(* The inductive invariant *)

\* The creator of r has r in its tables.
Registered(r) == r \in preds[Creator(r)]

Op(t) == Program[t][at[t]].op

\* The places of a call that knows that its resource is registered.
Knows(t) ==
    \/ pc[t] \in {"announcing", "replicating", "referencing", "asking", "counted", "searching"}
    \/ pc[t] = "finding" /\ t \in notified

\* What a thread's place says about its call.
PlacesMatch ==
    \A t \in Threads :
        /\ at[t] <= Len(Program[t]) + 1
        /\ pc[t] # "ready" => at[t] \in DOMAIN Program[t] /\ Home[t] \in up
        /\ pc[t] \in {"listed", "grouped", "announcing"} => Op(t) = "allocate"
        /\ Knows(t) => Registered(Rsc(t))

\* A call returns only when its resource is registered.
ReturnsMatch ==
    \A t \in Threads : \A i \in DOMAIN Program[t] :
        i < at[t] => Registered(Program[t][i].rsc)

\* Who enters a resource in which table.
TablesMatch ==
    \A p \in Pods, r \in Resources :
        /\ r \in preds[p] => p = Creator(r) /\ r \in objs[p] /\ p \in up
        /\ p \in group[r] /\ p # Creator(r) => r \in objs[p]

\* A message that q gets says what its sender knew.
Fits(q, m) ==
    /\ m.type \in {"FindReply", "Allocation"} => Registered(m.rsc)
    /\ m.type \in {"Join", "CreateReplica"} => m.rsc \in objs[q]
    /\ m.type = "Join" => m.from # q /\ (m.from # Creator(m.rsc) => m.rsc \in objs[m.from])
    /\ m.type = "SearchReply" => m.info \in {None, Creator(m.rsc)}

MessagesMatch == \A q \in Pods : \A m \in inbox[q] : Fits(q, m)

DirectoryInv == TypeOK /\ PlacesMatch /\ ReturnsMatch /\ TablesMatch /\ MessagesMatch

\* The requests of p for a replica of r, and the replicas sent to it.
Joins(p, r)  == {m \in inbox[Creator(r)] : m.type = "Join" /\ m.rsc = r /\ m.from = p}
Copies(p, r) == {m \in inbox[p] : m.type = "CreateReplica" /\ m.rsc = r}

AtMostOne(S) == \A x, y \in S : x = y

\* A request for a replica becomes the message with it and then the replica.
OneCopy(p, r) ==
    /\ AtMostOne(Joins(p, r)) /\ AtMostOne(Copies(p, r))
    /\ Joins(p, r) = {} \/ Copies(p, r) = {}
    /\ r \in rscs[p] => Joins(p, r) = {} /\ Copies(p, r) = {}
    /\ r \notin requested[p] => r \notin rscs[p] /\ Joins(p, r) = {} /\ Copies(p, r) = {}

ReplicaInv == \A p \in Pods, r \in Resources : p # Creator(r) => OneCopy(p, r)

\* The question of p about r that q has not answered, or its answer.
Questions(p, r, q) == {m \in inbox[q] : m.type = "SearchRequest" /\ m.rsc = r /\ m.from = p}
Answers(p, r, q)   == {m \in inbox[p] : m.type = "SearchReply" /\ m.rsc = r /\ m.from = q}

\* The pods whose answer p still waits for.
Pending(p, r) == {q \in Pods : Questions(p, r, q) # {} \/ Answers(p, r, q) # {}}

\* A pod is asked once in all, and the owner's answer is counted with its name.
Asks(p, r) ==
    \A q \in Pods :
        /\ AtMostOne(Questions(p, r, q)) /\ AtMostOne(Answers(p, r, q))
        /\ Questions(p, r, q) = {} \/ Answers(p, r, q) = {}

OwnerAnswers(p, r) ==
    \/ Questions(p, r, Creator(r)) # {}
    \/ \E m \in Answers(p, r, Creator(r)) : m.info = Creator(r)

Counts(p, r) ==
    LET s == search[p][r] IN
    /\ s.asked = 0 => s = NotSearched /\ Pending(p, r) = {}
    /\ s.asked # 0 => s.count + Cardinality(Pending(p, r)) = s.asked /\ Registered(r)
    /\ s.asked # 0 /\ s.info = None => OwnerAnswers(p, r)
    /\ s.info \in {None, Creator(r)}

SearchInv == \A p \in Pods, r \in Resources : Asks(p, r) /\ Counts(p, r)

\* Whose search failed had asked more or fewer pods than it counted on.
MissesMatch ==
    /\ \A t \in Threads : pc[t] = "searching" => search[Home[t]][Rsc(t)].asked # 0
    /\ \A t \in Threads, r \in Resources :
          <<t, r>> \in missed =>
              LET s == search[Home[t]][r] IN s.asked # 0 /\ s.asked # s.total

------------------------------------------------------------------------------
(* Creators, calls and messages *)

LEMMA CreatorIs ==
    ASSUME NEW r \in Resources
    PROVE  /\ Creator(r) \in Pods
           /\ \A t \in Threads : Creates(t, r) => Creator(r) = Home[t]
<1>1. PICK t \in Threads : Creates(t, r)
  BY DirectoryAssumption
<1>2. \A u \in Threads : Creates(u, r) => u = t
  BY <1>1, DirectoryAssumption
<1>3. (CHOOSE u \in Threads : Creates(u, r)) = t
  BY <1>1, <1>2
<1>4. Creator(r) = Home[t]
  BY <1>3 DEF Creator
<1> QED
  BY <1>1, <1>2, <1>4, DirectoryAssumption

LEMMA ProgramFacts ==
    ASSUME NEW t \in Threads
    PROVE  /\ Len(Program[t]) \in Nat /\ DOMAIN Program[t] = 1 .. Len(Program[t])
           /\ \A i \in DOMAIN Program[t] : Program[t][i] \in Calls
           /\ Home[t] \in Pods
<1>1. Program[t] \in Seq(Calls)
  BY DirectoryAssumption
<1> QED
  BY <1>1, DirectoryAssumption

LEMMA CallFacts ==
    ASSUME NEW t \in Threads, at[t] \in DOMAIN Program[t]
    PROVE  /\ Rsc(t) \in Resources
           /\ Program[t][at[t]] = [op |-> Op(t), rsc |-> Rsc(t)]
           /\ Op(t) = "allocate" => Home[t] = Creator(Rsc(t))
<1>1. Program[t][at[t]] \in Calls
  BY ProgramFacts
<1>2. Rsc(t) \in Resources /\ Program[t][at[t]] = [op |-> Op(t), rsc |-> Rsc(t)]
  BY <1>1 DEF Calls, Rsc, Op
<1>3. Op(t) = "allocate" => Creates(t, Rsc(t))
  BY <1>2 DEF Creates
<1> QED
  BY <1>2, <1>3, CreatorIs

LEMMA CallingFacts ==
    ASSUME NEW t \in Threads, NEW op, NEW r, Calling(t, op, r)
    PROVE  /\ at[t] \in DOMAIN Program[t] /\ pc[t] = "ready" /\ Home[t] \in up
           /\ Op(t) = op /\ Rsc(t) = r /\ r \in Resources
<1>1. /\ at[t] \in DOMAIN Program[t] /\ pc[t] = "ready" /\ Home[t] \in up
      /\ Program[t][at[t]] = [op |-> op, rsc |-> r]
  BY DEF Calling
<1>2. Op(t) = op /\ Rsc(t) = r
  BY <1>1 DEF Op, Rsc
<1> QED
  BY <1>1, <1>2, CallFacts

\* Whoever calls anything but the allocation or the replica of MetaDomain knows
\* that its resource is registered.
LEMMA CallerKnows ==
    ASSUME DirectoryInv, NEW t \in Threads, NEW op, NEW r, Calling(t, op, r),
           op \in {"reference", "search", "predecessor"} \/ (op = "replica" /\ r # Meta)
    PROVE  Registered(r)
<1>1. /\ at \in [Threads -> Nat \ {0}] /\ ReturnsMatch /\ Meta \in Resources
      /\ \A u \in Threads : at[u] <= Len(Program[u]) + 1
  BY DirectoryAssumption DEF DirectoryInv, TypeOK, PlacesMatch
<1>2. ASSUME NEW u \in Threads, NEW i \in Nat, i >= 1, i < at[u]
      PROVE  Registered(Program[u][i].rsc)
  <2>1. i \in DOMAIN Program[u]
    BY <1>1, <1>2, ProgramFacts
  <2> QED
    BY <1>1, <1>2, <2>1 DEF ReturnsMatch
<1>3. CASE r = Meta
  <2>1. Started(Home[t])
    BY <1>3 DEF Calling
  <2>2. PICK u \in Threads : at[u] > 1 /\ Program[u][1].rsc = Meta
    BY <2>1 DEF Started
  <2>3. 1 < at[u] /\ 1 \in Nat /\ 1 >= 1
    BY <1>1, <2>2
  <2> QED
    BY <1>2, <1>3, <2>2, <2>3
<1>4. CASE r # Meta
  <2>1. Allocated(r)
    BY <1>4 DEF Calling
  <2>2. PICK u \in Threads : \E i \in 1 .. at[u] - 1 : Program[u][i] = [op |-> "allocate", rsc |-> r]
    BY <2>1 DEF Allocated
  <2>3. PICK i \in 1 .. at[u] - 1 : Program[u][i] = [op |-> "allocate", rsc |-> r]
    BY <2>2
  <2>4. i \in Nat /\ i >= 1 /\ i < at[u] /\ Program[u][i].rsc = r
    BY <1>1, <2>3
  <2> QED
    BY <1>2, <2>4
<1> QED
  BY <1>3, <1>4

LEMMA DeliveredTypes ==
    ASSUME NEW box \in [Pods -> SUBSET Messages], NEW to, NEW m \in Messages
    PROVE  Delivered(box, to, m) \in [Pods -> SUBSET Messages]
BY DEF Delivered

LEMMA NoteTypes ==
    ASSUME NEW t \in Threads, at[t] \in DOMAIN Program[t], NEW type \in Kinds,
           NEW info \in Pods \cup {None}
    PROVE  Note(t, type, Home[t], info) \in Messages
BY CallFacts, ProgramFacts DEF Note, Messages

------------------------------------------------------------------------------
(* Types *)

LEMMA Types ==
    ASSUME TypeOK
    PROVE  /\ up \subseteq Pods /\ at \in [Threads -> Nat \ {0}] /\ pc \in [Threads -> Places]
           /\ group \in [Resources -> SUBSET Pods] /\ objs \in [Pods -> SUBSET Resources]
           /\ rscs \in [Pods -> SUBSET Resources] /\ preds \in [Pods -> SUBSET Resources]
           /\ requested \in [Pods -> SUBSET Resources] /\ cached \in [Pods -> SUBSET Resources]
           /\ inbox \in [Pods -> SUBSET Messages]
BY DEF TypeOK

LEMMA AddTypes ==
    ASSUME NEW table \in [Pods -> SUBSET Resources], NEW p, NEW r \in Resources
    PROVE  Add(table, p, r) \in [Pods -> SUBSET Resources]
BY DEF Add

\* A thread that makes a step is in its program.
LEMMA ProceedFacts ==
    ASSUME DirectoryInv, NEW t \in Threads, Proceed(t)
    PROVE  at[t] \in DOMAIN Program[t] /\ Rsc(t) \in Resources /\ Home[t] \in up /\ Home[t] \in Pods
<1>1. CASE pc[t] # "ready"
  BY <1>1, CallFacts, ProgramFacts DEF DirectoryInv, PlacesMatch
<1>2. CASE pc[t] = "ready"
  <2>1. \E op, r : Calling(t, op, r)
    BY <1>2 DEF Proceed, JoinContext, JoinOwnGroup, Register, Announce, StartFind, RequestReplica,
       HaveReplica, InsertAlias, GetPredecessorIdp, HavePredecessor, CountPods, StartSearch,
       RetrySearch, At
  <2> QED
    BY <2>1, CallingFacts, ProgramFacts
<1> QED
  BY <1>1, <1>2

\* What a step of a thread does to its place: it goes on in its call, or the call
\* returns.
Stays(t)   == at' = at /\ \E place \in Places \ {"ready"} : pc' = [pc EXCEPT ![t] = place]
Returns(t) == at' = [at EXCEPT ![t] = @ + 1] /\ pc' = [pc EXCEPT ![t] = "ready"]

LEMMA GotoStays ==
    ASSUME NEW t, NEW place \in Places \ {"ready"}, Goto(t, place) \/ Move(t, place)
    PROVE  Stays(t) /\ notified' = notified \ {t}
BY DEF Stays, Goto, Move

LEMMA ReturnReturns ==
    ASSUME NEW t, Return(t) \/ Done(t)
    PROVE  Returns(t) /\ notified' = notified \ {t}
BY DEF Returns, Return, Done

LEMMA ConcludeMoves ==
    ASSUME NEW t, NEW s, Conclude(t, s)
    PROVE  /\ notified' = notified \ {t} /\ (Stays(t) \/ Returns(t)) /\ total' = total
           /\ missed' \subseteq missed \cup {<<t, Rsc(t)>>}
<1>1. CASE s.count # s.total
  <2>1. Goto(t, "searching")
    BY <1>1 DEF Conclude
  <2>2. total' = total /\ missed' = missed
    BY <2>1 DEF Goto, Move
  <2>3. "searching" \in Places \ {"ready"}
    BY DEF Places, Waits
  <2> QED
    BY <2>1, <2>2, <2>3, GotoStays
<1>2. CASE s.count = s.total
  <2>1. /\ Return(t) /\ total' = total
        /\ missed' = IF s.info = None THEN missed \cup {<<t, Rsc(t)>>} ELSE missed
    BY <1>2 DEF Conclude
  <2> QED
    BY <2>1, ReturnReturns
<1> QED
  BY <1>1, <1>2

LEMMA ProceedMoves ==
    ASSUME NEW t \in Threads, Proceed(t)
    PROVE  /\ notified' = notified \ {t} /\ up' = up /\ npods' = npods
           /\ Stays(t) \/ Returns(t)
<1>1. CASE JoinContext(t)
  BY <1>1, GotoStays DEF JoinContext, Places
<1>2. CASE JoinOwnGroup(t)
  BY <1>2, GotoStays DEF JoinOwnGroup, Places
<1>3. CASE Register(t)
  BY <1>3, GotoStays, ReturnReturns DEF Register, Places
<1>4. CASE Announce(t)
  BY <1>4, ReturnReturns DEF Announce
<1>5. CASE StartFind(t)
  BY <1>5, GotoStays DEF StartFind, Places, Waits
<1>6. CASE RequestReplica(t)
  BY <1>6, GotoStays DEF RequestReplica, Places, Waits
<1>7. CASE HaveReplica(t)
  BY <1>7, GotoStays, ReturnReturns DEF HaveReplica, Places
<1>8. CASE InsertAlias(t)
  BY <1>8, ReturnReturns DEF InsertAlias
<1>9. CASE GetPredecessorIdp(t)
  BY <1>9, GotoStays, ReturnReturns DEF GetPredecessorIdp, Places, Waits
<1>10. CASE HavePredecessor(t)
  BY <1>10, ReturnReturns DEF HavePredecessor
<1>11. CASE CountPods(t)
  BY <1>11, GotoStays DEF CountPods, Places
<1>12. CASE StartSearch(t)
  <2>1. up' = up /\ npods' = npods /\ \E s : Conclude(t, s)
    BY <1>12 DEF StartSearch
  <2> QED
    BY <2>1, ConcludeMoves
<1>13. CASE RetrySearch(t)
  <2>1. up' = up /\ npods' = npods /\ \E s : Conclude(t, s)
    BY <1>13 DEF RetrySearch
  <2> QED
    BY <2>1, ConcludeMoves
<1> QED
  BY <1>1, <1>2, <1>3, <1>4, <1>5, <1>6, <1>7, <1>8, <1>9, <1>10, <1>11, <1>12, <1>13 DEF Proceed

LEMMA PlaceTypes ==
    ASSUME DirectoryInv, NEW t \in Threads, Stays(t) \/ Returns(t), notified' = notified \ {t}
    PROVE  /\ at' \in [Threads -> Nat \ {0}] /\ pc' \in [Threads -> Places]
           /\ notified' \in SUBSET Threads
<1>1. /\ at \in [Threads -> Nat \ {0}] /\ pc \in [Threads -> Places]
      /\ notified \in SUBSET Threads /\ "ready" \in Places
  BY DEF DirectoryInv, TypeOK, Places
<1>2. CASE Stays(t)
  BY <1>1, <1>2 DEF Stays
<1>3. CASE Returns(t)
  <2>1. at[t] + 1 \in Nat \ {0}
    BY <1>1
  <2> QED
    BY <1>1, <1>3, <2>1 DEF Returns
<1> QED
  BY <1>2, <1>3

LEMMA ProceedTotals ==
    ASSUME DirectoryInv, NEW t \in Threads, Proceed(t)
    PROVE  total' \in [Threads -> Nat] /\ missed' \in SUBSET (Threads \X Resources)
<1>1. /\ total \in [Threads -> Nat] /\ missed \in SUBSET (Threads \X Resources)
      /\ npods \in [Pods -> 0 .. Cardinality(Pods)] /\ Cardinality(Pods) \in Nat
  BY DirectoryAssumption, FS_CardinalityType DEF DirectoryInv, TypeOK
<1>2. Rsc(t) \in Resources /\ Home[t] \in Pods
  BY ProceedFacts
<1>3. CASE CountPods(t)
  <2>1. npods[Home[t]] \in Nat
    BY <1>1, <1>2
  <2> QED
    BY <1>1, <1>3, <2>1 DEF CountPods, Move
<1>4. ASSUME NEW s, Conclude(t, s)
      PROVE  total' \in [Threads -> Nat] /\ missed' \in SUBSET (Threads \X Resources)
  BY <1>1, <1>2, <1>4, ConcludeMoves
<1>5. CASE StartSearch(t) \/ RetrySearch(t)
  BY <1>4, <1>5 DEF StartSearch, RetrySearch
<1>6. CASE ~(CountPods(t) \/ StartSearch(t) \/ RetrySearch(t))
  BY <1>1, <1>6 DEF Proceed, JoinContext, JoinOwnGroup, Register, Announce, StartFind,
     RequestReplica, HaveReplica, InsertAlias, GetPredecessorIdp, HavePredecessor, Goto, Move, Done,
     calls
<1> QED
  BY <1>3, <1>5, <1>6

\* A step enters at most one resource in a table.
Enters(table, new, p, r) == new = table \/ new = Add(table, p, r)

LEMMA EntersTypes ==
    ASSUME NEW table \in [Pods -> SUBSET Resources], NEW new, NEW p, NEW r \in Resources,
           Enters(table, new, p, r)
    PROVE  /\ new \in [Pods -> SUBSET Resources]
           /\ \A q \in Pods : table[q] \subseteq new[q]
           /\ \A q \in Pods, x \in Resources : x \in new[q] => x \in table[q] \/ (q = p /\ x = r)
BY DEF Enters, Add

LEMMA ProceedTables ==
    ASSUME NEW t \in Threads, Proceed(t)
    PROVE  /\ Enters(objs, objs', Home[t], Rsc(t)) /\ Enters(rscs, rscs', Home[t], Rsc(t))
           /\ Enters(preds, preds', Home[t], Rsc(t))
           /\ Enters(requested, requested', Home[t], Rsc(t))
           /\ cached' = cached
           /\ group' = group \/ group' = [group EXCEPT ![Rsc(t)] = @ \cup {Home[t]}]
<1>1. CASE JoinOwnGroup(t)
  BY <1>1 DEF JoinOwnGroup, JoinGroup, Enters
<1>2. CASE Register(t)
  BY <1>2 DEF Register, Enters
<1>3. CASE RequestReplica(t)
  BY <1>3 DEF RequestReplica, JoinGroup, Enters
<1>4. CASE ~(JoinOwnGroup(t) \/ Register(t) \/ RequestReplica(t))
  BY <1>4 DEF Proceed, JoinContext, Announce, StartFind, HaveReplica, InsertAlias,
     GetPredecessorIdp, HavePredecessor, CountPods, StartSearch, RetrySearch, tables, Enters
<1> QED
  BY <1>1, <1>2, <1>3, <1>4

LEMMA HandleTables ==
    ASSUME NEW p \in Pods, Handle(p)
    PROVE  /\ group' = group /\ objs' = objs /\ preds' = preds /\ requested' = requested
           /\ \E m \in inbox[p] :
                 Enters(rscs, rscs', p, m.rsc) /\ Enters(cached, cached', p, m.rsc)
BY DEF Handle, HandleRequest, HandleFound, HandlePredecessor, HandleJoin, HandleCreateReplica,
   HandleSearch, HandleSearchReply, tables, Enters

LEMMA PostIs ==
    ASSUME TypeOK, NEW to, NEW n \in Messages, Post(to, n)
    PROVE  /\ inbox' \in [Pods -> SUBSET Messages]
           /\ \A q \in Pods : inbox'[q] = inbox[q] \cup (IF q \in to THEN {n} ELSE {})
<1>1. inbox' = Delivered(inbox, to, n) /\ inbox \in [Pods -> SUBSET Messages]
  BY Types DEF Post
<1>2. inbox' \in [Pods -> SUBSET Messages]
  BY <1>1, DeliveredTypes
<1>3. ASSUME NEW q \in Pods
      PROVE  inbox'[q] = inbox[q] \cup (IF q \in to THEN {n} ELSE {})
  <2>1. inbox'[q] = IF q \in to THEN inbox[q] \cup {n} ELSE inbox[q]
    BY <1>1 DEF Delivered
  <2> QED
    BY <2>1
<1> QED
  BY <1>2, <1>3

LEMMA DropIs ==
    ASSUME TypeOK, NEW p \in Pods, NEW m, Drop(p, m)
    PROVE  /\ inbox' \in [Pods -> SUBSET Messages]
           /\ \A q \in Pods : inbox'[q] = inbox[q] \ (IF q = p THEN {m} ELSE {})
BY Types DEF Drop

LEMMA ReplyIs ==
    ASSUME TypeOK, NEW p \in Pods, NEW m \in inbox[p], NEW type \in Kinds,
           NEW info \in Pods \cup {None}, Reply(p, m, type, info)
    PROVE  /\ inbox' \in [Pods -> SUBSET Messages]
           /\ \E n \in Messages :
                 /\ n.type = type /\ n.from = p /\ n.rsc = m.rsc /\ n.info = info
                 /\ \A q \in Pods : inbox'[q] = (inbox[q] \ (IF q = p THEN {m} ELSE {}))
                                                  \cup (IF q = m.from THEN {n} ELSE {})
<1>1. m \in Messages /\ inbox \in [Pods -> SUBSET Messages]
  BY Types
<1>2. PICK n : n = [m EXCEPT !.type = type, !.from = p, !.info = info]
  OBVIOUS
<1>3. n \in Messages /\ n.type = type /\ n.from = p /\ n.rsc = m.rsc /\ n.info = info
  BY <1>1, <1>2 DEF Messages
<1>4. PICK box : box = [inbox EXCEPT ![p] = @ \ {m}]
  OBVIOUS
<1>5. /\ box \in [Pods -> SUBSET Messages]
      /\ \A q \in Pods : box[q] = inbox[q] \ (IF q = p THEN {m} ELSE {})
  BY <1>1, <1>4
<1>6. inbox' = Delivered(box, {m.from}, n)
  BY <1>2, <1>4 DEF Reply
<1>7. inbox' \in [Pods -> SUBSET Messages]
  BY <1>3, <1>5, <1>6, DeliveredTypes
<1>8. ASSUME NEW q \in Pods
      PROVE  inbox'[q] = box[q] \cup (IF q = m.from THEN {n} ELSE {})
  <2>1. inbox'[q] = IF q \in {m.from} THEN box[q] \cup {n} ELSE box[q]
    BY <1>6 DEF Delivered
  <2> QED
    BY <2>1
<1> QED
  BY <1>3, <1>5, <1>7, <1>8

\* A thread sends at most one note, and only the types that its call sends.
Sends(t, types) ==
    \/ inbox' = inbox
    \/ \E type \in types : \E to : Post(to, Note(t, type, Home[t], None))

LEMMA ProceedSends ==
    ASSUME NEW t \in Threads, Proceed(t)
    PROVE  Sends(t, {"Join", "Allocation", "FindRequest", "PredRequest", "SearchRequest"})
<1>1. CASE JoinOwnGroup(t)
  BY <1>1 DEF JoinOwnGroup, JoinGroup, Sends
<1>2. CASE Announce(t)
  BY <1>2 DEF Announce, Sends
<1>3. CASE StartFind(t)
  BY <1>3 DEF StartFind, Sends
<1>4. CASE RequestReplica(t)
  BY <1>4 DEF RequestReplica, JoinGroup, Sends
<1>5. CASE GetPredecessorIdp(t)
  BY <1>5 DEF GetPredecessorIdp, Sends
<1>6. CASE StartSearch(t)
  BY <1>6 DEF StartSearch, Sends
<1>7. CASE ~(JoinOwnGroup(t) \/ Announce(t) \/ StartFind(t) \/ RequestReplica(t)
             \/ GetPredecessorIdp(t) \/ StartSearch(t))
  BY <1>7 DEF Proceed, JoinContext, Register, HaveReplica, InsertAlias, HavePredecessor,
     CountPods, RetrySearch, Sends
<1> QED
  BY <1>1, <1>2, <1>3, <1>4, <1>5, <1>6, <1>7

LEMMA ProceedInbox ==
    ASSUME DirectoryInv, NEW t \in Threads, Proceed(t)
    PROVE  inbox' \in [Pods -> SUBSET Messages]
<1>1. TypeOK /\ at[t] \in DOMAIN Program[t] /\ inbox \in [Pods -> SUBSET Messages]
  BY ProceedFacts, Types DEF DirectoryInv
<1>2. ASSUME NEW type \in Kinds, NEW to, Post(to, Note(t, type, Home[t], None))
      PROVE  inbox' \in [Pods -> SUBSET Messages]
  <2>1. Note(t, type, Home[t], None) \in Messages
    BY <1>1, NoteTypes
  <2> QED
    BY <1>1, <1>2, <2>1, PostIs
<1>3. {"Join", "Allocation", "FindRequest", "PredRequest", "SearchRequest"} \subseteq Kinds
  BY DEF Kinds
<1> QED
  BY <1>1, <1>2, <1>3, ProceedSends DEF Sends

Record == [asked : Nat, count : Nat, total : Nat, info : Pods \cup {None}]

\* A search starts only from nothing.
LEMMA SearchStarts ==
    ASSUME DirectoryInv, NEW t \in Threads, Proceed(t)
    PROVE  /\ search' \in [Pods -> [Resources -> Record]]
           /\ \/ search' = search
              \/ StartSearch(t) /\ search[Home[t]][Rsc(t)] = NotSearched
<1>1. /\ search \in [Pods -> [Resources -> Record]] /\ total[t] \in Nat /\ up \subseteq Pods
      /\ Home[t] \in Pods /\ Rsc(t) \in Resources
  BY ProceedFacts DEF DirectoryInv, TypeOK, Record
<1>2. Cardinality(up) \in Nat
  BY <1>1, DirectoryAssumption, FS_Subset, FS_CardinalityType
<1>3. CASE StartSearch(t) /\ search[Home[t]][Rsc(t)] = NotSearched
  <2>1. PICK new : new = [asked |-> Cardinality(up), count |-> 0, total |-> total[t], info |-> None]
    OBVIOUS
  <2>2. new \in Record
    BY <1>1, <1>2, <2>1 DEF Record
  <2>3. search' = [search EXCEPT ![Home[t]][Rsc(t)] = new]
    BY <1>3, <2>1 DEF StartSearch
  <2> QED
    BY <1>1, <1>3, <2>2, <2>3
<1>4. CASE ~(StartSearch(t) /\ search[Home[t]][Rsc(t)] = NotSearched)
  <2>1. search' = search
    BY <1>4 DEF Proceed, JoinContext, JoinOwnGroup, Register, Announce, StartFind, RequestReplica,
       HaveReplica, InsertAlias, GetPredecessorIdp, HavePredecessor, CountPods, StartSearch,
       RetrySearch
  <2> QED
    BY <1>1, <2>1
<1> QED
  BY <1>3, <1>4

\* What a handler does to the threads, to the messages and to the searches.
LEMMA HandleMoves ==
    ASSUME NEW p \in Pods, Handle(p)
    PROVE  /\ at' = at /\ pc' = pc /\ total' = total /\ missed' = missed
           /\ up' = up /\ npods' = npods
           /\ \/ notified' = notified
              \/ \E m \in inbox[p], place \in Waits :
                    /\ notified' = notified \cup WaitingAt(place, p, m.rsc)
                    /\ place = "finding" => m.type \in {"FindReply", "Allocation"}
<1>1. PICK m \in inbox[p] :
         \/ HandleRequest(p, m) \/ HandleFound(p, m) \/ HandlePredecessor(p, m)
         \/ HandleJoin(p, m) \/ HandleCreateReplica(p, m)
         \/ HandleSearch(p, m) \/ HandleSearchReply(p, m)
  BY DEF Handle
<1>2. up' = up /\ npods' = npods
  BY DEF Handle
<1>3. ASSUME NEW place \in Waits, Wake(place, p, m.rsc),
             place = "finding" => m.type \in {"FindReply", "Allocation"}
      PROVE  /\ at' = at /\ pc' = pc /\ total' = total /\ missed' = missed
             /\ \E n \in inbox[p], w \in Waits :
                   /\ notified' = notified \cup WaitingAt(w, p, n.rsc)
                   /\ w = "finding" => n.type \in {"FindReply", "Allocation"}
  BY <1>3 DEF Wake, NotifyAll
<1>4. ASSUME UNCHANGED calls
      PROVE  at' = at /\ pc' = pc /\ total' = total /\ missed' = missed /\ notified' = notified
  BY <1>4 DEF calls
<1>5. CASE HandleRequest(p, m) \/ HandleJoin(p, m) \/ HandleSearch(p, m)
  BY <1>2, <1>4, <1>5 DEF HandleRequest, HandleJoin, HandleSearch
<1>6. CASE HandleFound(p, m)
  BY <1>2, <1>3, <1>6 DEF HandleFound, Waits
<1>7. CASE HandlePredecessor(p, m)
  BY <1>2, <1>3, <1>7 DEF HandlePredecessor, Waits
<1>8. CASE HandleCreateReplica(p, m)
  BY <1>2, <1>3, <1>8 DEF HandleCreateReplica, Waits
<1>9. CASE HandleSearchReply(p, m)
  BY <1>2, <1>3, <1>4, <1>9 DEF HandleSearchReply, Waits
<1> QED
  BY <1>1, <1>5, <1>6, <1>7, <1>8, <1>9

\* The reply to a message, if there is one.
Answer(p, m, type, info) ==
    \/ m.type = "FindRequest" /\ type = "FindReply" /\ m.rsc \in preds[p]
    \/ m.type = "PredRequest" /\ type = "PredReply"
    \/ m.type = "Join" /\ type = "CreateReplica" /\ p = Creator(m.rsc)
    \/ /\ m.type = "SearchRequest" /\ type = "SearchReply"
       /\ info = IF m.rsc \in objs[p] /\ p = Creator(m.rsc) THEN p ELSE None

\* A message is taken from the inbox, and answered or not.
Takes(p, m) ==
    \/ Drop(p, m) /\ m.type # "SearchRequest" /\ (m.type = "Join" => p # Creator(m.rsc))
    \/ \E type \in Kinds, info \in Pods \cup {None} :
          Answer(p, m, type, info) /\ Reply(p, m, type, info)

LEMMA HandleTakes ==
    ASSUME NEW p \in Pods, Handle(p)
    PROVE  \E m \in inbox[p] :
              /\ Takes(p, m)
              /\ rscs' = rscs \/ (m.type = "CreateReplica" /\ rscs' = Add(rscs, p, m.rsc))
              /\ m.type = "CreateReplica" => rscs' = Add(rscs, p, m.rsc)
              /\ \/ m.type # "SearchReply" /\ search' = search
                 \/ /\ m.type = "SearchReply"
                    /\ search' = [search EXCEPT ![p][m.rsc] = Answered(search[p][m.rsc], m.info)]
<1>1. PICK m \in inbox[p] :
         \/ HandleRequest(p, m) \/ HandleFound(p, m) \/ HandlePredecessor(p, m)
         \/ HandleJoin(p, m) \/ HandleCreateReplica(p, m)
         \/ HandleSearch(p, m) \/ HandleSearchReply(p, m)
  BY DEF Handle
<1>2. CASE HandleRequest(p, m)
  BY <1>2 DEF HandleRequest, Takes, Answer, Kinds, tables
<1>3. CASE HandleFound(p, m)
  BY <1>3 DEF HandleFound, Takes, tables
<1>4. CASE HandlePredecessor(p, m)
  BY <1>4 DEF HandlePredecessor, Takes
<1>5. CASE HandleJoin(p, m)
  BY <1>5 DEF HandleJoin, Takes, Answer, Kinds, tables
<1>6. CASE HandleCreateReplica(p, m)
  BY <1>6 DEF HandleCreateReplica, Takes
<1>7. CASE HandleSearch(p, m)
  BY <1>7 DEF HandleSearch, Takes, Answer, Kinds, tables
<1>8. CASE HandleSearchReply(p, m)
  BY <1>8 DEF HandleSearchReply, Takes, tables
<1> QED
  BY <1>1, <1>2, <1>3, <1>4, <1>5, <1>6, <1>7, <1>8

LEMMA TakesTypes ==
    ASSUME TypeOK, NEW p \in Pods, NEW m \in inbox[p], Takes(p, m)
    PROVE  inbox' \in [Pods -> SUBSET Messages]
<1>1. CASE Drop(p, m)
  BY <1>1, DropIs
<1>2. CASE \E type \in Kinds, info \in Pods \cup {None} : Reply(p, m, type, info)
  BY <1>2, ReplyIs
<1> QED
  BY <1>1, <1>2 DEF Takes

LEMMA AnsweredTypes ==
    ASSUME NEW s \in Record, NEW info \in Pods \cup {None}
    PROVE  /\ Answered(s, info) \in Record
           /\ Answered(s, info).count = s.count + 1 /\ Answered(s, info).asked = s.asked
           /\ Answered(s, info).total = s.total
           /\ Answered(s, info).info = IF info = None THEN s.info ELSE info
<1>1. PICK i : i = IF info = None THEN s.info ELSE info
  OBVIOUS
<1>2. Answered(s, info) = [s EXCEPT !.count = @ + 1, !.info = i]
  BY <1>1 DEF Answered, Record
<1>3. i \in Pods \cup {None} /\ s.count + 1 \in Nat
  BY <1>1 DEF Record
<1>4. Answered(s, info) = [asked |-> s.asked, count |-> s.count + 1, total |-> s.total, info |-> i]
  BY <1>2 DEF Record
<1> QED
  BY <1>1, <1>3, <1>4 DEF Record

\* What a step of a pod does to the application's group.
LEMMA PodTypes ==
    ASSUME TypeOK, NEW p \in Pods, Start(p) \/ HandleInitialize(p)
    PROVE  up' \in SUBSET Pods /\ npods' \in [Pods -> 0 .. Cardinality(Pods)]
<1>1. /\ up \in SUBSET Pods /\ npods \in [Pods -> 0 .. Cardinality(Pods)]
      /\ IsFiniteSet(Pods) /\ Cardinality(Pods) \in Nat
  BY DirectoryAssumption, FS_CardinalityType DEF TypeOK
<1>2. \A S \in SUBSET Pods : Cardinality(S) \in 0 .. Cardinality(Pods)
  BY <1>1, FS_Subset, FS_CardinalityType
<1>3. CASE Start(p)
  <2>1. up' \in SUBSET Pods /\ npods' = [npods EXCEPT ![p] = Cardinality(up')]
    BY <1>1, <1>3 DEF Start
  <2> QED
    BY <1>1, <1>2, <2>1
<1>4. CASE HandleInitialize(p)
  <2>1. npods[p] + 1 \in 0 .. Cardinality(Pods)
    <3>1. npods[p] \in 0 .. Cardinality(Pods) /\ npods[p] < Cardinality(up)
      BY <1>1, <1>4 DEF HandleInitialize
    <3>2. Cardinality(up) \in 0 .. Cardinality(Pods)
      BY <1>1, <1>2
    <3> QED
      BY <1>1, <3>1, <3>2
  <2> QED
    BY <1>1, <1>4, <2>1 DEF HandleInitialize
<1> QED
  BY <1>3, <1>4

LEMMA TypeStep ==
    ASSUME DirectoryInv, [Next]_vars
    PROVE  TypeOK'
<1>1. /\ TypeOK /\ search \in [Pods -> [Resources -> Record]] /\ npods \in [Pods -> 0 .. Cardinality(Pods)]
      /\ total \in [Threads -> Nat] /\ notified \in SUBSET Threads
      /\ missed \in SUBSET (Threads \X Resources) /\ up \in SUBSET Pods
  BY DEF DirectoryInv, TypeOK, Record
<1>2. CASE \E t \in Threads : Proceed(t)
  <2>1. PICK t \in Threads : Proceed(t)
    BY <1>2
  <2>2. Rsc(t) \in Resources
    BY <2>1, ProceedFacts
  <2>3. /\ objs' \in [Pods -> SUBSET Resources] /\ rscs' \in [Pods -> SUBSET Resources]
        /\ preds' \in [Pods -> SUBSET Resources] /\ requested' \in [Pods -> SUBSET Resources]
        /\ cached' \in [Pods -> SUBSET Resources]
    BY <1>1, <2>1, <2>2, ProceedTables, EntersTypes, Types
  <2>4. group' \in [Resources -> SUBSET Pods]
    <3>1. group \in [Resources -> SUBSET Pods] /\ Home[t] \in Pods
      BY <1>1, <2>1, ProceedFacts, Types
    <3>2. group' = group \/ group' = [group EXCEPT ![Rsc(t)] = @ \cup {Home[t]}]
      BY <2>1, ProceedTables
    <3> QED
      BY <2>2, <3>1, <3>2
  <2>5. /\ at' \in [Threads -> Nat \ {0}] /\ pc' \in [Threads -> Places]
        /\ notified' \in SUBSET Threads /\ up' = up /\ npods' = npods
    BY <2>1, ProceedMoves, PlaceTypes
  <2>6. /\ total' \in [Threads -> Nat] /\ missed' \in SUBSET (Threads \X Resources)
        /\ inbox' \in [Pods -> SUBSET Messages] /\ search' \in [Pods -> [Resources -> Record]]
    BY <2>1, ProceedTotals, ProceedInbox, SearchStarts
  <2> QED
    BY <1>1, <2>3, <2>4, <2>5, <2>6 DEF TypeOK, Record
<1>3. CASE \E p \in Pods : Handle(p)
  <2>1. PICK p \in Pods : Handle(p)
    BY <1>3
  <2>2. PICK m \in inbox[p] :
           /\ Takes(p, m)
           /\ rscs' = rscs \/ (m.type = "CreateReplica" /\ rscs' = Add(rscs, p, m.rsc))
           /\ search' = search
                 \/ search' = [search EXCEPT ![p][m.rsc] = Answered(search[p][m.rsc], m.info)]
    BY <2>1, HandleTakes
  <2>3. m \in Messages /\ m.rsc \in Resources /\ m.info \in Pods \cup {None}
    BY <1>1, Types DEF Messages
  <2>4. search' \in [Pods -> [Resources -> Record]]
    <3>1. Answered(search[p][m.rsc], m.info) \in Record
      BY <1>1, <2>3, AnsweredTypes
    <3> QED
      BY <1>1, <2>2, <2>3, <3>1
  <2>5. /\ objs' \in [Pods -> SUBSET Resources] /\ preds' \in [Pods -> SUBSET Resources]
        /\ requested' \in [Pods -> SUBSET Resources] /\ group' \in [Resources -> SUBSET Pods]
    BY <1>1, <2>1, HandleTables, Types
  <2>6. rscs' \in [Pods -> SUBSET Resources]
    <3>1. rscs \in [Pods -> SUBSET Resources]
      BY <1>1, Types
    <3>2. Add(rscs, p, m.rsc) \in [Pods -> SUBSET Resources]
      BY <2>3, <3>1, AddTypes
    <3> QED
      BY <2>2, <3>1, <3>2
  <2>7. cached' \in [Pods -> SUBSET Resources]
    <3>1. PICK n \in inbox[p] : Enters(cached, cached', p, n.rsc)
      BY <2>1, HandleTables
    <3>2. n.rsc \in Resources
      BY <1>1, Types DEF Messages
    <3> QED
      BY <1>1, <3>1, <3>2, EntersTypes, Types
  <2>8. /\ at' \in [Threads -> Nat \ {0}] /\ pc' \in [Threads -> Places] /\ up' = up
        /\ npods' = npods /\ total' = total /\ missed' = missed
    BY <1>1, <2>1, HandleMoves, Types
  <2>9. notified' \in SUBSET Threads
    BY <1>1, <2>1, HandleMoves DEF WaitingAt
  <2>10. inbox' \in [Pods -> SUBSET Messages]
    BY <1>1, <2>2, TakesTypes
  <2> QED
    BY <1>1, <2>4, <2>5, <2>6, <2>7, <2>8, <2>9, <2>10 DEF TypeOK, Record
<1>4. CASE \E p \in Pods : Start(p) \/ HandleInitialize(p)
  <2>1. up' \in SUBSET Pods /\ npods' \in [Pods -> 0 .. Cardinality(Pods)]
    BY <1>1, <1>4, PodTypes
  <2>2. UNCHANGED <<calls, tables, search, inbox>>
    BY <1>4 DEF Start, HandleInitialize
  <2> QED
    BY <1>1, <2>1, <2>2 DEF TypeOK, calls, tables
<1>5. CASE UNCHANGED vars
  BY <1>1, <1>5 DEF TypeOK, vars, calls, tables
<1> QED
  BY <1>2, <1>3, <1>4, <1>5 DEF Next, Run

------------------------------------------------------------------------------
(* What grows *)

LEMMA Growth ==
    ASSUME DirectoryInv, [Next]_vars
    PROVE  /\ up \subseteq up'
           /\ \A p \in Pods : objs[p] \subseteq objs'[p] /\ preds[p] \subseteq preds'[p]
           /\ \A r \in Resources : Registered(r) => Registered(r)'
<1>1. TypeOK /\ objs \in [Pods -> SUBSET Resources] /\ preds \in [Pods -> SUBSET Resources]
  BY Types DEF DirectoryInv
<1>2. up \subseteq up' /\ \A p \in Pods : objs[p] \subseteq objs'[p] /\ preds[p] \subseteq preds'[p]
  <2>1. CASE \E t \in Threads : Proceed(t)
    <3>1. PICK t \in Threads : Proceed(t)
      BY <2>1
    <3>2. Rsc(t) \in Resources /\ up' = up
      BY <3>1, ProceedFacts, ProceedMoves
    <3>3. Enters(objs, objs', Home[t], Rsc(t)) /\ Enters(preds, preds', Home[t], Rsc(t))
      BY <3>1, ProceedTables
    <3> QED
      BY <1>1, <3>2, <3>3, EntersTypes
  <2>2. CASE \E p \in Pods : Handle(p)
    BY <2>2, HandleMoves, HandleTables
  <2>3. CASE \E p \in Pods : Start(p) \/ HandleInitialize(p)
    BY <2>3 DEF Start, HandleInitialize, tables
  <2>4. CASE UNCHANGED vars
    BY <2>4 DEF vars, tables
  <2> QED
    BY <2>1, <2>2, <2>3, <2>4 DEF Next, Run
<1> QED
  BY <1>2, CreatorIs DEF Registered

------------------------------------------------------------------------------
(* Threads *)

LEMMA GotoIs ==
    ASSUME TypeOK, NEW t \in Threads, NEW place, Goto(t, place) \/ Move(t, place)
    PROVE  pc'[t] = place /\ t \notin notified'
BY DEF TypeOK, Goto, Move

LEMMA ReturnIs ==
    ASSUME TypeOK, NEW t \in Threads, Return(t) \/ Done(t)
    PROVE  pc'[t] = "ready"
BY DEF TypeOK, Return, Done

LEMMA ConcludeIs ==
    ASSUME TypeOK, NEW t \in Threads, NEW s, Conclude(t, s)
    PROVE  pc'[t] \in {"searching", "ready"}
BY GotoIs, ReturnIs DEF Conclude

\* The resource of the call of t is registered after the step.
Told(t) == Rsc(t) \in preds'[Creator(Rsc(t))]

\* Where a step brings a thread, and what it knows there.
Arrives(t) ==
    \/ pc'[t] \in {"listed", "grouped"} /\ Op(t) = "allocate"
    \/ pc'[t] = "announcing" /\ Op(t) = "allocate" /\ Told(t)
    \/ pc'[t] = "finding" /\ t \notin notified'
    \/ /\ pc'[t] \in {"replicating", "referencing", "asking", "counted", "searching", "ready"}
       /\ Told(t)

LEMMA ProceedArrives ==
    ASSUME DirectoryInv, NEW t \in Threads, Proceed(t)
    PROVE  Arrives(t)
<1>1. /\ TypeOK /\ Rsc(t) \in Resources /\ at[t] \in DOMAIN Program[t]
      /\ preds \in [Pods -> SUBSET Resources] /\ Home[t] \in Pods
  BY ProceedFacts, Types DEF DirectoryInv
<1>2. [Next]_vars
  BY DEF Next, Run
<1>3. ASSUME Knows(t)
      PROVE  Told(t)
  <2>1. Registered(Rsc(t))
    BY <1>3 DEF DirectoryInv, PlacesMatch
  <2> QED
    BY <1>1, <1>2, <2>1, Growth, CreatorIs DEF Registered, Told
<1>4. ASSUME NEW op, NEW r, Calling(t, op, r), op \in {"search", "predecessor"}
      PROVE  Told(t)
  <2>1. Registered(Rsc(t))
    BY <1>4, CallerKnows, CallingFacts
  <2> QED
    BY <1>1, <1>2, <2>1, Growth, CreatorIs DEF Registered, Told
<1>5. CASE JoinContext(t)
  BY <1>1, <1>5, CallingFacts, GotoIs DEF JoinContext, Arrives
<1>6. CASE JoinOwnGroup(t)
  <2>1. Op(t) = "allocate"
    BY <1>6, CallingFacts DEF JoinOwnGroup, At, DirectoryInv, PlacesMatch
  <2> QED
    BY <1>1, <1>6, <2>1, GotoIs DEF JoinOwnGroup, Arrives
<1>7. CASE Register(t)
  <2>1. Op(t) = "allocate"
    BY <1>7 DEF Register, At, DirectoryInv, PlacesMatch
  <2>2. Home[t] = Creator(Rsc(t))
    BY <1>1, <2>1, CallFacts
  <2>3. Told(t)
    <3>1. preds' = Add(preds, Home[t], Rsc(t))
      BY <1>7 DEF Register
    <3> QED
      BY <1>1, <2>2, <3>1 DEF Add, Told
  <2> QED
    BY <1>1, <1>7, <2>1, <2>3, GotoIs, ReturnIs DEF Register, Arrives
<1>8. CASE Announce(t) \/ InsertAlias(t) \/ HavePredecessor(t)
  <2>1. Knows(t) /\ Done(t)
    BY <1>8 DEF Announce, InsertAlias, HavePredecessor, At, Knows
  <2> QED
    BY <1>1, <1>3, <2>1, ReturnIs DEF Arrives
<1>9. CASE StartFind(t)
  BY <1>1, <1>9, GotoIs DEF StartFind, Arrives
<1>10. CASE RequestReplica(t)
  <2>1. Knows(t) /\ Goto(t, "replicating")
    BY <1>10 DEF RequestReplica, At, Knows, Waits
  <2> QED
    BY <1>1, <1>3, <2>1, GotoIs DEF Arrives
<1>11. CASE HaveReplica(t)
  <2>1. Knows(t) /\ (Done(t) \/ Goto(t, "referencing"))
    BY <1>11 DEF HaveReplica, At, Knows
  <2> QED
    BY <1>1, <1>3, <2>1, GotoIs, ReturnIs DEF Arrives
<1>12. CASE GetPredecessorIdp(t)
  <2>1. Done(t) \/ Goto(t, "asking")
    BY <1>12 DEF GetPredecessorIdp
  <2>2. Told(t)
    BY <1>4, <1>12 DEF GetPredecessorIdp
  <2> QED
    BY <1>1, <2>1, <2>2, GotoIs, ReturnIs DEF Arrives
<1>13. CASE CountPods(t)
  <2>1. Told(t) /\ Move(t, "counted")
    BY <1>4, <1>13 DEF CountPods
  <2> QED
    BY <1>1, <2>1, GotoIs DEF Arrives
<1>14. CASE StartSearch(t) \/ RetrySearch(t)
  <2>1. Knows(t) /\ \E s : Conclude(t, s)
    BY <1>14 DEF StartSearch, RetrySearch, At, Knows
  <2>2. pc'[t] \in {"searching", "ready"}
    BY <1>1, <2>1, ConcludeIs
  <2> QED
    BY <1>3, <2>1, <2>2 DEF Arrives
<1> QED
  BY <1>5, <1>6, <1>7, <1>8, <1>9, <1>10, <1>11, <1>12, <1>13, <1>14 DEF Proceed

\* A call that stays where it was knows what it knew.
LEMMA PlaceKept ==
    ASSUME DirectoryInv, [Next]_vars, NEW u \in Threads, at'[u] = at[u], pc'[u] = pc[u],
           Knows(u)' => Knows(u) \/ Registered(Rsc(u))
    PROVE  /\ at'[u] <= Len(Program[u]) + 1
           /\ pc'[u] # "ready" => at'[u] \in DOMAIN Program[u] /\ Home[u] \in up'
           /\ pc'[u] \in {"listed", "grouped", "announcing"} => Op(u)' = "allocate"
           /\ Knows(u)' => Registered(Rsc(u))'
<1>1. /\ at[u] <= Len(Program[u]) + 1
      /\ pc[u] # "ready" => at[u] \in DOMAIN Program[u] /\ Home[u] \in up
      /\ pc[u] \in {"listed", "grouped", "announcing"} => Op(u) = "allocate"
      /\ Knows(u) => Registered(Rsc(u))
  BY DEF DirectoryInv, PlacesMatch
<1>2. Op(u)' = Op(u) /\ Rsc(u)' = Rsc(u)
  BY DEF Op, Rsc
<1>3. up \subseteq up'
  BY Growth
<1>4. ASSUME Knows(u)'
      PROVE  Registered(Rsc(u))'
  <2>1. Registered(Rsc(u))
    BY <1>1, <1>4
  <2>2. pc[u] # "ready"
    BY <1>4 DEF Knows
  <2>3. Rsc(u) \in Resources
    BY <1>1, <2>2, CallFacts
  <2>4. Rsc(u) \in preds'[Creator(Rsc(u))]
    BY <2>1, <2>3, Growth, CreatorIs DEF Registered
  <2> QED
    BY <1>2, <2>4 DEF Registered
<1> QED
  BY <1>1, <1>2, <1>3, <1>4

LEMMA PlacesStep ==
    ASSUME DirectoryInv, [Next]_vars
    PROVE  PlacesMatch'
<1>1. at \in [Threads -> Nat \ {0}] /\ pc \in [Threads -> Places]
  BY Types DEF DirectoryInv
<1>2. CASE \E t \in Threads : Proceed(t)
  <2>1. PICK t \in Threads : Proceed(t)
    BY <1>2
  <2>2. /\ notified' = notified \ {t} /\ up' = up /\ (Stays(t) \/ Returns(t)) /\ Arrives(t)
        /\ at[t] \in DOMAIN Program[t] /\ Home[t] \in up
    BY <2>1, ProceedMoves, ProceedArrives, ProceedFacts
  <2>3. ASSUME NEW u \in Threads, u # t
        PROVE  at'[u] = at[u] /\ pc'[u] = pc[u] /\ (Knows(u)' => Knows(u) \/ Registered(Rsc(u)))
    BY <1>1, <2>2, <2>3 DEF Stays, Returns, Knows
  <2>4. at[t] \in 1 .. Len(Program[t]) /\ Len(Program[t]) \in Nat
    BY <2>2, ProgramFacts
  <2>5. CASE Stays(t)
    <3>1. at' = at /\ pc'[t] # "ready"
      BY <1>1, <2>5 DEF Stays
    <3>2. Op(t)' = Op(t) /\ Rsc(t)' = Rsc(t)
      BY <3>1 DEF Op, Rsc
    <3>3. Knows(t)' => Told(t)
      BY <2>2 DEF Knows, Arrives
    <3>4. Knows(t)' => Registered(Rsc(t))'
      BY <3>2, <3>3 DEF Told, Registered
    <3>5. pc'[t] \in {"listed", "grouped", "announcing"} => Op(t)' = "allocate"
      BY <2>2, <3>2 DEF Arrives
    <3>6. at'[t] <= Len(Program[t]) + 1
      BY <2>4, <3>1
    <3> QED
      BY <2>2, <2>3, <3>1, <3>4, <3>5, <3>6, PlaceKept DEF PlacesMatch
  <2>6. CASE Returns(t)
    <3>1. at'[t] = at[t] + 1 /\ pc'[t] = "ready"
      BY <1>1, <2>6 DEF Returns
    <3>2. at'[t] <= Len(Program[t]) + 1
      BY <2>4, <3>1
    <3>3. ~Knows(t)'
      BY <3>1 DEF Knows
    <3> QED
      BY <2>3, <3>1, <3>2, <3>3, PlaceKept DEF PlacesMatch
  <2> QED
    BY <2>2, <2>5, <2>6
<1>3. CASE \E p \in Pods : Handle(p)
  <2>1. PICK p \in Pods : Handle(p)
    BY <1>3
  <2>2. at' = at /\ pc' = pc
    BY <2>1, HandleMoves
  <2>3. ASSUME NEW u \in Threads, Knows(u)', ~Knows(u)
        PROVE  Registered(Rsc(u))
    <3>1. pc[u] = "finding" /\ u \notin notified /\ u \in notified'
      BY <2>2, <2>3 DEF Knows
    <3>2. PICK m \in inbox[p], place \in Waits :
             /\ notified' = notified \cup WaitingAt(place, p, m.rsc)
             /\ place = "finding" => m.type \in {"FindReply", "Allocation"}
      BY <2>1, <3>1, HandleMoves
    <3>3. pc[u] = place /\ Rsc(u) = m.rsc
      BY <3>1, <3>2 DEF WaitingAt
    <3> QED
      BY <3>1, <3>2, <3>3 DEF DirectoryInv, MessagesMatch, Fits
  <2> QED
    BY <2>2, <2>3, PlaceKept DEF PlacesMatch
<1>4. CASE (\E p \in Pods : Start(p) \/ HandleInitialize(p)) \/ UNCHANGED vars
  <2>1. at' = at /\ pc' = pc /\ notified' = notified
    BY <1>4 DEF Start, HandleInitialize, calls, vars
  <2>2. \A u \in Threads : Knows(u)' => Knows(u)
    BY <2>1 DEF Knows
  <2> QED
    BY <2>1, <2>2, PlaceKept DEF PlacesMatch
<1> QED
  BY <1>2, <1>3, <1>4 DEF Next, Run

LEMMA ReturnsStep ==
    ASSUME DirectoryInv, [Next]_vars
    PROVE  ReturnsMatch'
<1>1. at \in [Threads -> Nat \ {0}] /\ pc \in [Threads -> Places]
  BY Types DEF DirectoryInv
<1>2. ASSUME NEW u \in Threads, NEW i \in DOMAIN Program[u], i < at[u]
      PROVE  Registered(Program[u][i].rsc)'
  <2>1. Program[u][i].rsc \in Resources
    BY ProgramFacts DEF Calls
  <2>2. PICK r \in Resources : r = Program[u][i].rsc
    BY <2>1
  <2>3. Registered(r)
    BY <1>2, <2>2 DEF DirectoryInv, ReturnsMatch
  <2>4. Registered(r)'
    BY <2>3, Growth
  <2> QED
    BY <2>2, <2>4
<1>3. CASE \E t \in Threads : Proceed(t) /\ Returns(t)
  <2>1. PICK t \in Threads : Proceed(t) /\ Returns(t)
    BY <1>3
  <2>2. at'[t] = at[t] + 1 /\ pc'[t] = "ready" /\ \A u \in Threads : u # t => at'[u] = at[u]
    BY <1>1, <2>1 DEF Returns
  <2>3. Told(t)
    BY <2>1, <2>2, ProceedArrives DEF Arrives
  <2>4. ASSUME NEW i \in DOMAIN Program[t], i < at'[t]
        PROVE  Registered(Program[t][i].rsc)'
    <3>1. i < at[t] \/ i = at[t]
      BY <1>1, <2>2, <2>4, ProgramFacts
    <3>2. ASSUME i = at[t]
          PROVE  Registered(Program[t][i].rsc)'
      <4>1. Program[t][i].rsc \in preds'[Creator(Program[t][i].rsc)]
        BY <2>3, <3>2 DEF Told, Rsc
      <4> QED
        BY <4>1 DEF Registered
    <3> QED
      BY <1>2, <3>1, <3>2
  <2> QED
    BY <1>2, <2>2, <2>4 DEF ReturnsMatch
<1>4. CASE ~(\E t \in Threads : Proceed(t) /\ Returns(t))
  <2>1. at' = at
    BY <1>4, ProceedMoves, HandleMoves DEF Next, Run, Stays, Start, HandleInitialize, calls, vars
  <2> QED
    BY <1>2, <2>1 DEF ReturnsMatch
<1> QED
  BY <1>3, <1>4

------------------------------------------------------------------------------
(* Tables and messages *)

LEMMA TablesStep ==
    ASSUME DirectoryInv, [Next]_vars
    PROVE  TablesMatch'
<1>1. /\ TypeOK /\ TablesMatch
      /\ group \in [Resources -> SUBSET Pods] /\ objs \in [Pods -> SUBSET Resources]
      /\ preds \in [Pods -> SUBSET Resources]
  BY Types DEF DirectoryInv
<1>2. ASSUME NEW t \in Threads, Proceed(t)
      PROVE  Home[t] \in Pods /\ Home[t] \in up /\ Rsc(t) \in Resources /\ up' = up
  BY <1>2, ProceedFacts, ProceedMoves
<1>3. ASSUME NEW t \in Threads, JoinOwnGroup(t)
      PROVE  TablesMatch'
  <2>1. Op(t) = "allocate"
    BY <1>3, CallingFacts DEF JoinOwnGroup, At, DirectoryInv, PlacesMatch
  <2>2. Proceed(t)
    BY <1>3 DEF Proceed
  <2>3. Home[t] = Creator(Rsc(t))
    BY <2>1, <2>2, ProceedFacts, CallFacts
  <2>4. /\ group' = [group EXCEPT ![Rsc(t)] = @ \cup {Home[t]}]
        /\ objs' = objs /\ preds' = preds
    BY <1>3 DEF JoinOwnGroup, JoinGroup
  <2> QED
    BY <1>1, <1>2, <2>2, <2>3, <2>4 DEF TablesMatch
<1>4. ASSUME NEW t \in Threads, Register(t)
      PROVE  TablesMatch'
  <2>1. Op(t) = "allocate" /\ Proceed(t)
    BY <1>4 DEF Register, At, DirectoryInv, PlacesMatch, Proceed
  <2>2. Home[t] = Creator(Rsc(t))
    BY <2>1, ProceedFacts, CallFacts
  <2>3. /\ group' = group
        /\ objs' = Add(objs, Home[t], Rsc(t)) /\ preds' = Add(preds, Home[t], Rsc(t))
    BY <1>4 DEF Register
  <2> QED
    BY <1>1, <1>2, <2>1, <2>2, <2>3 DEF TablesMatch, Add
<1>5. ASSUME NEW t \in Threads, RequestReplica(t)
      PROVE  TablesMatch'
  <2>1. /\ group' = group \/ group' = [group EXCEPT ![Rsc(t)] = @ \cup {Home[t]}]
        /\ objs' = Add(objs, Home[t], Rsc(t)) /\ preds' = preds
    BY <1>5 DEF RequestReplica, JoinGroup
  <2>2. Proceed(t)
    BY <1>5 DEF Proceed
  <2> QED
    BY <1>1, <1>2, <2>1, <2>2 DEF TablesMatch, Add
<1>6. ASSUME group' = group, objs' = objs, preds' = preds
      PROVE  TablesMatch'
  BY <1>1, <1>6, Growth DEF TablesMatch
<1>7. ASSUME NEW t \in Threads, Proceed(t), ~(JoinOwnGroup(t) \/ Register(t) \/ RequestReplica(t))
      PROVE  TablesMatch'
  BY <1>6, <1>7 DEF Proceed, JoinContext, Announce, StartFind, HaveReplica, InsertAlias,
     GetPredecessorIdp, HavePredecessor, CountPods, StartSearch, RetrySearch, tables
<1>8. ASSUME NEW p \in Pods, Handle(p)
      PROVE  TablesMatch'
  BY <1>6, <1>8, HandleTables
<1>9. CASE (\E p \in Pods : Start(p) \/ HandleInitialize(p)) \/ UNCHANGED vars
  BY <1>6, <1>9 DEF Start, HandleInitialize, vars, tables
<1> QED
  BY <1>3, <1>4, <1>5, <1>7, <1>8, <1>9 DEF Next, Run

LEMMA FitsKept ==
    ASSUME DirectoryInv, [Next]_vars, NEW q \in Pods, NEW m \in Messages, Fits(q, m)
    PROVE  Fits(q, m)'
<1>1. m.rsc \in Resources /\ m.from \in Pods
  BY DEF Messages
<1>2. Registered(m.rsc) => Registered(m.rsc)'
  <2>1. PICK r \in Resources : r = m.rsc
    BY <1>1
  <2>2. Registered(r) => Registered(r)'
    BY Growth
  <2> QED
    BY <2>1, <2>2
<1>3. \A p \in Pods : m.rsc \in objs[p] => m.rsc \in objs'[p]
  BY Growth
<1> QED
  BY <1>1, <1>2, <1>3 DEF Fits

LEMMA NoteIs ==
    ASSUME NEW t, NEW type, NEW from, NEW info
    PROVE  /\ Note(t, type, from, info).type = type /\ Note(t, type, from, info).rsc = Rsc(t)
           /\ Note(t, type, from, info).from = from /\ Note(t, type, from, info).info = info
           /\ Note(t, type, from, info).by = t
BY DEF Note

LEMMA PostFits ==
    ASSUME DirectoryInv, [Next]_vars, NEW to, NEW n \in Messages, Post(to, n),
           \A q \in Pods : q \in to => Fits(q, n)'
    PROVE  MessagesMatch'
<1>1. ASSUME NEW q \in Pods, NEW m \in inbox'[q]
      PROVE  Fits(q, m)'
  <2>1. m \in inbox[q] \/ (q \in to /\ m = n)
    BY <1>1, PostIs DEF DirectoryInv
  <2>2. ASSUME m \in inbox[q]
        PROVE  Fits(q, m)'
    BY <2>2, Types, FitsKept DEF DirectoryInv, MessagesMatch
  <2> QED
    BY <2>1, <2>2
<1> QED
  BY <1>1 DEF MessagesMatch

\* The members of the group of a resource have its consistency object when a
\* pod joins: the creator has it before anybody else hears of the resource.
LEMMA JoinFits ==
    ASSUME DirectoryInv, [Next]_vars, NEW t \in Threads, Proceed(t), JoinGroup(t, Home[t]),
           Home[t] = Creator(Rsc(t)) \/ (Registered(Rsc(t)) /\ Rsc(t) \in objs'[Home[t]])
    PROVE  MessagesMatch'
<1>1. /\ TypeOK /\ Home[t] \in Pods /\ Rsc(t) \in Resources /\ at[t] \in DOMAIN Program[t]
      /\ TablesMatch /\ inbox \in [Pods -> SUBSET Messages]
  BY ProceedFacts, Types DEF DirectoryInv
<1>2. CASE inbox' = inbox
  BY <1>1, <1>2, FitsKept DEF DirectoryInv, MessagesMatch
<1>3. CASE Post(group[Rsc(t)] \ {Home[t]}, Note(t, "Join", Home[t], None))
  <2>1. PICK n \in Messages : n = Note(t, "Join", Home[t], None)
    BY <1>1, NoteTypes DEF Kinds
  <2>2. n.type = "Join" /\ n.rsc = Rsc(t) /\ n.from = Home[t]
    BY <2>1, NoteIs
  <2>3. ASSUME NEW q \in Pods, q \in group[Rsc(t)] \ {Home[t]}
        PROVE  Fits(q, n)'
    <3>1. Rsc(t) \in objs[q]
      BY <1>1, <2>3 DEF TablesMatch, Registered
    <3>2. Rsc(t) \in objs'[q]
      BY <3>1, Growth
    <3> QED
      BY <2>2, <2>3, <3>2 DEF Fits
  <2> QED
    BY <1>3, <2>1, <2>3, PostFits
<1> QED
  BY <1>2, <1>3 DEF JoinGroup

LEMMA MessagesStep ==
    ASSUME DirectoryInv, [Next]_vars
    PROVE  MessagesMatch'
<1>1. /\ TypeOK /\ TablesMatch /\ MessagesMatch /\ inbox \in [Pods -> SUBSET Messages]
      /\ preds \in [Pods -> SUBSET Resources] /\ objs \in [Pods -> SUBSET Resources]
  BY Types DEF DirectoryInv
<1>2. ASSUME NEW q \in Pods, NEW m \in inbox[q]
      PROVE  Fits(q, m)'
  BY <1>1, <1>2, FitsKept DEF MessagesMatch
<1>3. CASE inbox' = inbox
  BY <1>2, <1>3 DEF MessagesMatch
<1>4. ASSUME NEW t \in Threads, JoinOwnGroup(t)
      PROVE  MessagesMatch'
  <2>1. Op(t) = "allocate"
    BY <1>4, CallingFacts DEF JoinOwnGroup, At, DirectoryInv, PlacesMatch
  <2>2. Proceed(t) /\ JoinGroup(t, Home[t])
    BY <1>4 DEF Proceed, JoinOwnGroup
  <2>3. Home[t] = Creator(Rsc(t))
    BY <2>1, <2>2, ProceedFacts, CallFacts
  <2> QED
    BY <2>2, <2>3, JoinFits
<1>5. ASSUME NEW t \in Threads, RequestReplica(t)
      PROVE  MessagesMatch'
  <2>1. Proceed(t) /\ Knows(t)
    BY <1>5 DEF Proceed, RequestReplica, At, Knows, Waits
  <2>2. Registered(Rsc(t)) /\ Home[t] \in Pods /\ Rsc(t) \in Resources
    BY <2>1, ProceedFacts DEF DirectoryInv, PlacesMatch
  <2>3. Rsc(t) \in objs'[Home[t]]
    BY <1>1, <1>5, <2>2 DEF RequestReplica, Add
  <2>4. inbox' = inbox \/ JoinGroup(t, Home[t])
    BY <1>5 DEF RequestReplica
  <2> QED
    BY <1>3, <2>1, <2>2, <2>3, <2>4, JoinFits
<1>6. ASSUME NEW t \in Threads, Announce(t)
      PROVE  MessagesMatch'
  <2>1. Proceed(t) /\ Knows(t)
    BY <1>6 DEF Proceed, Announce, At, Knows
  <2>2. Registered(Rsc(t)) /\ Rsc(t) \in Resources /\ at[t] \in DOMAIN Program[t]
    BY <2>1, ProceedFacts DEF DirectoryInv, PlacesMatch
  <2>3. PICK n \in Messages : n = Note(t, "Allocation", Home[t], None)
    BY <2>2, NoteTypes DEF Kinds
  <2>4. n.type = "Allocation" /\ n.rsc = Rsc(t)
    BY <2>3, NoteIs
  <2>5. \A q \in Pods : Fits(q, n)
    BY <2>2, <2>4 DEF Fits
  <2>6. \A q \in Pods : Fits(q, n)'
    BY <2>5, FitsKept
  <2>7. Post(up \ {Home[t]}, n)
    BY <1>6, <2>3 DEF Announce
  <2> QED
    BY <2>6, <2>7, PostFits
<1>7. ASSUME NEW t \in Threads, Proceed(t), NEW type \in {"FindRequest", "PredRequest", "SearchRequest"},
             NEW to, Post(to, Note(t, type, Home[t], None))
      PROVE  MessagesMatch'
  <2>1. PICK n \in Messages : n = Note(t, type, Home[t], None)
    BY <1>7, ProceedFacts, NoteTypes DEF Kinds
  <2>2. n.type = type
    BY <2>1, NoteIs
  <2>3. \A q \in Pods : Fits(q, n)'
    BY <2>2 DEF Fits
  <2> QED
    BY <1>7, <2>1, <2>3, PostFits
<1>8. ASSUME NEW t \in Threads, Proceed(t), ~(JoinOwnGroup(t) \/ RequestReplica(t) \/ Announce(t))
      PROVE  MessagesMatch'
  <2>1. Sends(t, {"FindRequest", "PredRequest", "SearchRequest"})
    BY <1>8 DEF Proceed, JoinContext, Register, StartFind, HaveReplica, InsertAlias,
       GetPredecessorIdp, HavePredecessor, CountPods, StartSearch, RetrySearch, Sends
  <2> QED
    BY <1>3, <1>7, <1>8, <2>1 DEF Sends
<1>9. ASSUME NEW p \in Pods, Handle(p)
      PROVE  MessagesMatch'
  <2>1. PICK m \in inbox[p] : Takes(p, m)
    BY <1>9, HandleTakes
  <2>2. Fits(p, m) /\ m \in Messages /\ m.rsc \in Resources /\ m.from \in Pods
    BY <1>1 DEF MessagesMatch, Messages
  <2>3. CASE Drop(p, m)
    <3>1. \A q \in Pods : inbox'[q] \subseteq inbox[q]
      BY <1>1, <2>3, DropIs
    <3> QED
      BY <1>2, <3>1 DEF MessagesMatch
  <2>4. CASE \E type \in Kinds, info \in Pods \cup {None} :
                Answer(p, m, type, info) /\ Reply(p, m, type, info)
    <3>1. PICK type \in Kinds, info \in Pods \cup {None} :
             Answer(p, m, type, info) /\ Reply(p, m, type, info)
      BY <2>4
    <3>2. PICK n \in Messages :
             /\ n.type = type /\ n.from = p /\ n.rsc = m.rsc /\ n.info = info
             /\ \A q \in Pods : inbox'[q] = (inbox[q] \ (IF q = p THEN {m} ELSE {}))
                                              \cup (IF q = m.from THEN {n} ELSE {})
      BY <1>1, <3>1, ReplyIs
    <3>3. Fits(m.from, n)
      <4>1. CASE m.type = "FindRequest" /\ type = "FindReply" /\ m.rsc \in preds[p]
        BY <1>1, <2>2, <3>2, <4>1 DEF Fits, TablesMatch, Registered
      <4>2. CASE m.type = "PredRequest" /\ type = "PredReply"
        BY <3>2, <4>2 DEF Fits
      <4>3. CASE m.type = "Join" /\ type = "CreateReplica" /\ p = Creator(m.rsc)
        BY <2>2, <3>2, <4>3 DEF Fits
      <4>4. CASE /\ m.type = "SearchRequest" /\ type = "SearchReply"
                 /\ info = IF m.rsc \in objs[p] /\ p = Creator(m.rsc) THEN p ELSE None
        BY <3>2, <4>4 DEF Fits
      <4> QED
        BY <3>1, <4>1, <4>2, <4>3, <4>4 DEF Answer
    <3>4. Fits(m.from, n)'
      BY <2>2, <3>3, FitsKept
    <3>5. ASSUME NEW q \in Pods, NEW x \in inbox'[q]
          PROVE  Fits(q, x)'
      <4>1. x \in inbox[q] \/ (q = m.from /\ x = n)
        BY <3>2
      <4> QED
        BY <1>2, <3>4, <4>1
    <3> QED
      BY <3>5 DEF MessagesMatch
  <2> QED
    BY <2>1, <2>3, <2>4 DEF Takes
<1>10. CASE (\E p \in Pods : Start(p) \/ HandleInitialize(p)) \/ UNCHANGED vars
  BY <1>3, <1>10 DEF Start, HandleInitialize, vars
<1> QED
  BY <1>4, <1>5, <1>6, <1>8, <1>9, <1>10 DEF Next, Run

------------------------------------------------------------------------------
LEMMA DirectoryInit == Init => DirectoryInv
<1> SUFFICES ASSUME Init PROVE DirectoryInv
  OBVIOUS
<1>1. Cardinality(Pods) \in Nat
  BY DirectoryAssumption, FS_CardinalityType
<1>2. TypeOK
  BY <1>1 DEF Init, TypeOK, Places, NotSearched
<1>3. PlacesMatch
  BY ProgramFacts DEF Init, PlacesMatch, Knows
<1>4. ReturnsMatch
  BY ProgramFacts DEF Init, ReturnsMatch
<1>5. TablesMatch /\ MessagesMatch
  BY DEF Init, TablesMatch, MessagesMatch
<1> QED
  BY <1>2, <1>3, <1>4, <1>5 DEF DirectoryInv

LEMMA DirectoryStep == DirectoryInv /\ [Next]_vars => DirectoryInv'
BY TypeStep, PlacesStep, ReturnsStep, TablesStep, MessagesStep DEF DirectoryInv

LEMMA DirectoryHolds == Spec => []DirectoryInv
BY DirectoryInit, DirectoryStep, PTL DEF Spec

\* The parts of the state have their types.
THEOREM TypeCorrect == Spec => []TypeOK
<1>1. DirectoryInv => TypeOK
  BY DEF DirectoryInv
<1> QED
  BY <1>1, DirectoryHolds, PTL

\* A message for a consistency object finds it (GetConsistencyObject does not
\* throw in a handler), whatever the order in which pods allocate, find and join.
THEOREM ObjectsAlwaysExist == Spec => []ObjectsExist
<1>1. DirectoryInv => ObjectsExist
  BY DEF DirectoryInv, MessagesMatch, Fits, ObjectsExist
<1> QED
  BY <1>1, DirectoryHolds, PTL

------------------------------------------------------------------------------
(* Replicas *)

LEMMA CopyKept ==
    ASSUME NEW p \in Pods, NEW r \in Resources, OneCopy(p, r),
           Joins(p, r)' \subseteq Joins(p, r), Copies(p, r)' \subseteq Copies(p, r),
           r \in rscs'[p] <=> r \in rscs[p], r \in requested[p] => r \in requested'[p]
    PROVE  OneCopy(p, r)'
BY DEF OneCopy, AtMostOne

LEMMA PostKeeps ==
    ASSUME TypeOK, NEW p \in Pods, NEW r \in Resources, NEW to, NEW n \in Messages, Post(to, n)
    PROVE  /\ n.type # "CreateReplica" => Copies(p, r)' \subseteq Copies(p, r)
           /\ n.type # "Join" \/ n.rsc # r \/ n.from # p => Joins(p, r)' \subseteq Joins(p, r)
           /\ Joins(p, r)' \subseteq Joins(p, r) \cup {n}
<1>1. \A q \in Pods : inbox'[q] \subseteq inbox[q] \cup {n}
  BY PostIs
<1>2. Creator(r) \in Pods
  BY CreatorIs
<1> QED
  BY <1>1, <1>2 DEF Copies, Joins

LEMMA NoteKeeps ==
    ASSUME TypeOK, NEW t \in Threads, at[t] \in DOMAIN Program[t], NEW p \in Pods, NEW r \in Resources,
           NEW types, types \subseteq Kinds, Sends(t, types), "CreateReplica" \notin types
    PROVE  /\ Copies(p, r)' \subseteq Copies(p, r)
           /\ "Join" \notin types \/ Rsc(t) # r \/ Home[t] # p => Joins(p, r)' \subseteq Joins(p, r)
           /\ Joins(p, r)' \subseteq Joins(p, r) \cup {Note(t, "Join", Home[t], None)}
<1>1. CASE inbox' = inbox
  BY <1>1 DEF Copies, Joins
<1>2. ASSUME NEW type \in types, NEW to, Post(to, Note(t, type, Home[t], None))
      PROVE  /\ Copies(p, r)' \subseteq Copies(p, r)
             /\ "Join" \notin types \/ Rsc(t) # r \/ Home[t] # p => Joins(p, r)' \subseteq Joins(p, r)
             /\ Joins(p, r)' \subseteq Joins(p, r) \cup {Note(t, "Join", Home[t], None)}
  <2>1. PICK n \in Messages : n = Note(t, type, Home[t], None)
    BY <1>2, NoteTypes
  <2>2. n.type = type /\ n.rsc = Rsc(t) /\ n.from = Home[t]
    BY <2>1, NoteIs
  <2>3. Post(to, n)
    BY <1>2, <2>1
  <2>4. /\ n.type # "CreateReplica" => Copies(p, r)' \subseteq Copies(p, r)
        /\ n.type # "Join" \/ n.rsc # r \/ n.from # p => Joins(p, r)' \subseteq Joins(p, r)
        /\ Joins(p, r)' \subseteq Joins(p, r) \cup {n}
    BY <2>3, PostKeeps
  <2> QED
    BY <1>2, <2>1, <2>2, <2>4
<1> QED
  BY <1>1, <1>2 DEF Sends

LEMMA ProceedReplicas ==
    ASSUME DirectoryInv, ReplicaInv, NEW t \in Threads, Proceed(t),
           NEW p \in Pods, NEW r \in Resources, p # Creator(r)
    PROVE  OneCopy(p, r)'
<1>1. /\ TypeOK /\ at[t] \in DOMAIN Program[t] /\ Home[t] \in Pods /\ Rsc(t) \in Resources
      /\ rscs \in [Pods -> SUBSET Resources] /\ requested \in [Pods -> SUBSET Resources]
      /\ OneCopy(p, r)
  BY ProceedFacts, Types DEF DirectoryInv, ReplicaInv
<1> DEFINE Types5 == {"Join", "Allocation", "FindRequest", "PredRequest", "SearchRequest"}
<1>2. Sends(t, Types5) /\ Types5 \subseteq Kinds /\ "CreateReplica" \notin Types5
  BY ProceedSends DEF Kinds
<1>3. /\ Copies(p, r)' \subseteq Copies(p, r)
      /\ Rsc(t) # r \/ Home[t] # p => Joins(p, r)' \subseteq Joins(p, r)
      /\ Joins(p, r)' \subseteq Joins(p, r) \cup {Note(t, "Join", Home[t], None)}
  BY <1>1, <1>2, NoteKeeps
<1>4. requested[p] \subseteq requested'[p]
  BY <1>1, ProceedTables, EntersTypes
<1>5. CASE JoinOwnGroup(t) \/ Register(t)
  <2>1. Op(t) = "allocate"
    BY <1>5, CallingFacts DEF JoinOwnGroup, Register, At, DirectoryInv, PlacesMatch
  <2>2. Home[t] # p \/ Rsc(t) # r
    BY <1>1, <2>1, CallFacts
  <2>3. r \in rscs'[p] <=> r \in rscs[p]
    BY <1>1, <1>5, <2>2 DEF JoinOwnGroup, Register, Add
  <2> QED
    BY <1>1, <1>3, <1>4, <2>2, <2>3, CopyKept
<1>6. CASE RequestReplica(t)
  <2>1. rscs' = rscs /\ requested' = Add(requested, Home[t], Rsc(t))
    BY <1>6 DEF RequestReplica
  <2>2. CASE Rsc(t) # r \/ Home[t] # p
    BY <1>1, <1>3, <1>4, <2>1, <2>2, CopyKept
  <2>3. CASE Rsc(t) = r /\ Home[t] = p /\ r \in requested[p]
    <3>1. inbox' = inbox
      BY <1>6, <2>3 DEF RequestReplica
    <3>2. Joins(p, r)' = Joins(p, r)
      BY <3>1 DEF Joins
    <3> QED
      BY <1>1, <1>3, <1>4, <2>1, <3>2, CopyKept
  <2>4. CASE Rsc(t) = r /\ Home[t] = p /\ r \notin requested[p]
    <3>1. r \notin rscs[p] /\ Joins(p, r) = {} /\ Copies(p, r) = {}
      BY <1>1, <2>4 DEF OneCopy
    <3>2. /\ r \in requested'[p] /\ r \notin rscs'[p] /\ Copies(p, r)' = {}
          /\ Joins(p, r)' \subseteq {Note(t, "Join", Home[t], None)}
      BY <1>1, <1>3, <2>1, <2>4, <3>1 DEF Add
    <3> QED
      BY <3>2 DEF OneCopy, AtMostOne
  <2> QED
    BY <2>2, <2>3, <2>4
<1>7. CASE ~(JoinOwnGroup(t) \/ Register(t) \/ RequestReplica(t))
  <2>1. rscs' = rscs /\ Sends(t, {"Allocation", "FindRequest", "PredRequest", "SearchRequest"})
    BY <1>7 DEF Proceed, JoinContext, Announce, StartFind, HaveReplica, InsertAlias,
       GetPredecessorIdp, HavePredecessor, CountPods, StartSearch, RetrySearch, Sends, tables
  <2>2. Joins(p, r)' \subseteq Joins(p, r)
    BY <1>1, <2>1, NoteKeeps DEF Kinds
  <2> QED
    BY <1>1, <1>3, <1>4, <2>1, <2>2, CopyKept
<1> QED
  BY <1>5, <1>6, <1>7

LEMMA HandleReplicas ==
    ASSUME DirectoryInv, ReplicaInv, NEW h \in Pods, Handle(h),
           NEW p \in Pods, NEW r \in Resources, p # Creator(r)
    PROVE  OneCopy(p, r)'
<1>1. /\ TypeOK /\ inbox \in [Pods -> SUBSET Messages] /\ rscs \in [Pods -> SUBSET Resources]
      /\ OneCopy(p, r) /\ Creator(r) \in Pods
  BY Types, CreatorIs DEF DirectoryInv, ReplicaInv
<1>2. PICK m \in inbox[h] :
         /\ Takes(h, m)
         /\ rscs' = rscs \/ (m.type = "CreateReplica" /\ rscs' = Add(rscs, h, m.rsc))
         /\ m.type = "CreateReplica" => rscs' = Add(rscs, h, m.rsc)
  BY HandleTakes
<1>3. requested' = requested
  BY HandleTables
<1>4. m \in Messages /\ m.rsc \in Resources
  BY <1>1 DEF Messages
<1>5. CASE Drop(h, m) /\ m.type # "SearchRequest" /\ (m.type = "Join" => h # Creator(m.rsc))
  <2>1. \A q \in Pods : inbox'[q] = inbox[q] \ (IF q = h THEN {m} ELSE {})
    BY <1>1, <1>5, DropIs
  <2>2. Joins(p, r)' \subseteq Joins(p, r) /\ Copies(p, r)' \subseteq Copies(p, r)
    BY <1>1, <2>1 DEF Joins, Copies
  <2>3. CASE m.type = "CreateReplica" /\ h = p /\ m.rsc = r
    <3>1. m \in Copies(p, r)
      BY <2>3 DEF Copies
    <3>2. Joins(p, r) = {} /\ \A x \in Copies(p, r) : x = m
      BY <1>1, <3>1 DEF OneCopy, AtMostOne
    <3>3. Copies(p, r)' = {}
      <4>1. m \notin Copies(p, r)'
        BY <2>1, <2>3 DEF Copies
      <4> QED
        BY <2>2, <3>2, <4>1
    <3>4. Joins(p, r)' = {}
      BY <2>2, <3>2
    <3>5. r \in requested'[p]
      BY <1>1, <1>3, <3>1 DEF OneCopy
    <3> QED
      BY <3>3, <3>4, <3>5 DEF OneCopy, AtMostOne
  <2>4. CASE ~(m.type = "CreateReplica" /\ h = p /\ m.rsc = r)
    <3>1. r \in rscs'[p] <=> r \in rscs[p]
      BY <1>1, <1>2, <2>4 DEF Add
    <3> QED
      BY <1>1, <1>3, <2>2, <3>1, CopyKept
  <2> QED
    BY <2>3, <2>4
<1>6. CASE \E type \in Kinds, info \in Pods \cup {None} :
              Answer(h, m, type, info) /\ Reply(h, m, type, info)
  <2>1. PICK type \in Kinds, info \in Pods \cup {None} :
           Answer(h, m, type, info) /\ Reply(h, m, type, info)
    BY <1>6
  <2>2. PICK n \in Messages :
           /\ n.type = type /\ n.from = h /\ n.rsc = m.rsc /\ n.info = info
           /\ \A q \in Pods : inbox'[q] = (inbox[q] \ (IF q = h THEN {m} ELSE {}))
                                            \cup (IF q = m.from THEN {n} ELSE {})
    BY <1>1, <2>1, ReplyIs
  <2>3. rscs' = rscs /\ type # "Join" /\ m.type # "CreateReplica"
    BY <1>2, <2>1 DEF Answer
  <2>4. Joins(p, r)' \subseteq Joins(p, r)
    BY <1>1, <2>2, <2>3 DEF Joins
  <2>5. CASE m.type = "Join" /\ m.from = p /\ m.rsc = r
    <3>1. h = Creator(r)
      BY <2>1, <2>5 DEF Answer
    <3>2. m \in Joins(p, r)
      BY <2>5, <3>1 DEF Joins
    <3>3. /\ Copies(p, r) = {} /\ r \notin rscs[p] /\ r \in requested[p]
          /\ \A x \in Joins(p, r) : x = m
      BY <1>1, <3>2 DEF OneCopy, AtMostOne
    <3>4. m \notin Joins(p, r)'
      BY <1>1, <2>2, <2>3, <3>1 DEF Joins
    <3>5. Joins(p, r)' = {}
      BY <2>4, <3>3, <3>4
    <3>6. Copies(p, r)' \subseteq {n}
      BY <2>2, <3>3 DEF Copies
    <3> QED
      BY <1>3, <2>3, <3>3, <3>5, <3>6 DEF OneCopy, AtMostOne
  <2>6. CASE ~(m.type = "Join" /\ m.from = p /\ m.rsc = r)
    <3>1. type = "CreateReplica" => m.type = "Join"
      BY <2>1 DEF Answer
    <3>2. Copies(p, r)' \subseteq Copies(p, r)
      BY <2>2, <2>6, <3>1 DEF Copies
    <3> QED
      BY <1>1, <1>3, <2>3, <2>4, <3>2, CopyKept
  <2> QED
    BY <2>5, <2>6
<1> QED
  BY <1>2, <1>5, <1>6 DEF Takes

LEMMA ReplicaStep ==
    ASSUME DirectoryInv, ReplicaInv, [Next]_vars
    PROVE  ReplicaInv'
<1>1. ASSUME NEW p \in Pods, NEW r \in Resources, p # Creator(r)
      PROVE  OneCopy(p, r)'
  <2>1. CASE \E t \in Threads : Proceed(t)
    BY <1>1, <2>1, ProceedReplicas
  <2>2. CASE \E h \in Pods : Handle(h)
    BY <1>1, <2>2, HandleReplicas
  <2>3. CASE (\E h \in Pods : Start(h) \/ HandleInitialize(h)) \/ UNCHANGED vars
    <3>1. inbox' = inbox /\ rscs' = rscs /\ requested' = requested
      BY <2>3 DEF Start, HandleInitialize, vars, tables
    <3>2. OneCopy(p, r)
      BY <1>1 DEF ReplicaInv
    <3>3. Joins(p, r)' = Joins(p, r) /\ Copies(p, r)' = Copies(p, r)
      BY <3>1 DEF Joins, Copies
    <3> QED
      BY <3>1, <3>2, <3>3, CopyKept
  <2> QED
    BY <2>1, <2>2, <2>3 DEF Next, Run
<1> QED
  BY <1>1 DEF ReplicaInv

LEMMA AtMostOneCounts ==
    ASSUME NEW S, AtMostOne(S)
    PROVE  Cardinality(S) \in {0, 1} /\ (Cardinality(S) = 0 <=> S = {})
<1>1. CASE S = {}
  BY <1>1, FS_EmptySet
<1>2. CASE S # {}
  <2>1. PICK x \in S : TRUE
    BY <1>2
  <2>2. S = {x}
    BY <2>1 DEF AtMostOne
  <2>3. Cardinality(S) = 1
    BY <2>2, FS_Singleton
  <2> QED
    BY <1>2, <2>3
<1> QED
  BY <1>1, <1>2

LEMMA ReplicaInit == Init => ReplicaInv
BY CreatorIs DEF Init, ReplicaInv, OneCopy, Joins, Copies, AtMostOne

LEMMA ReplicaHolds == Spec => []ReplicaInv
<1>1. DirectoryInv /\ ReplicaInv /\ [Next]_vars => ReplicaInv'
  BY ReplicaStep
<1> QED
  BY <1>1, ReplicaInit, DirectoryHolds, PTL DEF Spec

\* A pod gets one replica of a resource, however many of its threads create it
\* and refer to it, and is never sent a second one (CreateReplica).
THEOREM OneReplica == Spec => []OneReplicaEach
<1>1. ASSUME ReplicaInv
      PROVE  OneReplicaEach
  <2>1. ASSUME NEW p \in Pods, NEW r \in Resources, p # Creator(r)
        PROVE  Cardinality(Joins(p, r)) + Cardinality(Copies(p, r))
                 + (IF r \in rscs[p] THEN 1 ELSE 0) <= 1
    <3>1. OneCopy(p, r)
      BY <1>1, <2>1 DEF ReplicaInv
    <3>2. /\ Cardinality(Joins(p, r)) \in {0, 1} /\ (Cardinality(Joins(p, r)) = 0 <=> Joins(p, r) = {})
          /\ Cardinality(Copies(p, r)) \in {0, 1} /\ (Cardinality(Copies(p, r)) = 0 <=> Copies(p, r) = {})
      BY <3>1, AtMostOneCounts DEF OneCopy
    <3> QED
      BY <3>1, <3>2 DEF OneCopy
  <2>2. ASSUME NEW p \in Pods, NEW r \in Resources, p # Creator(r)
        PROVE  Joins(p, r) = {m \in {m \in inbox[Creator(r)] : m.type = "Join" /\ m.rsc = r} : m.from = p}
    BY DEF Joins
  <2> QED
    BY <2>1, <2>2 DEF OneReplicaEach, Copies
<1>2. ReplicaInv => OneReplicaEach
  BY <1>1
<1> QED
  BY <1>2, ReplicaHolds, PTL

------------------------------------------------------------------------------
(* Searches *)

SameQuestions(p, r) ==
    \A q \in Pods : Questions(p, r, q)' = Questions(p, r, q) /\ Answers(p, r, q)' = Answers(p, r, q)

LEMMA SearchKept ==
    ASSUME DirectoryInv, [Next]_vars, NEW p \in Pods, NEW r \in Resources,
           Asks(p, r), Counts(p, r), SameQuestions(p, r), search'[p][r] = search[p][r]
    PROVE  Asks(p, r)' /\ Counts(p, r)'
<1>1. Creator(r) \in Pods
  BY CreatorIs
<1>2. Pending(p, r)' = Pending(p, r)
  BY DEF Pending, SameQuestions
<1>3. OwnerAnswers(p, r) => OwnerAnswers(p, r)'
  BY <1>1 DEF OwnerAnswers, SameQuestions
<1>4. Asks(p, r)'
  BY DEF Asks, AtMostOne, SameQuestions
<1>5. Registered(r) => Registered(r)'
  BY Growth
<1> QED
  BY <1>2, <1>3, <1>4, <1>5 DEF Counts

LEMMA PostAsks ==
    ASSUME TypeOK, NEW to, NEW n \in Messages, Post(to, n), n.type # "SearchReply",
           NEW p \in Pods, NEW r \in Resources
    PROVE  /\ n.type # "SearchRequest" \/ n.rsc # r \/ n.from # p => SameQuestions(p, r)
           /\ \A q \in Pods :
                 /\ Answers(p, r, q)' = Answers(p, r, q)
                 /\ n.type = "SearchRequest" /\ n.rsc = r /\ n.from = p =>
                       Questions(p, r, q)' = Questions(p, r, q) \cup (IF q \in to THEN {n} ELSE {})
<1>1. \A q \in Pods : inbox'[q] = inbox[q] \cup (IF q \in to THEN {n} ELSE {})
  BY PostIs
<1>2. ASSUME NEW q \in Pods
      PROVE  /\ Answers(p, r, q)' = Answers(p, r, q)
             /\ n.type = "SearchRequest" /\ n.rsc = r /\ n.from = p =>
                   Questions(p, r, q)' = Questions(p, r, q) \cup (IF q \in to THEN {n} ELSE {})
             /\ n.type # "SearchRequest" \/ n.rsc # r \/ n.from # p =>
                   Questions(p, r, q)' = Questions(p, r, q)
  <2>1. Answers(p, r, q)' = Answers(p, r, q)
    BY <1>1 DEF Answers
  <2>2. ASSUME n.type = "SearchRequest" /\ n.rsc = r /\ n.from = p
        PROVE  Questions(p, r, q)' = Questions(p, r, q) \cup (IF q \in to THEN {n} ELSE {})
    BY <1>1, <2>2 DEF Questions
  <2>3. ASSUME n.type # "SearchRequest" \/ n.rsc # r \/ n.from # p
        PROVE  Questions(p, r, q)' = Questions(p, r, q)
    BY <1>1, <2>3 DEF Questions
  <2> QED
    BY <2>1, <2>2, <2>3
<1> QED
  BY <1>2 DEF SameQuestions

\* The first search of a pod asks every pod of the application, and the owner
\* is one of them.
LEMMA StartAsks ==
    ASSUME DirectoryInv, SearchInv, NEW t \in Threads, StartSearch(t),
           NEW p \in Pods, NEW r \in Resources, p = Home[t], r = Rsc(t),
           search[p][r] = NotSearched
    PROVE  Asks(p, r)' /\ Counts(p, r)'
<1>1. Proceed(t) /\ Knows(t)
  BY DEF Proceed, StartSearch, At, Knows
<1>2. /\ TypeOK /\ at[t] \in DOMAIN Program[t] /\ Home[t] \in Pods /\ Home[t] \in up
      /\ Rsc(t) \in Resources /\ Registered(Rsc(t)) /\ up \subseteq Pods /\ TablesMatch
      /\ search \in [Pods -> [Resources -> Record]] /\ total[t] \in Nat
  BY <1>1, ProceedFacts DEF DirectoryInv, PlacesMatch, TypeOK, Record
<1>3. PICK n \in Messages : n = Note(t, "SearchRequest", p, None)
  BY <1>2, NoteTypes DEF Kinds
<1>4. n.type = "SearchRequest" /\ n.rsc = r /\ n.from = p
  BY <1>3, NoteIs
<1>5. Post(up, n)
  BY <1>3 DEF StartSearch
<1>6. Asks(p, r) /\ Counts(p, r) /\ search[p][r].asked = 0
  BY DEF SearchInv, NotSearched
<1>7. \A q \in Pods : Questions(p, r, q) = {} /\ Answers(p, r, q) = {}
  BY <1>6 DEF Counts, Pending
<1>8. \A q \in Pods : /\ Questions(p, r, q)' = IF q \in up THEN {n} ELSE {}
                      /\ Answers(p, r, q)' = {}
  <2>1. \A q \in Pods :
           /\ Answers(p, r, q)' = Answers(p, r, q)
           /\ Questions(p, r, q)' = Questions(p, r, q) \cup (IF q \in up THEN {n} ELSE {})
    BY <1>2, <1>4, <1>5, PostAsks
  <2> QED
    BY <1>7, <2>1
<1>9. Asks(p, r)'
  BY <1>8 DEF Asks, AtMostOne
<1>10. Pending(p, r)' = up
  BY <1>2, <1>8 DEF Pending
<1>11. Cardinality(up) \in Nat /\ Cardinality(up) # 0
  BY <1>2, DirectoryAssumption, FS_Subset, FS_CardinalityType, FS_EmptySet
<1>12. /\ search'[p][r].asked = Cardinality(up) /\ search'[p][r].count = 0
       /\ search'[p][r].info = None
  BY <1>2 DEF StartSearch
<1>13. Creator(r) \in Pods /\ Creator(r) \in up
  BY <1>2, CreatorIs DEF TablesMatch, Registered
<1>14. OwnerAnswers(p, r)'
  BY <1>8, <1>13 DEF OwnerAnswers
<1>15. Registered(r)'
  <2>1. [Next]_vars
    BY <1>1 DEF Next, Run
  <2> QED
    BY <1>2, <2>1, Growth
<1>16. Counts(p, r)'
  BY <1>10, <1>11, <1>12, <1>14, <1>15 DEF Counts
<1> QED
  BY <1>9, <1>16

LEMMA ProceedAsks ==
    ASSUME DirectoryInv, SearchInv, NEW t \in Threads, Proceed(t),
           NEW p \in Pods, NEW r \in Resources
    PROVE  Asks(p, r)' /\ Counts(p, r)'
<1>1. /\ TypeOK /\ at[t] \in DOMAIN Program[t] /\ Asks(p, r) /\ Counts(p, r)
      /\ search \in [Pods -> [Resources -> Record]] /\ Home[t] \in Pods /\ Rsc(t) \in Resources
  BY ProceedFacts DEF DirectoryInv, SearchInv, TypeOK, Record
<1>2. [Next]_vars
  BY DEF Next, Run
<1>3. CASE StartSearch(t) /\ search[Home[t]][Rsc(t)] = NotSearched
  <2>1. CASE p = Home[t] /\ r = Rsc(t)
    BY <1>3, <2>1, StartAsks
  <2>2. CASE p # Home[t] \/ r # Rsc(t)
    <3>1. search'[p][r] = search[p][r]
      BY <1>1, <1>3, <2>2 DEF StartSearch
    <3>2. PICK n \in Messages : n = Note(t, "SearchRequest", Home[t], None)
      BY <1>1, NoteTypes DEF Kinds
    <3>3. n.type = "SearchRequest" /\ n.rsc = Rsc(t) /\ n.from = Home[t]
      BY <3>2, NoteIs
    <3>4. Post(up, n)
      BY <1>3, <3>2 DEF StartSearch
    <3>5. SameQuestions(p, r)
      BY <1>1, <2>2, <3>3, <3>4, PostAsks
    <3> QED
      BY <1>1, <1>2, <3>1, <3>5, SearchKept
  <2> QED
    BY <2>1, <2>2
<1>4. CASE ~(StartSearch(t) /\ search[Home[t]][Rsc(t)] = NotSearched)
  <2>1. search' = search
    BY <1>4, SearchStarts
  <2>2. Sends(t, {"Join", "Allocation", "FindRequest", "PredRequest"})
    BY <1>4 DEF Proceed, JoinContext, JoinOwnGroup, JoinGroup, Register, Announce, StartFind,
       RequestReplica, HaveReplica, InsertAlias, GetPredecessorIdp, HavePredecessor, CountPods,
       StartSearch, RetrySearch, Sends
  <2>3. SameQuestions(p, r)
    <3>1. CASE inbox' = inbox
      BY <3>1 DEF SameQuestions, Questions, Answers
    <3>2. ASSUME NEW type \in {"Join", "Allocation", "FindRequest", "PredRequest"}, NEW to,
                 Post(to, Note(t, type, Home[t], None))
          PROVE  SameQuestions(p, r)
      <4>1. PICK n \in Messages : n = Note(t, type, Home[t], None)
        BY <1>1, NoteTypes DEF Kinds
      <4>2. n.type \notin {"SearchRequest", "SearchReply"}
        BY <4>1, NoteIs
      <4>3. Post(to, n)
        BY <3>2, <4>1
      <4> QED
        BY <1>1, <4>2, <4>3, PostAsks
    <3> QED
      BY <2>2, <3>1, <3>2 DEF Sends
  <2> QED
    BY <1>1, <1>2, <2>1, <2>3, SearchKept
<1> QED
  BY <1>3, <1>4

\* An answer is counted, and the owner's gives its name.
LEMMA ReplyCounted ==
    ASSUME DirectoryInv, SearchInv, [Next]_vars, NEW p \in Pods, NEW r \in Resources,
           NEW m \in inbox[p], Drop(p, m), m.type = "SearchReply", m.rsc = r,
           search' = [search EXCEPT ![p][m.rsc] = Answered(search[p][m.rsc], m.info)]
    PROVE  Asks(p, r)' /\ Counts(p, r)'
<1>1. /\ TypeOK /\ inbox \in [Pods -> SUBSET Messages] /\ Asks(p, r) /\ Counts(p, r)
      /\ search \in [Pods -> [Resources -> Record]] /\ Creator(r) \in Pods
  BY CreatorIs DEF DirectoryInv, SearchInv, TypeOK, Record
<1>2. m \in Messages /\ m.from \in Pods /\ m.info \in {None, Creator(r)}
  BY <1>1 DEF Messages, DirectoryInv, MessagesMatch, Fits
<1>3. m \in Answers(p, r, m.from)
  BY DEF Answers
<1>4. Questions(p, r, m.from) = {} /\ \A x \in Answers(p, r, m.from) : x = m
  BY <1>1, <1>2, <1>3 DEF Asks, AtMostOne
<1>5. \A q \in Pods : inbox'[q] = inbox[q] \ (IF q = p THEN {m} ELSE {})
  BY <1>1, DropIs
<1>6. \A q \in Pods : Questions(p, r, q)' = Questions(p, r, q)
  BY <1>5 DEF Questions
<1>7. \A q \in Pods : Answers(p, r, q)' = Answers(p, r, q) \ {m}
  BY <1>5 DEF Answers
<1>8. Answers(p, r, m.from)' = {} /\ \A q \in Pods : q # m.from => Answers(p, r, q)' = Answers(p, r, q)
  <2>1. \A q \in Pods : q # m.from => m \notin Answers(p, r, q)
    BY DEF Answers
  <2> QED
    BY <1>2, <1>4, <1>7, <2>1
<1>9. Asks(p, r)'
  BY <1>1, <1>6, <1>7 DEF Asks, AtMostOne
<1>10. Pending(p, r)' = Pending(p, r) \ {m.from} /\ m.from \in Pending(p, r)
  BY <1>2, <1>3, <1>4, <1>6, <1>8 DEF Pending
<1>11. /\ Cardinality(Pending(p, r)) \in Nat
       /\ Cardinality(Pending(p, r)') = Cardinality(Pending(p, r)) - 1
  <2>1. Pending(p, r) \subseteq Pods
    BY DEF Pending
  <2>2. IsFiniteSet(Pending(p, r))
    BY <2>1, DirectoryAssumption, FS_Subset
  <2>3. Cardinality(Pending(p, r) \ {m.from}) = Cardinality(Pending(p, r)) - 1
    BY <1>10, <2>2, FS_RemoveElement
  <2> QED
    BY <1>10, <2>2, <2>3, FS_CardinalityType
<1>12. search[p][r].asked # 0
  BY <1>1, <1>10 DEF Counts
<1>13. PICK s : s = search[p][r]
  OBVIOUS
<1>14. s \in Record
  BY <1>1, <1>13
<1>15. search'[p][r] = Answered(s, m.info)
  BY <1>1, <1>13
<1>16. /\ search'[p][r].count = s.count + 1 /\ search'[p][r].asked = s.asked
       /\ search'[p][r].info = IF m.info = None THEN s.info ELSE m.info
  <2>1. m.info \in Pods \cup {None}
    BY <1>1, <1>2
  <2>2. /\ Answered(s, m.info).count = s.count + 1 /\ Answered(s, m.info).asked = s.asked
        /\ Answered(s, m.info).info = IF m.info = None THEN s.info ELSE m.info
    BY <1>14, <2>1, AnsweredTypes
  <2> QED
    BY <1>15, <2>2
<1>17. search'[p][r].count + Cardinality(Pending(p, r)') = search'[p][r].asked
  <2>1. s.count + Cardinality(Pending(p, r)) = s.asked /\ s.count \in Nat
    BY <1>1, <1>12, <1>13, <1>14 DEF Counts, Record
  <2> QED
    BY <1>11, <1>16, <2>1
<1>18. Registered(r)'
  BY <1>1, <1>12, Growth DEF Counts
<1>19. search'[p][r].info \in {None, Creator(r)}
  BY <1>1, <1>2, <1>13, <1>16 DEF Counts
<1>20. ASSUME search'[p][r].info = None
       PROVE  OwnerAnswers(p, r)'
  <2>1. m.info = None /\ s.info = None
    BY <1>16, <1>20
  <2>2. OwnerAnswers(p, r)
    BY <1>1, <1>12, <1>13, <2>1 DEF Counts
  <2>3. Creator(r) # None
    BY <1>1, DirectoryAssumption
  <2>4. m.from # Creator(r)
    BY <1>4, <2>1, <2>2, <2>3 DEF OwnerAnswers
  <2> QED
    BY <1>1, <1>6, <1>8, <2>2, <2>4 DEF OwnerAnswers
<1>21. Counts(p, r)'
  BY <1>12, <1>13, <1>16, <1>17, <1>18, <1>19, <1>20 DEF Counts
<1> QED
  BY <1>9, <1>21

\* A question becomes an answer, and the owner's answer has its name.
LEMMA QuestionAnswered ==
    ASSUME DirectoryInv, SearchInv, [Next]_vars, NEW p \in Pods, NEW r \in Resources,
           NEW h \in Pods, NEW m \in inbox[h], m.type = "SearchRequest", m.rsc = r, m.from = p,
           NEW info \in Pods \cup {None}, info = (IF r \in objs[h] /\ h = Creator(r) THEN h ELSE None),
           Reply(h, m, "SearchReply", info), search' = search
    PROVE  Asks(p, r)' /\ Counts(p, r)'
<1>1. /\ TypeOK /\ inbox \in [Pods -> SUBSET Messages] /\ Asks(p, r) /\ Counts(p, r)
      /\ Creator(r) \in Pods /\ TablesMatch
  BY CreatorIs, Types DEF DirectoryInv, SearchInv
<1>2. PICK n \in Messages :
         /\ n.type = "SearchReply" /\ n.from = h /\ n.rsc = r /\ n.info = info
         /\ \A q \in Pods : inbox'[q] = (inbox[q] \ (IF q = h THEN {m} ELSE {}))
                                          \cup (IF q = p THEN {n} ELSE {})
  BY <1>1, ReplyIs DEF Kinds
<1>3. m \in Questions(p, r, h)
  BY DEF Questions
<1>4. Answers(p, r, h) = {} /\ \A x \in Questions(p, r, h) : x = m
  BY <1>1, <1>3 DEF Asks, AtMostOne
<1>5. /\ \A q \in Pods : q # h => Questions(p, r, q)' = Questions(p, r, q)
      /\ Questions(p, r, h)' = Questions(p, r, h) \ {m}
  BY <1>2 DEF Questions
<1>6. /\ \A q \in Pods : q # h => Answers(p, r, q)' = Answers(p, r, q)
      /\ Answers(p, r, h)' = Answers(p, r, h) \cup {n}
  BY <1>2 DEF Answers
<1>7. Questions(p, r, h)' = {} /\ Answers(p, r, h)' = {n}
  BY <1>4, <1>5, <1>6
<1>8. Asks(p, r)'
  BY <1>1, <1>5, <1>6, <1>7 DEF Asks, AtMostOne
<1>9. Pending(p, r)' = Pending(p, r) /\ h \in Pending(p, r)
  BY <1>3, <1>5, <1>6, <1>7 DEF Pending
<1>10. search[p][r].asked # 0
  BY <1>1, <1>9 DEF Counts
<1>11. Registered(r) /\ Registered(r)'
  BY <1>1, <1>10, Growth DEF Counts
<1>12. OwnerAnswers(p, r) => OwnerAnswers(p, r)'
  <2>1. CASE h = Creator(r)
    <3>1. r \in objs[h]
      BY <1>1, <1>11, <2>1 DEF Registered, TablesMatch
    <3> QED
      BY <1>2, <1>7, <2>1, <3>1 DEF OwnerAnswers
  <2>2. CASE h # Creator(r)
    BY <1>1, <1>5, <1>6, <2>2 DEF OwnerAnswers
  <2> QED
    BY <2>1, <2>2
<1>13. Counts(p, r)'
  BY <1>1, <1>9, <1>10, <1>11, <1>12 DEF Counts
<1> QED
  BY <1>8, <1>13

LEMMA HandleAsks ==
    ASSUME DirectoryInv, SearchInv, NEW h \in Pods, Handle(h),
           NEW p \in Pods, NEW r \in Resources
    PROVE  Asks(p, r)' /\ Counts(p, r)'
<1>1. /\ TypeOK /\ inbox \in [Pods -> SUBSET Messages] /\ Asks(p, r) /\ Counts(p, r)
      /\ search \in [Pods -> [Resources -> Record]]
  BY Types DEF DirectoryInv, SearchInv, TypeOK, Record
<1>2. [Next]_vars
  BY DEF Next, Run
<1>3. PICK m \in inbox[h] :
         /\ Takes(h, m)
         /\ \/ m.type # "SearchReply" /\ search' = search
            \/ /\ m.type = "SearchReply"
               /\ search' = [search EXCEPT ![h][m.rsc] = Answered(search[h][m.rsc], m.info)]
  BY HandleTakes
<1>4. CASE Drop(h, m) /\ m.type # "SearchRequest"
  <2>1. CASE m.type = "SearchReply" /\ h = p /\ m.rsc = r
    BY <1>2, <1>3, <1>4, <2>1, ReplyCounted
  <2>2. CASE ~(m.type = "SearchReply" /\ h = p /\ m.rsc = r)
    <3>1. search'[p][r] = search[p][r]
      BY <1>1, <1>3, <2>2
    <3>2. \A q \in Pods : inbox'[q] = inbox[q] \ (IF q = h THEN {m} ELSE {})
      BY <1>1, <1>4, DropIs
    <3>3. \A q \in Pods : Questions(p, r, q)' = Questions(p, r, q)
      BY <1>4, <3>2 DEF Questions
    <3>4. \A q \in Pods : Answers(p, r, q)' = Answers(p, r, q)
      BY <2>2, <3>2 DEF Answers
    <3> QED
      BY <1>1, <1>2, <3>1, <3>3, <3>4, SearchKept DEF SameQuestions
  <2> QED
    BY <2>1, <2>2
<1>5. CASE \E type \in Kinds, info \in Pods \cup {None} :
              Answer(h, m, type, info) /\ Reply(h, m, type, info)
  <2>1. PICK type \in Kinds, info \in Pods \cup {None} :
           Answer(h, m, type, info) /\ Reply(h, m, type, info)
    BY <1>5
  <2>2. m.type # "SearchReply" /\ search' = search
    BY <1>3, <2>1 DEF Answer
  <2>3. CASE m.type = "SearchRequest" /\ m.rsc = r /\ m.from = p
    <3>1. type = "SearchReply" /\ info = IF r \in objs[h] /\ h = Creator(r) THEN h ELSE None
      BY <2>1, <2>3 DEF Answer
    <3> QED
      BY <1>2, <2>1, <2>2, <2>3, <3>1, QuestionAnswered
  <2>4. CASE ~(m.type = "SearchRequest" /\ m.rsc = r /\ m.from = p)
    <3>1. PICK n \in Messages :
             /\ n.type = type /\ n.from = h /\ n.rsc = m.rsc /\ n.info = info
             /\ \A q \in Pods : inbox'[q] = (inbox[q] \ (IF q = h THEN {m} ELSE {}))
                                              \cup (IF q = m.from THEN {n} ELSE {})
      BY <1>1, <2>1, ReplyIs
    <3>2. n.type # "SearchRequest" /\ (n.type = "SearchReply" => m.type = "SearchRequest")
      BY <2>1, <3>1 DEF Answer
    <3>3. \A q \in Pods : Questions(p, r, q)' = Questions(p, r, q)
      BY <2>4, <3>1, <3>2 DEF Questions
    <3>4. \A q \in Pods : Answers(p, r, q)' = Answers(p, r, q)
      BY <2>2, <2>4, <3>1, <3>2 DEF Answers
    <3> QED
      BY <1>1, <1>2, <2>2, <3>3, <3>4, SearchKept DEF SameQuestions
  <2> QED
    BY <2>3, <2>4
<1> QED
  BY <1>3, <1>4, <1>5 DEF Takes

LEMMA SearchStep ==
    ASSUME DirectoryInv, SearchInv, [Next]_vars
    PROVE  SearchInv'
<1>1. ASSUME NEW p \in Pods, NEW r \in Resources
      PROVE  Asks(p, r)' /\ Counts(p, r)'
  <2>1. CASE \E t \in Threads : Proceed(t)
    BY <2>1, ProceedAsks
  <2>2. CASE \E h \in Pods : Handle(h)
    BY <2>2, HandleAsks
  <2>3. CASE (\E h \in Pods : Start(h) \/ HandleInitialize(h)) \/ UNCHANGED vars
    <3>1. inbox' = inbox /\ search' = search
      BY <2>3 DEF Start, HandleInitialize, vars
    <3>2. SameQuestions(p, r)
      BY <3>1 DEF SameQuestions, Questions, Answers
    <3>3. Asks(p, r) /\ Counts(p, r)
      BY DEF SearchInv
    <3> QED
      BY <3>1, <3>2, <3>3, SearchKept
  <2> QED
    BY <2>1, <2>2, <2>3 DEF Next, Run
<1> QED
  BY <1>1 DEF SearchInv

\* The record of a search: what it asked stays, also how many it counts on.
LEMMA SearchLasts ==
    ASSUME DirectoryInv, [Next]_vars, NEW p \in Pods, NEW r \in Resources, search[p][r].asked # 0
    PROVE  /\ search'[p][r].asked = search[p][r].asked
           /\ search'[p][r].total = search[p][r].total
<1>1. TypeOK /\ search \in [Pods -> [Resources -> Record]] /\ inbox \in [Pods -> SUBSET Messages]
  BY DEF DirectoryInv, TypeOK, Record
<1>2. CASE \E t \in Threads : Proceed(t)
  <2>1. PICK t \in Threads : Proceed(t)
    BY <1>2
  <2>2. CASE search' = search
    BY <2>2
  <2>3. CASE StartSearch(t) /\ search[Home[t]][Rsc(t)] = NotSearched
    <3>1. p # Home[t] \/ r # Rsc(t)
      BY <2>3 DEF NotSearched
    <3>2. search'[p][r] = search[p][r]
      BY <1>1, <2>3, <3>1 DEF StartSearch
    <3> QED
      BY <3>2
  <2> QED
    BY <2>1, <2>2, <2>3, SearchStarts
<1>3. CASE \E h \in Pods : Handle(h)
  <2>1. PICK h \in Pods : Handle(h)
    BY <1>3
  <2>2. PICK m \in inbox[h] :
           \/ search' = search
           \/ search' = [search EXCEPT ![h][m.rsc] = Answered(search[h][m.rsc], m.info)]
    BY <2>1, HandleTakes
  <2>3. m.info \in Pods \cup {None}
    BY <1>1 DEF Messages
  <2>4. CASE h = p /\ m.rsc = r /\ search' # search
    <3>1. search[p][r] \in Record /\ search'[p][r] = Answered(search[p][r], m.info)
      BY <1>1, <2>2, <2>4
    <3>2. /\ Answered(search[p][r], m.info).asked = search[p][r].asked
          /\ Answered(search[p][r], m.info).total = search[p][r].total
      BY <2>3, <3>1, AnsweredTypes
    <3> QED
      BY <3>1, <3>2
  <2>5. CASE ~(h = p /\ m.rsc = r /\ search' # search)
    BY <1>1, <2>2, <2>5
  <2> QED
    BY <2>4, <2>5
<1>4. CASE (\E h \in Pods : Start(h) \/ HandleInitialize(h)) \/ UNCHANGED vars
  BY <1>4 DEF Start, HandleInitialize, vars
<1> QED
  BY <1>2, <1>3, <1>4 DEF Next, Run

\* Who has no name yet waits for the owner's answer at least.
LEMMA StillWaits ==
    ASSUME DirectoryInv, SearchInv, NEW p \in Pods, NEW r \in Resources,
           search[p][r].asked # 0, search[p][r].info = None
    PROVE  search[p][r].count # search[p][r].asked
<1>1. Counts(p, r) /\ Creator(r) \in Pods /\ search[p][r] \in Record
  BY CreatorIs DEF SearchInv, DirectoryInv, TypeOK, Record
<1>2. OwnerAnswers(p, r)
  BY <1>1 DEF Counts
<1>3. Creator(r) \in Pending(p, r)
  BY <1>1, <1>2 DEF OwnerAnswers, Pending
<1>4. IsFiniteSet(Pending(p, r))
  <2>1. Pending(p, r) \subseteq Pods
    BY DEF Pending
  <2> QED
    BY <2>1, DirectoryAssumption, FS_Subset
<1>5. Cardinality(Pending(p, r)) \in Nat /\ Cardinality(Pending(p, r)) # 0
  BY <1>3, <1>4, FS_CardinalityType, FS_EmptySet
<1>6. search[p][r].count + Cardinality(Pending(p, r)) = search[p][r].asked
  BY <1>1 DEF Counts
<1>7. search[p][r].count \in Nat
  BY <1>1 DEF Record
<1> QED
  BY <1>5, <1>6, <1>7

\* The search of t for r asked somebody, and another number than it counts on.
Failed(t, r) == search[Home[t]][r].asked # 0 /\ search[Home[t]][r].asked # search[Home[t]][r].total

LEMMA ConcludeMatch ==
    ASSUME TypeOK, NEW t \in Threads, NEW s, Conclude(t, s), Rsc(t) \in Resources
    PROVE  /\ pc'[t] = "searching" => at' = at
           /\ missed' # missed => s.count = s.total /\ s.info = None
BY DEF Conclude, Goto, Move, Return, TypeOK

\* A step that ends or goes on with a search.
LEMMA SearchEnds ==
    ASSUME DirectoryInv, SearchInv, MissesMatch, NEW t \in Threads, StartSearch(t) \/ RetrySearch(t),
           NEW r \in Resources, r = Rsc(t)
    PROVE  /\ search'[Home[t]][r].asked # 0
           /\ pc'[t] = "searching" => at' = at
           /\ missed' = missed \/ (missed' \subseteq missed \cup {<<t, r>>} /\ Failed(t, r)')
<1>1. /\ TypeOK /\ Home[t] \in Pods /\ search \in [Pods -> [Resources -> Record]] /\ total[t] \in Nat
      /\ Home[t] \in up /\ up \subseteq Pods
  <2>1. Proceed(t)
    BY DEF Proceed
  <2> QED
    BY <2>1, ProceedFacts DEF DirectoryInv, TypeOK, Record
<1>2. ASSUME NEW s, s = search[Home[t]][r], s.asked # 0, Conclude(t, s), search' = search
      PROVE  /\ search'[Home[t]][r].asked # 0
             /\ pc'[t] = "searching" => at' = at
             /\ missed' = missed \/ (missed' \subseteq missed \cup {<<t, r>>} /\ Failed(t, r)')
  <2>1. missed' # missed => s.count = s.total /\ s.info = None
    BY <1>1, <1>2, ConcludeMatch
  <2>2. missed' # missed => s.total # s.asked
    BY <1>1, <1>2, <2>1, StillWaits
  <2>3. (pc'[t] = "searching" => at' = at) /\ missed' \subseteq missed \cup {<<t, r>>}
    BY <1>1, <1>2, ConcludeMatch, ConcludeMoves
  <2> QED
    BY <1>2, <2>2, <2>3 DEF Failed
<1>3. Counts(Home[t], r)
  BY <1>1 DEF SearchInv
<1>4. CASE StartSearch(t) /\ search[Home[t]][r] = NotSearched
  <2>1. Cardinality(up) \in Nat /\ Cardinality(up) # 0
    BY <1>1, DirectoryAssumption, FS_Subset, FS_CardinalityType, FS_EmptySet
  <2>2. PICK new : new = [asked |-> Cardinality(up), count |-> 0, total |-> total[t], info |-> None]
    OBVIOUS
  <2>3. search' = [search EXCEPT ![Home[t]][r] = new] /\ Conclude(t, new)
    BY <1>4, <2>2 DEF StartSearch
  <2>4. search'[Home[t]][r] = new
    BY <1>1, <2>3
  <2>5. /\ pc'[t] = "searching" => at' = at
        /\ missed' \subseteq missed \cup {<<t, r>>}
        /\ missed' # missed => new.count = new.total
    BY <1>1, <2>3, ConcludeMatch, ConcludeMoves
  <2>6. missed' # missed => Failed(t, r)'
    BY <2>1, <2>2, <2>4, <2>5 DEF Failed
  <2>7. search'[Home[t]][r].asked # 0
    BY <2>1, <2>2, <2>4
  <2> QED
    BY <2>5, <2>6, <2>7
<1>5. CASE StartSearch(t) /\ search[Home[t]][r] # NotSearched
  <2>1. search[Home[t]][r].asked # 0 /\ Conclude(t, search[Home[t]][r]) /\ search' = search
    BY <1>3, <1>5 DEF StartSearch, Counts
  <2> QED
    BY <1>2, <2>1
<1>6. CASE RetrySearch(t)
  <2>1. Conclude(t, search[Home[t]][r]) /\ search' = search /\ pc[t] = "searching"
    BY <1>6 DEF RetrySearch, At
  <2>2. search[Home[t]][r].asked # 0
    BY <2>1 DEF MissesMatch
  <2> QED
    BY <1>2, <2>1, <2>2
<1> QED
  BY <1>4, <1>5, <1>6

LEMMA OthersSearch ==
    ASSUME TypeOK, NEW t \in Threads, Proceed(t), ~(StartSearch(t) \/ RetrySearch(t))
    PROVE  missed' = missed /\ pc'[t] # "searching"
<1>1. ASSUME NEW place, place # "searching", Goto(t, place) \/ Move(t, place)
      PROVE  missed' = missed /\ pc'[t] # "searching"
  BY <1>1, GotoIs DEF Goto, Move
<1>2. ASSUME Done(t)
      PROVE  missed' = missed /\ pc'[t] # "searching"
  BY <1>2, ReturnIs DEF Done
<1> QED
  BY <1>1, <1>2 DEF Proceed, JoinContext, JoinOwnGroup, Register, Announce, StartFind,
     RequestReplica, HaveReplica, InsertAlias, GetPredecessorIdp, HavePredecessor, CountPods

LEMMA MissesKept ==
    ASSUME DirectoryInv, MissesMatch, [Next]_vars
    PROVE  /\ \A t \in Threads : pc[t] = "searching" => search'[Home[t]][Rsc(t)].asked # 0
           /\ \A t \in Threads, r \in Resources : <<t, r>> \in missed => Failed(t, r)'
<1>1. ASSUME NEW t \in Threads, pc[t] = "searching"
      PROVE  search'[Home[t]][Rsc(t)].asked # 0
  <2>1. Rsc(t) \in Resources /\ Home[t] \in Pods
    BY <1>1, CallFacts, ProgramFacts DEF DirectoryInv, PlacesMatch
  <2> QED
    BY <1>1, <2>1, SearchLasts DEF MissesMatch
<1>2. ASSUME NEW t \in Threads, NEW r \in Resources, <<t, r>> \in missed
      PROVE  Failed(t, r)'
  <2>1. search[Home[t]][r].asked # 0 /\ search[Home[t]][r].asked # search[Home[t]][r].total
    BY <1>2 DEF MissesMatch
  <2> QED
    BY <2>1, SearchLasts, ProgramFacts DEF Failed
<1> QED
  BY <1>1, <1>2

LEMMA MissesStep ==
    ASSUME DirectoryInv, SearchInv, MissesMatch, [Next]_vars
    PROVE  MissesMatch'
<1>1. /\ \A t \in Threads : pc[t] = "searching" => search'[Home[t]][Rsc(t)].asked # 0
      /\ \A t \in Threads, r \in Resources : <<t, r>> \in missed => Failed(t, r)'
  BY MissesKept
<1>2. TypeOK
  BY DEF DirectoryInv
<1>3. ASSUME NEW t \in Threads, pc'[t] = pc[t], at'[t] = at[t], pc'[t] = "searching"
      PROVE  (search[Home[t]][Rsc(t)])'.asked # 0
  <2>1. Rsc(t)' = Rsc(t)
    BY <1>3 DEF Rsc
  <2> QED
    BY <1>1, <1>3, <2>1
<1>4. CASE \E t \in Threads : Proceed(t)
  <2>1. PICK t \in Threads : Proceed(t)
    BY <1>4
  <2>2. \A u \in Threads : u # t => pc'[u] = pc[u] /\ at'[u] = at[u]
    BY <1>2, <2>1, ProceedMoves DEF Stays, Returns, TypeOK
  <2>3. PICK r \in Resources : r = Rsc(t)
    BY <2>1, ProceedFacts
  <2>4. CASE StartSearch(t) \/ RetrySearch(t)
    <3>1. /\ search'[Home[t]][r].asked # 0
          /\ pc'[t] = "searching" => at' = at
          /\ missed' = missed \/ (missed' \subseteq missed \cup {<<t, r>>} /\ Failed(t, r)')
      BY <2>3, <2>4, SearchEnds
    <3>2. pc'[t] = "searching" => (search[Home[t]][Rsc(t)])'.asked # 0
      <4>1. pc'[t] = "searching" => Rsc(t)' = r
        BY <2>3, <3>1 DEF Rsc
      <4> QED
        BY <3>1, <4>1
    <3>3. \A u \in Threads : pc'[u] = "searching" => (search[Home[u]][Rsc(u)])'.asked # 0
      BY <1>3, <2>2, <3>2
    <3>4. \A u \in Threads, x \in Resources : <<u, x>> \in missed' => Failed(u, x)'
      BY <1>1, <3>1
    <3> QED
      BY <3>3, <3>4 DEF MissesMatch, Failed
  <2>5. CASE ~(StartSearch(t) \/ RetrySearch(t))
    <3>1. missed' = missed /\ pc'[t] # "searching"
      BY <1>2, <2>1, <2>5, OthersSearch
    <3>2. \A u \in Threads : pc'[u] = "searching" => (search[Home[u]][Rsc(u)])'.asked # 0
      BY <1>3, <2>2, <3>1
    <3> QED
      BY <1>1, <3>1, <3>2 DEF MissesMatch, Failed
  <2> QED
    BY <2>4, <2>5
<1>5. ASSUME pc' = pc, at' = at, missed' = missed
      PROVE  MissesMatch'
  BY <1>1, <1>3, <1>5 DEF MissesMatch, Failed
<1>6. CASE \E h \in Pods : Handle(h)
  BY <1>5, <1>6, HandleMoves
<1>7. CASE (\E h \in Pods : Start(h) \/ HandleInitialize(h)) \/ UNCHANGED vars
  BY <1>5, <1>7 DEF Start, HandleInitialize, vars, calls
<1> QED
  BY <1>4, <1>6, <1>7 DEF Next, Run

LEMMA SearchInit == Init => SearchInv /\ MissesMatch
<1> SUFFICES ASSUME Init PROVE SearchInv /\ MissesMatch
  OBVIOUS
<1>1. ASSUME NEW p \in Pods, NEW r \in Resources
      PROVE  Asks(p, r) /\ Counts(p, r)
  <2>1. \A q \in Pods : Questions(p, r, q) = {} /\ Answers(p, r, q) = {}
    BY DEF Init, Questions, Answers
  <2>2. Pending(p, r) = {} /\ search[p][r] = NotSearched
    BY <2>1 DEF Init, Pending
  <2> QED
    BY <2>1, <2>2 DEF Asks, Counts, AtMostOne, NotSearched
<1>2. MissesMatch
  BY DEF Init, MissesMatch
<1> QED
  BY <1>1, <1>2 DEF SearchInv

LEMMA SearchHolds == Spec => [](SearchInv /\ MissesMatch)
<1>1. DirectoryInv /\ SearchInv /\ MissesMatch /\ [Next]_vars => SearchInv' /\ MissesMatch'
  BY SearchStep, MissesStep
<1> QED
  BY <1>1, SearchInit, DirectoryHolds, PTL DEF Spec

\* A search names nobody but the owner, and one that asked as many pods as it
\* counts on finds it, in whatever order the answers come (HandleSearchResourceInfo).
THEOREM SearchesTruthful == Spec => []SearchTruthful
<1>1. SearchInv /\ MissesMatch => SearchTruthful
  BY DEF SearchInv, Counts, MissesMatch, SearchTruthful
<1> QED
  BY <1>1, SearchHolds, PTL
==============================================================================

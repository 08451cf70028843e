---------------------------- MODULE OrganizerProofs ----------------------------
(***************************************************************************)
(* What an organizer guarantees for every number of pods, every set of     *)
(* names and whatever the agents call: its replicas behave as one table of *)
(* members, and whoever returns from the Join of a closure reads every     *)
(* member in it.  The two hold when handlers run in delivery order, which  *)
(* the theorems say; the types hold in any order.                          *)
(*                                                                         *)
(* The first part follows the token and the messages, the second counts    *)
(* the joins in the table that travels with the token, the third shows     *)
(* that a replica is never older than what its pod was told.               *)
(***************************************************************************)
EXTENDS Organizer, FiniteSetTheorems, SequenceTheorems, TLAPS

------------------------------------------------------------------------------
(* The inductive invariant *)

Has(box, type) == \E i \in DOMAIN box : box[i].type = type

Carrier(msg) == msg.type \in {"Token", "Update"}

TypeInv ==
    /\ TypeOK
    /\ replica \in [Pods -> Table]
    /\ inbox \in [Pods -> Seq(Message)]
    /\ DOMAIN call = Pods

\* One pod holds the token or one message carries it; writers hold it.
OneToken ==
    /\ \A p, q \in holders : p = q
    /\ busy \subseteq holders
    /\ \A p, q \in Pods : \A i \in TokenMessages(p), j \in TokenMessages(q) :
          p = q /\ i = j /\ holders = {}
    /\ holders # {} \/ \E p \in Pods : TokenMessages(p) # {}

\* Where an agent is says what it is calling and which access it has.
Placed(p) ==
    /\ pc[p] \in {"writing", "wrote"} => p \in busy
    /\ pc[p] \in {"acquiring", "writing", "wrote"} => call[p].op \in {"Join", "Leave"}
    /\ pc[p] \in {"released", "joining"} => static /\ call[p].op = "Join"
    /\ calls[p] = 0 => pc[p] = "ready"

PlacesMatch == \A p \in Pods : Placed(p)

\* What is on its way to a pod: nothing that would make the holder's table old,
\* and an update only to a pod that asked and waits.
Matched(p) ==
    /\ p \in holders => p \in valid /\ pc[p] # "asking" /\ ~Has(inbox[p], "Invalidate")
    /\ \A i \in TokenMessages(p) :
          /\ pc[p] = "acquiring"
          /\ \A j \in DOMAIN inbox[p] : j > i => inbox[p][j].type # "Invalidate"
    /\ p \in asked => pc[p] = "asking" /\ p \notin valid /\ ~Has(inbox[p], "Update")
    /\ \A i, j \in DOMAIN inbox[p] :
          inbox[p][i].type = "Update" /\ inbox[p][j].type = "Update" =>
              i = j /\ pc[p] = "asking" /\ p \notin valid

MessagesMatch == \A p \in Pods : Matched(p)

\* No replica has more joins in it than the table that counts.
NoneAhead ==
    /\ \A p \in Pods : replica[p].next <= Current.next
    /\ \A p \in Pods : \A i \in DOMAIN inbox[p] :
          Carrier(inbox[p][i]) => inbox[p][i].table.next <= Current.next

\* The agents of a closure that told the others that they joined, and those of
\* them that p has counted or still has in its inbox.
ToldOf(p, q) ==
    \/ q \in entered[p]
    \/ \E i \in DOMAIN inbox[p] : inbox[p][i].type = "Create" /\ inbox[p][i].from = q

Announced == {q \in Pods : \E p \in Pods : ToldOf(p, q)}

\* Those whose Join is in the table that counts, without and with the one that
\* has not released its write access.
Released == Announced \cup {q \in Pods : pc[q] = "released"}
Through  == Released \cup {q \in Pods : pc[q] = "wrote" /\ call[q].op = "Join"}

\* Every agent of a closure goes through one Join.
JoinsOnce ==
    /\ \A q \in Announced :
          /\ static /\ calls[q] > 0
          /\ pc[q] \in {"acquiring", "writing", "wrote", "released"} => call[q].op # "Join"
    /\ \A q \in Pods : pc[q] = "joining" => q \in Announced

JoinsCounted == static => Current.next = Cardinality(Through)

\* The agents that will tell the parent.
Firsts == {q \in Pods : /\ pc[q] \in {"wrote", "released", "joining"}
                        /\ call[q].op = "Join" /\ rank[q] = 0}

ParentToldOnce ==
    /\ \A p, q \in Firsts : static => p = q
    /\ parent # 0 => static /\ parent = 1 /\ Firsts = {} /\ Current.next # 0

\* The agents that a pod has counted, or will have after k messages of its inbox.
Heard(box, counted, k) ==
    counted \cup {box[i].from : i \in {j \in 1 .. k : box[j].type = "Create"}}

\* None of the messages from j to k makes the replica invalid.
Calm(box, j, k) == \A i \in j .. k : box[i].type # "Invalidate"

\* A table with so many joins, that a pod has or gets with message i, has in it
\* whatever joins the pod hears of while no invalidation comes, and all of them
\* if none comes any more.
Knows(box, counted, i, joins, all) ==
    /\ \A k \in i .. Len(box) : Calm(box, i + 1, k) => joins >= Cardinality(Heard(box, counted, k))
    /\ Calm(box, i + 1, Len(box)) => joins >= all

InformedOf(p) ==
    /\ p \in valid => Knows(inbox[p], entered[p], 0, replica[p].next, Cardinality(Released))
    /\ \A i \in DOMAIN inbox[p] : Carrier(inbox[p][i]) =>
          Knows(inbox[p], entered[p], i, inbox[p][i].table.next, Cardinality(Released))

Informed == static => \A p \in Pods : InformedOf(p)

------------------------------------------------------------------------------
(* Messages and tables *)

LEMMA AppendIs ==
    ASSUME NEW S, NEW box \in Seq(S), NEW msg \in S
    PROVE  /\ Append(box, msg) \in Seq(S)
           /\ Len(box) \in Nat /\ DOMAIN box = 1 .. Len(box)
           /\ Len(Append(box, msg)) = Len(box) + 1
           /\ DOMAIN Append(box, msg) = 1 .. Len(box) + 1
           /\ \A i \in 1 .. Len(box) : Append(box, msg)[i] = box[i]
           /\ Append(box, msg)[Len(box) + 1] = msg
OBVIOUS

LEMMA TailIs ==
    ASSUME NEW S, NEW box \in Seq(S), box # <<>>
    PROVE  /\ Tail(box) \in Seq(S) /\ Head(box) \in S
           /\ Len(box) \in Nat /\ DOMAIN box = 1 .. Len(box) /\ Len(box) > 0
           /\ Head(box) = box[1]
           /\ Len(Tail(box)) = Len(box) - 1 /\ DOMAIN Tail(box) = 1 .. Len(box) - 1
           /\ \A i \in 1 .. Len(box) - 1 : Tail(box)[i] = box[i + 1]
BY HeadTailProperties

LEMMA FirstRemoved ==
    ASSUME NEW S, NEW box \in Seq(S), 1 \in DOMAIN box
    PROVE  RemoveAt(box, 1) = Tail(box)
<1>1. SubSeq(box, 1, 0) = <<>>
  OBVIOUS
<1>2. SubSeq(box, 2, Len(box)) = Tail(box)
  OBVIOUS
<1> QED
  BY <1>1, <1>2 DEF RemoveAt

\* One message fewer, wherever it was.
LEMMA RemovedType ==
    ASSUME NEW S, NEW box \in Seq(S), NEW i \in DOMAIN box
    PROVE  RemoveAt(box, i) \in Seq(S) /\ box[i] \in S
<1>1. i \in 1 .. Len(box) /\ Len(box) \in Nat
  OBVIOUS
<1>2. SubSeq(box, 1, i - 1) \in Seq(S)
  BY <1>1, SubSeqProperties
<1>3. SubSeq(box, i + 1, Len(box)) \in Seq(S)
  BY <1>1, SubSeqProperties
<1> QED
  BY <1>1, <1>2, <1>3 DEF RemoveAt

LEMMA MsgIs ==
    ASSUME NEW type \in {"Token", "Update", "Invalidate", "Create"}, NEW p \in Pods,
           NEW table \in Table
    PROVE  /\ Msg(type, p, table) \in Message
           /\ Msg(type, p, table).type = type
           /\ Msg(type, p, table).from = p
           /\ Msg(type, p, table).table = table
BY DEF Msg, Message

LEMMA EmptyIs == Empty \in Table /\ Empty.next = 0
BY DEF Empty, Table

\* A Join carries a name, possibly the empty one.
LEMMA JoinNamed ==
    ASSUME TypeInv, NEW p \in Pods, call[p].op = "Join"
    PROVE  call[p].name \in Names \cup {Unnamed}
<1>1. call[p] \in Updates \cup Queries
  <2>1. call[p] # NoCall
    BY DEF NoCall
  <2> QED
    BY <2>1, OrganizerAssumption DEF TypeInv, TypeOK
<1> QED
  BY <1>1 DEF Updates, Queries

LEMMA JoinedIs ==
    ASSUME NEW table \in Table, NEW p \in Pods, NEW name \in Names \cup {Unnamed}
    PROVE  Joined(table, p, name) \in Table /\ Joined(table, p, name).next = table.next + 1
<1>1. [idp |-> p, idm |-> table.next, name |-> IF name = Unnamed THEN p ELSE name] \in Member
  BY DEF Member, Table
<1> QED
  BY <1>1 DEF Joined, Table

------------------------------------------------------------------------------
(* Type correctness *)

LEMMA GotoType ==
    ASSUME TypeInv, NEW p \in Pods, NEW place \in Places, Goto(p, place)
    PROVE  /\ pc' \in [Pods -> Places]
           /\ DOMAIN call' = Pods
           /\ \A q \in Pods : call'[q] \in Calls[q] \cup {NoCall}
           /\ calls' = calls
           /\ rank' \in [Pods -> Nat]
BY DEF TypeInv, TypeOK, Goto

LEMMA StartType ==
    ASSUME TypeInv, NEW p \in Pods, NEW c \in Calls[p], NEW place \in Places,
           Start(p, c, place)
    PROVE  /\ pc' \in [Pods -> Places]
           /\ DOMAIN call' = Pods
           /\ \A q \in Pods : call'[q] \in Calls[q] \cup {NoCall}
           /\ calls' \in [Pods -> 0 .. MaxCalls]
           /\ rank' \in [Pods -> Nat]
<1>1. calls[p] \in 0 .. MaxCalls /\ calls[p] < MaxCalls /\ MaxCalls \in Nat
  BY OrganizerAssumption DEF TypeInv, TypeOK, Start
<1>2. calls[p] + 1 \in 0 .. MaxCalls
  BY <1>1
<1> QED
  BY <1>2 DEF TypeInv, TypeOK, Start

\* TypeInv is about each variable by itself.
LEMMA TypeParts ==
    ASSUME static' \in BOOLEAN, holders' \in SUBSET Pods, busy' \in SUBSET Pods,
           replica' \in [Pods -> Table], valid' \in SUBSET Pods, asked' \in SUBSET Pods,
           inbox' \in [Pods -> Seq(Message)], entered' \in [Pods -> SUBSET Pods],
           DOMAIN call' = Pods, \A p \in Pods : call'[p] \in Calls[p] \cup {NoCall},
           pc' \in [Pods -> Places], calls' \in [Pods -> 0 .. MaxCalls],
           rank' \in [Pods -> Nat], parent' \in Nat
    PROVE  TypeInv'
<1>1. ASSUME NEW p \in Pods
      PROVE  replica'[p].next \in Nat /\ replica'[p].members \subseteq Member
  BY DEF Table
<1>2. ASSUME NEW p \in Pods, NEW i \in DOMAIN inbox'[p]
      PROVE  inbox'[p][i].type \in {"Token", "Update", "Invalidate", "Create"}
  <2>1. inbox'[p] \in Seq(Message)
    OBVIOUS
  <2>2. inbox'[p][i] \in Message
    BY <2>1, <1>2
  <2> QED
    BY <2>2 DEF Message
<1> QED
  BY <1>1, <1>2 DEF TypeInv, TypeOK

\* What the service thread does changes no agent.
LEMMA ServeType ==
    ASSUME TypeInv, NEW p \in Pods, Serve(p)
    PROVE  TypeInv'
<1> USE DEF token, copies, agents
<1>1. /\ static \in BOOLEAN /\ holders \in SUBSET Pods /\ busy \in SUBSET Pods
      /\ replica \in [Pods -> Table] /\ valid \in SUBSET Pods /\ asked \in SUBSET Pods
      /\ inbox \in [Pods -> Seq(Message)] /\ entered \in [Pods -> SUBSET Pods]
      /\ DOMAIN call = Pods /\ \A q \in Pods : call[q] \in Calls[q] \cup {NoCall}
      /\ pc \in [Pods -> Places] /\ calls \in [Pods -> 0 .. MaxCalls]
      /\ rank \in [Pods -> Nat] /\ parent \in Nat
  BY DEF TypeInv, TypeOK
<1>2. ASSUME NEW q \in Pods, NEW msg \in Message, Send(q, msg)
      PROVE  inbox' \in [Pods -> Seq(Message)]
  BY <1>1, <1>2, AppendIs DEF Send
<1>3. ASSUME NEW q \in Pods, Give(p, q) PROVE TypeInv'
  <2>1. Msg("Token", p, replica[p]) \in Message
    BY <1>1, MsgIs
  <2>2. inbox' \in [Pods -> Seq(Message)]
    BY <1>2, <1>3, <2>1 DEF Give
  <2>3. holders' \in SUBSET Pods /\ busy' = busy
    BY <1>3 DEF Give, WT!Give
  <2>4. UNCHANGED <<static, copies, entered, agents, parent>>
    BY <1>3 DEF Give
  <2> QED
    BY <1>1, <2>2, <2>3, <2>4, TypeParts
<1>4. ASSUME NEW q \in Pods, ReplyUpdate(p, q) PROVE TypeInv'
  <2>1. Msg("Update", p, replica[p]) \in Message
    BY <1>1, MsgIs
  <2>2. inbox' \in [Pods -> Seq(Message)]
    BY <1>2, <1>4, <2>1 DEF ReplyUpdate
  <2>3. asked' \in SUBSET Pods
    BY <1>1, <1>4 DEF ReplyUpdate
  <2>4. UNCHANGED <<static, token, replica, valid, entered, agents, parent>>
    BY <1>4 DEF ReplyUpdate
  <2> QED
    BY <1>1, <2>2, <2>3, <2>4, TypeParts
<1>5. CASE Handle(p)
  <2>1. PICK i \in DOMAIN inbox[p] :
           /\ inbox' = [inbox EXCEPT ![p] = RemoveAt(inbox[p], i)]
           /\ \/ AcquireTokenUpdate(p, inbox[p][i]) \/ Update(p, inbox[p][i])
              \/ Invalidate(p, inbox[p][i]) \/ HandleCreateStaticGroup(p, inbox[p][i])
           /\ UNCHANGED <<static, agents, parent>>
    BY <1>5 DEF Handle
  <2>2. RemoveAt(inbox[p], i) \in Seq(Message) /\ inbox[p][i] \in Message
    BY <1>1, RemovedType
  <2>3. inbox' \in [Pods -> Seq(Message)] /\ UNCHANGED <<static, agents, parent>>
    BY <1>1, <2>1, <2>2
  <2>4. PICK msg \in Message :
           \/ AcquireTokenUpdate(p, msg) \/ Update(p, msg)
           \/ Invalidate(p, msg) \/ HandleCreateStaticGroup(p, msg)
    BY <2>1, <2>2
  <2>5. msg.table \in Table /\ msg.from \in Pods
    BY DEF Message
  <2>6. holders' \in SUBSET Pods /\ busy' \in SUBSET Pods
    BY <1>1, <2>4 DEF AcquireTokenUpdate, Update, Invalidate, HandleCreateStaticGroup, WT!Take
  <2>7. replica' \in [Pods -> Table] /\ valid' \in SUBSET Pods /\ asked' \in SUBSET Pods
    BY <1>1, <2>4, <2>5 DEF AcquireTokenUpdate, Update, Invalidate, HandleCreateStaticGroup
  <2>8. entered' \in [Pods -> SUBSET Pods]
    <3>1. entered[p] \cup {msg.from} \in SUBSET Pods
      BY <1>1, <2>5
    <3>2. entered \in [Pods -> SUBSET Pods]
      BY <1>1
    <3>3. CASE entered' = entered
      BY <3>2, <3>3
    <3>4. CASE entered' = [entered EXCEPT ![p] = entered[p] \cup {msg.from}]
      BY <3>1, <3>2, <3>4
    <3> QED
      BY <2>4, <3>3, <3>4
      DEF AcquireTokenUpdate, Update, Invalidate, HandleCreateStaticGroup
  <2> QED
    BY <1>1, <2>3, <2>6, <2>7, <2>8, TypeParts
<1> QED
  BY <1>3, <1>4, <1>5 DEF Serve

\* What an agent does, once its place and its call are right.
LEMMA AgentType ==
    ASSUME TypeInv, NEW p \in Pods, Call(p) \/ Proceed(p)
    PROVE  TypeInv'
<1> USE DEF token, copies, agents
<1>1. /\ static \in BOOLEAN /\ holders \in SUBSET Pods /\ busy \in SUBSET Pods
      /\ replica \in [Pods -> Table] /\ valid \in SUBSET Pods /\ asked \in SUBSET Pods
      /\ inbox \in [Pods -> Seq(Message)] /\ entered \in [Pods -> SUBSET Pods]
      /\ DOMAIN call = Pods /\ \A q \in Pods : call[q] \in Calls[q] \cup {NoCall}
      /\ pc \in [Pods -> Places] /\ calls \in [Pods -> 0 .. MaxCalls]
      /\ rank \in [Pods -> Nat] /\ parent \in Nat
  BY DEF TypeInv, TypeOK
<1>2. ASSUME NEW c \in Calls[p], CallUpdate(p, c) \/ CallQuery(p, c) PROVE TypeInv'
  <2>1. \E place \in Places : Start(p, c, place)
    BY <1>2 DEF CallUpdate, CallQuery, Places
  <2>2. /\ pc' \in [Pods -> Places] /\ DOMAIN call' = Pods
        /\ \A q \in Pods : call'[q] \in Calls[q] \cup {NoCall}
        /\ calls' \in [Pods -> 0 .. MaxCalls] /\ rank' \in [Pods -> Nat]
    BY <2>1, StartType
  <2>3. /\ asked' \in SUBSET Pods
        /\ UNCHANGED <<static, token, replica, valid, inbox, entered, parent>>
    BY <1>1, <1>2 DEF CallUpdate, CallQuery
  <2> QED
    BY <1>1, <2>2, <2>3, TypeParts
<1>3. CASE Join(p)
  <2>1. call[p].name \in Names \cup {Unnamed}
    BY <1>3, JoinNamed DEF Join
  <2>2. replica[p] \in Table
    BY <1>1
  <2>3. Joined(replica[p], p, call[p].name) \in Table /\ replica[p].next \in Nat
    BY <2>1, <2>2, JoinedIs DEF Table
  <2>4. replica' \in [Pods -> Table]
    BY <1>1, <1>3, <2>3 DEF Join
  <2>5. rank' \in [Pods -> Nat] /\ pc' \in [Pods -> Places]
    BY <1>1, <1>3, <2>3 DEF Join, Places
  <2>6. UNCHANGED <<static, token, valid, asked, inbox, entered, call, calls, parent>>
    BY <1>3 DEF Join
  <2> QED
    BY <1>1, <2>4, <2>5, <2>6, TypeParts
<1>4. CASE Proceed(p) /\ ~Join(p)
  <2>1. \E place \in Places : Goto(p, place)
    BY <1>4 DEF Proceed, AcquireWrite, RefuseJoin, Leave, ReleaseWrite, CreateStaticGroup,
                AllJoined, AwaitUpdate, Get, Places
  <2>2. /\ pc' \in [Pods -> Places] /\ DOMAIN call' = Pods
        /\ \A q \in Pods : call'[q] \in Calls[q] \cup {NoCall}
        /\ calls' = calls /\ rank' \in [Pods -> Nat]
    BY <2>1, GotoType
  <2>3. UNCHANGED <<static, valid, asked, entered>>
    BY <1>4 DEF Proceed, AcquireWrite, RefuseJoin, Leave, ReleaseWrite, CreateStaticGroup,
                AllJoined, AwaitUpdate, Get
  <2>4. holders' \in SUBSET Pods /\ busy' \in SUBSET Pods /\ parent' \in Nat
    <3>1. holders' = holders /\ (busy' = busy \/ busy' = busy \cup {p} \/ busy' = busy \ {p})
      BY <1>4 DEF Proceed, AcquireWrite, RefuseJoin, Leave, ReleaseWrite, CreateStaticGroup,
                  AllJoined, AwaitUpdate, Get, WT!StartWriting, WT!StopWriting
    <3>2. parent' = parent \/ parent' = parent + 1
      BY <1>4 DEF Proceed, AcquireWrite, RefuseJoin, Leave, ReleaseWrite, CreateStaticGroup,
                  AllJoined, AwaitUpdate, Get
    <3> QED
      BY <1>1, <3>1, <3>2
  <2>5. replica' \in [Pods -> Table]
    <3>1. CASE Leave(p)
      <4> DEFINE left == {m \in replica[p].members : m.idp # p}
      <4>1. replica[p] \in Table
        BY <1>1
      <4>2. [members |-> left, next |-> replica[p].next] \in Table
        BY <4>1 DEF Table
      <4>3. [replica[p] EXCEPT !.members = left] = [members |-> left, next |-> replica[p].next]
        BY <4>1 DEF Table
      <4>4. replica' = [replica EXCEPT ![p] = [replica[p] EXCEPT !.members = left]]
        BY <1>1, <3>1 DEF Leave
      <4> HIDE DEF left
      <4> QED
        BY <1>1, <4>2, <4>3, <4>4
    <3>2. CASE ~Leave(p)
      BY <1>1, <1>4, <3>2 DEF Proceed, AcquireWrite, RefuseJoin, ReleaseWrite,
                              CreateStaticGroup, AllJoined, AwaitUpdate, Get
    <3> QED
      BY <3>1, <3>2
  <2>6. inbox' \in [Pods -> Seq(Message)]
    <3>1. ASSUME NEW type \in {"Invalidate", "Create"}, NEW q \in Pods
          PROVE  Append(inbox[q], Msg(type, p, Empty)) \in Seq(Message)
      <4>1. Msg(type, p, Empty) \in Message /\ inbox[q] \in Seq(Message)
        BY <1>1, EmptyIs, MsgIs
      <4> QED
        BY <4>1, AppendIs
    <3>2. CASE ReleaseWrite(p)
      BY <1>1, <3>1, <3>2 DEF ReleaseWrite
    <3>3. CASE CreateStaticGroup(p)
      BY <1>1, <3>1, <3>3 DEF CreateStaticGroup
    <3>4. CASE ~ReleaseWrite(p) /\ ~CreateStaticGroup(p)
      BY <1>1, <1>4, <3>4 DEF Proceed, AcquireWrite, RefuseJoin, Leave, AllJoined,
                              AwaitUpdate, Get
    <3> QED
      BY <3>2, <3>3, <3>4
  <2> QED
    BY <1>1, <2>2, <2>3, <2>4, <2>5, <2>6, TypeParts
<1> QED
  BY <1>2, <1>3, <1>4 DEF Call

LEMMA TypeStep ==
    ASSUME TypeInv, [Next]_vars
    PROVE  TypeInv'
<1>1. CASE UNCHANGED vars
  BY <1>1 DEF vars, token, copies, agents, TypeInv, TypeOK
<1>2. CASE Next
  BY <1>2, AgentType, ServeType DEF Next
<1> QED
  BY <1>1, <1>2

------------------------------------------------------------------------------
(* Handlers in delivery order *)

ReplyOnce(p, q) ==
    /\ p \in valid \cap (holders \ busy) /\ pc[p] # "acquiring"
    /\ q \in asked /\ q # p
    /\ asked' = asked \ {q}
    /\ Send(q, Msg("Update", p, replica[p]))
    /\ UNCHANGED <<static, token, replica, valid, entered, agents, parent>>

HandleFirst(p) ==
    /\ inbox[p] # <<>>
    /\ inbox' = [inbox EXCEPT ![p] = Tail(@)]
    /\ LET msg == Head(inbox[p]) IN
          \/ AcquireTokenUpdate(p, msg) \/ Update(p, msg)
          \/ Invalidate(p, msg) \/ HandleCreateStaticGroup(p, msg)
    /\ UNCHANGED <<static, agents, parent>>

ServeInOrder(p) == HandleFirst(p) \/ \E q \in Pods : Give(p, q) \/ ReplyOnce(p, q)

NextInOrder == \E p \in Pods : Call(p) \/ Proceed(p) \/ ServeInOrder(p)

\* Steps in order are steps, ...
LEMMA IsServed ==
    ASSUME TypeInv, NEW p \in Pods, ServeInOrder(p)
    PROVE  Serve(p)
<1>1. CASE HandleFirst(p)
  <2>1. inbox[p] \in Seq(Message) /\ inbox[p] # <<>>
    BY <1>1 DEF TypeInv, HandleFirst
  <2>2. 1 \in DOMAIN inbox[p] /\ Head(inbox[p]) = inbox[p][1]
    BY <2>1, TailIs
  <2>3. RemoveAt(inbox[p], 1) = Tail(inbox[p])
    BY <2>1, <2>2, FirstRemoved
  <2> QED
    BY <1>1, <2>2, <2>3 DEF HandleFirst, Handle, Serve
<1>2. ASSUME NEW q \in Pods, Give(p, q) \/ ReplyOnce(p, q) PROVE Serve(p)
  BY <1>2 DEF ReplyUpdate, ReplyOnce, Serve
<1> QED
  BY <1>1, <1>2 DEF ServeInOrder

\* ... and the only ones with InOrder.
LEMMA ServesInOrder ==
    ASSUME InOrder, TypeInv, NEW p \in Pods, Serve(p)
    PROVE  ServeInOrder(p)
<1>1. CASE Handle(p)
  <2>1. PICK i \in DOMAIN inbox[p] :
           /\ i = 1
           /\ inbox' = [inbox EXCEPT ![p] = RemoveAt(inbox[p], i)]
           /\ \/ AcquireTokenUpdate(p, inbox[p][i]) \/ Update(p, inbox[p][i])
              \/ Invalidate(p, inbox[p][i]) \/ HandleCreateStaticGroup(p, inbox[p][i])
           /\ UNCHANGED <<static, agents, parent>>
    BY <1>1 DEF Handle
  <2>2. inbox[p] \in Seq(Message)
    BY DEF TypeInv
  <2>3. inbox[p] # <<>> /\ Head(inbox[p]) = inbox[p][i]
    BY <2>1, <2>2
  <2>4. RemoveAt(inbox[p], i) = Tail(inbox[p])
    BY <2>1, <2>2, FirstRemoved
  <2> QED
    BY <2>1, <2>3, <2>4 DEF HandleFirst, ServeInOrder
<1>2. ASSUME NEW q \in Pods, Give(p, q) \/ ReplyUpdate(p, q) PROVE ServeInOrder(p)
  BY <1>2 DEF ReplyUpdate, ReplyOnce, ServeInOrder
<1> QED
  BY <1>1, <1>2 DEF Serve

LEMMA StepsInOrder ==
    ASSUME InOrder, TypeInv, [Next]_vars
    PROVE  [NextInOrder]_vars
BY ServesInOrder DEF Next, NextInOrder

------------------------------------------------------------------------------
(* The token and the table that counts *)

\* What ReplyOnce, ReleaseWrite and CreateStaticGroup do to the inboxes, and Give.
Posted(to, msg) ==
    inbox' = [q \in Pods |-> IF q \in to THEN Append(inbox[q], msg) ELSE inbox[q]]

LEMMA PostedIs ==
    ASSUME TypeInv, NEW to, NEW msg \in Message, Posted(to, msg), NEW q \in Pods
    PROVE  /\ Len(inbox[q]) \in Nat /\ DOMAIN inbox[q] = 1 .. Len(inbox[q])
           /\ DOMAIN inbox'[q] = 1 .. Len(inbox'[q])
           /\ Len(inbox'[q]) = IF q \in to THEN Len(inbox[q]) + 1 ELSE Len(inbox[q])
           /\ \A i \in 1 .. Len(inbox[q]) : inbox'[q][i] = inbox[q][i]
           /\ q \in to => inbox'[q][Len(inbox[q]) + 1] = msg
<1>1. inbox[q] \in Seq(Message)
  BY DEF TypeInv
<1>2. inbox'[q] = IF q \in to THEN Append(inbox[q], msg) ELSE inbox[q]
  BY DEF Posted
<1>3. CASE q \in to
  BY <1>1, <1>2, <1>3, AppendIs
<1>4. CASE q \notin to
  BY <1>1, <1>2, <1>4
<1> QED
  BY <1>3, <1>4

LEMMA HandledIs ==
    ASSUME TypeInv, NEW p \in Pods, HandleFirst(p)
    PROVE  /\ Len(inbox[p]) \in Nat /\ DOMAIN inbox[p] = 1 .. Len(inbox[p])
           /\ 1 \in DOMAIN inbox[p] /\ inbox[p][1] \in Message /\ Head(inbox[p]) = inbox[p][1]
           /\ Len(inbox'[p]) = Len(inbox[p]) - 1
           /\ DOMAIN inbox'[p] = 1 .. Len(inbox[p]) - 1
           /\ \A i \in 1 .. Len(inbox[p]) - 1 : inbox'[p][i] = inbox[p][i + 1]
           /\ \A q \in Pods : q # p => inbox'[q] = inbox[q]
<1>1. inbox[p] \in Seq(Message) /\ inbox[p] # <<>> /\ DOMAIN inbox = Pods
  BY DEF TypeInv, HandleFirst
<1>2. inbox' = [inbox EXCEPT ![p] = Tail(inbox[p])]
  BY <1>1 DEF HandleFirst
<1>3. inbox'[p] = Tail(inbox[p])
  BY <1>1, <1>2
<1> QED
  BY <1>1, <1>2, <1>3, TailIs

Held == \A h \in Pods : h \in holders => Current = replica[h]

Sent == \A p \in Pods : \A i \in TokenMessages(p) : Current = inbox[p][i].table

LEMMA CurrentHeld == OneToken => Held
BY DEF OneToken, Current, Held

LEMMA CurrentSent == OneToken => Sent
<1> SUFFICES ASSUME OneToken, NEW p \in Pods, NEW i \in TokenMessages(p)
             PROVE  Current = inbox[p][i].table
  BY DEF Sent
<1>1. holders = {}
  BY DEF OneToken
<1>2. p = CHOOSE q \in Pods : TokenMessages(q) # {}
  BY DEF OneToken
<1>3. \A j \in DOMAIN inbox[p] : inbox[p][j].type = "Token" => j \in TokenMessages(p)
  BY DEF TokenMessages
<1>4. i \in DOMAIN inbox[p] /\ inbox[p][i].type = "Token"
  BY DEF TokenMessages
<1>5. i = CHOOSE j \in DOMAIN inbox[p] : inbox[p][j].type = "Token"
  BY <1>3, <1>4 DEF OneToken
<1> QED
  BY <1>1, <1>2, <1>5 DEF Current

\* The table that counts is that of a pod or of a message.
LEMMA CurrentIs ==
    ASSUME TypeInv, OneToken
    PROVE  /\ Current \in Table
           /\ \/ \E h \in Pods : h \in holders /\ Current = replica[h]
              \/ \E p \in Pods : \E i \in TokenMessages(p) : Current = inbox[p][i].table
<1>1. CASE holders # {}
  <2>1. PICK h \in Pods : h \in holders
    BY <1>1 DEF TypeInv, TypeOK
  <2>2. Current = replica[h]
    BY <2>1, CurrentHeld DEF Held
  <2> QED
    BY <2>1, <2>2 DEF TypeInv
<1>2. CASE holders = {}
  <2>1. PICK p \in Pods : TokenMessages(p) # {}
    BY <1>2 DEF OneToken
  <2>2. PICK i : i \in TokenMessages(p)
    BY <2>1
  <2>3. Current = inbox[p][i].table
    BY <2>2, CurrentSent DEF Sent
  <2>4. inbox[p] \in Seq(Message) /\ i \in DOMAIN inbox[p]
    BY <2>2 DEF TypeInv, TokenMessages
  <2>5. inbox[p][i] \in Message
    BY <2>4
  <2> QED
    BY <2>2, <2>3, <2>5 DEF Message
<1> QED
  BY <1>1, <1>2

SameTokens ==
    \A q \in Pods : /\ TokenMessages(q)' = TokenMessages(q)
                    /\ \A i \in TokenMessages(q) : inbox'[q][i] = inbox[q][i]

LEMMA TokensPosted ==
    ASSUME TypeInv, NEW to, NEW msg \in Message, Posted(to, msg), msg.type # "Token"
    PROVE  SameTokens
<1> SUFFICES ASSUME NEW q \in Pods
             PROVE  /\ TokenMessages(q)' = TokenMessages(q)
                    /\ \A i \in TokenMessages(q) : inbox'[q][i] = inbox[q][i]
  BY DEF SameTokens
<1>1. /\ Len(inbox[q]) \in Nat /\ DOMAIN inbox[q] = 1 .. Len(inbox[q])
      /\ DOMAIN inbox'[q] = 1 .. Len(inbox'[q])
      /\ Len(inbox'[q]) = IF q \in to THEN Len(inbox[q]) + 1 ELSE Len(inbox[q])
      /\ \A i \in 1 .. Len(inbox[q]) : inbox'[q][i] = inbox[q][i]
      /\ q \in to => inbox'[q][Len(inbox[q]) + 1] = msg
  BY PostedIs
<1>2. \A i : i \in TokenMessages(q)' <=> i \in TokenMessages(q)
  BY <1>1 DEF TokenMessages
<1> QED
  BY <1>1, <1>2 DEF TokenMessages

\* The token stays where it is; so does the table that counts, but for its
\* holder's changes.
LEMMA TokenStays ==
    ASSUME TypeInv, OneToken, holders' = holders, busy' \subseteq holders, SameTokens
    PROVE  /\ OneToken'
           /\ (\A h \in holders : replica'[h] = replica[h]) => Current' = Current
<1>1. OneToken'
  BY DEF OneToken, SameTokens
<1>2. Held' /\ Sent'
  BY <1>1, CurrentHeld, CurrentSent, PTL
<1>4. CASE \E h \in Pods : h \in holders /\ Current = replica[h]
  BY <1>1, <1>2, <1>4 DEF Held
<1>5. CASE \E p \in Pods : \E i \in TokenMessages(p) : Current = inbox[p][i].table
  BY <1>1, <1>2, <1>5 DEF SameTokens, Sent
<1> QED
  BY <1>1, <1>4, <1>5, CurrentIs

LEMMA TokenGiven ==
    ASSUME TypeInv, OneToken, PlacesMatch, NEW p \in Pods, NEW q \in Pods, Give(p, q)
    PROVE  /\ OneToken' /\ Current' = Current /\ holders' = {}
           /\ Posted({q}, Msg("Token", p, replica[p]))
<1> DEFINE msg == Msg("Token", p, replica[p])
<1>1. msg \in Message /\ msg.type = "Token" /\ msg.table = replica[p]
  BY MsgIs DEF TypeInv
<1>2. Posted({q}, msg)
  BY DEF Posted, Give, Send, TypeInv
<1>3. holders = {p} /\ holders' = {} /\ busy' = busy
  BY DEF Give, WT!Give, OneToken
<1>4. busy = {}
  BY <1>3 DEF Give, WT!Give, OneToken, TypeInv, TypeOK
<1> HIDE DEF msg
<1>5. ASSUME NEW r \in Pods
      PROVE  /\ TokenMessages(r) = {}
             /\ TokenMessages(r)' = IF r = q THEN {Len(inbox[q]) + 1} ELSE {}
             /\ inbox'[q][Len(inbox[q]) + 1] = msg
  <2>1. TokenMessages(r) = {}
    BY <1>3 DEF OneToken
  <2>2. ASSUME NEW s \in Pods
        PROVE  /\ Len(inbox[s]) \in Nat /\ DOMAIN inbox[s] = 1 .. Len(inbox[s])
               /\ DOMAIN inbox'[s] = 1 .. Len(inbox'[s])
               /\ Len(inbox'[s]) = IF s \in {q} THEN Len(inbox[s]) + 1 ELSE Len(inbox[s])
               /\ \A i \in 1 .. Len(inbox[s]) : inbox'[s][i] = inbox[s][i]
               /\ s \in {q} => inbox'[s][Len(inbox[s]) + 1] = msg
    BY <1>1, <1>2, PostedIs
  <2>3. \A i : i \in TokenMessages(r)' <=> r = q /\ i = Len(inbox[q]) + 1
    BY <1>1, <2>1, <2>2 DEF TokenMessages
  <2> QED
    BY <2>1, <2>2, <2>3
<1>6. OneToken'
  BY <1>3, <1>4, <1>5 DEF OneToken
<1>7. Current' = inbox'[q][Len(inbox[q]) + 1].table
  <2>1. Sent'
    BY <1>6, CurrentSent, PTL
  <2> QED
    BY <1>5, <2>1 DEF Sent
<1>8. Current = replica[p]
  BY <1>3, CurrentHeld DEF Held
<1> QED
  BY <1>1, <1>2, <1>3, <1>5, <1>6, <1>7, <1>8 DEF msg

LEMMA TokenHandled ==
    ASSUME TypeInv, OneToken, MessagesMatch, NEW p \in Pods, HandleFirst(p)
    PROVE  OneToken' /\ Current' = Current
<1>1. /\ Len(inbox[p]) \in Nat /\ DOMAIN inbox[p] = 1 .. Len(inbox[p])
      /\ 1 \in DOMAIN inbox[p] /\ inbox[p][1] \in Message /\ Head(inbox[p]) = inbox[p][1]
      /\ DOMAIN inbox'[p] = 1 .. Len(inbox[p]) - 1
      /\ \A i \in 1 .. Len(inbox[p]) - 1 : inbox'[p][i] = inbox[p][i + 1]
      /\ \A q \in Pods : q # p => inbox'[q] = inbox[q]
  BY HandledIs
<1>2. /\ \A i \in TokenMessages(p)' :
            i \in Nat \ {0} /\ i + 1 \in TokenMessages(p) /\ inbox'[p][i] = inbox[p][i + 1]
      /\ \A i \in TokenMessages(p) :
            i \in Nat /\ (i = 1 \/ i - 1 \in TokenMessages(p)')
  <2>1. ASSUME NEW i \in TokenMessages(p)'
        PROVE  i \in Nat \ {0} /\ i + 1 \in TokenMessages(p) /\ inbox'[p][i] = inbox[p][i + 1]
    <3>1. i \in 1 .. Len(inbox[p]) - 1 /\ inbox'[p][i].type = "Token"
      BY <1>1, <2>1 DEF TokenMessages
    <3> QED
      BY <1>1, <3>1 DEF TokenMessages
  <2>2. ASSUME NEW i \in TokenMessages(p)
        PROVE  i \in Nat /\ (i = 1 \/ i - 1 \in TokenMessages(p)')
    <3>1. i \in 1 .. Len(inbox[p]) /\ inbox[p][i].type = "Token"
      BY <1>1, <2>2 DEF TokenMessages
    <3>2. CASE i # 1
      <4>1. i - 1 \in 1 .. Len(inbox[p]) - 1 /\ (i - 1) + 1 = i
        BY <1>1, <3>1, <3>2
      <4>2. inbox'[p][i - 1] = inbox[p][i]
        BY <1>1, <4>1
      <4> QED
        BY <1>1, <3>1, <4>1, <4>2 DEF TokenMessages
    <3> QED
      BY <3>1, <3>2
  <2> QED
    BY <2>1, <2>2
<1>3. \A q \in Pods : q # p => TokenMessages(q)' = TokenMessages(q)
  BY <1>1 DEF TokenMessages
<1>4. CASE inbox[p][1].type = "Token"
  <2>1. holders' = {p} /\ busy' = busy /\ replica' = [replica EXCEPT ![p] = inbox[p][1].table]
    BY <1>1, <1>4 DEF HandleFirst, AcquireTokenUpdate, Update, Invalidate,
                      HandleCreateStaticGroup, WT!Take
  <2>2. 1 \in TokenMessages(p)
    BY <1>1, <1>4 DEF TokenMessages
  <2>3. \A q \in Pods : TokenMessages(q)' = {}
    <3>1. \A i \in TokenMessages(p) : i = 1
      BY <2>2 DEF OneToken
    <3>2. \A q \in Pods : q # p => TokenMessages(q) = {}
      BY <2>2 DEF OneToken
    <3>3. TokenMessages(p)' = {}
      BY <1>2, <3>1
    <3> QED
      BY <1>3, <3>2, <3>3
  <2>4. busy = {}
    BY <2>2 DEF OneToken
  <2>5. OneToken'
    BY <2>1, <2>3, <2>4 DEF OneToken
  <2>6. Current' = replica'[p]
    <3>1. Held'
      BY <2>5, CurrentHeld, PTL
    <3> QED
      BY <2>1, <3>1 DEF Held
  <2>7. Current = inbox[p][1].table
    BY <2>2, CurrentSent DEF Sent
  <2>8. replica'[p] = inbox[p][1].table
    BY <2>1 DEF TypeInv
  <2> QED
    BY <2>5, <2>6, <2>7, <2>8
<1>5. CASE inbox[p][1].type # "Token"
  <2>1. holders' = holders /\ busy' = busy
    BY <1>1, <1>5 DEF HandleFirst, AcquireTokenUpdate, Update, Invalidate,
                      HandleCreateStaticGroup, token
  <2>2. 1 \notin TokenMessages(p)
    BY <1>5 DEF TokenMessages
  <2>3. OneToken'
    <3>1. \A q, r \in Pods : \A i \in TokenMessages(q)', j \in TokenMessages(r)' :
             q = r /\ i = j /\ holders' = {}
      BY <1>2, <1>3, <2>1 DEF OneToken
    <3>2. \A q \in Pods : TokenMessages(q) # {} => TokenMessages(q)' # {}
      BY <1>2, <1>3, <2>2
    <3> QED
      BY <2>1, <3>1, <3>2 DEF OneToken
  <2>4. CASE \E h \in Pods : h \in holders /\ Current = replica[h]
    <3>1. PICK h \in Pods : h \in holders /\ Current = replica[h]
      BY <2>4
    <3>2. replica'[h] = replica[h]
      <4>1. CASE inbox[p][1].type = "Update"
        <5>1. h # p
          BY <1>1, <3>1, <4>1 DEF MessagesMatch, Matched
        <5> QED
          BY <1>1, <4>1, <5>1 DEF HandleFirst, AcquireTokenUpdate, Update, Invalidate,
                                  HandleCreateStaticGroup, copies, TypeInv
      <4>2. CASE inbox[p][1].type # "Update"
        BY <1>1, <1>5, <4>2 DEF HandleFirst, AcquireTokenUpdate, Update, Invalidate,
                                HandleCreateStaticGroup, copies
      <4> QED
        BY <4>1, <4>2
    <3>3. Held'
      BY <2>3, CurrentHeld, PTL
    <3> QED
      BY <2>1, <2>3, <3>1, <3>2, <3>3 DEF Held
  <2>5. CASE \E q \in Pods : \E i \in TokenMessages(q) : Current = inbox[q][i].table
    <3>1. PICK q \in Pods : \E i \in TokenMessages(q) : Current = inbox[q][i].table
      BY <2>5
    <3>2. PICK i \in TokenMessages(q) : Current = inbox[q][i].table
      BY <3>1
    <3>3. Sent'
      BY <2>3, CurrentSent, PTL
    <3>4. CASE q = p
      <4>1. i - 1 \in TokenMessages(p)' /\ i \in Nat
        BY <1>2, <2>2, <3>2, <3>4
      <4>2. inbox'[p][i - 1] = inbox[p][i]
        BY <1>2, <4>1
      <4> QED
        BY <2>3, <3>2, <3>3, <3>4, <4>1, <4>2 DEF Sent
    <3>5. CASE q # p
      BY <1>1, <1>3, <2>3, <3>2, <3>3, <3>5 DEF Sent
    <3> QED
      BY <3>4, <3>5
  <2> QED
    BY <2>4, <2>5, CurrentIs
<1> QED
  BY <1>4, <1>5

------------------------------------------------------------------------------
(* Places and messages *)

LEMMA PlacesStep ==
    ASSUME TypeInv, PlacesMatch, NEW p \in Pods, Call(p) \/ Proceed(p) \/ ServeInOrder(p)
    PROVE  PlacesMatch'
<1>1. /\ busy \subseteq Pods /\ DOMAIN call = Pods /\ pc \in [Pods -> Places]
      /\ calls \in [Pods -> 0 .. MaxCalls] /\ MaxCalls \in Nat
  BY OrganizerAssumption DEF TypeInv, TypeOK
<1>2. Placed(p)
  BY DEF PlacesMatch
<1>3. CASE ServeInOrder(p)
  <2>1. UNCHANGED <<static, agents, busy>>
    BY <1>3 DEF ServeInOrder, HandleFirst, Give, ReplyOnce, AcquireTokenUpdate, Update, Invalidate,
                HandleCreateStaticGroup, WT!Give, WT!Take, token
  <2> QED
    BY <2>1 DEF PlacesMatch, Placed, agents
<1>4. ASSUME NEW c \in Calls[p], CallUpdate(p, c) \/ CallQuery(p, c) PROVE PlacesMatch'
  <2>1. /\ UNCHANGED <<static, busy>>
        /\ \A q \in Pods : q # p => pc'[q] = pc[q] /\ call'[q] = call[q] /\ calls'[q] = calls[q]
    BY <1>1, <1>4 DEF CallUpdate, CallQuery, Start, token
  <2>2. /\ calls'[p] = calls[p] + 1 /\ call'[p] = c
        /\ pc'[p] \in {"acquiring", "reading", "asking"}
        /\ pc'[p] = "acquiring" => c.op \in {"Join", "Leave"}
    BY <1>1, <1>4 DEF CallUpdate, CallQuery, Start
  <2>3. calls'[p] # 0
    BY <1>1, <2>2
  <2>4. Placed(p)'
    BY <2>2, <2>3 DEF Placed
  <2>5. ASSUME NEW q \in Pods, q # p PROVE Placed(q)'
    BY <2>1, <2>5 DEF PlacesMatch, Placed
  <2> QED
    BY <2>4, <2>5 DEF PlacesMatch
<1>5. CASE Proceed(p)
  <2>1. /\ UNCHANGED <<static, calls>>
        /\ \A q \in Pods : q # p => pc'[q] = pc[q] /\ call'[q] = call[q]
        /\ \A q \in busy : q # p => q \in busy'
    BY <1>1, <1>5 DEF Proceed, AcquireWrite, Join, RefuseJoin, Leave, ReleaseWrite,
            CreateStaticGroup, AllJoined, AwaitUpdate, Get, Goto, token,
            WT!StartWriting, WT!StopWriting
  <2>2. pc[p] # "ready"
    BY <1>5 DEF Proceed, AcquireWrite, Join, RefuseJoin, Leave, ReleaseWrite,
            CreateStaticGroup, AllJoined, AwaitUpdate, Get
  <2>3. pc'[p] \in {"ready", "threw", "reading"} => Placed(p)'
    BY <1>2, <2>1, <2>2 DEF Placed
  <2>4. Placed(p)'
    <3>1. CASE AcquireWrite(p)
      BY <1>1, <1>2, <3>1 DEF Placed, AcquireWrite, Goto, Ended, WT!StartWriting
    <3>2. CASE Join(p)
      BY <1>1, <1>2, <3>2 DEF Placed, Join, token
    <3>3. CASE Leave(p)
      BY <1>1, <1>2, <3>3 DEF Placed, Leave, Goto, Ended, token
    <3>4. CASE ReleaseWrite(p)
      BY <1>1, <1>2, <2>3, <3>4 DEF Placed, ReleaseWrite, Goto, Ended
    <3>5. CASE CreateStaticGroup(p)
      BY <1>1, <1>2, <3>5 DEF Placed, CreateStaticGroup, Goto, Ended
    <3>6. CASE RefuseJoin(p) \/ AllJoined(p) \/ AwaitUpdate(p) \/ Get(p)
      BY <1>1, <2>3, <3>6 DEF RefuseJoin, AllJoined, AwaitUpdate, Get, Goto
    <3> QED
      BY <1>5, <3>1, <3>2, <3>3, <3>4, <3>5, <3>6 DEF Proceed
  <2>5. ASSUME NEW q \in Pods, q # p PROVE Placed(q)'
    BY <2>1, <2>5 DEF PlacesMatch, Placed
  <2> QED
    BY <2>4, <2>5 DEF PlacesMatch
<1> QED
  BY <1>3, <1>4, <1>5 DEF Call

\* Nothing about q but an end of some access.
LEMMA MatchedStill ==
    ASSUME NEW q \in Pods, Matched(q), inbox'[q] = inbox[q], pc'[q] = pc[q],
           q \in holders' => q \in holders, q \in valid' <=> q \in valid,
           q \in asked' => q \in asked
    PROVE  Matched(q)'
BY DEF Matched, TokenMessages

\* q is or becomes an agent that waits for nothing: no token, no update is on
\* its way to it.
LEMMA MatchedIdle ==
    ASSUME NEW q \in Pods, Matched(q), inbox'[q] = inbox[q],
           pc[q] = "acquiring" => q \in holders /\ TokenMessages(q) = {},
           pc[q] = "asking" => q \in valid, pc'[q] # "asking",
           q \in holders' => q \in holders, q \in valid' <=> q \in valid,
           q \in asked' => q \in asked
    PROVE  Matched(q)'
BY DEF Matched, TokenMessages, Has

LEMMA MatchedCall ==
    ASSUME TypeInv, OneToken, MessagesMatch, NEW p \in Pods, Call(p)
    PROVE  MessagesMatch'
<1>1. PICK c \in Calls[p] : CallUpdate(p, c) \/ CallQuery(p, c)
  BY DEF Call
<1>2. /\ pc \in [Pods -> Places] /\ pc[p] = "ready"
      /\ UNCHANGED <<inbox, holders, valid>>
      /\ \A q \in Pods : q # p => pc'[q] = pc[q] /\ (q \in asked' => q \in asked)
  BY <1>1 DEF CallUpdate, CallQuery, Start, TypeInv, TypeOK, token, copies
<1>3. ASSUME NEW q \in Pods, q # p PROVE Matched(q)'
  BY <1>2, <1>3, MatchedStill DEF MessagesMatch
<1>4. Matched(p)'
  <2>1. Matched(p)
    BY DEF MessagesMatch
  <2>2. CASE pc'[p] # "asking"
    <3>1. p \in asked' => p \in asked
      BY <1>1, <1>2, <2>2 DEF CallUpdate, CallQuery, Start, copies
    <3> QED
      BY <1>2, <2>1, <2>2, <3>1, MatchedIdle
  <2>3. CASE pc'[p] = "asking"
    <3>1. p \notin valid
      BY <1>1, <1>2, <2>3 DEF CallUpdate, CallQuery, Start
    <3>2. TokenMessages(p) = {} /\ ~Has(inbox[p], "Update")
      BY <1>2, <2>1 DEF Matched, Has
    <3> QED
      BY <1>2, <2>1, <2>3, <3>1, <3>2 DEF Matched, TokenMessages, Has
  <2> QED
    BY <2>2, <2>3
<1> QED
  BY <1>3, <1>4 DEF MessagesMatch

\* A message that is neither a token nor an update, nor an invalidation for a
\* pod that has the token or gets it.
LEMMA MatchedPosted ==
    ASSUME TypeInv, MessagesMatch, NEW to, NEW msg \in Message, Posted(to, msg),
           msg.type \in {"Invalidate", "Create"}, NEW q \in Pods,
           msg.type = "Invalidate" /\ q \in to => q \notin holders /\ TokenMessages(q) = {},
           holders' = holders, valid' = valid, asked' = asked,
           pc'[q] = pc[q] \/ (pc[q] \notin {"acquiring", "asking"} /\ pc'[q] # "asking")
    PROVE  Matched(q)'
<1>1. /\ Len(inbox[q]) \in Nat /\ DOMAIN inbox[q] = 1 .. Len(inbox[q])
      /\ DOMAIN inbox'[q] = 1 .. Len(inbox'[q])
      /\ Len(inbox'[q]) = IF q \in to THEN Len(inbox[q]) + 1 ELSE Len(inbox[q])
      /\ \A i \in 1 .. Len(inbox[q]) : inbox'[q][i] = inbox[q][i]
      /\ q \in to => inbox'[q][Len(inbox[q]) + 1] = msg
  BY PostedIs
<1>2. Matched(q)
  BY DEF MessagesMatch
<1>3. TokenMessages(q)' = TokenMessages(q)
  <2>1. \A i : i \in TokenMessages(q)' <=> i \in TokenMessages(q)
    BY <1>1 DEF TokenMessages
  <2> QED
    BY <2>1
<1>4. \A i \in DOMAIN inbox'[q] :
         inbox'[q][i].type = "Update" => i \in DOMAIN inbox[q] /\ inbox[q][i].type = "Update"
  BY <1>1
<1>5. \A i \in DOMAIN inbox'[q] :
         inbox'[q][i].type = "Invalidate" =>
            \/ i \in DOMAIN inbox[q] /\ inbox[q][i].type = "Invalidate"
            \/ msg.type = "Invalidate" /\ q \in to
  BY <1>1
<1>6. q \in holders' => q \in valid' /\ pc'[q] # "asking" /\ ~Has(inbox'[q], "Invalidate")
  BY <1>2, <1>5 DEF Matched, Has
<1>7. \A i \in TokenMessages(q)' :
         /\ pc'[q] = "acquiring"
         /\ \A j \in DOMAIN inbox'[q] : j > i => inbox'[q][j].type # "Invalidate"
  BY <1>2, <1>3, <1>5 DEF Matched
<1>8. q \in asked' => pc'[q] = "asking" /\ q \notin valid' /\ ~Has(inbox'[q], "Update")
  BY <1>2, <1>4 DEF Matched, Has
<1>9. \A i, j \in DOMAIN inbox'[q] :
         inbox'[q][i].type = "Update" /\ inbox'[q][j].type = "Update" =>
             i = j /\ pc'[q] = "asking" /\ q \notin valid'
  BY <1>2, <1>4 DEF Matched
<1> QED
  BY <1>6, <1>7, <1>8, <1>9 DEF Matched

LEMMA MatchedProceed ==
    ASSUME TypeInv, OneToken, PlacesMatch, MessagesMatch, NEW p \in Pods, Proceed(p)
    PROVE  MessagesMatch'
<1>1. /\ pc \in [Pods -> Places] /\ holders \subseteq Pods
      /\ \A q \in holders : \A r \in Pods : TokenMessages(r) = {} /\ (r \in holders => r = q)
  BY DEF TypeInv, TypeOK, OneToken
<1>2. /\ UNCHANGED <<holders, valid, asked>>
      /\ \A q \in Pods : q # p => pc'[q] = pc[q]
      /\ pc'[p] # "asking" /\ pc'[p] # "acquiring"
      /\ pc[p] = "acquiring" => p \in holders
      /\ pc[p] = "asking" => p \in valid
  <2>1. UNCHANGED <<holders, valid, asked>>
    BY DEF Proceed, AcquireWrite, Join, RefuseJoin, Leave, ReleaseWrite,
           CreateStaticGroup, AllJoined, AwaitUpdate, Get, token, copies,
           WT!StartWriting, WT!StopWriting
  <2>2. PICK place \in Places \ {"asking", "acquiring"} : pc' = [pc EXCEPT ![p] = place]
    BY DEF Proceed, AcquireWrite, Join, RefuseJoin, Leave, ReleaseWrite,
           CreateStaticGroup, AllJoined, AwaitUpdate, Get, Goto, Places
  <2>3. pc[p] = "acquiring" => p \in holders
    BY DEF Proceed, AcquireWrite, Join, RefuseJoin, Leave, ReleaseWrite,
           CreateStaticGroup, AllJoined, AwaitUpdate, Get, WT!StartWriting
  <2>4. pc[p] = "asking" => p \in valid
    BY DEF Proceed, AcquireWrite, Join, RefuseJoin, Leave, ReleaseWrite,
           CreateStaticGroup, AllJoined, AwaitUpdate, Get
  <2> QED
    BY <1>1, <2>1, <2>2, <2>3, <2>4
<1>3. \A q \in Pods : Matched(q)
  BY DEF MessagesMatch
<1>4. CASE ReleaseWrite(p)
  <2> DEFINE msg == Msg("Invalidate", p, Empty)
  <2>1. msg \in Message /\ msg.type = "Invalidate"
    BY EmptyIs, MsgIs
  <2>2. Posted(Pods \ {p}, msg)
    BY <1>4 DEF ReleaseWrite, Posted
  <2>3. p \in holders /\ pc[p] = "wrote"
    BY <1>4 DEF ReleaseWrite, OneToken, WT!StopWriting
  <2> HIDE DEF msg
  <2>4. ASSUME NEW q \in Pods PROVE Matched(q)'
    <3>1. q \in Pods \ {p} => q \notin holders /\ TokenMessages(q) = {}
      BY <1>1, <2>3
    <3>2. pc'[q] = pc[q] \/ (pc[q] \notin {"acquiring", "asking"} /\ pc'[q] # "asking")
      BY <1>2, <2>3
    <3> QED
      BY <1>2, <2>1, <2>2, <3>1, <3>2, MatchedPosted
  <2> QED
    BY <2>4 DEF MessagesMatch
<1>5. CASE CreateStaticGroup(p)
  <2> DEFINE msg == Msg("Create", p, Empty)
  <2>1. msg \in Message /\ msg.type = "Create"
    BY EmptyIs, MsgIs
  <2>2. Posted(Pods, msg)
    BY <1>5 DEF CreateStaticGroup, Posted
  <2>3. pc[p] = "released"
    BY <1>5 DEF CreateStaticGroup
  <2> HIDE DEF msg
  <2>4. ASSUME NEW q \in Pods PROVE Matched(q)'
    <3>1. pc'[q] = pc[q] \/ (pc[q] \notin {"acquiring", "asking"} /\ pc'[q] # "asking")
      BY <1>2, <2>3
    <3> QED
      BY <1>2, <2>1, <2>2, <3>1, MatchedPosted
  <2> QED
    BY <2>4 DEF MessagesMatch
<1>6. CASE ~ReleaseWrite(p) /\ ~CreateStaticGroup(p)
  <2>1. inbox' = inbox
    BY <1>6 DEF Proceed, AcquireWrite, Join, RefuseJoin, Leave, AllJoined, AwaitUpdate, Get
  <2>2. ASSUME NEW q \in Pods, q # p PROVE Matched(q)'
    BY <1>2, <1>3, <2>1, <2>2, MatchedStill
  <2>3. Matched(p)'
    BY <1>1, <1>2, <1>3, <2>1, MatchedIdle
  <2> QED
    BY <2>2, <2>3 DEF MessagesMatch
<1> QED
  BY <1>4, <1>5, <1>6

LEMMA MatchedGive ==
    ASSUME TypeInv, OneToken, PlacesMatch, MessagesMatch, NEW p \in Pods, NEW q \in Pods,
           Give(p, q)
    PROVE  MessagesMatch'
<1> DEFINE msg == Msg("Token", p, replica[p])
<1>1. msg \in Message /\ msg.type = "Token"
  BY MsgIs DEF TypeInv
<1>2. Posted({q}, msg) /\ holders' = {}
  BY TokenGiven
<1> HIDE DEF msg
<1>3. UNCHANGED <<pc, valid, asked>> /\ pc[q] = "acquiring"
  BY DEF Give, agents, copies
<1>4. ASSUME NEW r \in Pods, r # q PROVE Matched(r)'
  <2>1. inbox'[r] = inbox[r]
    BY <1>2, <1>4 DEF Posted
  <2> QED
    BY <1>2, <1>3, <2>1, MatchedStill DEF MessagesMatch
<1>5. Matched(q)'
  <2>1. /\ Len(inbox[q]) \in Nat /\ DOMAIN inbox[q] = 1 .. Len(inbox[q])
        /\ DOMAIN inbox'[q] = 1 .. Len(inbox'[q])
        /\ Len(inbox'[q]) = IF q \in {q} THEN Len(inbox[q]) + 1 ELSE Len(inbox[q])
        /\ \A i \in 1 .. Len(inbox[q]) : inbox'[q][i] = inbox[q][i]
        /\ q \in {q} => inbox'[q][Len(inbox[q]) + 1] = msg
    BY <1>1, <1>2, PostedIs
  <2>2. Matched(q) /\ TokenMessages(q) = {}
    BY DEF MessagesMatch, OneToken, Give
  <2>3. \A i \in TokenMessages(q)' : i = Len(inbox[q]) + 1
    BY <2>1, <2>2 DEF TokenMessages
  <2>4. \A i \in DOMAIN inbox'[q] :
           inbox'[q][i].type = "Update" => i \in DOMAIN inbox[q] /\ inbox[q][i].type = "Update"
    BY <1>1, <2>1
  <2>5. \A i \in DOMAIN inbox[q] : inbox[q][i].type # "Update"
    BY <1>3, <2>2 DEF Matched
  <2>6. q \notin asked
    BY <1>3, <2>2 DEF Matched
  <2> QED
    BY <1>2, <1>3, <2>1, <2>3, <2>4, <2>5, <2>6 DEF Matched
<1> QED
  BY <1>4, <1>5 DEF MessagesMatch

LEMMA MatchedReply ==
    ASSUME TypeInv, OneToken, MessagesMatch, NEW p \in Pods, NEW q \in Pods, ReplyOnce(p, q)
    PROVE  MessagesMatch' /\ Posted({q}, Msg("Update", p, replica[p]))
<1> DEFINE msg == Msg("Update", p, replica[p])
<1>1. msg \in Message /\ msg.type = "Update"
  BY MsgIs DEF TypeInv
<1>2. Posted({q}, msg)
  BY DEF Posted, ReplyOnce, Send, TypeInv
<1> HIDE DEF msg
<1>3. UNCHANGED <<pc, valid, holders>> /\ q \in asked /\ asked' = asked \ {q}
  BY DEF ReplyOnce, agents, token
<1>4. ASSUME NEW r \in Pods, r # q PROVE Matched(r)'
  <2>1. inbox'[r] = inbox[r]
    BY <1>2, <1>4 DEF Posted
  <2> QED
    BY <1>3, <1>4, <2>1, MatchedStill DEF MessagesMatch
<1>5. Matched(q)'
  <2>1. /\ Len(inbox[q]) \in Nat /\ DOMAIN inbox[q] = 1 .. Len(inbox[q])
        /\ DOMAIN inbox'[q] = 1 .. Len(inbox'[q])
        /\ Len(inbox'[q]) = IF q \in {q} THEN Len(inbox[q]) + 1 ELSE Len(inbox[q])
        /\ \A i \in 1 .. Len(inbox[q]) : inbox'[q][i] = inbox[q][i]
        /\ q \in {q} => inbox'[q][Len(inbox[q]) + 1] = msg
    BY <1>1, <1>2, PostedIs
  <2>2. Matched(q)
    BY DEF MessagesMatch
  <2>3. pc[q] = "asking" /\ q \notin valid /\ q \notin holders /\ TokenMessages(q) = {}
    BY <1>3, <2>2 DEF Matched
  <2>4. \A i \in DOMAIN inbox[q] : inbox[q][i].type # "Update"
    BY <1>3, <2>2 DEF Matched, Has
  <2>5. TokenMessages(q)' = {}
    <3>1. \A i \in DOMAIN inbox'[q] : inbox'[q][i].type # "Token"
      BY <1>1, <2>1, <2>3 DEF TokenMessages
    <3> QED
      BY <3>1 DEF TokenMessages
  <2>6. \A i \in DOMAIN inbox'[q] : inbox'[q][i].type = "Update" => i = Len(inbox[q]) + 1
    BY <2>1, <2>4
  <2> QED
    BY <1>3, <2>3, <2>5, <2>6 DEF Matched
<1> QED
  BY <1>2, <1>4, <1>5 DEF MessagesMatch, msg

LEMMA MatchedHandle ==
    ASSUME TypeInv, OneToken, MessagesMatch, NEW p \in Pods, HandleFirst(p)
    PROVE  MessagesMatch'
<1>1. /\ Len(inbox[p]) \in Nat /\ DOMAIN inbox[p] = 1 .. Len(inbox[p])
      /\ 1 \in DOMAIN inbox[p] /\ inbox[p][1] \in Message /\ Head(inbox[p]) = inbox[p][1]
      /\ DOMAIN inbox'[p] = 1 .. Len(inbox[p]) - 1
      /\ \A i \in 1 .. Len(inbox[p]) - 1 : inbox'[p][i] = inbox[p][i + 1]
      /\ \A q \in Pods : q # p => inbox'[q] = inbox[q]
  BY HandledIs
<1>2. Matched(p) /\ UNCHANGED <<pc, asked>>
  BY DEF MessagesMatch, HandleFirst, agents, AcquireTokenUpdate, Update, Invalidate,
         HandleCreateStaticGroup, copies
<1>3. \A i \in DOMAIN inbox'[p] :
         i \in Nat /\ i + 1 \in DOMAIN inbox[p] /\ i > 0 /\ inbox'[p][i] = inbox[p][i + 1]
  BY <1>1
<1>4. /\ \A type : Has(inbox'[p], type) => Has(inbox[p], type)
      /\ \A i \in TokenMessages(p)' : i + 1 \in TokenMessages(p)
  BY <1>3 DEF Has, TokenMessages
<1>5. ASSUME NEW q \in Pods, q # p PROVE Matched(q)'
  <2>1. (q \in valid' <=> q \in valid) /\ (q \in holders' => q \in holders)
    BY <1>1, <1>5 DEF HandleFirst, AcquireTokenUpdate, Update, Invalidate,
                      HandleCreateStaticGroup, copies, token, WT!Take
  <2> QED
    BY <1>1, <1>2, <1>5, <2>1, MatchedStill DEF MessagesMatch
<1>6. CASE inbox[p][1].type = "Token"
  <2>1. holders' = {p} /\ valid' = valid \cup {p}
    BY <1>1, <1>6 DEF HandleFirst, AcquireTokenUpdate, Update, Invalidate,
                      HandleCreateStaticGroup, WT!Take
  <2>2. 1 \in TokenMessages(p)
    BY <1>1, <1>6 DEF TokenMessages
  <2>3. pc[p] = "acquiring" /\ \A j \in DOMAIN inbox[p] : j > 1 => inbox[p][j].type # "Invalidate"
    BY <1>2, <2>2 DEF Matched
  <2>4. ~Has(inbox'[p], "Invalidate")
    BY <1>3, <2>3 DEF Has
  <2>5. TokenMessages(p)' = {}
    <3>1. \A i \in TokenMessages(p) : i = 1
      BY <2>2 DEF OneToken
    <3>2. \A i \in TokenMessages(p)' : i \in Nat \ {0}
      BY <1>3 DEF TokenMessages
    <3> QED
      BY <1>4, <3>1, <3>2
  <2>6. p \notin asked
    BY <1>2, <2>3 DEF Matched
  <2>7. \A i \in DOMAIN inbox'[p] : inbox'[p][i].type # "Update"
    BY <1>2, <1>3, <2>3 DEF Matched
  <2> QED
    BY <1>2, <1>5, <2>1, <2>3, <2>4, <2>5, <2>6, <2>7 DEF Matched, MessagesMatch
<1>7. CASE inbox[p][1].type = "Update"
  <2>1. holders' = holders /\ valid' = valid \cup {p}
    BY <1>1, <1>7 DEF HandleFirst, AcquireTokenUpdate, Update, Invalidate,
                      HandleCreateStaticGroup, token
  <2>2. pc[p] = "asking" /\ \A j \in DOMAIN inbox[p] : inbox[p][j].type = "Update" => j = 1
    BY <1>1, <1>2, <1>7 DEF Matched
  <2>3. p \notin holders /\ TokenMessages(p)' = {} /\ p \notin asked
    BY <1>1, <1>2, <1>4, <1>7, <2>2 DEF Matched, Has
  <2>4. \A i \in DOMAIN inbox'[p] : inbox'[p][i].type # "Update"
    BY <1>3, <2>2
  <2> QED
    BY <1>2, <1>5, <2>1, <2>3, <2>4 DEF Matched, MessagesMatch
<1>8. CASE inbox[p][1].type \notin {"Token", "Update"}
  <2>1. holders' = holders /\ (p \in valid' => p \in valid)
    BY <1>1, <1>8 DEF HandleFirst, AcquireTokenUpdate, Update, Invalidate,
                      HandleCreateStaticGroup, token, copies
  <2>2. p \in valid /\ p \notin valid' => Has(inbox[p], "Invalidate")
    BY <1>1, <1>8 DEF HandleFirst, AcquireTokenUpdate, Update, Invalidate,
                      HandleCreateStaticGroup, copies, Has
  <2>3. p \in holders' => p \in valid' /\ pc'[p] # "asking" /\ ~Has(inbox'[p], "Invalidate")
    BY <1>2, <1>4, <2>1, <2>2 DEF Matched
  <2>4. ASSUME NEW i \in TokenMessages(p)'
        PROVE  /\ pc'[p] = "acquiring"
               /\ \A j \in DOMAIN inbox'[p] : j > i => inbox'[p][j].type # "Invalidate"
    <3>1. i + 1 \in TokenMessages(p) /\ i \in Nat
      BY <1>3, <1>4, <2>4 DEF TokenMessages
    <3>2. \A j \in DOMAIN inbox[p] : j > i + 1 => inbox[p][j].type # "Invalidate"
      BY <1>2, <3>1 DEF Matched
    <3> QED
      BY <1>2, <1>3, <3>1, <3>2 DEF Matched
  <2>5. p \in asked' => pc'[p] = "asking" /\ p \notin valid' /\ ~Has(inbox'[p], "Update")
    BY <1>2, <1>4, <2>1 DEF Matched
  <2>6. \A i, j \in DOMAIN inbox'[p] :
           inbox'[p][i].type = "Update" /\ inbox'[p][j].type = "Update" =>
               i = j /\ pc'[p] = "asking" /\ p \notin valid'
    BY <1>2, <1>3, <2>1 DEF Matched
  <2> QED
    BY <1>5, <2>3, <2>4, <2>5, <2>6 DEF Matched, MessagesMatch
<1> QED
  BY <1>6, <1>7, <1>8

\* Of all that agents do, only Join and Leave change the table that counts.
LEMMA TokenProceeds ==
    ASSUME TypeInv, OneToken, PlacesMatch, NEW p \in Pods, Call(p) \/ Proceed(p)
    PROVE  /\ OneToken' /\ holders' = holders /\ SameTokens
           /\ Join(p) \/ Leave(p) =>
                  /\ p \in holders /\ Current = replica[p] /\ Current' = replica'[p]
                  /\ inbox' = inbox /\ \A q \in Pods : q # p => replica'[q] = replica[q]
           /\ ~Join(p) /\ ~Leave(p) => Current' = Current /\ replica' = replica
<1>1. holders' = holders
  BY DEF Call, CallUpdate, CallQuery, Proceed, AcquireWrite, Join, RefuseJoin, Leave,
         ReleaseWrite, CreateStaticGroup, AllJoined, AwaitUpdate, Get, token,
         WT!StartWriting, WT!StopWriting
<1>2. busy' \subseteq holders
  <2>1. CASE AcquireWrite(p)
    BY <2>1 DEF AcquireWrite, WT!StartWriting, OneToken
  <2>2. CASE ~AcquireWrite(p)
    <3>1. busy' \subseteq busy
      BY <2>2 DEF Call, CallUpdate, CallQuery, Proceed, Join, RefuseJoin, Leave,
         ReleaseWrite, CreateStaticGroup, AllJoined, AwaitUpdate, Get, token, WT!StopWriting
    <3> QED
      BY <3>1 DEF OneToken
  <2> QED
    BY <2>1, <2>2
<1>3. SameTokens
  <2>1. CASE ReleaseWrite(p)
    <3> DEFINE msg == Msg("Invalidate", p, Empty)
    <3>1. msg \in Message /\ msg.type = "Invalidate"
      BY EmptyIs, MsgIs
    <3>2. Posted(Pods \ {p}, msg)
      BY <2>1 DEF ReleaseWrite, Posted
    <3> HIDE DEF msg
    <3> QED
      BY <3>1, <3>2, TokensPosted
  <2>2. CASE CreateStaticGroup(p)
    <3> DEFINE msg == Msg("Create", p, Empty)
    <3>1. msg \in Message /\ msg.type = "Create"
      BY EmptyIs, MsgIs
    <3>2. Posted(Pods, msg)
      BY <2>2 DEF CreateStaticGroup, Posted
    <3> HIDE DEF msg
    <3> QED
      BY <3>1, <3>2, TokensPosted
  <2>3. CASE ~ReleaseWrite(p) /\ ~CreateStaticGroup(p)
    <3>1. inbox' = inbox
      BY <2>3 DEF Call, CallUpdate, CallQuery, Proceed, AcquireWrite, Join, RefuseJoin, Leave,
         AllJoined, AwaitUpdate, Get
    <3> QED
      BY <3>1 DEF SameTokens, TokenMessages
  <2> QED
    BY <2>1, <2>2, <2>3
<1>4. OneToken'
  BY <1>1, <1>2, <1>3, TokenStays
<1>5. ASSUME Join(p) \/ Leave(p)
      PROVE  /\ p \in holders /\ Current = replica[p] /\ Current' = replica'[p]
             /\ inbox' = inbox /\ \A q \in Pods : q # p => replica'[q] = replica[q]
  <2>1. p \in holders
    BY <1>5 DEF Join, Leave, PlacesMatch, Placed, OneToken
  <2>2. Held /\ Held'
    BY <1>4, CurrentHeld, PTL
  <2>3. inbox' = inbox /\ \A q \in Pods : q # p => replica'[q] = replica[q]
    BY <1>5 DEF Join, Leave, TypeInv
  <2> QED
    BY <1>1, <2>1, <2>2, <2>3 DEF Held
<1>6. ASSUME ~Join(p), ~Leave(p)
      PROVE  Current' = Current /\ replica' = replica
  <2>1. replica' = replica
    BY <1>6 DEF Call, CallUpdate, CallQuery, Proceed, AcquireWrite, RefuseJoin,
         ReleaseWrite, CreateStaticGroup, AllJoined, AwaitUpdate, Get, copies
  <2> QED
    BY <1>1, <1>2, <1>3, <2>1, TokenStays
<1> QED
  BY <1>1, <1>3, <1>4, <1>5, <1>6

LEMMA TokenServed ==
    ASSUME TypeInv, OneToken, PlacesMatch, MessagesMatch, NEW p \in Pods, ServeInOrder(p)
    PROVE  OneToken' /\ Current' = Current
<1>1. CASE HandleFirst(p)
  BY <1>1, TokenHandled
<1>2. ASSUME NEW q \in Pods, Give(p, q) PROVE OneToken' /\ Current' = Current
  BY <1>2, TokenGiven
<1>3. ASSUME NEW q \in Pods, ReplyOnce(p, q) PROVE OneToken' /\ Current' = Current
  <2> DEFINE msg == Msg("Update", p, replica[p])
  <2>1. msg \in Message /\ msg.type = "Update"
    BY MsgIs DEF TypeInv
  <2>2. Posted({q}, msg)
    BY <1>3, MatchedReply
  <2> HIDE DEF msg
  <2>3. SameTokens
    BY <2>1, <2>2, TokensPosted
  <2>4. holders' = holders /\ busy' \subseteq holders /\ replica' = replica
    BY <1>3 DEF ReplyOnce, token, OneToken
  <2> QED
    BY <2>3, <2>4, TokenStays
<1> QED
  BY <1>1, <1>2, <1>3 DEF ServeInOrder

\* The invariant that tells where the token is, and which access each agent has.
Ordered == TypeInv /\ OneToken /\ PlacesMatch /\ MessagesMatch

LEMMA OrderedStep ==
    ASSUME Ordered, [NextInOrder]_vars
    PROVE  Ordered'
<1>1. CASE UNCHANGED vars
  <2>1. TypeInv'
    BY <1>1, TypeStep DEF Ordered
  <2>2. \A p \in Pods : TokenMessages(p)' = TokenMessages(p)
    BY <1>1 DEF vars, TokenMessages
  <2>3. OneToken'
    BY <1>1, <2>2 DEF Ordered, OneToken, vars, token
  <2>4. PlacesMatch'
    BY <1>1 DEF Ordered, PlacesMatch, Placed, vars, token, agents
  <2>5. MessagesMatch'
    BY <1>1, <2>2 DEF Ordered, MessagesMatch, Matched, vars, token, agents, copies
  <2> QED
    BY <2>1, <2>3, <2>4, <2>5 DEF Ordered
<1>2. ASSUME NEW p \in Pods, Call(p) \/ Proceed(p) PROVE Ordered'
  BY <1>2, AgentType, TokenProceeds, PlacesStep, MatchedCall, MatchedProceed DEF Ordered
<1>3. ASSUME NEW p \in Pods, ServeInOrder(p) PROVE Ordered'
  <2>1. MessagesMatch'
    BY <1>3, MatchedGive, MatchedReply, MatchedHandle DEF Ordered, ServeInOrder
  <2> QED
    BY <1>3, <2>1, IsServed, ServeType, TokenServed, PlacesStep DEF Ordered
<1> QED
  BY <1>1, <1>2, <1>3 DEF NextInOrder

------------------------------------------------------------------------------
(* No replica is ahead of the table that counts *)

LEMMA AheadPosted ==
    ASSUME TypeInv, NoneAhead, NEW to, NEW msg \in Message, Posted(to, msg),
           Carrier(msg) => msg.table.next <= Current.next,
           replica' = replica, Current' = Current
    PROVE  NoneAhead'
<1>1. ASSUME NEW p \in Pods, NEW i \in DOMAIN inbox'[p], Carrier(inbox'[p][i])
      PROVE  inbox'[p][i].table.next <= Current.next
  <2>1. /\ Len(inbox[p]) \in Nat /\ DOMAIN inbox[p] = 1 .. Len(inbox[p])
        /\ DOMAIN inbox'[p] = 1 .. Len(inbox'[p])
        /\ Len(inbox'[p]) = IF p \in to THEN Len(inbox[p]) + 1 ELSE Len(inbox[p])
        /\ \A j \in 1 .. Len(inbox[p]) : inbox'[p][j] = inbox[p][j]
        /\ p \in to => inbox'[p][Len(inbox[p]) + 1] = msg
    BY PostedIs
  <2>2. CASE i \in DOMAIN inbox[p]
    BY <1>1, <2>1, <2>2 DEF NoneAhead
  <2>3. CASE i \notin DOMAIN inbox[p]
    <3>1. inbox'[p][i] = msg
      BY <1>1, <2>1, <2>3
    <3> QED
      BY <1>1, <3>1
  <2> QED
    BY <2>2, <2>3
<1> QED
  BY <1>1 DEF NoneAhead

LEMMA AheadStep ==
    ASSUME Ordered, NoneAhead, [NextInOrder]_vars
    PROVE  NoneAhead'
<1>1. TypeInv /\ OneToken /\ PlacesMatch /\ MessagesMatch
  BY DEF Ordered
<1>2. CASE UNCHANGED vars
  <2>1. Current' = Current
    BY <1>2 DEF vars, token, copies, Current, TokenMessages
  <2> QED
    BY <1>2, <2>1 DEF NoneAhead, vars, copies
<1>3. ASSUME NEW p \in Pods, Call(p) \/ Proceed(p) PROVE NoneAhead'
  <2>1. CASE Join(p) \/ Leave(p)
    <3>1. /\ Current = replica[p] /\ Current' = replica'[p]
          /\ inbox' = inbox /\ \A q \in Pods : q # p => replica'[q] = replica[q]
      BY <1>1, <1>3, <2>1, TokenProceeds
    <3>2. replica[p] \in Table /\ replica[p].next \in Nat
      BY <1>1 DEF TypeInv, Table
    <3>3. replica'[p].next \in Nat /\ replica'[p].next >= replica[p].next
      <4>1. CASE Join(p)
        <5>1. call[p].name \in Names \cup {Unnamed}
          BY <1>1, <4>1, JoinNamed DEF Join
        <5>2. replica'[p] = Joined(replica[p], p, call[p].name)
          BY <1>1, <4>1 DEF Join, TypeInv
        <5> QED
          BY <3>2, <5>1, <5>2, JoinedIs
      <4>2. CASE Leave(p)
        BY <1>1, <3>2, <4>2 DEF Leave, TypeInv
      <4> QED
        BY <2>1, <4>1, <4>2
    <3>4. \A q \in Pods : replica[q].next \in Nat
      BY <1>1 DEF TypeInv, Table
    <3>5. \A q \in Pods : \A i \in DOMAIN inbox[q] : inbox[q][i].table.next \in Nat
      <4>1. ASSUME NEW q \in Pods, NEW i \in DOMAIN inbox[q]
            PROVE  inbox[q][i].table.next \in Nat
        <5>1. inbox[q] \in Seq(Message)
          BY <1>1 DEF TypeInv
        <5>2. inbox[q][i] \in Message
          BY <4>1, <5>1
        <5> QED
          BY <5>2 DEF Message, Table
      <4> QED
        BY <4>1
    <3>6. \A q \in Pods : replica'[q].next <= Current'.next
      <4>1. \A q \in Pods : q # p => replica'[q].next <= Current'.next
        BY <3>1, <3>3, <3>4 DEF NoneAhead
      <4> QED
        BY <3>1, <3>3, <4>1
    <3>7. \A q \in Pods : \A i \in DOMAIN inbox'[q] :
             Carrier(inbox'[q][i]) => inbox'[q][i].table.next <= Current'.next
      BY <3>1, <3>2, <3>3, <3>5 DEF NoneAhead
    <3> QED
      BY <3>6, <3>7 DEF NoneAhead
  <2>2. CASE ~Join(p) /\ ~Leave(p)
    <3>1. Current' = Current /\ replica' = replica
      BY <1>1, <1>3, <2>2, TokenProceeds
    <3>2. CASE ReleaseWrite(p)
      <4> DEFINE msg == Msg("Invalidate", p, Empty)
      <4>1. msg \in Message /\ ~Carrier(msg)
        BY EmptyIs, MsgIs DEF Carrier
      <4>2. Posted(Pods \ {p}, msg)
        BY <3>2 DEF ReleaseWrite, Posted
      <4> HIDE DEF msg
      <4> QED
        BY <1>1, <3>1, <4>1, <4>2, AheadPosted
    <3>3. CASE CreateStaticGroup(p)
      <4> DEFINE msg == Msg("Create", p, Empty)
      <4>1. msg \in Message /\ ~Carrier(msg)
        BY EmptyIs, MsgIs DEF Carrier
      <4>2. Posted(Pods, msg)
        BY <3>3 DEF CreateStaticGroup, Posted
      <4> HIDE DEF msg
      <4> QED
        BY <1>1, <3>1, <4>1, <4>2, AheadPosted
    <3>4. CASE ~ReleaseWrite(p) /\ ~CreateStaticGroup(p)
      <4>1. inbox' = inbox
        BY <1>3, <2>2, <3>4 DEF Call, CallUpdate, CallQuery, Proceed, AcquireWrite, RefuseJoin,
           AllJoined, AwaitUpdate, Get
      <4> QED
        BY <3>1, <4>1 DEF NoneAhead
    <3> QED
      BY <3>2, <3>3, <3>4
  <2> QED
    BY <2>1, <2>2
<1>4. ASSUME NEW p \in Pods, ServeInOrder(p) PROVE NoneAhead'
  <2>1. Current' = Current
    BY <1>1, <1>4, TokenServed
  <2>2. ASSUME NEW q \in Pods, Give(p, q) PROVE NoneAhead'
    <3> DEFINE msg == Msg("Token", p, replica[p])
    <3>1. msg \in Message /\ msg.table = replica[p]
      BY <1>1, MsgIs DEF TypeInv
    <3>2. Posted({q}, msg) /\ replica' = replica
      BY <1>1, <2>2, TokenGiven DEF Give, copies
    <3>3. msg.table.next <= Current.next
      BY <3>1 DEF NoneAhead
    <3> HIDE DEF msg
    <3> QED
      BY <1>1, <2>1, <3>1, <3>2, <3>3, AheadPosted
  <2>3. ASSUME NEW q \in Pods, ReplyOnce(p, q) PROVE NoneAhead'
    <3> DEFINE msg == Msg("Update", p, replica[p])
    <3>1. msg \in Message /\ msg.table = replica[p]
      BY <1>1, MsgIs DEF TypeInv
    <3>2. Posted({q}, msg) /\ replica' = replica
      BY <1>1, <2>3, MatchedReply DEF ReplyOnce
    <3>3. msg.table.next <= Current.next
      BY <3>1 DEF NoneAhead
    <3> HIDE DEF msg
    <3> QED
      BY <1>1, <2>1, <3>1, <3>2, <3>3, AheadPosted
  <2>4. CASE HandleFirst(p)
    <3>1. /\ Len(inbox[p]) \in Nat /\ DOMAIN inbox[p] = 1 .. Len(inbox[p])
          /\ 1 \in DOMAIN inbox[p] /\ inbox[p][1] \in Message /\ Head(inbox[p]) = inbox[p][1]
          /\ DOMAIN inbox'[p] = 1 .. Len(inbox[p]) - 1
          /\ \A i \in 1 .. Len(inbox[p]) - 1 : inbox'[p][i] = inbox[p][i + 1]
          /\ \A q \in Pods : q # p => inbox'[q] = inbox[q]
      BY <1>1, <2>4, HandledIs
    <3>2. \A i \in DOMAIN inbox'[p] : i + 1 \in DOMAIN inbox[p] /\ inbox'[p][i] = inbox[p][i + 1]
      BY <3>1
    <3>3. \A q \in Pods : \A i \in DOMAIN inbox'[q] :
             Carrier(inbox'[q][i]) => inbox'[q][i].table.next <= Current.next
      <4>1. ASSUME NEW i \in DOMAIN inbox'[p], Carrier(inbox'[p][i])
            PROVE  inbox'[p][i].table.next <= Current.next
        BY <3>2, <4>1 DEF NoneAhead
      <4>2. ASSUME NEW q \in Pods, q # p, NEW i \in DOMAIN inbox'[q], Carrier(inbox'[q][i])
            PROVE  inbox'[q][i].table.next <= Current.next
        BY <3>1, <4>2 DEF NoneAhead
      <4> QED
        BY <4>1, <4>2
    <3>4. /\ \A q \in Pods : q # p => replica'[q] = replica[q]
          /\ \/ replica'[p] = replica[p]
             \/ Carrier(inbox[p][1]) /\ replica'[p] = inbox[p][1].table
      BY <1>1, <2>4, <3>1 DEF HandleFirst, AcquireTokenUpdate, Update, Invalidate,
                              HandleCreateStaticGroup, copies, TypeInv, Carrier
    <3>5. \A q \in Pods : replica'[q].next <= Current.next
      BY <3>1, <3>4 DEF NoneAhead
    <3> QED
      BY <2>1, <3>3, <3>5 DEF NoneAhead
  <2> QED
    BY <1>4, <2>2, <2>3, <2>4 DEF ServeInOrder
<1> QED
  BY <1>2, <1>3, <1>4 DEF NextInOrder

------------------------------------------------------------------------------
(* The joins of a closure *)

LEMMA ToldPosted ==
    ASSUME TypeInv, NEW to, NEW msg \in Message, Posted(to, msg), entered' = entered,
           NEW p \in Pods, NEW q \in Pods
    PROVE  ToldOf(p, q)' <=> \/ ToldOf(p, q)
                             \/ p \in to /\ msg.type = "Create" /\ msg.from = q
<1>1. /\ Len(inbox[p]) \in Nat /\ DOMAIN inbox[p] = 1 .. Len(inbox[p])
      /\ DOMAIN inbox'[p] = 1 .. Len(inbox'[p])
      /\ Len(inbox'[p]) = IF p \in to THEN Len(inbox[p]) + 1 ELSE Len(inbox[p])
      /\ \A j \in 1 .. Len(inbox[p]) : inbox'[p][j] = inbox[p][j]
      /\ p \in to => inbox'[p][Len(inbox[p]) + 1] = msg
  BY PostedIs
<1>2. ASSUME ToldOf(p, q)' PROVE ToldOf(p, q) \/ (p \in to /\ msg.type = "Create" /\ msg.from = q)
  BY <1>1, <1>2 DEF ToldOf
<1>3. ASSUME ToldOf(p, q) PROVE ToldOf(p, q)'
  BY <1>1, <1>3 DEF ToldOf
<1>4. ASSUME p \in to, msg.type = "Create", msg.from = q PROVE ToldOf(p, q)'
  <2>1. Len(inbox[p]) + 1 \in DOMAIN inbox'[p]
    BY <1>1, <1>4
  <2> QED
    BY <1>1, <1>4, <2>1 DEF ToldOf
<1> QED
  BY <1>2, <1>3, <1>4

LEMMA ToldHandled ==
    ASSUME TypeInv, NEW r \in Pods, HandleFirst(r), NEW p \in Pods, NEW q \in Pods
    PROVE  ToldOf(p, q)' <=> ToldOf(p, q)
<1>1. /\ Len(inbox[r]) \in Nat /\ DOMAIN inbox[r] = 1 .. Len(inbox[r])
      /\ 1 \in DOMAIN inbox[r] /\ inbox[r][1] \in Message /\ Head(inbox[r]) = inbox[r][1]
      /\ DOMAIN inbox'[r] = 1 .. Len(inbox[r]) - 1
      /\ \A i \in 1 .. Len(inbox[r]) - 1 : inbox'[r][i] = inbox[r][i + 1]
      /\ \A s \in Pods : s # r => inbox'[s] = inbox[s]
  BY HandledIs
<1>2. /\ \A s \in Pods : s # r => entered'[s] = entered[s]
      /\ entered'[r] = IF inbox[r][1].type = "Create" THEN entered[r] \cup {inbox[r][1].from}
                       ELSE entered[r]
  BY <1>1 DEF HandleFirst, AcquireTokenUpdate, Update, Invalidate, HandleCreateStaticGroup,
              copies, TypeInv, TypeOK
<1>3. CASE p # r
  BY <1>1, <1>2, <1>3 DEF ToldOf
<1>4. CASE p = r
  <2>1. ASSUME ToldOf(p, q)' PROVE ToldOf(p, q)
    <3>1. CASE q \in entered'[p]
      BY <1>1, <1>2, <1>4, <3>1 DEF ToldOf
    <3>2. CASE q \notin entered'[p]
      <4>1. PICK i \in DOMAIN inbox'[p] : inbox'[p][i].type = "Create" /\ inbox'[p][i].from = q
        BY <2>1, <3>2 DEF ToldOf
      <4>2. \A j \in DOMAIN inbox'[r] : j + 1 \in DOMAIN inbox[r] /\ inbox'[r][j] = inbox[r][j + 1]
        BY <1>1
      <4>3. i + 1 \in DOMAIN inbox[p] /\ inbox'[p][i] = inbox[p][i + 1]
        BY <1>4, <4>1, <4>2
      <4> QED
        BY <4>1, <4>3 DEF ToldOf
    <3> QED
      BY <3>1, <3>2
  <2>2. ASSUME ToldOf(p, q) PROVE ToldOf(p, q)'
    <3>1. CASE q \in entered[p]
      BY <1>2, <1>4, <3>1 DEF ToldOf
    <3>2. CASE q \notin entered[p]
      <4>1. PICK i \in DOMAIN inbox[p] : inbox[p][i].type = "Create" /\ inbox[p][i].from = q
        BY <2>2, <3>2 DEF ToldOf
      <4>2. CASE i = 1
        BY <1>2, <1>4, <4>1, <4>2 DEF ToldOf
      <4>3. CASE i # 1
        <5>1. i - 1 \in DOMAIN inbox'[p] /\ (i - 1) + 1 = i
          BY <1>1, <1>4, <4>1, <4>3
        <5>2. inbox'[p][i - 1] = inbox[p][i]
          BY <1>1, <1>4, <5>1
        <5> QED
          BY <4>1, <5>1, <5>2 DEF ToldOf
      <4> QED
        BY <4>2, <4>3
    <3> QED
      BY <3>1, <3>2
  <2> QED
    BY <2>1, <2>2
<1> QED
  BY <1>3, <1>4

LEMMA AnnouncedStep ==
    ASSUME Ordered, NEW p \in Pods, Call(p) \/ Proceed(p) \/ ServeInOrder(p)
    PROVE  Announced' = IF CreateStaticGroup(p) THEN Announced \cup {p} ELSE Announced
<1>1. TypeInv /\ OneToken /\ PlacesMatch /\ MessagesMatch
  BY DEF Ordered
<1>2. CASE CreateStaticGroup(p)
  <2> DEFINE msg == Msg("Create", p, Empty)
  <2>1. msg \in Message /\ msg.type = "Create" /\ msg.from = p
    BY EmptyIs, MsgIs
  <2>2. Posted(Pods, msg) /\ entered' = entered
    BY <1>2 DEF CreateStaticGroup, Posted
  <2> HIDE DEF msg
  <2>3. \A r, q \in Pods : ToldOf(r, q)' <=> ToldOf(r, q) \/ q = p
    BY <1>1, <2>1, <2>2, ToldPosted
  <2>4. Announced' = Announced \cup {p}
    BY <2>3 DEF Announced
  <2> QED
    BY <1>2, <2>4
<1>3. CASE ~CreateStaticGroup(p)
  <2>1. (\A r, q \in Pods : ToldOf(r, q)' <=> ToldOf(r, q)) => Announced' = Announced
    BY DEF Announced
  <2>2. ASSUME NEW to, NEW msg \in Message, msg.type # "Create", Posted(to, msg), entered' = entered
        PROVE  Announced' = Announced
    <3>1. \A r, q \in Pods : ToldOf(r, q)' <=> ToldOf(r, q)
      BY <1>1, <2>2, ToldPosted
    <3> QED
      BY <2>1, <3>1
  <2>3. CASE HandleFirst(p)
    <3>1. \A r, q \in Pods : ToldOf(r, q)' <=> ToldOf(r, q)
      BY <1>1, <2>3, ToldHandled
    <3> QED
      BY <1>3, <2>1, <3>1
  <2>4. ASSUME NEW q \in Pods, Give(p, q) PROVE Announced' = Announced
    <3>1. Posted({q}, Msg("Token", p, replica[p])) /\ entered' = entered
      BY <1>1, <2>4, TokenGiven DEF Give
    <3>2. /\ Msg("Token", p, replica[p]) \in Message
          /\ Msg("Token", p, replica[p]).type # "Create"
      BY <1>1, MsgIs DEF TypeInv
    <3> QED
      BY <2>2, <3>1, <3>2
  <2>5. ASSUME NEW q \in Pods, ReplyOnce(p, q) PROVE Announced' = Announced
    <3>1. Posted({q}, Msg("Update", p, replica[p])) /\ entered' = entered
      BY <1>1, <2>5, MatchedReply DEF ReplyOnce
    <3>2. /\ Msg("Update", p, replica[p]) \in Message
          /\ Msg("Update", p, replica[p]).type # "Create"
      BY <1>1, MsgIs DEF TypeInv
    <3> QED
      BY <2>2, <3>1, <3>2
  <2>6. CASE ReleaseWrite(p)
    <3>1. Posted(Pods \ {p}, Msg("Invalidate", p, Empty)) /\ entered' = entered
      BY <2>6 DEF ReleaseWrite, Posted
    <3>2. Msg("Invalidate", p, Empty) \in Message /\ Msg("Invalidate", p, Empty).type # "Create"
      BY EmptyIs, MsgIs
    <3> QED
      BY <1>3, <2>2, <3>1, <3>2
  <2>7. CASE (Call(p) \/ Proceed(p)) /\ ~ReleaseWrite(p)
    <3>1. UNCHANGED <<inbox, entered>>
      BY <1>3, <2>7 DEF Call, CallUpdate, CallQuery, Proceed, AcquireWrite, Join, RefuseJoin,
            Leave, AllJoined, AwaitUpdate, Get
    <3> QED
      BY <1>3, <2>1, <3>1 DEF ToldOf
  <2> QED
    BY <1>3, <2>3, <2>4, <2>5, <2>6, <2>7 DEF ServeInOrder
<1> QED
  BY <1>2, <1>3

\* JoinsOnce for one agent.
Once(q) ==
    /\ q \in Announced =>
          /\ static /\ calls[q] > 0
          /\ pc[q] \in {"acquiring", "writing", "wrote", "released"} => call[q].op # "Join"
    /\ pc[q] = "joining" => q \in Announced

LEMMA OnceIs == JoinsOnce <=> \A q \in Pods : Once(q)
<1>1. Announced \subseteq Pods
  BY DEF Announced
<1> QED
  BY <1>1 DEF JoinsOnce, Once

LEMMA JoinsOnceStep ==
    ASSUME Ordered, JoinsOnce, [NextInOrder]_vars
    PROVE  JoinsOnce'
<1>1. TypeInv /\ PlacesMatch
  BY DEF Ordered
<1>2. /\ DOMAIN call = Pods /\ pc \in [Pods -> Places]
      /\ calls \in [Pods -> 0 .. MaxCalls] /\ MaxCalls \in Nat
  BY <1>1, OrganizerAssumption DEF TypeInv, TypeOK
<1>3. \A q \in Pods : Once(q)
  BY OnceIs
<1>4. (\A q \in Pods : Once(q)') => JoinsOnce'
  <2>1. (JoinsOnce <=> \A q \in Pods : Once(q))'
    BY OnceIs, PTL
  <2> QED
    BY <2>1
<1>5. CASE UNCHANGED vars
  BY <1>5 DEF JoinsOnce, Announced, ToldOf, vars, agents
<1>6. ASSUME NEW p \in Pods, ServeInOrder(p) PROVE JoinsOnce'
  <2>1. UNCHANGED <<static, agents>>
    BY <1>6 DEF ServeInOrder, HandleFirst, Give, ReplyOnce
  <2>2. ~CreateStaticGroup(p) \/ pc[p] = "released"
    BY DEF CreateStaticGroup
  <2>3. ~CreateStaticGroup(p)
    <3>1. CASE CreateStaticGroup(p)
      <4>1. pc'[p] = "joining" /\ pc[p] = "released"
        BY <1>2, <3>1 DEF CreateStaticGroup, Goto
      <4> QED
        BY <2>1, <4>1 DEF agents
    <3> QED
      BY <3>1
  <2>4. Announced' = Announced
    BY <1>6, <2>3, AnnouncedStep
  <2> QED
    BY <2>1, <2>4 DEF JoinsOnce, agents
<1>7. ASSUME NEW p \in Pods, NEW c \in Calls[p], CallUpdate(p, c) \/ CallQuery(p, c)
      PROVE  JoinsOnce'
  <2>1. /\ static' = static /\ ~CreateStaticGroup(p)
        /\ \A q \in Pods : q # p => pc'[q] = pc[q] /\ call'[q] = call[q] /\ calls'[q] = calls[q]
    BY <1>2, <1>7 DEF CallUpdate, CallQuery, Start, CreateStaticGroup
  <2>2. Announced' = Announced
    BY <1>7, <2>1, AnnouncedStep DEF Call
  <2>3. /\ calls'[p] = calls[p] + 1 /\ call'[p] = c
        /\ pc'[p] \in {"acquiring", "reading", "asking"}
        /\ pc'[p] = "acquiring" => (static /\ c.op = "Join" => calls[p] = 0)
    BY <1>2, <1>7 DEF CallUpdate, CallQuery, Start
  <2>4. calls'[p] > 0 /\ (calls[p] > 0 => calls[p] # 0)
    BY <1>2, <2>3
  <2>5. Once(p)'
    BY <1>3, <2>1, <2>2, <2>3, <2>4 DEF Once
  <2>6. ASSUME NEW q \in Pods, q # p PROVE Once(q)'
    BY <1>3, <2>1, <2>2, <2>6 DEF Once
  <2> QED
    BY <1>4, <2>5, <2>6
<1>8. ASSUME NEW p \in Pods, Proceed(p) PROVE JoinsOnce'
  <2>1. /\ static' = static /\ calls' = calls
        /\ \A q \in Pods : q # p => pc'[q] = pc[q] /\ call'[q] = call[q]
    BY <1>2, <1>8 DEF Proceed, AcquireWrite, Join, RefuseJoin, Leave, ReleaseWrite,
            CreateStaticGroup, AllJoined, AwaitUpdate, Get, Goto
  <2>2. CASE CreateStaticGroup(p)
    <3>1. Announced' = Announced \cup {p}
      BY <1>8, <2>2, AnnouncedStep
    <3>2. pc[p] = "released" /\ pc'[p] = "joining"
      BY <1>2, <2>2 DEF CreateStaticGroup, Goto
    <3>3. static /\ calls[p] > 0
      BY <1>1, <1>2, <3>2 DEF PlacesMatch, Placed
    <3>4. Once(p)'
      BY <2>1, <3>1, <3>2, <3>3 DEF Once
    <3>5. ASSUME NEW q \in Pods, q # p PROVE Once(q)'
      BY <1>3, <2>1, <3>1, <3>5 DEF Once
    <3> QED
      BY <1>4, <3>4, <3>5
  <2>3. CASE ~CreateStaticGroup(p)
    <3>1. Announced' = Announced
      BY <1>8, <2>3, AnnouncedStep
    <3>2. /\ pc'[p] # "joining"
          /\ pc'[p] \in {"acquiring", "writing", "wrote", "released"} =>
                /\ pc[p] \in {"acquiring", "writing", "wrote", "released"}
                /\ call'[p] = call[p]
      <4>1. CASE AcquireWrite(p)
        BY <1>2, <4>1 DEF AcquireWrite, Goto, Ended
      <4>2. CASE Join(p)
        BY <1>2, <4>2 DEF Join
      <4>3. CASE Leave(p)
        BY <1>2, <4>3 DEF Leave, Goto, Ended
      <4>4. CASE ReleaseWrite(p)
        BY <1>2, <4>4 DEF ReleaseWrite, Goto, Ended
      <4>5. CASE RefuseJoin(p) \/ AllJoined(p) \/ AwaitUpdate(p) \/ Get(p)
        BY <1>2, <4>5 DEF RefuseJoin, AllJoined, AwaitUpdate, Get, Goto
      <4> QED
        BY <1>8, <2>3, <4>1, <4>2, <4>3, <4>4, <4>5 DEF Proceed
    <3>3. Once(p)'
      BY <1>3, <2>1, <3>1, <3>2 DEF Once
    <3>4. ASSUME NEW q \in Pods, q # p PROVE Once(q)'
      BY <1>3, <2>1, <3>1, <3>4 DEF Once
    <3> QED
      BY <1>4, <3>3, <3>4
  <2> QED
    BY <2>2, <2>3
<1> QED
  BY <1>5, <1>6, <1>7, <1>8 DEF NextInOrder, Call

\* Join adds its agent, which was not there, to those whose join the table that
\* counts has in it; nothing else changes them.
LEMMA ThroughStep ==
    ASSUME Ordered, JoinsOnce, static, NEW p \in Pods, Call(p) \/ Proceed(p) \/ ServeInOrder(p)
    PROVE  IF Join(p) THEN p \notin Through /\ Through' = Through \cup {p}
           ELSE Through' = Through
<1>1. TypeInv /\ PlacesMatch
  BY DEF Ordered
<1>2. DOMAIN call = Pods /\ pc \in [Pods -> Places]
  BY <1>1 DEF TypeInv, TypeOK
<1>3. Announced' = IF CreateStaticGroup(p) THEN Announced \cup {p} ELSE Announced
  BY AnnouncedStep
<1>4. CASE ServeInOrder(p)
  <2>1. UNCHANGED agents
    BY <1>4 DEF ServeInOrder, HandleFirst, Give, ReplyOnce
  <2>2. ~CreateStaticGroup(p) /\ ~Join(p)
    BY <1>2, <2>1 DEF CreateStaticGroup, Join, Goto, agents
  <2> QED
    BY <1>3, <2>1, <2>2 DEF Through, Released, agents
<1>5. CASE Call(p)
  <2>1. /\ \A q \in Pods : q # p => pc'[q] = pc[q] /\ call'[q] = call[q]
        /\ pc[p] = "ready" /\ pc'[p] \in {"acquiring", "reading", "asking"}
    BY <1>2, <1>5 DEF Call, CallUpdate, CallQuery, Start
  <2>2. ~CreateStaticGroup(p) /\ ~Join(p)
    BY <2>1 DEF CreateStaticGroup, Join
  <2> QED
    BY <1>3, <2>1, <2>2 DEF Through, Released
<1>6. CASE Proceed(p)
  <2>1. \A q \in Pods : q # p => pc'[q] = pc[q] /\ call'[q] = call[q]
    BY <1>2, <1>6 DEF Proceed, AcquireWrite, Join, RefuseJoin, Leave, ReleaseWrite,
            CreateStaticGroup, AllJoined, AwaitUpdate, Get, Goto
  <2>2. CASE Join(p)
    <3>1. pc[p] = "writing" /\ pc'[p] = "wrote" /\ call[p].op = "Join" /\ call' = call
      BY <1>2, <2>2 DEF Join
    <3>2. p \notin Announced /\ ~CreateStaticGroup(p)
      BY <3>1 DEF JoinsOnce, CreateStaticGroup
    <3>3. p \notin Through
      BY <3>1, <3>2 DEF Through, Released
    <3>4. Through' = Through \cup {p}
      BY <1>3, <2>1, <3>1, <3>2 DEF Through, Released
    <3> QED
      BY <2>2, <3>3, <3>4
  <2>3. CASE CreateStaticGroup(p)
    <3>1. pc[p] = "released" /\ pc'[p] = "joining"
      BY <1>2, <2>3 DEF CreateStaticGroup, Goto
    <3>2. ~Join(p)
      BY <3>1 DEF Join
    <3> QED
      BY <1>3, <2>1, <2>3, <3>1, <3>2 DEF Through, Released
  <2>4. CASE ReleaseWrite(p)
    <3>1. pc[p] = "wrote" /\ pc'[p] = IF call[p].op = "Join" THEN "released" ELSE "ready"
      BY <1>2, <2>4 DEF ReleaseWrite, Goto
    <3>2. ~Join(p) /\ ~CreateStaticGroup(p)
      BY <3>1 DEF Join, CreateStaticGroup
    <3> QED
      BY <1>3, <2>1, <3>1, <3>2 DEF Through, Released
  <2>5. CASE ~Join(p) /\ ~CreateStaticGroup(p) /\ ~ReleaseWrite(p)
    <3>1. /\ pc[p] \notin {"released", "wrote"} /\ pc'[p] # "released"
          /\ pc'[p] = "wrote" => call'[p].op # "Join"
      <4>1. CASE Leave(p)
        BY <1>2, <4>1 DEF Leave, Goto, Ended
      <4>2. CASE AcquireWrite(p) \/ RefuseJoin(p) \/ AllJoined(p) \/ AwaitUpdate(p) \/ Get(p)
        BY <1>2, <4>2 DEF AcquireWrite, RefuseJoin, AllJoined, AwaitUpdate, Get, Goto
      <4> QED
        BY <1>6, <2>5, <4>1, <4>2 DEF Proceed
    <3> QED
      BY <1>3, <2>1, <2>5, <3>1 DEF Through, Released
  <2> QED
    BY <2>2, <2>3, <2>4, <2>5
<1> QED
  BY <1>4, <1>5, <1>6

LEMMA ThroughFinite ==
    Through \subseteq Pods /\ IsFiniteSet(Through) /\ Cardinality(Through) \in Nat
<1>1. Through \subseteq Pods
  BY DEF Through, Released, Announced
<1> QED
  BY <1>1, OrganizerAssumption, FS_Subset, FS_CardinalityType

LEMMA CurrentStep ==
    ASSUME Ordered, NEW p \in Pods, Call(p) \/ Proceed(p) \/ ServeInOrder(p)
    PROVE  /\ Current.next \in Nat
           /\ Current'.next = IF Join(p) THEN Current.next + 1 ELSE Current.next
           /\ Join(p) => rank'[p] = Current.next
<1>1. TypeInv /\ OneToken /\ PlacesMatch /\ MessagesMatch
  BY DEF Ordered
<1>2. Current \in Table /\ Current.next \in Nat
  <2>1. Current \in Table
    BY <1>1, CurrentIs
  <2> QED
    BY <2>1 DEF Table
<1>3. CASE ServeInOrder(p)
  <2>1. ~Join(p)
    BY <1>1, <1>3 DEF ServeInOrder, HandleFirst, Give, ReplyOnce, Join, agents, TypeInv, TypeOK
  <2> QED
    BY <1>1, <1>2, <1>3, <2>1, TokenServed
<1>4. CASE Call(p) \/ Proceed(p)
  <2>1. CASE Join(p)
    <3>1. call[p].name \in Names \cup {Unnamed}
      BY <1>1, <2>1, JoinNamed DEF Join
    <3>2. replica'[p] = Joined(replica[p], p, call[p].name) /\ rank'[p] = replica[p].next
      BY <1>1, <2>1 DEF Join, TypeInv, TypeOK
    <3>3. Current = replica[p] /\ Current' = replica'[p]
      BY <1>1, <1>4, <2>1, TokenProceeds
    <3> QED
      BY <1>2, <2>1, <3>1, <3>2, <3>3, JoinedIs
  <2>2. CASE Leave(p)
    <3>1. ~Join(p)
      BY <2>2 DEF Leave, Join
    <3>2. replica'[p].next = replica[p].next
      <4>1. replica[p] \in Table
        BY <1>1 DEF TypeInv
      <4> QED
        BY <1>1, <2>2, <4>1 DEF Leave, TypeInv, Table
    <3>3. Current = replica[p] /\ Current' = replica'[p]
      BY <1>1, <1>4, <2>2, TokenProceeds
    <3> QED
      BY <1>2, <3>1, <3>2, <3>3
  <2>3. CASE ~Join(p) /\ ~Leave(p)
    BY <1>1, <1>2, <1>4, <2>3, TokenProceeds
  <2> QED
    BY <2>1, <2>2, <2>3
<1> QED
  BY <1>3, <1>4

LEMMA JoinsCountedStep ==
    ASSUME Ordered, JoinsOnce, JoinsCounted, [NextInOrder]_vars
    PROVE  JoinsCounted'
<1>1. CASE UNCHANGED vars
  <2>1. Current' = Current
    BY <1>1 DEF vars, token, copies, Current, TokenMessages
  <2> QED
    BY <1>1, <2>1 DEF JoinsCounted, Through, Released, Announced, ToldOf, vars, agents
<1>2. ASSUME NEW p \in Pods, Call(p) \/ Proceed(p) \/ ServeInOrder(p), static' PROVE JoinsCounted'
  <2>1. static
    BY <1>2 DEF Call, CallUpdate, CallQuery, Proceed, AcquireWrite, Join, RefuseJoin, Leave,
       ReleaseWrite, CreateStaticGroup, AllJoined, AwaitUpdate, Get, ServeInOrder, HandleFirst, Give,
       ReplyOnce
  <2>2. Current.next = Cardinality(Through)
    BY <2>1 DEF JoinsCounted
  <2>3. Current'.next = IF Join(p) THEN Current.next + 1 ELSE Current.next
    BY <1>2, CurrentStep
  <2>4. IF Join(p) THEN p \notin Through /\ Through' = Through \cup {p} ELSE Through' = Through
    BY <1>2, <2>1, ThroughStep
  <2>5. CASE Join(p)
    <3>1. Cardinality(Through \cup {p}) = Cardinality(Through) + 1
      BY <2>4, <2>5, ThroughFinite, FS_AddElement
    <3> QED
      BY <2>2, <2>3, <2>4, <2>5, <3>1 DEF JoinsCounted
  <2>6. CASE ~Join(p)
    BY <2>2, <2>3, <2>4, <2>6 DEF JoinsCounted
  <2> QED
    BY <2>5, <2>6
<1> QED
  BY <1>1, <1>2 DEF NextInOrder, JoinsCounted

\* A first one has joined, so the table that counts has a member's join in it.
LEMMA FirstsThrough ==
    ASSUME Ordered, JoinsOnce, JoinsCounted, static, NEW q \in Firsts
    PROVE  Current.next # 0
<1>1. q \in Through
  BY DEF Firsts, Through, Released, JoinsOnce
<1>2. Cardinality(Through) # 0
  BY <1>1, ThroughFinite, FS_EmptySet
<1> QED
  BY <1>2 DEF JoinsCounted

LEMMA ParentToldStep ==
    ASSUME Ordered, JoinsOnce, JoinsCounted, ParentToldOnce, [NextInOrder]_vars
    PROVE  ParentToldOnce'
<1>1. TypeInv /\ PlacesMatch
  BY DEF Ordered
<1>2. DOMAIN call = Pods /\ pc \in [Pods -> Places] /\ rank \in [Pods -> Nat] /\ parent \in Nat
  BY <1>1 DEF TypeInv, TypeOK
<1>3. CASE UNCHANGED vars
  <2>1. Current' = Current
    BY <1>3 DEF vars, token, copies, Current, TokenMessages
  <2> QED
    BY <1>3, <2>1 DEF ParentToldOnce, Firsts, vars, agents
<1>4. ASSUME NEW p \in Pods, Call(p) \/ Proceed(p) \/ ServeInOrder(p), ~Join(p) PROVE ParentToldOnce'
  <2>1. Current'.next = Current.next
    BY <1>4, CurrentStep
  <2>2. static' = static
    BY <1>4 DEF Call, CallUpdate, CallQuery, Proceed, AcquireWrite, RefuseJoin, Leave,
       ReleaseWrite, CreateStaticGroup, AllJoined, AwaitUpdate, Get, ServeInOrder, HandleFirst, Give,
       ReplyOnce
  <2>3. Firsts' \subseteq Firsts
    <3>1. ASSUME NEW q \in Pods, q # p, q \in Firsts' PROVE q \in Firsts
      <4>1. pc'[q] = pc[q] /\ call'[q] = call[q] /\ rank'[q] = rank[q]
        BY <1>2, <1>4, <3>1 DEF Call, CallUpdate, CallQuery, Start, Proceed, AcquireWrite,
           RefuseJoin, Leave, ReleaseWrite, CreateStaticGroup, AllJoined, AwaitUpdate, Get, Goto,
           ServeInOrder, HandleFirst, Give, ReplyOnce, agents
      <4> QED
        BY <3>1, <4>1 DEF Firsts
    <3>2. ASSUME p \in Firsts' PROVE p \in Firsts
      <4>1. pc'[p] \in {"wrote", "released", "joining"} /\ call'[p].op = "Join" /\ rank'[p] = 0
        BY <3>2 DEF Firsts
      <4>2. CASE ServeInOrder(p)
        BY <4>1, <4>2 DEF Firsts, ServeInOrder, HandleFirst, Give, ReplyOnce, agents
      <4>3. CASE ReleaseWrite(p) \/ CreateStaticGroup(p)
        BY <1>2, <4>1, <4>3 DEF Firsts, ReleaseWrite, CreateStaticGroup, Goto, Ended
      <4>4. CASE Leave(p)
        BY <1>2, <4>1, <4>4 DEF Leave, Goto, Ended
      <4>5. CASE \/ Call(p) \/ AcquireWrite(p) \/ RefuseJoin(p) \/ AllJoined(p)
                 \/ AwaitUpdate(p) \/ Get(p)
        BY <1>2, <4>1, <4>5 DEF Call, CallUpdate, CallQuery, Start, AcquireWrite, RefuseJoin,
           AllJoined, AwaitUpdate, Get, Goto
      <4> QED
        BY <1>4, <4>2, <4>3, <4>4, <4>5 DEF Proceed
    <3> QED
      BY <3>1, <3>2 DEF Firsts
  <2>4. CASE AllJoined(p) /\ rank[p] = 0
    <3>1. p \in Firsts /\ static /\ parent' = parent + 1 /\ pc'[p] = "ready"
      BY <1>1, <1>2, <2>4 DEF AllJoined, Goto, Firsts, PlacesMatch, Placed
    <3>2. p \notin Firsts'
      BY <3>1 DEF Firsts
    <3>3. parent' = 1 /\ Firsts' = {}
      BY <1>2, <2>3, <3>1, <3>2 DEF ParentToldOnce
    <3>4. Current.next # 0
      BY <3>1, FirstsThrough
    <3> QED
      BY <2>1, <2>2, <3>1, <3>3, <3>4 DEF ParentToldOnce
  <2>5. CASE ~(AllJoined(p) /\ rank[p] = 0)
    <3>1. parent' = parent
      BY <1>4, <2>5 DEF Call, CallUpdate, CallQuery, Proceed, AcquireWrite, RefuseJoin, Leave,
       ReleaseWrite, CreateStaticGroup, AllJoined, AwaitUpdate, Get, ServeInOrder, HandleFirst, Give,
       ReplyOnce
    <3> QED
      BY <2>1, <2>2, <2>3, <3>1 DEF ParentToldOnce
  <2> QED
    BY <2>4, <2>5
<1>5. ASSUME NEW p \in Pods, Call(p) \/ Proceed(p) \/ ServeInOrder(p), Join(p) PROVE ParentToldOnce'
  <2>1. Current.next \in Nat /\ Current'.next = Current.next + 1 /\ rank'[p] = Current.next
    BY <1>5, CurrentStep
  <2>2. static' = static /\ parent' = parent
    BY <1>5 DEF Join
  <2>3. Firsts' = IF Current.next = 0 THEN Firsts \cup {p} ELSE Firsts
    <3>1. \A q \in Pods : q # p => (q \in Firsts' <=> q \in Firsts)
      BY <1>2, <1>5 DEF Join, Firsts
    <3>2. p \notin Firsts /\ (p \in Firsts' <=> Current.next = 0)
      BY <1>2, <1>5, <2>1 DEF Join, Firsts
    <3>3. Firsts \subseteq Pods /\ Firsts' \subseteq Pods
      BY DEF Firsts
    <3> QED
      BY <3>1, <3>2, <3>3
  <2>4. \A a, b \in Firsts' : static' => a = b
    <3>1. CASE static /\ Current.next = 0
      <4>1. Firsts = {}
        BY <3>1, FirstsThrough
      <4> QED
        BY <2>3, <4>1
    <3>2. CASE ~static \/ Current.next # 0
      BY <2>2, <2>3, <3>2 DEF ParentToldOnce
    <3> QED
      BY <3>1, <3>2
  <2>5. parent' # 0 => static' /\ parent' = 1 /\ Firsts' = {} /\ Current'.next # 0
    BY <2>1, <2>2, <2>3 DEF ParentToldOnce
  <2> QED
    BY <2>4, <2>5 DEF ParentToldOnce
<1> QED
  BY <1>3, <1>4, <1>5 DEF NextInOrder

------------------------------------------------------------------------------
(* No valid replica is older than what its pod was told *)

LEMMA KnowsAll ==
    ASSUME NEW box, NEW counted, NEW i, NEW joins \in Nat, NEW all \in Nat, joins >= all,
           \A k \in i .. Len(box) : /\ Cardinality(Heard(box, counted, k)) \in Nat
                                    /\ Cardinality(Heard(box, counted, k)) <= all
    PROVE  Knows(box, counted, i, joins, all)
BY DEF Knows

LEMMA KnowsMore ==
    ASSUME NEW box, NEW counted, NEW i, NEW joins \in Nat, NEW more \in Nat, NEW all \in Nat,
           more >= joins, Knows(box, counted, i, joins, all),
           \A k \in i .. Len(box) : Cardinality(Heard(box, counted, k)) \in Nat
    PROVE  Knows(box, counted, i, more, all)
BY DEF Knows

\* A message at the end of the inbox: an invalidation, or one that leaves all
\* joins as many as they were.
LEMMA KnowsAppended ==
    ASSUME NEW box \in Seq(Message), NEW msg \in Message, NEW counted,
           NEW i \in 0 .. Len(box), NEW joins \in Nat, NEW all \in Nat, NEW most \in Nat,
           Knows(box, counted, i, joins, all),
           msg.type = "Invalidate" \/ most = all,
           Cardinality(Heard(Append(box, msg), counted, Len(box) + 1)) \in Nat,
           Cardinality(Heard(Append(box, msg), counted, Len(box) + 1)) <= most
    PROVE  Knows(Append(box, msg), counted, i, joins, most)
<1> DEFINE long == Append(box, msg)
<1>1. /\ Len(box) \in Nat /\ Len(long) = Len(box) + 1
      /\ \A j \in 1 .. Len(box) : long[j] = box[j]
      /\ long[Len(box) + 1] = msg
  BY AppendIs
<1>2. /\ Cardinality(Heard(long, counted, Len(box) + 1)) \in Nat
      /\ Cardinality(Heard(long, counted, Len(box) + 1)) <= most
  OBVIOUS
<1> HIDE DEF long
<1>3. ASSUME NEW k \in i .. Len(box)
      PROVE  /\ Heard(long, counted, k) = Heard(box, counted, k)
             /\ Calm(long, i + 1, k) <=> Calm(box, i + 1, k)
  <2>1. \A j \in 1 .. k : long[j] = box[j]
    BY <1>1
  <2>2. \A j \in i + 1 .. k : long[j] = box[j]
    BY <2>1
  <2> QED
    BY <2>1, <2>2 DEF Heard, Calm
<1>4. ASSUME Calm(long, i + 1, Len(box) + 1)
      PROVE  joins >= most
  <2>1. msg.type # "Invalidate"
    BY <1>1, <1>4 DEF Calm
  <2>2. Calm(long, i + 1, Len(box))
    BY <1>1, <1>4 DEF Calm
  <2>3. Calm(box, i + 1, Len(box))
    BY <1>1, <1>3, <2>2
  <2> QED
    BY <2>1, <2>3 DEF Knows
<1>5. ASSUME NEW k \in i .. Len(long), Calm(long, i + 1, k)
      PROVE  joins >= Cardinality(Heard(long, counted, k))
  <2>1. CASE k \in i .. Len(box)
    BY <1>3, <1>5, <2>1 DEF Knows
  <2>2. CASE k = Len(box) + 1
    <3>1. joins >= most
      BY <1>4, <1>5, <2>2
    <3> QED
      BY <1>2, <2>2, <3>1
  <2> QED
    BY <1>1, <2>1, <2>2
<1>6. Knows(long, counted, i, joins, most)
  BY <1>1, <1>4, <1>5 DEF Knows
<1> QED
  BY <1>6 DEF long

\* A message taken from the inbox: what a pod hears is the same, later or now.
LEMMA KnowsHandled ==
    ASSUME NEW box \in Seq(Message), box # <<>>, NEW counted, NEW now,
           now = IF box[1].type = "Create" THEN counted \cup {box[1].from} ELSE counted,
           NEW i \in 0 .. Len(box), NEW joins \in Nat, NEW all \in Nat,
           Knows(box, counted, i, joins, all), i = 0 => box[1].type # "Invalidate"
    PROVE  Knows(Tail(box), now, IF i = 0 THEN 0 ELSE i - 1, joins, all)
<1> DEFINE rest == Tail(box)
<1>1. /\ Len(box) \in Nat /\ Len(box) > 0 /\ Len(rest) = Len(box) - 1
      /\ \A j \in 1 .. Len(box) - 1 : rest[j] = box[j + 1]
  BY TailIs
<1> HIDE DEF rest
<1>2. ASSUME NEW k \in 0 .. Len(rest)
      PROVE  Heard(rest, now, k) = Heard(box, counted, k + 1)
  <2>1. \A j \in 1 .. k : rest[j] = box[j + 1]
    BY <1>1
  <2>2. ASSUME NEW x \in Heard(rest, now, k) PROVE x \in Heard(box, counted, k + 1)
    <3>1. CASE x \in now
      BY <1>1, <3>1 DEF Heard
    <3>2. CASE x \notin now
      <4>1. PICK j \in 1 .. k : rest[j].type = "Create" /\ rest[j].from = x
        BY <2>2, <3>2 DEF Heard
      <4>2. j + 1 \in 1 .. k + 1 /\ box[j + 1].type = "Create" /\ box[j + 1].from = x
        BY <1>1, <2>1, <4>1
      <4> QED
        BY <4>2 DEF Heard
    <3> QED
      BY <3>1, <3>2
  <2>3. ASSUME NEW x \in Heard(box, counted, k + 1) PROVE x \in Heard(rest, now, k)
    <3>1. CASE x \in counted
      BY <3>1 DEF Heard
    <3>2. CASE x \notin counted
      <4>1. PICK j \in 1 .. k + 1 : box[j].type = "Create" /\ box[j].from = x
        BY <2>3, <3>2 DEF Heard
      <4>2. CASE j = 1
        BY <4>1, <4>2 DEF Heard
      <4>3. CASE j # 1
        <5>1. j - 1 \in 1 .. k /\ (j - 1) + 1 = j
          BY <1>1, <4>1, <4>3
        <5>2. rest[j - 1].type = "Create" /\ rest[j - 1].from = x
          BY <2>1, <4>1, <5>1
        <5> QED
          BY <5>1, <5>2 DEF Heard
      <4> QED
        BY <4>2, <4>3
    <3> QED
      BY <3>1, <3>2
  <2> QED
    BY <2>2, <2>3
<1> DEFINE at == IF i = 0 THEN 0 ELSE i - 1
<1>3. at \in Nat /\ at <= Len(rest) /\ (i = 0 => at = 0) /\ (i # 0 => at = i - 1) /\ i \in Nat
  BY <1>1
<1> HIDE DEF at
<1>4. ASSUME NEW k \in at .. Len(rest), Calm(rest, at + 1, k)
      PROVE  k + 1 \in i .. Len(box) /\ Calm(box, i + 1, k + 1)
  <2>1. k + 1 \in i .. Len(box)
    BY <1>1, <1>3
  <2>2. ASSUME NEW j \in i + 1 .. k + 1 PROVE box[j].type # "Invalidate"
    <3>1. CASE j = 1
      BY <1>3, <3>1
    <3>2. CASE j # 1
      <4>1. j - 1 \in at + 1 .. k /\ j - 1 \in 1 .. Len(box) - 1 /\ (j - 1) + 1 = j
        BY <1>1, <1>3, <2>1, <3>2
      <4>2. rest[j - 1] = box[j]
        BY <1>1, <4>1
      <4> QED
        BY <1>4, <4>1, <4>2 DEF Calm
    <3> QED
      BY <3>1, <3>2
  <2> QED
    BY <2>1, <2>2 DEF Calm
<1>5. \A k \in at .. Len(rest) :
         Calm(rest, at + 1, k) => joins >= Cardinality(Heard(rest, now, k))
  <2>1. ASSUME NEW k \in at .. Len(rest), Calm(rest, at + 1, k)
        PROVE  joins >= Cardinality(Heard(rest, now, k))
    <3>1. joins >= Cardinality(Heard(box, counted, k + 1))
      BY <1>4, <2>1 DEF Knows
    <3>2. k \in 0 .. Len(rest)
      BY <1>1, <1>3
    <3> QED
      BY <1>2, <3>1, <3>2
  <2> QED
    BY <2>1
<1>6. Calm(rest, at + 1, Len(rest)) => joins >= all
  <2>1. ASSUME Calm(rest, at + 1, Len(rest)) PROVE joins >= all
    <3>1. Len(rest) \in at .. Len(rest) /\ Len(rest) + 1 = Len(box)
      BY <1>1, <1>3
    <3>2. Calm(box, i + 1, Len(box))
      BY <1>4, <2>1, <3>1
    <3> QED
      BY <3>2 DEF Knows
  <2> QED
    BY <2>1
<1>7. Knows(rest, now, at, joins, all)
  BY <1>5, <1>6 DEF Knows
<1> QED
  BY <1>7 DEF rest, at

\* Whoever is heard of has released the write access of its join.
HeardCounted ==
    /\ Cardinality(Released) \in Nat
    /\ \A p \in Pods : \A k \in 0 .. Len(inbox[p]) :
          /\ Cardinality(Heard(inbox[p], entered[p], k)) \in Nat
          /\ Cardinality(Heard(inbox[p], entered[p], k)) <= Cardinality(Released)

LEMMA HeardIsReleased == TypeInv => HeardCounted
<1> SUFFICES ASSUME TypeInv PROVE HeardCounted
  OBVIOUS
<1>1. Released \subseteq Pods /\ IsFiniteSet(Pods)
  BY OrganizerAssumption DEF Released, Announced
<1>2. IsFiniteSet(Released)
  BY <1>1, FS_Subset
<1>3. ASSUME NEW p \in Pods, NEW k \in 0 .. Len(inbox[p])
      PROVE  Heard(inbox[p], entered[p], k) \subseteq Released
  <2>1. inbox[p] \in Seq(Message) /\ entered[p] \subseteq Pods
    BY DEF TypeInv, TypeOK
  <2>2. Len(inbox[p]) \in Nat /\ DOMAIN inbox[p] = 1 .. Len(inbox[p])
    BY <2>1
  <2>3. ASSUME NEW q \in Heard(inbox[p], entered[p], k) PROVE q \in Announced
    <3>1. CASE q \in entered[p]
      BY <2>1, <3>1 DEF Announced, ToldOf
    <3>2. CASE q \notin entered[p]
      <4>1. PICK i \in 1 .. k : inbox[p][i].type = "Create" /\ inbox[p][i].from = q
        BY <2>3, <3>2 DEF Heard
      <4>2. i \in DOMAIN inbox[p]
        BY <2>2, <4>1
      <4>3. inbox[p][i] \in Message
        BY <2>1, <4>2
      <4>4. q \in Pods
        BY <4>1, <4>3 DEF Message
      <4> QED
        BY <4>1, <4>2, <4>4 DEF Announced, ToldOf
    <3> QED
      BY <3>1, <3>2
  <2> QED
    BY <2>3 DEF Released
<1>4. ASSUME NEW p \in Pods, NEW k \in 0 .. Len(inbox[p])
      PROVE  /\ Cardinality(Heard(inbox[p], entered[p], k)) \in Nat
             /\ Cardinality(Heard(inbox[p], entered[p], k)) <= Cardinality(Released)
  <2>1. Heard(inbox[p], entered[p], k) \subseteq Released
    BY <1>3
  <2> QED
    BY <1>2, <2>1, FS_Subset, FS_CardinalityType
<1> QED
  BY <1>2, <1>4, FS_CardinalityType DEF HeardCounted

LEMMA ReleasedKept ==
    ASSUME Ordered, NEW p \in Pods, Call(p) \/ Proceed(p) \/ ServeInOrder(p), ~ReleaseWrite(p)
    PROVE  Released' = Released
<1>1. DOMAIN call = Pods /\ pc \in [Pods -> Places]
  BY DEF Ordered, TypeInv, TypeOK
<1>2. Announced' = IF CreateStaticGroup(p) THEN Announced \cup {p} ELSE Announced
  BY AnnouncedStep
<1>3. CASE CreateStaticGroup(p)
  <2>1. pc' = [pc EXCEPT ![p] = "joining"] /\ pc[p] = "released"
    BY <1>3 DEF CreateStaticGroup, Goto
  <2> QED
    BY <1>1, <1>2, <1>3, <2>1 DEF Released
<1>4. CASE ~CreateStaticGroup(p)
  <2>1. \A q \in Pods : pc'[q] = "released" <=> pc[q] = "released"
    <3>1. CASE ServeInOrder(p)
      BY <3>1 DEF ServeInOrder, HandleFirst, Give, ReplyOnce, agents
    <3>2. CASE Call(p)
      BY <1>1, <3>2 DEF Call, CallUpdate, CallQuery, Start
    <3>3. CASE Proceed(p)
      BY <1>1, <1>4, <3>3 DEF Proceed, AcquireWrite, Join, RefuseJoin, Leave, AllJoined,
                              AwaitUpdate, Get, Goto
    <3> QED
      BY <3>1, <3>2, <3>3
  <2> QED
    BY <1>2, <1>4, <2>1 DEF Released
<1> QED
  BY <1>3, <1>4

LEMMA InformedPosted ==
    ASSUME TypeInv, TypeInv', NEW to, NEW msg \in Message, Posted(to, msg), entered' = entered,
           replica' = replica, valid' = valid, NEW q \in Pods, InformedOf(q),
           Released' = Released \/ (q \in to /\ msg.type = "Invalidate"),
           Carrier(msg) => msg.table.next >= Cardinality(Released')
    PROVE  InformedOf(q)'
<1> DEFINE all == Cardinality(Released)
           most == Cardinality(Released')
<1>1. HeardCounted /\ HeardCounted'
  BY HeardIsReleased, PTL
<1>2. all \in Nat /\ most \in Nat
  BY <1>1 DEF HeardCounted
<1>3. /\ q \in valid => Knows(inbox[q], entered[q], 0, replica[q].next, all)
      /\ \A i \in DOMAIN inbox[q] : Carrier(inbox[q][i]) =>
            Knows(inbox[q], entered[q], i, inbox[q][i].table.next, all)
  BY DEF InformedOf
<1>4. Released' = Released => most = all
  OBVIOUS
<1>5. Carrier(msg) => msg.table.next >= most
  OBVIOUS
<1> HIDE DEF all, most
<1>6. SUFFICES /\ q \in valid => Knows(inbox'[q], entered[q], 0, replica[q].next, most)
               /\ \A i \in DOMAIN inbox'[q] : Carrier(inbox'[q][i]) =>
                     Knows(inbox'[q], entered[q], i, inbox'[q][i].table.next, most)
  BY <1>6 DEF InformedOf, most
<1>7. CASE q \notin to
  <2>1. inbox'[q] = inbox[q] /\ most = all
    BY <1>4, <1>7 DEF Posted
  <2> QED
    BY <1>3, <2>1
<1>8. CASE q \in to
  <2>1. inbox[q] \in Seq(Message) /\ replica[q].next \in Nat /\ msg.table.next \in Nat
    BY DEF TypeInv, Table, Message
  <2>2. inbox'[q] = Append(inbox[q], msg)
    BY <1>8 DEF Posted
  <2> DEFINE box == inbox[q]
             counted == entered[q]
  <2>3. /\ Len(box) \in Nat /\ DOMAIN box = 1 .. Len(box)
        /\ Len(Append(box, msg)) = Len(box) + 1
        /\ DOMAIN Append(box, msg) = 1 .. Len(box) + 1
        /\ \A i \in 1 .. Len(box) : Append(box, msg)[i] = box[i]
        /\ Append(box, msg)[Len(box) + 1] = msg
    BY <2>1, AppendIs
  <2>4. /\ Cardinality(Heard(Append(box, msg), counted, Len(box) + 1)) \in Nat
        /\ Cardinality(Heard(Append(box, msg), counted, Len(box) + 1)) <= most
    <3>1. Len(box) + 1 \in 0 .. Len(inbox'[q])
      BY <2>2, <2>3
    <3>2. /\ Cardinality(Heard(inbox'[q], entered'[q], Len(box) + 1)) \in Nat
          /\ Cardinality(Heard(inbox'[q], entered'[q], Len(box) + 1)) <= most
      BY <1>1, <3>1 DEF HeardCounted, most
    <3> QED
      BY <2>2, <3>2
  <2>5. msg.type = "Invalidate" \/ most = all
    BY <1>4
  <2>6. box \in Seq(Message)
    BY <2>1
  <2> HIDE DEF box, counted
  <2>7. \A i \in 0 .. Len(box) : \A joins \in Nat :
           Knows(box, counted, i, joins, all) => Knows(Append(box, msg), counted, i, joins, most)
    BY <1>2, <2>4, <2>5, <2>6, KnowsAppended
  <2>8. q \in valid => Knows(Append(box, msg), counted, 0, replica[q].next, most)
    <3>1. 0 \in 0 .. Len(box)
      BY <2>3
    <3> QED
      BY <1>3, <2>1, <2>7, <3>1 DEF box, counted
  <2>9. ASSUME NEW i \in 1 .. Len(box) + 1, Carrier(Append(box, msg)[i])
        PROVE  Knows(Append(box, msg), counted, i, Append(box, msg)[i].table.next, most)
    <3>1. CASE i \in 1 .. Len(box)
      <4>1. Append(box, msg)[i] = box[i] /\ i \in 0 .. Len(box) /\ i \in DOMAIN box
        BY <2>3, <3>1
      <4>2. box[i] \in Message
        BY <2>6, <4>1
      <4>3. box[i].table.next \in Nat
        BY <4>2 DEF Message, Table
      <4>4. Knows(box, counted, i, box[i].table.next, all)
        BY <1>3, <2>9, <4>1 DEF box, counted
      <4> QED
        BY <2>7, <4>1, <4>3, <4>4
    <3>2. CASE i = Len(box) + 1
      <4>1. Append(box, msg)[i] = msg /\ msg.table.next >= most
        BY <1>5, <2>3, <2>9, <3>2
      <4>2. \A k \in i .. Len(Append(box, msg)) : k = Len(box) + 1
        BY <2>3, <3>2
      <4>3. Knows(Append(box, msg), counted, i, msg.table.next, most)
        BY <1>2, <2>1, <2>4, <4>1, <4>2, KnowsAll
      <4> QED
        BY <4>1, <4>3
    <3> QED
      BY <2>3, <3>1, <3>2
  <2> QED
    BY <2>2, <2>3, <2>8, <2>9 DEF box, counted
<1> QED
  BY <1>7, <1>8

\* The table that counts has all joins in it, also those of an agent that
\* still holds its write access.
LEMMA CurrentHasAll ==
    ASSUME Ordered, JoinsCounted, static
    PROVE  Current.next \in Nat /\ Current.next >= Cardinality(Released)
<1>1. Released \subseteq Through
  BY DEF Through
<1>2. Cardinality(Released) <= Cardinality(Through)
  BY <1>1, ThroughFinite, FS_Subset
<1> QED
  BY <1>2, ThroughFinite DEF JoinsCounted

LEMMA InformedHandled ==
    ASSUME Ordered, NEW p \in Pods, HandleFirst(p), Released' = Released, NEW q \in Pods, InformedOf(q)
    PROVE  InformedOf(q)'
<1>1. TypeInv
  BY DEF Ordered
<1>2. /\ Len(inbox[p]) \in Nat /\ DOMAIN inbox[p] = 1 .. Len(inbox[p])
      /\ 1 \in DOMAIN inbox[p] /\ inbox[p][1] \in Message /\ Head(inbox[p]) = inbox[p][1]
      /\ DOMAIN inbox'[p] = 1 .. Len(inbox[p]) - 1
      /\ \A i \in 1 .. Len(inbox[p]) - 1 : inbox'[p][i] = inbox[p][i + 1]
      /\ \A r \in Pods : r # p => inbox'[r] = inbox[r]
  BY <1>1, HandledIs
<1>3. /\ \A r \in Pods : r # p => entered'[r] = entered[r] /\ replica'[r] = replica[r]
      /\ \A r \in valid' : r # p => r \in valid
  BY <1>1, <1>2 DEF HandleFirst, AcquireTokenUpdate, Update, Invalidate, HandleCreateStaticGroup,
                    copies, TypeInv, TypeOK
<1>4. CASE q # p
  BY <1>2, <1>3, <1>4 DEF InformedOf
<1>5. CASE q = p
  <2> DEFINE box == inbox[p]
             counted == entered[p]
             now == entered'[p]
             all == Cardinality(Released)
  <2>1. box \in Seq(Message) /\ box # <<>> /\ inbox'[p] = Tail(box)
    BY <1>1 DEF TypeInv, HandleFirst
  <2>2. now = IF box[1].type = "Create" THEN counted \cup {box[1].from} ELSE counted
    BY <1>1, <1>2 DEF HandleFirst, AcquireTokenUpdate, Update, Invalidate, HandleCreateStaticGroup,
                      copies, TypeInv, TypeOK
  <2>3. all \in Nat /\ all = Cardinality(Released')
    BY <1>1, HeardIsReleased DEF HeardCounted
  <2>4. /\ p \in valid => Knows(box, counted, 0, replica[p].next, all)
        /\ \A i \in DOMAIN box : Carrier(box[i]) => Knows(box, counted, i, box[i].table.next, all)
    BY <1>5 DEF InformedOf
  <2>5. \A i \in DOMAIN box : box[i].table.next \in Nat /\ replica[p].next \in Nat
    <3>1. ASSUME NEW i \in DOMAIN box PROVE box[i].table.next \in Nat
      <4>1. box[i] \in Message
        BY <2>1
      <4> QED
        BY <4>1 DEF Message, Table
    <3> QED
      BY <1>1, <3>1 DEF TypeInv, Table
  <2>6. SUFFICES /\ p \in valid' => Knows(Tail(box), now, 0, replica'[p].next, all)
                 /\ \A i \in DOMAIN inbox'[p] : Carrier(inbox'[p][i]) =>
                       Knows(Tail(box), now, i, inbox'[p][i].table.next, all)
    BY <1>5, <2>1, <2>3, <2>6 DEF InformedOf
  <2>7. p \in valid' =>
           \/ /\ replica'[p] = replica[p] /\ p \in valid /\ box[1].type # "Invalidate"
           \/ /\ replica'[p] = box[1].table /\ Carrier(box[1])
    BY <1>1, <1>2 DEF HandleFirst, AcquireTokenUpdate, Update, Invalidate, HandleCreateStaticGroup,
                      copies, TypeInv, TypeOK, Carrier
  <2>8. Len(box) \in Nat /\ DOMAIN box = 1 .. Len(box) /\ 1 \in DOMAIN box
    BY <1>2
  <2>9. \A i \in DOMAIN inbox'[p] : i + 1 \in DOMAIN box /\ inbox'[p][i] = box[i + 1] /\ i \in Nat
    BY <1>2
  <2> HIDE DEF box, counted, now, all
  <2>10. ASSUME NEW i \in 1 .. Len(box), NEW joins \in Nat, Knows(box, counted, i, joins, all)
         PROVE  Knows(Tail(box), now, i - 1, joins, all)
    <3>1. i \in 0 .. Len(box) /\ i # 0
      BY <2>8
    <3>2. Knows(Tail(box), now, IF i = 0 THEN 0 ELSE i - 1, joins, all)
      BY <2>1, <2>2, <2>3, <2>10, <3>1, KnowsHandled
    <3> QED
      BY <3>1, <3>2
  <2>11. ASSUME p \in valid' PROVE Knows(Tail(box), now, 0, replica'[p].next, all)
    <3>1. CASE replica'[p] = replica[p] /\ p \in valid /\ box[1].type # "Invalidate"
      <4>1. Knows(box, counted, 0, replica[p].next, all) /\ replica[p].next \in Nat
        BY <2>4, <2>5, <2>8, <3>1
      <4>2. 0 \in 0 .. Len(box)
        BY <2>8
      <4>3. Knows(Tail(box), now, IF 0 = 0 THEN 0 ELSE 0 - 1, replica[p].next, all)
        BY <2>1, <2>2, <2>3, <3>1, <4>1, <4>2, KnowsHandled
      <4> QED
        BY <3>1, <4>3
    <3>2. CASE replica'[p] = box[1].table /\ Carrier(box[1])
      <4>1. Knows(box, counted, 1, box[1].table.next, all) /\ box[1].table.next \in Nat
        BY <2>4, <2>5, <2>8, <3>2
      <4>2. Knows(Tail(box), now, 1 - 1, box[1].table.next, all)
        BY <2>8, <2>10, <4>1
      <4> QED
        BY <3>2, <4>2
    <3> QED
      BY <2>7, <2>11, <3>1, <3>2
  <2>12. ASSUME NEW i \in DOMAIN inbox'[p], Carrier(inbox'[p][i])
         PROVE  Knows(Tail(box), now, i, inbox'[p][i].table.next, all)
    <3>1. i + 1 \in DOMAIN box /\ inbox'[p][i] = box[i + 1] /\ i \in Nat
      BY <2>9
    <3>2. Knows(box, counted, i + 1, box[i + 1].table.next, all) /\ box[i + 1].table.next \in Nat
      BY <2>4, <2>5, <2>12, <3>1
    <3>3. Knows(Tail(box), now, (i + 1) - 1, box[i + 1].table.next, all)
      BY <2>8, <2>10, <3>1, <3>2
    <3>4. (i + 1) - 1 = i
      BY <3>1
    <3> QED
      BY <3>1, <3>3, <3>4
  <2> QED
    BY <2>11, <2>12
<1> QED
  BY <1>4, <1>5

LEMMA InformedStep ==
    ASSUME Ordered, JoinsOnce, JoinsCounted, Informed, [NextInOrder]_vars
    PROVE  Informed'
<1>1. TypeInv /\ OneToken /\ PlacesMatch /\ MessagesMatch
  BY DEF Ordered
<1>2. CASE UNCHANGED vars
  BY <1>2 DEF Informed, InformedOf, Released, Announced, ToldOf, vars, copies, agents
<1>3. ASSUME NEW p \in Pods, Call(p) \/ Proceed(p) \/ ServeInOrder(p), static', NEW q \in Pods
      PROVE  InformedOf(q)'
  <2>1. static
    BY <1>3 DEF Call, CallUpdate, CallQuery, Proceed, AcquireWrite, Join, RefuseJoin, Leave,
       ReleaseWrite, CreateStaticGroup, AllJoined, AwaitUpdate, Get, ServeInOrder, HandleFirst, Give,
       ReplyOnce
  <2>2. \A r \in Pods : InformedOf(r)
    BY <2>1 DEF Informed
  <2>3. Ordered' /\ TypeInv'
    BY <1>3, OrderedStep DEF NextInOrder, Ordered
  <2>4. \A h \in Pods : h \in holders => replica[h].next >= Cardinality(Released)
    <3>1. Held
      BY <1>1, CurrentHeld
    <3> QED
      BY <2>1, <3>1, CurrentHasAll DEF Held
  <2>5. CASE HandleFirst(p)
    <3>1. ~ReleaseWrite(p)
      BY <1>1, <2>5 DEF HandleFirst, ReleaseWrite, Goto, agents, TypeInv, TypeOK
    <3>2. Released' = Released
      BY <2>5, <3>1, ReleasedKept DEF ServeInOrder
    <3> QED
      BY <2>2, <2>5, <3>2, InformedHandled
  <2>6. ASSUME NEW r \in Pods, Give(p, r) PROVE InformedOf(q)'
    <3> DEFINE msg == Msg("Token", p, replica[p])
    <3>1. msg \in Message /\ msg.table = replica[p]
      BY <1>1, MsgIs DEF TypeInv
    <3>2. Posted({r}, msg) /\ UNCHANGED <<entered, replica, valid>>
      BY <1>1, <2>6, TokenGiven DEF Give, copies
    <3>3. ~ReleaseWrite(p)
      BY <1>1, <2>6 DEF Give, ReleaseWrite, Goto, agents, TypeInv, TypeOK
    <3>4. Released' = Released
      BY <2>6, <3>3, ReleasedKept DEF ServeInOrder
    <3>5. msg.table.next >= Cardinality(Released')
      BY <2>4, <2>6, <3>1, <3>4 DEF Give
    <3> HIDE DEF msg
    <3> QED
      BY <1>1, <2>2, <2>3, <3>1, <3>2, <3>4, <3>5, InformedPosted
  <2>7. ASSUME NEW r \in Pods, ReplyOnce(p, r) PROVE InformedOf(q)'
    <3> DEFINE msg == Msg("Update", p, replica[p])
    <3>1. msg \in Message /\ msg.table = replica[p]
      BY <1>1, MsgIs DEF TypeInv
    <3>2. Posted({r}, msg) /\ UNCHANGED <<entered, replica, valid>>
      BY <1>1, <2>7, MatchedReply DEF ReplyOnce
    <3>3. ~ReleaseWrite(p)
      BY <1>1, <2>7 DEF ReplyOnce, ReleaseWrite, Goto, agents, TypeInv, TypeOK
    <3>4. Released' = Released
      BY <2>7, <3>3, ReleasedKept DEF ServeInOrder
    <3>5. msg.table.next >= Cardinality(Released')
      BY <2>4, <2>7, <3>1, <3>4 DEF ReplyOnce
    <3> HIDE DEF msg
    <3> QED
      BY <1>1, <2>2, <2>3, <3>1, <3>2, <3>4, <3>5, InformedPosted
  <2>8. CASE CreateStaticGroup(p)
    <3> DEFINE msg == Msg("Create", p, Empty)
    <3>1. msg \in Message /\ ~Carrier(msg)
      BY EmptyIs, MsgIs DEF Carrier
    <3>2. Posted(Pods, msg) /\ UNCHANGED <<entered, replica, valid>>
      BY <2>8 DEF CreateStaticGroup, Posted, copies
    <3>3. ~ReleaseWrite(p)
      BY <2>8 DEF CreateStaticGroup, ReleaseWrite
    <3>4. Released' = Released
      BY <1>3, <3>3, ReleasedKept
    <3> HIDE DEF msg
    <3> QED
      BY <1>1, <2>2, <2>3, <3>1, <3>2, <3>4, InformedPosted
  <2>9. CASE ReleaseWrite(p)
    <3>1. CASE q # p
      <4> DEFINE msg == Msg("Invalidate", p, Empty)
      <4>1. msg \in Message /\ ~Carrier(msg) /\ msg.type = "Invalidate"
        BY EmptyIs, MsgIs DEF Carrier
      <4>2. Posted(Pods \ {p}, msg) /\ UNCHANGED <<entered, replica, valid>>
        BY <2>9 DEF ReleaseWrite, Posted, copies
      <4>3. q \in Pods \ {p}
        BY <3>1
      <4> HIDE DEF msg
      <4> QED
        BY <1>1, <2>2, <2>3, <4>1, <4>2, <4>3, InformedPosted
    <3>2. CASE q = p
      <4>1. UNCHANGED <<entered, replica, valid>> /\ inbox'[p] = inbox[p]
        BY <2>9 DEF ReleaseWrite, copies
      <4>2. p \in holders /\ pc[p] = "wrote"
        BY <2>9 DEF ReleaseWrite, WT!StopWriting, Ordered, OneToken
      <4>3. \A i \in DOMAIN inbox[p] : ~Carrier(inbox[p][i])
        BY <1>1, <4>2 DEF MessagesMatch, Matched, TokenMessages, Carrier
      <4>4. replica[p].next \in Nat /\ replica[p].next >= Cardinality(Released')
        <5>1. Released' \subseteq Through
          <6>1. ~Join(p)
            BY <4>2 DEF Join
          <6>2. Through' = Through
            BY <1>3, <2>1, <6>1, ThroughStep
          <6> QED
            BY <6>2 DEF Through
        <5>2. Cardinality(Released') <= Cardinality(Through)
          BY <5>1, ThroughFinite, FS_Subset
        <5>3. Held
          BY <1>1, CurrentHeld
        <5>4. replica[p].next = Cardinality(Through)
          BY <2>1, <4>2, <5>3 DEF Held, JoinsCounted
        <5>5. replica[p].next \in Nat
          BY <1>1 DEF TypeInv, Table
        <5> QED
          BY <5>2, <5>4, <5>5
      <4>5. HeardCounted'
        BY <2>3, HeardIsReleased, PTL
      <4>6. Knows(inbox'[p], entered'[p], 0, replica'[p].next, Cardinality(Released'))
        <5>1. \A k \in 0 .. Len(inbox'[p]) :
                 /\ Cardinality(Heard(inbox'[p], entered'[p], k)) \in Nat
                 /\ Cardinality(Heard(inbox'[p], entered'[p], k)) <= Cardinality(Released')
          BY <4>5 DEF HeardCounted
        <5>2. Cardinality(Released') \in Nat
          BY <4>5 DEF HeardCounted
        <5> QED
          BY <4>1, <4>4, <5>1, <5>2, KnowsAll
      <4> QED
        BY <3>2, <4>1, <4>3, <4>6 DEF InformedOf
    <3> QED
      BY <3>1, <3>2
  <2>10. CASE (Call(p) \/ Proceed(p)) /\ ~CreateStaticGroup(p) /\ ~ReleaseWrite(p)
    <3>1. Released' = Released
      BY <2>10, ReleasedKept
    <3>2. UNCHANGED <<inbox, entered, valid>>
      BY <2>10 DEF Call, CallUpdate, CallQuery, Proceed, AcquireWrite, Join, RefuseJoin, Leave,
         AllJoined, AwaitUpdate, Get, copies
    <3>3. replica[q].next \in Nat /\ replica'[q].next \in Nat /\ replica'[q].next >= replica[q].next
      <4>1. replica[q].next \in Nat /\ replica'[q].next \in Nat
        BY <1>1, <2>3 DEF TypeInv, Table
      <4>2. CASE Join(p) \/ Leave(p)
        <5>1. /\ Current = replica[p] /\ Current' = replica'[p]
              /\ \A r \in Pods : r # p => replica'[r] = replica[r]
          BY <1>1, <2>10, <4>2, TokenProceeds
        <5>2. Current'.next >= Current.next
          <6>1. /\ Current.next \in Nat
                /\ Current'.next = IF Join(p) THEN Current.next + 1 ELSE Current.next
            BY <1>3, CurrentStep
          <6> QED
            BY <6>1
        <5> QED
          BY <4>1, <5>1, <5>2
      <4>3. CASE ~Join(p) /\ ~Leave(p)
        BY <1>1, <2>10, <4>1, <4>3, TokenProceeds
      <4> QED
        BY <4>2, <4>3
    <3>4. HeardCounted
      BY <1>1, HeardIsReleased
    <3>5. q \in valid => Knows(inbox[q], entered[q], 0, replica'[q].next, Cardinality(Released))
      <4>1. /\ \A k \in 0 .. Len(inbox[q]) : Cardinality(Heard(inbox[q], entered[q], k)) \in Nat
            /\ Cardinality(Released) \in Nat
        BY <3>4 DEF HeardCounted
      <4>2. q \in valid => Knows(inbox[q], entered[q], 0, replica[q].next, Cardinality(Released))
        BY <2>2 DEF InformedOf
      <4> QED
        BY <3>3, <4>1, <4>2, KnowsMore
    <3> QED
      BY <2>2, <3>1, <3>2, <3>5 DEF InformedOf
  <2> QED
    BY <1>3, <2>5, <2>6, <2>7, <2>8, <2>9, <2>10 DEF ServeInOrder
<1> QED
  BY <1>2, <1>3 DEF NextInOrder, Informed

------------------------------------------------------------------------------
(* The theorems *)

Inv == Ordered /\ NoneAhead /\ JoinsOnce /\ JoinsCounted /\ ParentToldOnce /\ Informed

LEMMA InitInv == Init => Inv
<1> SUFFICES ASSUME Init PROVE Inv
  OBVIOUS
<1> USE DEF Init
<1>1. Empty \in Table /\ Empty.next = 0
  BY EmptyIs
<1>2. \A p \in Pods : inbox[p] = <<>> /\ DOMAIN inbox[p] = {} /\ Len(inbox[p]) = 0
  OBVIOUS
<1>3. \A p \in Pods : TokenMessages(p) = {}
  BY <1>2 DEF TokenMessages
<1>4. PICK h \in Pods : holders = {h} /\ busy = {} /\ h = Owner
  BY OrganizerAssumption DEF WT!Init
<1>5. TypeInv
  <2>1. TypeOK
    BY <1>1, <1>2, <1>4, OrganizerAssumption DEF TypeOK, Places, Table
  <2>2. inbox \in [Pods -> Seq(Message)]
    OBVIOUS
  <2> QED
    BY <1>1, <2>1, <2>2 DEF TypeInv
<1>6. OneToken
  BY <1>3, <1>4 DEF OneToken
<1>7. PlacesMatch
  BY <1>4 DEF PlacesMatch, Placed
<1>8. MessagesMatch
  BY <1>2, <1>3, <1>4 DEF MessagesMatch, Matched, Has
<1>9. Current.next = 0
  <2>1. Held
    BY <1>6, CurrentHeld
  <2> QED
    BY <1>1, <1>4, <2>1 DEF Held
<1>10. Announced = {} /\ Released = {} /\ Through = {} /\ Firsts = {}
  BY <1>2 DEF Announced, ToldOf, Released, Through, Firsts
<1>11. Cardinality(Through) = 0
  BY <1>10, FS_EmptySet
<1>12. NoneAhead
  BY <1>1, <1>2, <1>9 DEF NoneAhead
<1>13. JoinsOnce /\ JoinsCounted /\ ParentToldOnce
  BY <1>9, <1>10, <1>11 DEF JoinsOnce, JoinsCounted, ParentToldOnce
<1>14. Informed
  <2>1. ASSUME NEW p \in Pods PROVE InformedOf(p)
    <3>1. HeardCounted /\ Cardinality(Released) = 0
      BY <1>5, <1>10, HeardIsReleased, FS_EmptySet
    <3>2. \A k \in 0 .. Len(inbox[p]) :
             /\ Cardinality(Heard(inbox[p], entered[p], k)) \in Nat
             /\ Cardinality(Heard(inbox[p], entered[p], k)) <= Cardinality(Released)
      BY <3>1 DEF HeardCounted
    <3>3. replica[p].next \in Nat /\ replica[p].next >= Cardinality(Released)
      BY <1>1, <3>1
    <3>4. Knows(inbox[p], entered[p], 0, replica[p].next, Cardinality(Released))
      BY <3>1, <3>2, <3>3, KnowsAll
    <3> QED
      BY <1>2, <3>4 DEF InformedOf
  <2> QED
    BY <2>1 DEF Informed
<1> QED
  BY <1>5, <1>6, <1>7, <1>8, <1>12, <1>13, <1>14 DEF Inv, Ordered

LEMMA NextInv ==
    ASSUME InOrder, Inv, [Next]_vars
    PROVE  Inv'
<1>1. [NextInOrder]_vars
  BY StepsInOrder DEF Inv, Ordered
<1> QED
  BY <1>1, OrderedStep, AheadStep, JoinsOnceStep, JoinsCountedStep, ParentToldStep, InformedStep
  DEF Inv

LEMMA SpecInv ==
    ASSUME InOrder
    PROVE  Spec => []Inv
BY InitInv, NextInv, PTL DEF Spec

\* In whatever order the handlers run, the state of an organizer stays well
\* formed: the table that a pod holds or receives is a table, and an agent is in
\* a call of its own.
THEOREM TypeCorrect == Spec => []TypeOK
<1>1. Init => TypeInv
  BY InitInv DEF Inv, Ordered
<1>2. TypeInv => TypeOK
  BY DEF TypeInv
<1> QED
  BY <1>1, <1>2, TypeStep, PTL DEF Spec

\* When handlers run in delivery order: once a pod has counted every member of a
\* closure, its replica is invalid or has every member's join in it, so whoever
\* returns from Join reads a complete table.
THEOREM ClosureCompleted == InOrder /\ Spec => []ClosureComplete
<1>1. ASSUME Inv, NEW p \in valid, static, entered[p] = Pods
      PROVE  replica[p].next = Cardinality(Pods)
  <2>1. p \in Pods /\ inbox[p] \in Seq(Message) /\ replica[p].next \in Nat
    BY <1>1 DEF Inv, Ordered, TypeInv, TypeOK, Table
  <2>2. replica[p].next <= Cardinality(Pods)
    <3>1. replica[p].next <= Cardinality(Through)
      BY <1>1, <2>1 DEF Inv, NoneAhead, JoinsCounted
    <3>2. Cardinality(Through) <= Cardinality(Pods) /\ Cardinality(Pods) \in Nat
      BY ThroughFinite, FS_Subset, FS_CardinalityType, OrganizerAssumption
    <3> QED
      BY <2>1, <3>1, <3>2, ThroughFinite
  <2>3. replica[p].next >= Cardinality(Pods)
    <3>1. Knows(inbox[p], entered[p], 0, replica[p].next, Cardinality(Released))
      BY <1>1, <2>1 DEF Inv, Informed, InformedOf
    <3>2. 0 \in 0 .. Len(inbox[p]) /\ Calm(inbox[p], 0 + 1, 0)
      BY <2>1 DEF Calm
    <3>3. replica[p].next >= Cardinality(Heard(inbox[p], entered[p], 0))
      BY <3>1, <3>2 DEF Knows
    <3>4. Heard(inbox[p], entered[p], 0) = entered[p]
      BY DEF Heard
    <3> QED
      BY <1>1, <3>3, <3>4
  <2>4. Cardinality(Pods) \in Nat
    BY FS_CardinalityType, OrganizerAssumption
  <2> QED
    BY <2>1, <2>2, <2>3, <2>4
<1>2. Inv => ClosureComplete
  BY <1>1 DEF ClosureComplete
<1>3. ASSUME InOrder PROVE Spec => []ClosureComplete
  BY <1>2, <1>3, SpecInv, PTL
<1> QED
  BY <1>3

\* Every step of the replicas is a step of one table of members, or none of it.
LEMMA MembershipStep ==
    ASSUME Inv, Inv', [NextInOrder]_vars
    PROVE  [M!Next]_<<Current.members, Current.next, parent>>
<1>1. Ordered /\ TypeInv /\ OneToken /\ PlacesMatch /\ MessagesMatch
  BY DEF Inv, Ordered
<1>2. CASE UNCHANGED vars
  BY <1>2 DEF vars, token, copies, Current, TokenMessages
<1>3. ASSUME NEW p \in Pods, ServeInOrder(p) PROVE UNCHANGED <<Current.members, Current.next, parent>>
  BY <1>1, <1>3, TokenServed DEF ServeInOrder, HandleFirst, Give, ReplyOnce
<1>4. ASSUME NEW p \in Pods, Join(p) PROVE M!Next
  <2>1. Current = replica[p] /\ Current' = replica'[p]
    BY <1>1, <1>4, TokenProceeds DEF Proceed
  <2>2. call[p].name \in Names \cup {Unnamed}
    BY <1>1, <1>4, JoinNamed DEF Join
  <2>3. replica'[p] = Joined(replica[p], p, call[p].name) /\ parent' = parent
    BY <1>1, <1>4 DEF Join, TypeInv
  <2>4. ~Refused(replica[p], p, call[p].name)
    BY <1>4 DEF Join
  <2>5. M!Join(p, call[p].name)
    BY <2>1, <2>3, <2>4 DEF M!Join, Joined, Refused
  <2> QED
    BY <2>2, <2>5 DEF M!Next
<1>5. ASSUME NEW p \in Pods, Leave(p) PROVE M!Next
  <2>1. Current = replica[p] /\ Current' = replica'[p]
    BY <1>1, <1>5, TokenProceeds DEF Proceed
  <2>2. /\ replica'[p].members = {m \in replica[p].members : m.idp # p}
        /\ replica'[p].next = replica[p].next /\ parent' = parent
    <3>1. replica[p] \in Table
      BY <1>1 DEF TypeInv
    <3> QED
      BY <1>1, <1>5, <3>1 DEF Leave, TypeInv, Table
  <2>3. M!Leave(p)
    BY <2>1, <2>2 DEF M!Leave
  <2> QED
    BY <2>3 DEF M!Next
<1>6. ASSUME NEW p \in Pods, AllJoined(p), rank[p] = 0 PROVE M!Next
  <2>1. Current' = Current
    <3>1. ~Join(p) /\ ~Leave(p)
      BY <1>6 DEF AllJoined, Join, Leave
    <3> QED
      BY <1>1, <1>6, <3>1, TokenProceeds DEF Proceed
  <2>2. static /\ p \in Firsts
    BY <1>1, <1>6 DEF AllJoined, PlacesMatch, Placed, Firsts
  <2>3. parent = 0 /\ parent' = 1
    BY <1>1, <1>6, <2>2 DEF Inv, ParentToldOnce, AllJoined
  <2>4. Current.next = Cardinality(Pods)
    <3>1. Through = Pods
      <4>1. Pods \subseteq Announced
        BY <1>6 DEF AllJoined, Announced, ToldOf
      <4> QED
        BY <4>1, ThroughFinite DEF Through, Released
    <3> QED
      BY <2>2, <3>1 DEF Inv, JoinsCounted
  <2>5. M!Tell
    <3>1. UNCHANGED <<Current.members, Current.next>>
      BY <2>1
    <3>2. M!Cardinality(Pods) = Cardinality(Pods)
      BY DEF M!Cardinality, Cardinality
    <3> QED
      BY <2>3, <2>4, <3>1, <3>2 DEF M!Tell
  <2> QED
    BY <2>5 DEF M!Next
<1>7. ASSUME NEW p \in Pods, Call(p) \/ Proceed(p), ~Join(p), ~Leave(p),
             ~(AllJoined(p) /\ rank[p] = 0)
      PROVE  UNCHANGED <<Current.members, Current.next, parent>>
  <2>1. Current' = Current
    BY <1>1, <1>7, TokenProceeds
  <2>2. parent' = parent
    BY <1>7 DEF Call, CallUpdate, CallQuery, Proceed, AcquireWrite, RefuseJoin,
       ReleaseWrite, CreateStaticGroup, AllJoined, AwaitUpdate, Get
  <2> QED
    BY <2>1, <2>2
<1> QED
  BY <1>2, <1>3, <1>4, <1>5, <1>6, <1>7 DEF NextInOrder

\* When handlers run in delivery order, the replicas of an organizer, written in
\* turns, behave as one table of members: no join is lost, no rank is given twice, no name is taken twice,
\* and the parent of a closure hears of it once, when all have joined.
THEOREM MembershipRefined == InOrder /\ Spec => ImplementsMembership
<1>1. Init => M!Init
  <2>1. ASSUME Init PROVE Current = Empty
    <3>1. Held
      BY <2>1, InitInv, CurrentHeld DEF Inv, Ordered
    <3>2. Owner \in holders /\ Owner \in Pods
      BY <2>1, OrganizerAssumption DEF Init, WT!Init
    <3> QED
      BY <2>1, <3>1, <3>2 DEF Held, Init
  <2> QED
    BY <2>1 DEF M!Init, Empty, Init
<1>2. ASSUME InOrder, Inv, Inv', [Next]_vars
      PROVE  [M!Next]_<<Current.members, Current.next, parent>>
  <2>1. [NextInOrder]_vars
    BY <1>2, StepsInOrder DEF Inv, Ordered
  <2> QED
    BY <1>2, <2>1, MembershipStep
<1>3. ASSUME InOrder PROVE Spec => ImplementsMembership
  BY <1>1, <1>2, <1>3, SpecInv, PTL DEF Spec, ImplementsMembership, M!Spec
<1> QED
  BY <1>3
==============================================================================

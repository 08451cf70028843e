----------------------- MODULE ConsistencyObjectProofs -----------------------
(***************************************************************************)
(* What the consistency protocol guarantees for every number of pods and   *)
(* threads, and for every order in which handler threads run; the last     *)
(* part, what it guarantees when they run in the order of delivery.        *)
(***************************************************************************)
EXTENDS ConsistencyObject, FiniteSetTheorems, SequenceTheorems, TLAPS

USE DEF Requests, Notices, AtRead, AtWrite, Readers, Writers, Places

\* A thread that has passed AcquireWrite's test, and may be waiting for the
\* token only, shuts the readers of its pod out.
AdmittedShutsReadersOut ==
    \A t, u \in Threads :
        /\ pc[t] \in Readers
        /\ pc[u] \in Writers \cup {"write_token"}
        => Home[t] # Home[u]

------------------------------------------------------------------------------
(* Counting threads *)

\* By how much moving t from where it is to s changes the number of p's
\* threads in states.
Delta(where, t, s, p, states) ==
    IF Home[t] # p \/ (where[t] \in states <=> s \in states) THEN 0
    ELSE IF s \in states THEN 1 ELSE 0 - 1

\* Moving one thread from a place to another changes the number of its pod's
\* threads in states by Delta.
LEMMA MoveOne ==
    ASSUME NEW where, NEW moved, NEW t \in Threads, NEW s,
           \A u \in Threads : moved[u] = IF u = t THEN s ELSE where[u],
           NEW p, NEW states
    PROVE  /\ Cardinality(ThreadsAt(where, p, states)) \in Nat
           /\ Cardinality(ThreadsAt(moved, p, states))
                = Cardinality(ThreadsAt(where, p, states)) + Delta(where, t, s, p, states)
<1> DEFINE before == ThreadsAt(where, p, states)
           after == ThreadsAt(moved, p, states)
<1>1. IsFiniteSet(before) /\ Cardinality(before) \in Nat
  <2>1. IsFiniteSet(Threads)
    BY PodAssumption
  <2>2. before \subseteq Threads
    BY DEF ThreadsAt
  <2> QED
    BY <2>1, <2>2, FS_Subset, FS_CardinalityType
<1>2. ASSUME Home[t] = p, where[t] \notin states, s \in states
      PROVE  Cardinality(after) = Cardinality(before) + 1
  <2>1. after = before \cup {t} /\ t \notin before
    BY <1>2 DEF ThreadsAt
  <2> QED
    BY <1>1, <2>1, FS_AddElement
<1>3. ASSUME Home[t] = p, where[t] \in states, s \notin states
      PROVE  Cardinality(after) = Cardinality(before) - 1
  <2>1. after = before \ {t} /\ t \in before
    BY <1>3 DEF ThreadsAt
  <2> QED
    BY <1>1, <2>1, FS_RemoveElement
<1>4. ASSUME Home[t] # p \/ (where[t] \in states <=> s \in states)
      PROVE  Cardinality(after) = Cardinality(before)
  <2>1. after = before
    BY <1>4 DEF ThreadsAt
  <2> QED
    BY <2>1
<1> HIDE DEF before, after
<1>5. Cardinality(after) = Cardinality(before) + Delta(where, t, s, p, states)
  BY <1>1, <1>2, <1>3, <1>4 DEF Delta
<1> QED
  BY <1>1, <1>5 DEF before, after

\* A counter is positive exactly when some thread of the pod is counted.
LEMMA CountPositive ==
    ASSUME NEW where, NEW p \in Pods, NEW states
    PROVE  Cardinality(ThreadsAt(where, p, states)) > 0
              <=> \E t \in Threads : Home[t] = p /\ where[t] \in states
<1> DEFINE there == ThreadsAt(where, p, states)
<1>1. IsFiniteSet(there)
  <2>1. IsFiniteSet(Threads) /\ there \subseteq Threads
    BY PodAssumption DEF ThreadsAt
  <2> QED
    BY <2>1, FS_Subset
<1>2. Cardinality(there) \in Nat /\ (Cardinality(there) = 0 <=> there = {})
  BY <1>1, FS_CardinalityType, FS_EmptySet
<1> HIDE DEF there
<1>3. Cardinality(there) > 0 <=> there # {}
  BY <1>2
<1> USE DEF there
<1> QED
  BY <1>3 DEF ThreadsAt

------------------------------------------------------------------------------
(* Facts about messages *)

\* A multicast adds one well-formed message to the boxes it goes to.
LEMMA MulticastAdds ==
    ASSUME NEW boxes, NEW to, NEW type, NEW from, NEW value
    PROVE  LET after == Multicast(boxes, to, type, from, value)
           IN  /\ DOMAIN after = Pods
               /\ \A q \in Pods : \A m \in after[q] :
                     \/ m \in boxes[q]
                     \/ q \in to /\ m.type = type /\ m.from = from /\ m.data = value
               /\ \A q \in Pods : boxes[q] \subseteq after[q]
BY DEF Multicast, Deliver

LEMMA TakenRemoves ==
    ASSUME DOMAIN inbox = Pods, NEW p \in Pods, NEW m
    PROVE  /\ DOMAIN Taken(p, m) = Pods
           /\ \A q \in Pods : Taken(p, m)[q] = IF q = p THEN inbox[p] \ {m} ELSE inbox[q]
BY DEF Taken

------------------------------------------------------------------------------
(* Type correctness *)

BoxesOK(boxes) ==
    /\ DOMAIN boxes = Pods
    /\ \A p \in Pods : \A m \in boxes[p] : IsMessage(m)

LEMMA MulticastOK ==
    ASSUME NEW boxes, BoxesOK(boxes), NEW to, NEW type \in Requests \cup Notices,
           NEW from \in Pods, NEW value \in Nat
    PROVE  BoxesOK(Multicast(boxes, to, type, from, value))
BY MulticastAdds DEF BoxesOK, IsMessage

LEMMA TakenOK ==
    ASSUME TypeOK, NEW p \in Pods, NEW m
    PROVE  BoxesOK(Taken(p, m))
<1>1. DOMAIN inbox = Pods
  BY DEF TypeOK
<1>2. /\ DOMAIN Taken(p, m) = Pods
      /\ \A q \in Pods : Taken(p, m)[q] \subseteq inbox[q]
  BY <1>1 DEF Taken
<1> QED
  BY <1>2 DEF TypeOK, BoxesOK

LEMMA ServeType ==
    ASSUME TypeOK, NEW p \in Pods, NEW m, m.type \in Requests, m.from \in Pods,
           NEW boxes, BoxesOK(boxes), Serve(p, m, boxes)
    PROVE  /\ BoxesOK(inbox')
           /\ token' \in [Pods -> BOOLEAN]
           /\ wtoken' \in [Pods -> BOOLEAN]
           /\ wtoken_ack' \in [Pods -> BOOLEAN]
           /\ UNCHANGED <<group, validity, counters, data, threads, writes>>
<1>1. data[p] \in Nat /\ token[p] \in BOOLEAN
  BY DEF TypeOK
<1>2. BoxesOK(Reply(p, m, boxes))
  <2>1. ASSUME NEW type \in Requests \cup Notices, NEW to
        PROVE  BoxesOK(Multicast(boxes, to, type, p, data[p]))
    BY <1>1, MulticastOK
  <2> QED
    BY <2>1 DEF Reply, ReplyTo
<1>3. KeepsToken(p, m) \in BOOLEAN
  BY <1>1 DEF KeepsToken
<1> QED
  BY <1>2, <1>3 DEF Serve, TypeOK

LEMMA TypeStep ==
    ASSUME TypeOK, CountersMatch, [Next]_vars
    PROVE  TypeOK'
<1> USE DEF vars, group, flags, counters, threads
<1>1. \A t \in Threads : Home[t] \in Pods
  BY PodAssumption
<1>2. ASSUME NEW t \in Threads, pc[t] \in Readers PROVE reading[Home[t]] > 0
  BY <1>1, <1>2, CountPositive DEF CountersMatch
<1>3. ASSUME NEW t \in Threads, pc[t] \in Writers PROVE writing[Home[t]] > 0
  BY <1>1, <1>3, CountPositive DEF CountersMatch
<1>4. ASSUME NEW t \in Threads, pc[t] \in AtWrite PROVE wwriters[Home[t]] > 0
  BY <1>1, <1>4, CountPositive DEF CountersMatch
<1>5. BoxesOK(inbox)
  BY DEF TypeOK, BoxesOK
<1>6. ASSUME NEW t \in Threads, NEW to, NEW type \in Requests \cup Notices
      PROVE  BoxesOK(Multicast(inbox, to, type, Home[t], 0))
  BY <1>1, <1>5, MulticastOK
<1>7. ASSUME NEW t \in Threads, EnterRead(t), ops' \in [Threads -> Nat] PROVE TypeOK'
  <2>1. BoxesOK(inbox')
    BY <1>5, <1>6, <1>7 DEF EnterRead
  <2>2. pc' \in [Threads -> Places] /\ asleep' \in SUBSET Threads
    BY <1>7 DEF EnterRead, Sleep, TypeOK
  <2>3. reading' \in [Pods -> Nat]
    <3>1. reading' = reading \/ reading' = [reading EXCEPT ![Home[t]] = @ + 1]
      BY <1>7 DEF EnterRead
    <3>2. reading \in [Pods -> Nat] /\ Home[t] \in Pods
      BY <1>1 DEF TypeOK
    <3> QED
      BY <3>1, <3>2
  <2> QED
    BY <1>7, <2>1, <2>2, <2>3 DEF EnterRead, TypeOK, BoxesOK
<1>8. ASSUME NEW t \in Threads, AwaitUpdate(t) PROVE TypeOK'
  <2>1. pc' \in [Threads -> Places] /\ asleep' \in SUBSET Threads
    BY <1>8 DEF AwaitUpdate, Sleep, NotifyAll, TypeOK
  <2> QED
    BY <1>8, <2>1 DEF AwaitUpdate, TypeOK
<1>9. ASSUME NEW t \in Threads, ReleaseRead(t) PROVE TypeOK'
  <2>1. pc' \in [Threads -> Places] /\ asleep' \in SUBSET Threads
    BY <1>9 DEF ReleaseRead, NotifyOne, TypeOK
  <2>2. reading' \in [Pods -> Nat]
    BY <1>1, <1>2, <1>9 DEF ReleaseRead, TypeOK
  <2> QED
    BY <1>9, <2>1, <2>2 DEF ReleaseRead, TypeOK
<1>10. ASSUME NEW t \in Threads, NEW waiting \in Nat \ {0}, StartWriting(t, waiting)
       PROVE  /\ pc' \in [Threads -> Places] /\ asleep' \in SUBSET Threads
              /\ writing' \in [Pods -> Nat] /\ wwriters' \in [Pods -> Nat]
  BY <1>1, <1>10 DEF StartWriting, TypeOK
<1>11. ASSUME NEW t \in Threads, NEW waiting \in Nat \ {0}, EnterWrite(t, waiting),
              ops' \in [Threads -> Nat]
       PROVE  TypeOK'
  <2>1. BoxesOK(inbox')
    BY <1>5, <1>6, <1>11 DEF EnterWrite
  <2>2. /\ pc' \in [Threads -> Places] /\ asleep' \in SUBSET Threads
        /\ writing' \in [Pods -> Nat] /\ wwriters' \in [Pods -> Nat]
    <3>1. CASE StartWriting(t, waiting)
      BY <1>10, <3>1
    <3>2. CASE /\ \E at \in AtWrite : Sleep(t, at)
               /\ wwriters' = [wwriters EXCEPT ![Home[t]] = waiting]
               /\ UNCHANGED writing
      BY <1>1, <3>2 DEF Sleep, TypeOK
    <3> QED
      BY <1>11, <3>1, <3>2 DEF EnterWrite
  <2> QED
    BY <1>11, <2>1, <2>2 DEF EnterWrite, TypeOK, BoxesOK
<1>12. ASSUME NEW t \in Threads, AwaitToken(t) PROVE TypeOK'
  <2>1. wwriters[Home[t]] \in Nat \ {0}
    BY <1>1, <1>4, <1>12 DEF AwaitToken, TypeOK
  <2>2. /\ pc' \in [Threads -> Places] /\ asleep' \in SUBSET Threads
        /\ writing' \in [Pods -> Nat] /\ wwriters' \in [Pods -> Nat]
        /\ wtoken' \in [Pods -> BOOLEAN]
    <3>1. CASE token[Home[t]] /\ validity[Home[t]]
      BY <1>10, <1>12, <2>1, <3>1 DEF AwaitToken, TypeOK
    <3>2. CASE ~(token[Home[t]] /\ validity[Home[t]])
      BY <1>12, <3>2 DEF AwaitToken, Sleep, TypeOK
    <3> QED
      BY <3>1, <3>2
  <2> QED
    BY <1>12, <2>2 DEF AwaitToken, TypeOK
<1>13. ASSUME NEW t \in Threads, Write(t) PROVE TypeOK'
  <2>1. /\ pc' \in [Threads -> Places]
        /\ data' \in [Pods -> Nat]
        /\ writes' \in Nat
    BY <1>1, <1>13 DEF Write, TypeOK
  <2> QED
    BY <1>13, <2>1 DEF Write, TypeOK
<1>14. ASSUME NEW t \in Threads, ReleaseWrite(t) PROVE TypeOK'
  <2>1. pc' \in [Threads -> Places] /\ asleep' \in SUBSET Threads
    BY <1>14 DEF ReleaseWrite, NotifyOne, NotifyAll, TypeOK
  <2>2. writing' \in [Pods -> Nat]
    BY <1>1, <1>3, <1>14 DEF ReleaseWrite, TypeOK
  <2>3. BoxesOK(inbox')
    BY <1>6, <1>14 DEF ReleaseWrite
  <2> QED
    BY <1>14, <2>1, <2>2, <2>3 DEF ReleaseWrite, TypeOK, BoxesOK
<1>15. ASSUME NEW t \in Threads, AcquireRead(t) \/ RetryRead(t) PROVE TypeOK'
  <2>1. EnterRead(t) /\ ops' \in [Threads -> Nat]
    <3>1. CASE AcquireRead(t)
      BY <3>1 DEF AcquireRead, TypeOK
    <3>2. CASE RetryRead(t)
      BY <3>2 DEF RetryRead, TypeOK
    <3> QED
      BY <1>15, <3>1, <3>2
  <2> QED
    BY <1>7, <2>1
<1>16. ASSUME NEW t \in Threads, AcquireWrite(t) \/ RetryWrite(t) PROVE TypeOK'
  <2>1. wwriters[Home[t]] \in Nat /\ wwriters[Home[t]] + 1 \in Nat \ {0}
    BY <1>1 DEF TypeOK
  <2>2. CASE AcquireWrite(t)
    <3>1. EnterWrite(t, wwriters[Home[t]] + 1) /\ ops' \in [Threads -> Nat]
      BY <2>2 DEF AcquireWrite, TypeOK
    <3> QED
      BY <1>11, <2>1, <3>1
  <2>3. CASE RetryWrite(t)
    <3>1. EnterWrite(t, wwriters[Home[t]]) /\ ops' \in [Threads -> Nat]
      BY <2>3 DEF RetryWrite, TypeOK
    <3>2. wwriters[Home[t]] \in Nat \ {0}
      BY <1>4, <2>1, <2>3 DEF RetryWrite
    <3> QED
      BY <1>11, <3>1, <3>2
  <2> QED
    BY <1>16, <2>2, <2>3
<1>17. ASSUME NEW t \in Threads, SpuriousWakeup(t) PROVE TypeOK'
  BY <1>17 DEF SpuriousWakeup, TypeOK
<1>18. ASSUME NEW p \in Pods, JoinGroup(p) PROVE TypeOK'
  <2>1. BoxesOK(inbox')
    BY <1>5, <1>18, MulticastOK DEF JoinGroup
  <2> QED
    BY <1>18, <2>1 DEF JoinGroup, TypeOK, BoxesOK
<1>19. ASSUME NEW p \in Pods, NEW m \in inbox[p], Handle(p, m) PROVE TypeOK'
  <2>1. IsMessage(m) /\ BoxesOK(Taken(p, m))
    BY TakenOK DEF TypeOK
  <2>2. CASE HandleRequest(p, m)
    <3>1. CASE Serve(p, m, Taken(p, m)) /\ UNCHANGED queue
      <4>1. m.type \in Requests /\ m.from \in Pods
        BY <2>1, <2>2 DEF HandleRequest, IsMessage
      <4>2. /\ BoxesOK(inbox')
            /\ token' \in [Pods -> BOOLEAN]
            /\ wtoken' \in [Pods -> BOOLEAN]
            /\ wtoken_ack' \in [Pods -> BOOLEAN]
            /\ UNCHANGED <<group, validity, counters, data, threads, writes>>
        BY <2>1, <3>1, <4>1, ServeType
      <4> QED
        BY <3>1, <4>2 DEF TypeOK, BoxesOK
    <3>2. CASE /\ queue' = [queue EXCEPT ![p] = Append(@, [type |-> m.type, from |-> m.from])]
               /\ inbox' = Taken(p, m)
               /\ UNCHANGED <<group, flags, counters, data, threads, writes>>
      <4>1. [type |-> m.type, from |-> m.from] \in [type : Requests, from : Pods]
        BY <2>1, <2>2 DEF HandleRequest, IsMessage
      <4>2. queue' \in [Pods -> Seq([type : Requests, from : Pods])]
        BY <3>2, <4>1 DEF TypeOK
      <4> QED
        BY <2>1, <3>2, <4>2 DEF TypeOK, BoxesOK
    <3> QED
      BY <2>2, <3>1, <3>2 DEF HandleRequest
  <2>3. CASE AcquireReplica(p, m)
    BY <2>1, <2>3 DEF AcquireReplica, IsMessage, TypeOK, BoxesOK
  <2>4. CASE AcquireTokenUpdate(p, m)
    <3>1. BoxesOK(inbox')
      BY <2>1, <2>4, MulticastOK DEF AcquireTokenUpdate
    <3> QED
      BY <2>1, <2>4, <3>1 DEF AcquireTokenUpdate, NotifyAll, IsMessage, TypeOK, BoxesOK
  <2>5. CASE TokenAck(p, m)
    BY <2>1, <2>5 DEF TokenAck, TypeOK, BoxesOK
  <2>6. CASE Invalidate(p, m)
    BY <2>1, <2>6 DEF Invalidate, TypeOK, BoxesOK
  <2>7. CASE Update(p, m)
    BY <2>1, <2>7 DEF Update, NotifyAll, IsMessage, TypeOK, BoxesOK
  <2> QED
    BY <1>19, <2>2, <2>3, <2>4, <2>5, <2>6, <2>7 DEF Handle
<1>20. ASSUME NEW p \in Pods, ServeNext(p) PROVE TypeOK'
  <2>1. /\ queue[p] \in Seq([type : Requests, from : Pods])
        /\ queue[p] # <<>>
    BY <1>20 DEF ServeNext, TypeOK
  <2>2. /\ Head(queue[p]) \in [type : Requests, from : Pods]
        /\ Tail(queue[p]) \in Seq([type : Requests, from : Pods])
    BY <2>1, HeadTailProperties
  <2>3. Head(queue[p]).type \in Requests /\ Head(queue[p]).from \in Pods
    BY <2>2
  <2>4. /\ BoxesOK(inbox')
        /\ token' \in [Pods -> BOOLEAN]
        /\ wtoken' \in [Pods -> BOOLEAN]
        /\ wtoken_ack' \in [Pods -> BOOLEAN]
        /\ UNCHANGED <<group, validity, counters, data, threads, writes>>
    BY <1>5, <1>20, <2>3, ServeType DEF ServeNext
  <2>5. queue' \in [Pods -> Seq([type : Requests, from : Pods])]
    BY <1>20, <2>2 DEF ServeNext, TypeOK
  <2> QED
    BY <2>4, <2>5 DEF TypeOK, BoxesOK
<1>21. CASE UNCHANGED vars
  BY <1>21 DEF TypeOK
<1>22. CASE Next
  <2>1. ASSUME NEW t \in Threads, Acquire(t) \/ Proceed(t) \/ SpuriousWakeup(t)
        PROVE  TypeOK'
    BY <1>8, <1>9, <1>12, <1>13, <1>14, <1>15, <1>16, <1>17, <2>1 DEF Acquire, Proceed
  <2>2. ASSUME NEW p \in Pods, JoinGroup(p) \/ HandleSome(p) \/ ServeNext(p)
        PROVE  TypeOK'
    BY <1>18, <1>19, <1>20, <2>2 DEF HandleSome, Runnable
  <2> QED
    BY <1>22, <2>1, <2>2 DEF Next
<1> QED
  BY <1>21, <1>22

------------------------------------------------------------------------------
(* The counters *)

\* A step that moves one thread and changes the counters of its pod as the
\* move requires keeps them right.
LEMMA CountMove ==
    ASSUME TypeOK, CountersMatch, NEW t \in Threads, NEW s \in Places,
           pc' = [pc EXCEPT ![t] = s],
           \A p \in Pods : /\ reading'[p] = reading[p] + Delta(pc, t, s, p, Readers)
                           /\ writing'[p] = writing[p] + Delta(pc, t, s, p, Writers)
                           /\ wwriters'[p] = wwriters[p] + Delta(pc, t, s, p, AtWrite)
    PROVE  CountersMatch'
<1>1. \A u \in Threads : pc'[u] = IF u = t THEN s ELSE pc[u]
  BY DEF TypeOK
<1>2. ASSUME NEW p \in Pods, NEW states
      PROVE  Cardinality(ThreadsAt(pc', p, states))
               = Cardinality(ThreadsAt(pc, p, states)) + Delta(pc, t, s, p, states)
  <2> DEFINE moved == pc'
  <2>1. \A u \in Threads : moved[u] = IF u = t THEN s ELSE pc[u]
    BY <1>1
  <2> HIDE DEF moved
  <2>2. Cardinality(ThreadsAt(moved, p, states))
          = Cardinality(ThreadsAt(pc, p, states)) + Delta(pc, t, s, p, states)
    BY <2>1, MoveOne
  <2> QED
    BY <2>2 DEF moved
<1>3. ASSUME NEW p \in Pods
      PROVE  /\ reading'[p] = Cardinality(ThreadsAt(pc', p, Readers))
             /\ writing'[p] = Cardinality(ThreadsAt(pc', p, Writers))
             /\ wwriters'[p] = Cardinality(ThreadsAt(pc', p, AtWrite))
  BY <1>2 DEF CountersMatch
<1> QED
  BY <1>3 DEF CountersMatch

LEMMA CountStep ==
    ASSUME TypeOK, CountersMatch, [Next]_vars
    PROVE  CountersMatch'
<1> USE DEF vars, group, flags, counters, threads
<1>1. /\ \A t \in Threads : Home[t] \in Pods
      /\ pc \in [Threads -> Places]
      /\ reading \in [Pods -> Nat] /\ writing \in [Pods -> Nat] /\ wwriters \in [Pods -> Nat]
  BY PodAssumption DEF TypeOK
<1>2. ASSUME UNCHANGED <<pc, reading, writing, wwriters>> PROVE CountersMatch'
  BY <1>2 DEF CountersMatch
<1>3. ASSUME NEW t \in Threads, NEW s \in Places, pc' = [pc EXCEPT ![t] = s],
             UNCHANGED counters,
             /\ pc[t] \in Readers <=> s \in Readers
             /\ pc[t] \in Writers <=> s \in Writers
             /\ pc[t] \in AtWrite <=> s \in AtWrite
      PROVE  CountersMatch'
  <2>1. ASSUME NEW p \in Pods
        PROVE  /\ reading'[p] = reading[p] + Delta(pc, t, s, p, Readers)
               /\ writing'[p] = writing[p] + Delta(pc, t, s, p, Writers)
               /\ wwriters'[p] = wwriters[p] + Delta(pc, t, s, p, AtWrite)
    BY <1>1, <1>3 DEF Delta
  <2> QED
    BY <1>3, <2>1, CountMove
<1>4. ASSUME NEW t \in Threads, EnterRead(t), pc[t] \in {"idle", "read_turn"}
      PROVE  CountersMatch'
  <2>1. CASE pc' = [pc EXCEPT ![t] = "read_turn"] /\ UNCHANGED counters
    BY <1>3, <1>4, <2>1
  <2>2. ASSUME NEW s \in Readers, pc' = [pc EXCEPT ![t] = s],
               reading' = [reading EXCEPT ![Home[t]] = @ + 1],
               UNCHANGED <<writing, wwriters>>
        PROVE  CountersMatch'
    <3>1. ASSUME NEW p \in Pods
          PROVE  /\ reading'[p] = reading[p] + Delta(pc, t, s, p, Readers)
                 /\ writing'[p] = writing[p] + Delta(pc, t, s, p, Writers)
                 /\ wwriters'[p] = wwriters[p] + Delta(pc, t, s, p, AtWrite)
      BY <1>1, <1>4, <2>2 DEF Delta
    <3> QED
      BY <2>2, <3>1, CountMove
  <2> QED
    BY <1>4, <2>1, <2>2 DEF EnterRead, Sleep
<1>5. ASSUME NEW t \in Threads, AwaitUpdate(t) \/ Write(t) PROVE CountersMatch'
  <2>1. CASE AwaitUpdate(t)
    <3>1. /\ pc[t] = "read_update" /\ UNCHANGED counters
          /\ \E s \in Readers : pc' = [pc EXCEPT ![t] = s]
      BY <2>1 DEF AwaitUpdate, Sleep
    <3> QED
      BY <1>3, <3>1
  <2>2. CASE Write(t)
    <3>1. /\ pc[t] = "writing" /\ UNCHANGED counters
          /\ pc' = [pc EXCEPT ![t] = "wrote"]
      BY <2>2 DEF Write
    <3> QED
      BY <1>3, <3>1
  <2> QED
    BY <1>5, <2>1, <2>2
<1>6. ASSUME NEW t \in Threads, ReleaseRead(t) PROVE CountersMatch'
  <2>1. /\ pc[t] = "reading"
        /\ pc' = [pc EXCEPT ![t] = "idle"]
        /\ reading' = [reading EXCEPT ![Home[t]] = @ - 1]
        /\ UNCHANGED <<writing, wwriters>>
    BY <1>6 DEF ReleaseRead
  <2>2. ASSUME NEW p \in Pods
        PROVE  /\ reading'[p] = reading[p] + Delta(pc, t, "idle", p, Readers)
               /\ writing'[p] = writing[p] + Delta(pc, t, "idle", p, Writers)
               /\ wwriters'[p] = wwriters[p] + Delta(pc, t, "idle", p, AtWrite)
    BY <1>1, <2>1 DEF Delta
  <2> QED
    BY <2>1, <2>2, CountMove
<1>7. ASSUME NEW t \in Threads, ReleaseWrite(t) PROVE CountersMatch'
  <2>1. /\ pc[t] = "wrote"
        /\ pc' = [pc EXCEPT ![t] = "idle"]
        /\ writing' = [writing EXCEPT ![Home[t]] = @ - 1]
        /\ UNCHANGED <<reading, wwriters>>
    BY <1>7 DEF ReleaseWrite
  <2>2. ASSUME NEW p \in Pods
        PROVE  /\ reading'[p] = reading[p] + Delta(pc, t, "idle", p, Readers)
               /\ writing'[p] = writing[p] + Delta(pc, t, "idle", p, Writers)
               /\ wwriters'[p] = wwriters[p] + Delta(pc, t, "idle", p, AtWrite)
    BY <1>1, <2>1 DEF Delta
  <2> QED
    BY <2>1, <2>2, CountMove
<1>8. ASSUME NEW t \in Threads, NEW waiting, StartWriting(t, waiting), UNCHANGED reading,
             \/ pc[t] = "idle" /\ waiting = wwriters[Home[t]] + 1
             \/ pc[t] \in AtWrite /\ waiting = wwriters[Home[t]]
      PROVE  CountersMatch'
  <2>1. ASSUME NEW p \in Pods
        PROVE  /\ reading'[p] = reading[p] + Delta(pc, t, "writing", p, Readers)
               /\ writing'[p] = writing[p] + Delta(pc, t, "writing", p, Writers)
               /\ wwriters'[p] = wwriters[p] + Delta(pc, t, "writing", p, AtWrite)
    BY <1>1, <1>8 DEF Delta, StartWriting
  <2>2. pc' = [pc EXCEPT ![t] = "writing"]
    BY <1>8 DEF StartWriting
  <2> QED
    BY <2>1, <2>2, CountMove
<1>9. ASSUME NEW t \in Threads, NEW waiting, EnterWrite(t, waiting),
              \/ pc[t] = "idle" /\ waiting = wwriters[Home[t]] + 1
              \/ pc[t] = "write_turn" /\ waiting = wwriters[Home[t]]
       PROVE  CountersMatch'
  <2>1. CASE StartWriting(t, waiting)
    BY <1>8, <1>9, <2>1 DEF EnterWrite
  <2>2. ASSUME NEW s \in AtWrite, pc' = [pc EXCEPT ![t] = s],
               wwriters' = [wwriters EXCEPT ![Home[t]] = waiting],
               UNCHANGED <<reading, writing>>
        PROVE  CountersMatch'
    <3>1. ASSUME NEW p \in Pods
          PROVE  /\ reading'[p] = reading[p] + Delta(pc, t, s, p, Readers)
                 /\ writing'[p] = writing[p] + Delta(pc, t, s, p, Writers)
                 /\ wwriters'[p] = wwriters[p] + Delta(pc, t, s, p, AtWrite)
      BY <1>1, <1>9, <2>2 DEF Delta
    <3> QED
      BY <2>2, <3>1, CountMove
  <2> QED
    BY <1>9, <2>1, <2>2 DEF EnterWrite, Sleep
<1>10. ASSUME NEW t \in Threads, AwaitToken(t) PROVE CountersMatch'
  <2>1. pc[t] = "write_token" /\ UNCHANGED reading
    BY <1>10 DEF AwaitToken
  <2>2. CASE StartWriting(t, wwriters[Home[t]])
    BY <1>8, <2>1, <2>2
  <2>3. CASE pc' = [pc EXCEPT ![t] = "write_token"] /\ UNCHANGED counters
    BY <1>3, <2>1, <2>3
  <2> QED
    BY <1>10, <2>2, <2>3 DEF AwaitToken, Sleep
<1>11. ASSUME NEW t \in Threads, Acquire(t) \/ Proceed(t) \/ SpuriousWakeup(t)
       PROVE  CountersMatch'
  <2>1. CASE AcquireRead(t) \/ RetryRead(t)
    BY <1>4, <2>1 DEF AcquireRead, RetryRead
  <2>2. CASE AcquireWrite(t) \/ RetryWrite(t)
    BY <1>9, <2>2 DEF AcquireWrite, RetryWrite
  <2>3. CASE SpuriousWakeup(t)
    BY <1>2, <2>3 DEF SpuriousWakeup
  <2> QED
    BY <1>5, <1>6, <1>7, <1>11, <1>10, <2>1, <2>2, <2>3 DEF Acquire, Proceed
<1>12. ASSUME NEW p \in Pods, JoinGroup(p) \/ HandleSome(p) \/ ServeNext(p)
       PROVE  UNCHANGED <<pc, reading, writing, wwriters>>
  <2>1. ASSUME NEW m, Handle(p, m) PROVE UNCHANGED <<pc, reading, writing, wwriters>>
    BY <2>1 DEF Handle, HandleRequest, Serve, AcquireReplica, AcquireTokenUpdate,
                TokenAck, Invalidate, Update
  <2> QED
    BY <1>12, <2>1 DEF JoinGroup, HandleSome, ServeNext, Serve
<1> QED
  BY <1>2, <1>11, <1>12 DEF Next

------------------------------------------------------------------------------
(* Readers and writers of a pod *)

LEMMA ExcludeStep ==
    ASSUME TypeOK, CountersMatch, AdmittedShutsReadersOut, [Next]_vars
    PROVE  AdmittedShutsReadersOut'
<1> USE DEF vars, group, flags, counters, threads
<1> DEFINE Admitted == Writers \cup {"write_token"}
<1>1. /\ \A t \in Threads : Home[t] \in Pods
      /\ pc \in [Threads -> Places]
      /\ reading \in [Pods -> Nat] /\ writing \in [Pods -> Nat] /\ wwriters \in [Pods -> Nat]
  BY PodAssumption DEF TypeOK
<1>2. ASSUME NEW p \in Pods, reading[p] = 0, NEW t \in Threads, Home[t] = p
      PROVE  pc[t] \notin Readers
  <2>1. ~(reading[p] > 0)
    BY <1>2
  <2> QED
    BY <1>2, <2>1, CountPositive DEF CountersMatch
<1>3. ASSUME NEW p \in Pods, writing[p] = 0, wwriters[p] = 0, NEW t \in Threads, Home[t] = p
      PROVE  pc[t] \notin Admitted
  <2>1. ~(writing[p] > 0) /\ ~(wwriters[p] > 0)
    BY <1>3
  <2>2. pc[t] \notin Writers /\ pc[t] \notin AtWrite
    BY <1>3, <2>1, CountPositive DEF CountersMatch
  <2> QED
    BY <2>2
<1>4. ASSUME UNCHANGED pc PROVE AdmittedShutsReadersOut'
  BY <1>4 DEF AdmittedShutsReadersOut
<1>5. ASSUME NEW t \in Threads, NEW s \in Places, pc' = [pc EXCEPT ![t] = s],
             s \in Readers => pc[t] \in Readers \/ (writing[Home[t]] = 0 /\ wwriters[Home[t]] = 0),
             s \in Admitted => pc[t] \in Admitted \/ reading[Home[t]] = 0
      PROVE  AdmittedShutsReadersOut'
  <2> SUFFICES ASSUME NEW r \in Threads, NEW u \in Threads,
                      pc'[r] \in Readers, pc'[u] \in Admitted, Home[r] = Home[u]
               PROVE  FALSE
    BY DEF AdmittedShutsReadersOut
  <2>1. CASE r = t
    <3>1. u # t /\ pc[u] \in Admitted
      BY <1>1, <1>5, <2>1
    <3> QED
      BY <1>1, <1>3, <1>5, <2>1, <3>1 DEF AdmittedShutsReadersOut
  <2>2. CASE u = t /\ r # t
    <3>1. pc[r] \in Readers
      BY <1>1, <1>5, <2>2
    <3> QED
      BY <1>1, <1>2, <1>5, <2>2, <3>1 DEF AdmittedShutsReadersOut
  <2>3. CASE r # t /\ u # t
    BY <1>1, <1>5, <2>3 DEF AdmittedShutsReadersOut
  <2> QED
    BY <2>1, <2>2, <2>3
<1>6. ASSUME NEW t \in Threads, EnterRead(t) PROVE AdmittedShutsReadersOut'
  <2>1. CASE ReadBlocked(Home[t])
    BY <1>5, <1>6, <2>1 DEF EnterRead, Sleep
  <2>2. CASE ~ReadBlocked(Home[t])
    <3>1. writing[Home[t]] = 0 /\ wwriters[Home[t]] = 0
      BY <1>1, <2>2 DEF ReadBlocked
    <3>2. \E s \in Readers : pc' = [pc EXCEPT ![t] = s]
      BY <1>6, <2>2 DEF EnterRead, Sleep
    <3> QED
      BY <1>5, <3>1, <3>2
  <2> QED
    BY <2>1, <2>2
<1>7. ASSUME NEW t \in Threads, NEW waiting, EnterWrite(t, waiting)
      PROVE  AdmittedShutsReadersOut'
  <2>1. CASE reading[Home[t]] > 0 \/ writing[Home[t]] > 0
    BY <1>5, <1>7, <2>1 DEF EnterWrite, Sleep
  <2>2. CASE ~(reading[Home[t]] > 0 \/ writing[Home[t]] > 0)
    <3>1. reading[Home[t]] = 0
      BY <1>1, <2>2
    <3>2. \E s \in Admitted : pc' = [pc EXCEPT ![t] = s]
      BY <1>7, <2>2 DEF EnterWrite, StartWriting, Sleep
    <3> QED
      BY <1>5, <3>1, <3>2
  <2> QED
    BY <2>1, <2>2
<1>8. ASSUME NEW t \in Threads, Proceed(t) PROVE AdmittedShutsReadersOut'
  <2>1. CASE RetryRead(t)
    BY <1>6, <2>1 DEF RetryRead
  <2>2. CASE RetryWrite(t)
    BY <1>7, <2>2 DEF RetryWrite
  <2>3. CASE AwaitUpdate(t)
    <3>1. pc[t] \in Readers /\ \E s \in Readers : pc' = [pc EXCEPT ![t] = s]
      BY <2>3 DEF AwaitUpdate, Sleep
    <3> QED
      BY <1>5, <3>1
  <2>4. CASE AwaitToken(t) \/ Write(t)
    <3>1. pc[t] \in Admitted /\ \E s \in Admitted : pc' = [pc EXCEPT ![t] = s]
      BY <2>4 DEF AwaitToken, StartWriting, Write, Sleep
    <3> QED
      BY <1>5, <3>1
  <2>5. CASE ReleaseRead(t) \/ ReleaseWrite(t)
    <3>1. pc' = [pc EXCEPT ![t] = "idle"]
      BY <2>5 DEF ReleaseRead, ReleaseWrite
    <3> QED
      BY <1>5, <3>1
  <2> QED
    BY <1>8, <2>1, <2>2, <2>3, <2>4, <2>5 DEF Proceed
<1>9. ASSUME NEW t \in Threads, Acquire(t) PROVE AdmittedShutsReadersOut'
  BY <1>6, <1>7, <1>9 DEF Acquire, AcquireRead, AcquireWrite
<1>10. ASSUME NEW p \in Pods, JoinGroup(p) \/ HandleSome(p) \/ ServeNext(p)
       PROVE  UNCHANGED pc
  <2>1. ASSUME NEW m, Handle(p, m) PROVE UNCHANGED pc
    BY <2>1 DEF Handle, HandleRequest, Serve, AcquireReplica, AcquireTokenUpdate,
                TokenAck, Invalidate, Update
  <2> QED
    BY <1>10, <2>1 DEF JoinGroup, HandleSome, ServeNext, Serve
<1> QED
  BY <1>4, <1>8, <1>9, <1>10 DEF Next, SpuriousWakeup

------------------------------------------------------------------------------
(* The token *)

TokensIn(box) == {m \in box : m.type = "TokenUpdateReply"}

\* The same tokens travel in both boxes.
SameTokens(boxes, others) == \A q \in Pods : TokensIn(boxes[q]) = TokensIn(others[q])

LEMMA MulticastTokens ==
    ASSUME NEW boxes, NEW to, NEW type, NEW from, NEW value, type # "TokenUpdateReply"
    PROVE  SameTokens(Multicast(boxes, to, type, from, value), boxes)
BY DEF SameTokens, TokensIn, Multicast, Deliver

LEMMA TakenTokens ==
    ASSUME DOMAIN inbox = Pods, NEW p \in Pods, NEW m
    PROVE  \A q \in Pods : TokensIn(Taken(p, m)[q])
              = IF q = p THEN TokensIn(inbox[q]) \ {m} ELSE TokensIn(inbox[q])
<1> TAKE q \in Pods
<1>1. Taken(p, m)[q] = IF q = p THEN inbox[p] \ {m} ELSE inbox[q]
  BY TakenRemoves
<1>2. CASE q = p
  BY <1>1, <1>2 DEF TokensIn
<1>3. CASE q # p
  BY <1>1, <1>3 DEF TokensIn
<1> QED
  BY <1>2, <1>3

\* OneToken is about the flags and the travelling tokens only.
LEMMA TokenUnmoved ==
    ASSUME OneToken, token' = token, SameTokens(inbox', inbox)
    PROVE  OneToken'
BY DEF OneToken, InFlight, SameTokens, TokensIn

\* Serving a request that gives the token away sends it once.
LEMMA TokenGiven ==
    ASSUME OneToken, NEW p \in Pods, token[p], token \in [Pods -> BOOLEAN],
           NEW boxes, SameTokens(boxes, inbox), NEW to \in Pods, NEW value,
           inbox' = Multicast(boxes, {to}, "TokenUpdateReply", p, value),
           token' = [token EXCEPT ![p] = FALSE]
    PROVE  OneToken'
<1> DEFINE new == [type |-> "TokenUpdateReply", from |-> p, data |-> value,
                   no |-> Place(boxes[to], "TokenUpdateReply", p, value)]
<1>1. \A q \in Pods : ~token'[q]
  BY DEF OneToken
<1>2. \A q \in Pods : TokensIn(boxes[q]) = {}
  BY DEF OneToken, SameTokens, TokensIn, InFlight
<1>3. \A q \in Pods : inbox'[q] = IF q = to THEN boxes[q] \cup {new} ELSE boxes[q]
  BY DEF Multicast, Deliver
<1>4. new.type = "TokenUpdateReply"
  OBVIOUS
<1> HIDE DEF new
<1>5. \A q \in Pods : TokensIn(inbox'[q]) = IF q = to THEN {new} ELSE {}
  BY <1>2, <1>3, <1>4 DEF TokensIn
<1>6. \A q \in Pods : InFlight(q, "TokenUpdateReply")' = TokensIn(inbox'[q])
  BY DEF InFlight, TokensIn
<1> QED
  BY <1>1, <1>5, <1>6 DEF OneToken

\* A pod that takes a token out of its inbox becomes the only holder.
LEMMA TokenTaken ==
    ASSUME OneToken, NEW p \in Pods, NEW m \in TokensIn(inbox[p]), DOMAIN inbox = Pods,
           token \in [Pods -> BOOLEAN], token' = [token EXCEPT ![p] = TRUE],
           SameTokens(inbox', Taken(p, m))
    PROVE  OneToken'
<1>1. m \in InFlight(p, "TokenUpdateReply")
  BY DEF InFlight, TokensIn
<1>2. \A q \in Pods : ~token[q]
  BY <1>1 DEF OneToken
<1>3. \A q \in Pods : TokensIn(inbox[q]) \subseteq IF q = p THEN {m} ELSE {}
  BY <1>1 DEF OneToken, InFlight, TokensIn
<1>4. ASSUME NEW q \in Pods PROVE TokensIn(inbox'[q]) = {}
  <2>1. TokensIn(inbox'[q]) = TokensIn(Taken(p, m)[q])
    BY DEF SameTokens
  <2>2. TokensIn(Taken(p, m)[q]) = IF q = p THEN TokensIn(inbox[q]) \ {m} ELSE TokensIn(inbox[q])
    BY TakenTokens
  <2>3. TokensIn(Taken(p, m)[q]) = {}
    BY <1>3, <2>2
  <2> QED
    BY <2>1, <2>3
<1>5. \A q \in Pods : InFlight(q, "TokenUpdateReply")' = {}
  BY <1>4 DEF InFlight, TokensIn
<1>6. \A q \in Pods : token'[q] <=> q = p
  BY <1>2
<1> QED
  BY <1>5, <1>6 DEF OneToken

\* Serving a request either leaves the token where it is or sends it away,
\* and it sends it away only while no thread of the pod writes.
LEMMA ServeMoves ==
    ASSUME TypeOK, NEW p \in Pods, NEW m, m.type \in Requests, m.from \in Pods,
           NEW boxes, Serve(p, m, boxes), CanServe(p, m)
    PROVE  \/ token' = token /\ SameTokens(inbox', boxes)
           \/ /\ token[p] /\ token' = [token EXCEPT ![p] = FALSE]
              /\ inbox' = Multicast(boxes, {m.from}, "TokenUpdateReply", p, data[p])
              /\ writing[p] = 0
<1>1. token \in [Pods -> BOOLEAN] /\ writing[p] \in Nat
  BY DEF TypeOK
<1>2. token' = [token EXCEPT ![p] = KeepsToken(p, m)] /\ inbox' = Reply(p, m, boxes)
  BY DEF Serve
<1>3. CASE m.type = "TokenUpdateRequest" /\ m.from # p /\ token[p]
  <2>1. inbox' = Multicast(boxes, {m.from}, "TokenUpdateReply", p, data[p])
    BY <1>2, <1>3 DEF Reply, Answers, ReplyTo
  <2>2. token' = [token EXCEPT ![p] = FALSE]
    BY <1>2, <1>3 DEF KeepsToken
  <2>3. writing[p] = 0
    BY <1>1, <1>3 DEF CanServe
  <2> QED
    BY <1>3, <2>1, <2>2, <2>3
<1>4. CASE ~(m.type = "TokenUpdateRequest" /\ m.from # p /\ token[p])
  <2>1. KeepsToken(p, m) = token[p]
    BY <1>1, <1>4 DEF KeepsToken
  <2>2. token' = token
    BY <1>1, <1>2, <2>1
  <2>3. SameTokens(Reply(p, m, boxes), boxes)
    <3>1. CASE m.from # p /\ Answers(p, m)
      <4>1. m.type \in {"UpdateRequest", "Join"}
        BY <1>4, <3>1 DEF Answers
      <4>2. ReplyTo[m.type] # "TokenUpdateReply"
        BY <4>1 DEF ReplyTo
      <4> QED
        BY <3>1, <4>2, MulticastTokens DEF Reply
    <3>2. CASE ~(m.from # p /\ Answers(p, m))
      BY <3>2 DEF Reply, SameTokens
    <3> QED
      BY <3>1, <3>2
  <2> QED
    BY <1>2, <2>2, <2>3
<1> QED
  BY <1>3, <1>4

\* What a step does to the token: nothing, sending it, or taking it.
Stays == token' = token /\ SameTokens(inbox', inbox)

Gives(p) ==
    /\ token[p] /\ writing[p] = 0
    /\ token' = [token EXCEPT ![p] = FALSE]
    /\ \E boxes, to, value :
          /\ SameTokens(boxes, inbox) /\ to \in Pods
          /\ inbox' = Multicast(boxes, {to}, "TokenUpdateReply", p, value)
    /\ UNCHANGED pc

Takes(p) ==
    /\ token' = [token EXCEPT ![p] = TRUE]
    /\ \E m \in TokensIn(inbox[p]) : SameTokens(inbox', Taken(p, m))
    /\ UNCHANGED pc

LEMMA TokenMoves ==
    ASSUME TypeOK, [Next]_vars
    PROVE  Stays \/ \E p \in Pods : Gives(p) \/ Takes(p)
<1> USE DEF vars, group, flags, counters, threads
<1>1. DOMAIN inbox = Pods
  BY DEF TypeOK
<1>2. ASSUME NEW boxes, SameTokens(boxes, inbox), NEW p \in Pods, NEW m,
             m.type \in Requests, m.from \in Pods, CanServe(p, m), Serve(p, m, boxes)
      PROVE  Stays \/ Gives(p)
  <2>1. CASE token' = token /\ SameTokens(inbox', boxes)
    BY <1>2, <2>1 DEF Stays, SameTokens
  <2>2. CASE /\ token[p] /\ token' = [token EXCEPT ![p] = FALSE]
             /\ inbox' = Multicast(boxes, {m.from}, "TokenUpdateReply", p, data[p])
             /\ writing[p] = 0
    <3>1. UNCHANGED pc
      BY <1>2 DEF Serve
    <3> QED
      BY <1>2, <2>2, <3>1 DEF Gives
  <2> QED
    BY <1>2, <2>1, <2>2, ServeMoves
<1>3. ASSUME NEW t \in Threads, Acquire(t) \/ Proceed(t) \/ SpuriousWakeup(t) PROVE Stays
  <2>1. token' = token
    BY <1>3 DEF Acquire, Proceed, AcquireRead, RetryRead, EnterRead, AwaitUpdate,
                ReleaseRead, AcquireWrite, RetryWrite, EnterWrite, AwaitToken, Write,
                ReleaseWrite, SpuriousWakeup
  <2> DEFINE Sends == \E to, type : /\ type # "TokenUpdateReply"
                                   /\ inbox' = Multicast(inbox, to, type, Home[t], 0)
  <2>2. UNCHANGED inbox \/ Sends
    <3>1. ASSUME EnterRead(t) PROVE UNCHANGED inbox \/ Sends
      BY <3>1 DEF EnterRead
    <3>2. ASSUME NEW waiting, EnterWrite(t, waiting) PROVE UNCHANGED inbox \/ Sends
      BY <3>2 DEF EnterWrite
    <3>3. ASSUME ReleaseWrite(t) PROVE UNCHANGED inbox \/ Sends
      BY <3>3 DEF ReleaseWrite
    <3> QED
      BY <1>3, <3>1, <3>2, <3>3
         DEF Acquire, Proceed, AcquireRead, RetryRead, AwaitUpdate, ReleaseRead,
             AcquireWrite, RetryWrite, AwaitToken, Write, SpuriousWakeup
  <2> QED
    BY <2>1, <2>2, MulticastTokens DEF Stays, SameTokens
<1>4. ASSUME NEW p \in Pods, JoinGroup(p) PROVE Stays
  BY <1>4, MulticastTokens DEF JoinGroup, Stays
<1>5. ASSUME NEW p \in Pods, NEW m \in inbox[p], m.type # "TokenUpdateReply"
      PROVE  SameTokens(Taken(p, m), inbox)
  <2>1. m \notin TokensIn(inbox[p])
    BY <1>5 DEF TokensIn
  <2> QED
    <3> SUFFICES ASSUME NEW q \in Pods PROVE TokensIn(Taken(p, m)[q]) = TokensIn(inbox[q])
      BY DEF SameTokens
    <3>1. TokensIn(Taken(p, m)[q]) = IF q = p THEN TokensIn(inbox[q]) \ {m} ELSE TokensIn(inbox[q])
      BY <1>1, TakenTokens
    <3> QED
      BY <2>1, <3>1
<1>6. ASSUME NEW p \in Pods, NEW m \in inbox[p], Handle(p, m)
      PROVE  Stays \/ Gives(p) \/ Takes(p)
  <2>1. CASE HandleRequest(p, m)
    <3>1. m.type \in Requests /\ m.from \in Pods /\ m.type # "TokenUpdateReply"
      BY <2>1 DEF HandleRequest, TypeOK, IsMessage
    <3>2. CASE Serve(p, m, Taken(p, m)) /\ CanServe(p, m)
      BY <1>2, <1>5, <3>1, <3>2
    <3>3. CASE inbox' = Taken(p, m) /\ token' = token
      BY <1>5, <3>1, <3>3 DEF Stays
    <3> QED
      BY <2>1, <3>2, <3>3 DEF HandleRequest
  <2>2. CASE AcquireTokenUpdate(p, m)
    <3>1. m \in TokensIn(inbox[p])
      BY <2>2 DEF AcquireTokenUpdate, TokensIn
    <3>2. SameTokens(inbox', Taken(p, m))
      BY <2>2, MulticastTokens DEF AcquireTokenUpdate
    <3> QED
      BY <2>2, <3>1, <3>2 DEF AcquireTokenUpdate, Takes
  <2>3. CASE AcquireReplica(p, m) \/ TokenAck(p, m) \/ Invalidate(p, m) \/ Update(p, m)
    <3>1. m.type # "TokenUpdateReply" /\ inbox' = Taken(p, m) /\ token' = token
      BY <2>3 DEF AcquireReplica, TokenAck, Invalidate, Update
    <3> QED
      BY <1>5, <3>1 DEF Stays
  <2> QED
    BY <1>6, <2>1, <2>2, <2>3 DEF Handle
<1>7. ASSUME NEW p \in Pods, ServeNext(p) PROVE Stays \/ Gives(p)
  <2>1. Head(queue[p]) \in [type : Requests, from : Pods]
    <3>1. queue[p] \in Seq([type : Requests, from : Pods]) /\ queue[p] # <<>>
      BY <1>7 DEF ServeNext, TypeOK
    <3> QED
      BY <3>1, HeadTailProperties
  <2>2. Head(queue[p]).type \in Requests /\ Head(queue[p]).from \in Pods
    BY <2>1
  <2>3. SameTokens(inbox, inbox)
    BY DEF SameTokens
  <2> QED
    BY <1>2, <1>7, <2>2, <2>3 DEF ServeNext
<1>8. CASE UNCHANGED vars
  BY <1>8 DEF Stays, SameTokens
<1>9. CASE Next
  <2>1. ASSUME NEW p \in Pods, HandleSome(p) PROVE Stays \/ Gives(p) \/ Takes(p)
    BY <1>6, <2>1 DEF HandleSome, Runnable
  <2> QED
    BY <1>3, <1>4, <1>7, <1>9, <2>1 DEF Next
<1> QED
  BY <1>8, <1>9

LEMMA TokenStep ==
    ASSUME TypeOK, OneToken, [Next]_vars
    PROVE  OneToken'
<1>1. DOMAIN inbox = Pods /\ token \in [Pods -> BOOLEAN]
  BY DEF TypeOK
<1>2. CASE Stays
  BY <1>2, TokenUnmoved DEF Stays
<1>3. ASSUME NEW p \in Pods, Gives(p) PROVE OneToken'
  BY <1>1, <1>3, TokenGiven DEF Gives
<1>4. ASSUME NEW p \in Pods, Takes(p) PROVE OneToken'
  BY <1>1, <1>4, TokenTaken DEF Takes
<1> QED
  BY <1>2, <1>3, <1>4, TokenMoves

------------------------------------------------------------------------------
(* Acknowledging the token *)

AcksIn(box) == {m \in box : m.type = "TokenAck"}

\* The same acks are on their way in both boxes.
SameAcks(boxes, others) == \A q \in Pods : AcksIn(boxes[q]) = AcksIn(others[q])

\* The replies in which the token of p travels.
Handed(boxes, p) == {m \in UNION {TokensIn(boxes[q]) : q \in Pods} : m.from = p}

AtMostOne(S) == \A a, b \in S : a = b

\* The inductive form of AckIsOutstanding: the token a pod gave away and the
\* ack it waits for follow each other, and _wtoken_ack is set meanwhile.
Owes(boxes, flag, p) ==
    /\ AtMostOne(Handed(boxes, p))
    /\ AtMostOne(AcksIn(boxes[p]))
    /\ Handed(boxes, p) = {} \/ AcksIn(boxes[p]) = {}
    /\ flag <=> Handed(boxes, p) # {} \/ AcksIn(boxes[p]) # {}

AcksMatch == \A p \in Pods : Owes(inbox, wtoken_ack[p], p)

LEMMA MulticastAcks ==
    ASSUME NEW boxes, NEW to, NEW type, NEW from, NEW value, type # "TokenAck"
    PROVE  SameAcks(Multicast(boxes, to, type, from, value), boxes)
BY DEF SameAcks, AcksIn, Multicast, Deliver

LEMMA TakenAcks ==
    ASSUME DOMAIN inbox = Pods, NEW p \in Pods, NEW m
    PROVE  \A q \in Pods : AcksIn(Taken(p, m)[q])
              = IF q = p THEN AcksIn(inbox[q]) \ {m} ELSE AcksIn(inbox[q])
<1> TAKE q \in Pods
<1>1. Taken(p, m)[q] = IF q = p THEN inbox[p] \ {m} ELSE inbox[q]
  BY TakenRemoves
<1>2. CASE q = p
  BY <1>1, <1>2 DEF AcksIn
<1>3. CASE q # p
  BY <1>1, <1>3 DEF AcksIn
<1> QED
  BY <1>2, <1>3

\* What a pod owes depends on the travelling tokens and the acks only.
LEMMA OwesSame ==
    ASSUME NEW boxes, NEW others, SameTokens(boxes, others), SameAcks(boxes, others),
           NEW p \in Pods, NEW flag, Owes(others, flag, p)
    PROVE  Owes(boxes, flag, p)
<1>1. Handed(boxes, p) = Handed(others, p)
  BY DEF Handed, SameTokens
<1>2. AcksIn(boxes[p]) = AcksIn(others[p])
  BY DEF SameAcks
<1> QED
  BY <1>1, <1>2 DEF Owes

\* What a step does to tokens and acks: nothing, giving the token away, taking
\* it and sending the ack, or receiving the ack.
Quiet ==
    /\ SameTokens(inbox', inbox) /\ SameAcks(inbox', inbox)
    /\ UNCHANGED wtoken_ack

Hands(p) ==
    /\ token[p] /\ ~wtoken_ack[p]
    /\ \E boxes, to, value :
          /\ SameTokens(boxes, inbox) /\ SameAcks(boxes, inbox) /\ to \in Pods
          /\ inbox' = Multicast(boxes, {to}, "TokenUpdateReply", p, value)
    /\ wtoken_ack' = [wtoken_ack EXCEPT ![p] = TRUE]

Accepts(p) ==
    /\ \E m \in TokensIn(inbox[p]) :
          inbox' = Multicast(Taken(p, m), {m.from}, "TokenAck", p, 0)
    /\ UNCHANGED wtoken_ack

Hears(p) ==
    /\ \E m \in AcksIn(inbox[p]) : inbox' = Taken(p, m)
    /\ wtoken_ack' = [wtoken_ack EXCEPT ![p] = FALSE]

\* Serving a request gives the token away, and then only if no ack is awaited
\* and the pod awaits one afterwards, or concerns neither tokens nor acks.
LEMMA ServeAcks ==
    ASSUME TypeOK, NEW p \in Pods, NEW m, m.type \in Requests, m.from \in Pods,
           NEW boxes, SameTokens(boxes, inbox), SameAcks(boxes, inbox),
           Serve(p, m, boxes), CanServe(p, m)
    PROVE  Quiet \/ Hands(p)
<1>1. token \in [Pods -> BOOLEAN] /\ wtoken_ack \in [Pods -> BOOLEAN]
  BY DEF TypeOK
<1>2. inbox' = Reply(p, m, boxes)
  BY DEF Serve
<1>3. CASE m.type = "TokenUpdateRequest" /\ m.from # p /\ token[p]
  <2>1. inbox' = Multicast(boxes, {m.from}, "TokenUpdateReply", p, data[p])
    BY <1>2, <1>3 DEF Reply, Answers, ReplyTo
  <2>2. wtoken_ack' = [wtoken_ack EXCEPT ![p] = TRUE]
    BY <1>3 DEF Serve
  <2>3. ~wtoken_ack[p]
    BY <1>3 DEF CanServe
  <2> QED
    BY <1>3, <2>1, <2>2, <2>3 DEF Hands
<1>4. CASE ~(m.type = "TokenUpdateRequest" /\ m.from # p /\ token[p])
  <2>1. wtoken_ack' = wtoken_ack
    <3>1. wtoken_ack' = [wtoken_ack EXCEPT ![p] = wtoken_ack[p]]
      BY <1>1, <1>4 DEF Serve
    <3> QED
      BY <1>1, <3>1
  <2>2. SameTokens(inbox', boxes) /\ SameAcks(inbox', boxes)
    <3>1. CASE m.from # p /\ Answers(p, m)
      <4>1. m.type \in {"UpdateRequest", "Join"}
        BY <1>4, <3>1 DEF Answers
      <4>2. ReplyTo[m.type] # "TokenUpdateReply" /\ ReplyTo[m.type] # "TokenAck"
        BY <4>1 DEF ReplyTo
      <4>3. inbox' = Multicast(boxes, {m.from}, ReplyTo[m.type], p, data[p])
        BY <1>2, <3>1 DEF Reply
      <4> QED
        BY <4>2, <4>3, MulticastTokens, MulticastAcks
    <3>2. CASE ~(m.from # p /\ Answers(p, m))
      BY <1>2, <3>2 DEF Reply, SameTokens, SameAcks
    <3> QED
      BY <3>1, <3>2
  <2> QED
    BY <2>1, <2>2 DEF Quiet, SameTokens, SameAcks
<1> QED
  BY <1>3, <1>4

LEMMA AckMoves ==
    ASSUME TypeOK, [Next]_vars
    PROVE  Quiet \/ \E p \in Pods : Hands(p) \/ Accepts(p) \/ Hears(p)
<1> USE DEF vars, group, flags, counters, threads
<1>1. DOMAIN inbox = Pods
  BY DEF TypeOK
<1>2. ASSUME NEW t \in Threads, Acquire(t) \/ Proceed(t) \/ SpuriousWakeup(t) PROVE Quiet
  <2>1. wtoken_ack' = wtoken_ack
    BY <1>2 DEF Acquire, Proceed, AcquireRead, RetryRead, EnterRead, AwaitUpdate,
                ReleaseRead, AcquireWrite, RetryWrite, EnterWrite, AwaitToken, Write,
                ReleaseWrite, SpuriousWakeup
  <2> DEFINE Sends == \E to, type : /\ type # "TokenUpdateReply" /\ type # "TokenAck"
                                   /\ inbox' = Multicast(inbox, to, type, Home[t], 0)
  <2>2. UNCHANGED inbox \/ Sends
    <3>1. ASSUME EnterRead(t) PROVE UNCHANGED inbox \/ Sends
      BY <3>1 DEF EnterRead
    <3>2. ASSUME NEW waiting, EnterWrite(t, waiting) PROVE UNCHANGED inbox \/ Sends
      BY <3>2 DEF EnterWrite
    <3>3. ASSUME ReleaseWrite(t) PROVE UNCHANGED inbox \/ Sends
      BY <3>3 DEF ReleaseWrite
    <3> QED
      BY <1>2, <3>1, <3>2, <3>3
         DEF Acquire, Proceed, AcquireRead, RetryRead, AwaitUpdate, ReleaseRead,
             AcquireWrite, RetryWrite, AwaitToken, Write, SpuriousWakeup
  <2> QED
    BY <2>1, <2>2, MulticastTokens, MulticastAcks DEF Quiet, SameTokens, SameAcks
<1>3. ASSUME NEW p \in Pods, JoinGroup(p) PROVE Quiet
  BY <1>3, MulticastTokens, MulticastAcks DEF JoinGroup, Quiet
<1>4. ASSUME NEW p \in Pods, NEW m \in inbox[p],
             m.type # "TokenUpdateReply", m.type # "TokenAck"
      PROVE  SameTokens(Taken(p, m), inbox) /\ SameAcks(Taken(p, m), inbox)
  <2>1. m \notin TokensIn(inbox[p]) /\ m \notin AcksIn(inbox[p])
    BY <1>4 DEF TokensIn, AcksIn
  <2> SUFFICES ASSUME NEW q \in Pods
               PROVE  /\ TokensIn(Taken(p, m)[q]) = TokensIn(inbox[q])
                      /\ AcksIn(Taken(p, m)[q]) = AcksIn(inbox[q])
    BY DEF SameTokens, SameAcks
  <2>2. TokensIn(Taken(p, m)[q]) = IF q = p THEN TokensIn(inbox[q]) \ {m} ELSE TokensIn(inbox[q])
    BY <1>1, TakenTokens
  <2>3. AcksIn(Taken(p, m)[q]) = IF q = p THEN AcksIn(inbox[q]) \ {m} ELSE AcksIn(inbox[q])
    BY <1>1, TakenAcks
  <2> QED
    BY <2>1, <2>2, <2>3
<1>5. ASSUME NEW p \in Pods, NEW m \in inbox[p], Handle(p, m)
      PROVE  Quiet \/ Hands(p) \/ Accepts(p) \/ Hears(p)
  <2>1. CASE HandleRequest(p, m)
    <3>1. /\ m.type \in Requests /\ m.from \in Pods
          /\ m.type # "TokenUpdateReply" /\ m.type # "TokenAck"
      BY <2>1 DEF HandleRequest, TypeOK, IsMessage
    <3>2. CASE Serve(p, m, Taken(p, m)) /\ CanServe(p, m)
      BY <1>4, <3>1, <3>2, ServeAcks
    <3>3. CASE inbox' = Taken(p, m) /\ wtoken_ack' = wtoken_ack
      BY <1>4, <3>1, <3>3 DEF Quiet
    <3> QED
      BY <2>1, <3>2, <3>3 DEF HandleRequest
  <2>2. CASE AcquireTokenUpdate(p, m)
    <3>1. m \in TokensIn(inbox[p])
      BY <2>2 DEF AcquireTokenUpdate, TokensIn
    <3> QED
      BY <2>2, <3>1 DEF AcquireTokenUpdate, Accepts
  <2>3. CASE TokenAck(p, m)
    <3>1. m \in AcksIn(inbox[p])
      BY <2>3 DEF TokenAck, AcksIn
    <3> QED
      BY <2>3, <3>1 DEF TokenAck, Hears
  <2>4. CASE AcquireReplica(p, m) \/ Invalidate(p, m) \/ Update(p, m)
    <3>1. /\ m.type # "TokenUpdateReply" /\ m.type # "TokenAck"
          /\ inbox' = Taken(p, m) /\ wtoken_ack' = wtoken_ack
      BY <2>4 DEF AcquireReplica, Invalidate, Update
    <3> QED
      BY <1>4, <3>1 DEF Quiet
  <2> QED
    BY <1>5, <2>1, <2>2, <2>3, <2>4 DEF Handle
<1>6. SameTokens(inbox, inbox) /\ SameAcks(inbox, inbox)
  BY DEF SameTokens, SameAcks
<1>7. ASSUME NEW p \in Pods, ServeNext(p) PROVE Quiet \/ Hands(p)
  <2>1. Head(queue[p]) \in [type : Requests, from : Pods]
    <3>1. queue[p] \in Seq([type : Requests, from : Pods]) /\ queue[p] # <<>>
      BY <1>7 DEF ServeNext, TypeOK
    <3> QED
      BY <3>1, HeadTailProperties
  <2>2. Head(queue[p]).type \in Requests /\ Head(queue[p]).from \in Pods
    BY <2>1
  <2> QED
    BY <1>6, <1>7, <2>2, ServeAcks DEF ServeNext
<1>8. CASE UNCHANGED vars
  BY <1>6, <1>8 DEF Quiet
<1>9. CASE Next
  <2>1. ASSUME NEW p \in Pods, HandleSome(p)
        PROVE  Quiet \/ Hands(p) \/ Accepts(p) \/ Hears(p)
    BY <1>5, <2>1 DEF HandleSome, Runnable
  <2> QED
    BY <1>2, <1>3, <1>7, <1>9, <2>1 DEF Next
<1> QED
  BY <1>8, <1>9

\* The pod that gives the token away starts to wait for the ack of that token.
LEMMA OwesGiven ==
    ASSUME TypeOK, OneToken, AcksMatch, NEW p \in Pods, Hands(p)
    PROVE  AcksMatch'
<1>1. PICK boxes, to, value :
         /\ SameTokens(boxes, inbox) /\ SameAcks(boxes, inbox) /\ to \in Pods
         /\ inbox' = Multicast(boxes, {to}, "TokenUpdateReply", p, value)
  BY DEF Hands
<1>2. PICK new : /\ new.type = "TokenUpdateReply" /\ new.from = p
                 /\ \A q \in Pods : inbox'[q] = IF q = to THEN boxes[q] \cup {new} ELSE boxes[q]
  <2> DEFINE msg == [type |-> "TokenUpdateReply", from |-> p, data |-> value,
                     no |-> Place(boxes[to], "TokenUpdateReply", p, value)]
  <2>1. \A q \in Pods : inbox'[q] = IF q = to THEN boxes[q] \cup {msg} ELSE boxes[q]
    BY <1>1 DEF Multicast, Deliver
  <2>2. msg.type = "TokenUpdateReply" /\ msg.from = p
    OBVIOUS
  <2> QED
    BY <2>1, <2>2
<1>3. \A q \in Pods : TokensIn(boxes[q]) = {}
  BY <1>1 DEF Hands, OneToken, SameTokens, TokensIn, InFlight
<1>4. \A q \in Pods : TokensIn(inbox'[q]) = IF q = to THEN {new} ELSE {}
  BY <1>2, <1>3 DEF TokensIn
<1>5. \A q \in Pods : AcksIn(inbox'[q]) = AcksIn(inbox[q])
  BY <1>1, MulticastAcks DEF SameAcks
<1>6. \A q \in Pods : Handed(inbox', q) = IF q = p THEN {new} ELSE {}
  BY <1>1, <1>2, <1>4 DEF Handed
<1>7. \A q \in Pods : Handed(inbox, q) = {}
  BY <1>1, <1>3 DEF Handed, SameTokens
<1>8. wtoken_ack \in [Pods -> BOOLEAN] /\ ~wtoken_ack[p]
      /\ wtoken_ack' = [wtoken_ack EXCEPT ![p] = TRUE]
  BY DEF TypeOK, Hands
<1>9. ASSUME NEW q \in Pods PROVE Owes(inbox', wtoken_ack'[q], q)
  <2>1. Owes(inbox, wtoken_ack[q], q)
    BY DEF AcksMatch
  <2>2. AcksIn(inbox[p]) = {}
    BY <1>8 DEF AcksMatch, Owes
  <2> QED
    BY <1>5, <1>6, <1>7, <1>8, <2>1, <2>2 DEF Owes, AtMostOne
<1> QED
  BY <1>9 DEF AcksMatch

\* The pod that takes the token sends the ack to the pod it came from.
LEMMA OwesAccepted ==
    ASSUME TypeOK, OneToken, AcksMatch, NEW p \in Pods, Accepts(p)
    PROVE  AcksMatch'
<1>1. PICK m \in TokensIn(inbox[p]) :
         inbox' = Multicast(Taken(p, m), {m.from}, "TokenAck", p, 0)
  BY DEF Accepts
<1>2. DOMAIN inbox = Pods /\ m.from \in Pods
  BY DEF TypeOK, IsMessage, TokensIn
<1>3. PICK new : /\ new.type = "TokenAck" /\ new.from = p
                 /\ \A q \in Pods : inbox'[q] = IF q = m.from THEN Taken(p, m)[q] \cup {new}
                                                ELSE Taken(p, m)[q]
  <2> DEFINE msg == [type |-> "TokenAck", from |-> p, data |-> 0,
                     no |-> Place(Taken(p, m)[m.from], "TokenAck", p, 0)]
  <2>1. \A q \in Pods : inbox'[q] = IF q = m.from THEN Taken(p, m)[q] \cup {msg}
                                     ELSE Taken(p, m)[q]
    BY <1>1 DEF Multicast, Deliver
  <2>2. msg.type = "TokenAck" /\ msg.from = p
    OBVIOUS
  <2> QED
    BY <2>1, <2>2
<1>4. m \in InFlight(p, "TokenUpdateReply")
  BY DEF InFlight, TokensIn
<1>5. \A q \in Pods : TokensIn(inbox[q]) = IF q = p THEN {m} ELSE {}
  BY <1>4 DEF OneToken, InFlight, TokensIn
<1>6. \A q \in Pods : TokensIn(inbox'[q]) = {}
  <2> TAKE q \in Pods
  <2>1. TokensIn(inbox'[q]) = TokensIn(Taken(p, m)[q])
    BY <1>1, MulticastTokens DEF SameTokens
  <2>2. DOMAIN inbox = Pods
    BY <1>2
  <2>3. TokensIn(Taken(p, m)[q]) = IF q = p THEN TokensIn(inbox[q]) \ {m} ELSE TokensIn(inbox[q])
    BY <2>2, TakenTokens
  <2> QED
    BY <1>5, <2>1, <2>3
<1>7. \A q \in Pods : AcksIn(Taken(p, m)[q]) = AcksIn(inbox[q])
  <2> TAKE q \in Pods
  <2>1. AcksIn(Taken(p, m)[q]) = IF q = p THEN AcksIn(inbox[q]) \ {m} ELSE AcksIn(inbox[q])
    BY <1>2, TakenAcks
  <2>2. m \notin AcksIn(inbox[p])
    BY <1>1 DEF TokensIn, AcksIn
  <2> QED
    BY <2>1, <2>2
<1>8. \A q \in Pods : AcksIn(inbox'[q]) = IF q = m.from THEN AcksIn(inbox[q]) \cup {new}
                                          ELSE AcksIn(inbox[q])
  <2> TAKE q \in Pods
  <2>1. AcksIn(inbox'[q]) = IF q = m.from THEN AcksIn(Taken(p, m)[q]) \cup {new}
                            ELSE AcksIn(Taken(p, m)[q])
    BY <1>3 DEF AcksIn
  <2> QED
    BY <1>7, <2>1
<1>9. \A q \in Pods : Handed(inbox, q) = IF q = m.from THEN {m} ELSE {}
  BY <1>2, <1>5 DEF Handed
<1>10. \A q \in Pods : Handed(inbox', q) = {}
  BY <1>6 DEF Handed
<1>11. ASSUME NEW q \in Pods PROVE Owes(inbox', wtoken_ack'[q], q)
  <2>1. Owes(inbox, wtoken_ack[q], q) /\ wtoken_ack'[q] = wtoken_ack[q]
    BY DEF AcksMatch, Accepts
  <2> QED
    BY <1>8, <1>9, <1>10, <2>1 DEF Owes, AtMostOne
<1> QED
  BY <1>11 DEF AcksMatch

\* The one ack a pod waits for ends its wait.
LEMMA OwesHeard ==
    ASSUME TypeOK, AcksMatch, NEW p \in Pods, Hears(p)
    PROVE  AcksMatch'
<1>1. PICK m \in AcksIn(inbox[p]) : inbox' = Taken(p, m)
  BY DEF Hears
<1>2. DOMAIN inbox = Pods /\ wtoken_ack \in [Pods -> BOOLEAN]
      /\ wtoken_ack' = [wtoken_ack EXCEPT ![p] = FALSE]
  BY DEF TypeOK, Hears
<1>3. m \notin TokensIn(inbox[p])
  BY <1>1 DEF TokensIn, AcksIn
<1>4. \A q \in Pods : TokensIn(inbox'[q]) = TokensIn(inbox[q])
  <2> TAKE q \in Pods
  <2>1. DOMAIN inbox = Pods
    BY <1>2
  <2>2. TokensIn(Taken(p, m)[q]) = IF q = p THEN TokensIn(inbox[q]) \ {m} ELSE TokensIn(inbox[q])
    BY <2>1, TakenTokens
  <2> QED
    BY <1>1, <1>3, <2>2
<1>5. \A q \in Pods : AcksIn(inbox'[q]) = IF q = p THEN AcksIn(inbox[q]) \ {m}
                                          ELSE AcksIn(inbox[q])
  BY <1>1, <1>2, TakenAcks
<1>6. \A q \in Pods : Handed(inbox', q) = Handed(inbox, q)
  BY <1>4 DEF Handed
<1>7. ASSUME NEW q \in Pods PROVE Owes(inbox', wtoken_ack'[q], q)
  <2>1. Owes(inbox, wtoken_ack[q], q)
    BY DEF AcksMatch
  <2>2. CASE q = p
    BY <1>1, <1>2, <1>5, <1>6, <2>1, <2>2 DEF Owes, AtMostOne
  <2>3. CASE q # p
    BY <1>2, <1>5, <1>6, <2>1, <2>3 DEF Owes
  <2> QED
    BY <2>2, <2>3
<1> QED
  BY <1>7 DEF AcksMatch

LEMMA AckStep ==
    ASSUME TypeOK, OneToken, AcksMatch, [Next]_vars
    PROVE  AcksMatch'
<1>1. CASE Quiet
  BY <1>1, OwesSame DEF Quiet, AcksMatch
<1> QED
  BY <1>1, AckMoves, OwesGiven, OwesAccepted, OwesHeard

------------------------------------------------------------------------------
(* The writers *)

\* What a step does to the set of writers: nothing, adding a thread whose pod
\* holds the token, or removing one.
Busy == {t \in Threads : pc[t] \in Writers}

Starts(t) == t \notin Busy /\ token[Home[t]] /\ Busy' = Busy \cup {t}

Stops(t) == t \in Busy /\ Busy' = Busy \ {t}

LEMMA WritersMove ==
    ASSUME TypeOK, [Next]_vars
    PROVE  \/ Busy' = Busy
           \/ token' = token /\ \E t \in Threads : Starts(t) \/ Stops(t)
<1> USE DEF vars, group, flags, counters, threads
<1>1. pc \in [Threads -> Places]
  BY DEF TypeOK
<1>2. ASSUME UNCHANGED pc PROVE Busy' = Busy
  BY <1>2 DEF Busy
<1>3. ASSUME NEW t \in Threads, NEW s, pc' = [pc EXCEPT ![t] = s],
             pc[t] \in Writers <=> s \in Writers
      PROVE  Busy' = Busy
  BY <1>1, <1>3 DEF Busy
<1>4. ASSUME NEW t \in Threads, pc' = [pc EXCEPT ![t] = "writing"], pc[t] \notin Writers,
             token[Home[t]]
      PROVE  Starts(t)
  BY <1>1, <1>4 DEF Busy, Starts
<1>5. ASSUME NEW t \in Threads, pc' = [pc EXCEPT ![t] = "idle"], pc[t] \in Writers
      PROVE  Stops(t)
  BY <1>1, <1>5 DEF Busy, Stops
<1>6. ASSUME NEW t \in Threads, EnterRead(t), pc[t] \notin Writers PROVE Busy' = Busy
  <2>1. \E s \in AtRead \cup Readers : pc' = [pc EXCEPT ![t] = s]
    BY <1>6 DEF EnterRead, Sleep
  <2> QED
    BY <1>3, <1>6, <2>1
<1>7. ASSUME NEW t \in Threads, NEW waiting, EnterWrite(t, waiting), pc[t] \notin Writers
      PROVE  Busy' = Busy \/ (token' = token /\ Starts(t))
  <2>1. CASE \E s \in AtWrite : Sleep(t, s)
    BY <1>3, <1>7, <2>1 DEF Sleep
  <2>2. CASE token[Home[t]] /\ StartWriting(t, waiting)
    BY <1>4, <1>7, <2>2 DEF EnterWrite, StartWriting
  <2> QED
    BY <1>7, <2>1, <2>2 DEF EnterWrite
<1>8. ASSUME NEW t \in Threads, Proceed(t)
      PROVE  Busy' = Busy \/ (token' = token /\ (Starts(t) \/ Stops(t)))
  <2>1. CASE RetryRead(t)
    BY <1>6, <2>1 DEF RetryRead
  <2>2. CASE RetryWrite(t)
    BY <1>7, <2>2 DEF RetryWrite
  <2>3. CASE AwaitUpdate(t) \/ ReleaseRead(t)
    <3>1. pc[t] \notin Writers /\ \E s \in {"idle"} \cup Readers : pc' = [pc EXCEPT ![t] = s]
      BY <2>3 DEF AwaitUpdate, ReleaseRead, Sleep
    <3> QED
      BY <1>3, <3>1
  <2>4. CASE AwaitToken(t)
    <3>1. CASE token[Home[t]] /\ validity[Home[t]]
      BY <1>4, <2>4, <3>1 DEF AwaitToken, StartWriting
    <3>2. CASE ~(token[Home[t]] /\ validity[Home[t]])
      BY <1>3, <2>4, <3>2 DEF AwaitToken, Sleep
    <3> QED
      BY <3>1, <3>2
  <2>5. CASE Write(t)
    BY <1>3, <2>5 DEF Write
  <2>6. CASE ReleaseWrite(t)
    BY <1>5, <2>6 DEF ReleaseWrite
  <2> QED
    BY <1>8, <2>1, <2>2, <2>3, <2>4, <2>5, <2>6 DEF Proceed
<1>9. ASSUME NEW t \in Threads, Acquire(t)
      PROVE  Busy' = Busy \/ (token' = token /\ Starts(t))
  BY <1>6, <1>7, <1>9 DEF Acquire, AcquireRead, AcquireWrite
<1>10. ASSUME NEW p \in Pods, JoinGroup(p) \/ HandleSome(p) \/ ServeNext(p)
       PROVE  UNCHANGED pc
  <2>1. ASSUME NEW m, Handle(p, m) PROVE UNCHANGED pc
    BY <2>1 DEF Handle, HandleRequest, Serve, AcquireReplica, AcquireTokenUpdate,
                TokenAck, Invalidate, Update
  <2> QED
    BY <1>10, <2>1 DEF JoinGroup, HandleSome, ServeNext, Serve
<1> QED
  BY <1>2, <1>8, <1>9, <1>10 DEF Next, SpuriousWakeup

\* A pod that gives the token away has no writer.
LEMMA GiverIdle ==
    ASSUME TypeOK, CountersMatch, NEW p \in Pods, Gives(p), NEW t \in Busy
    PROVE  Home[t] # p
<1>1. ~(writing[p] > 0)
  BY DEF Gives, TypeOK
<1> QED
  BY <1>1, CountPositive DEF CountersMatch, Busy

LEMMA HoldStep ==
    ASSUME TypeOK, CountersMatch, WriterHoldsToken, [Next]_vars
    PROVE  WriterHoldsToken'
<1>1. /\ \A t \in Threads : Home[t] \in Pods
      /\ token \in [Pods -> BOOLEAN]
  BY PodAssumption DEF TypeOK
<1>2. \A t \in Busy : t \in Threads /\ token[Home[t]]
  BY DEF Busy, WriterHoldsToken
<1>3. SUFFICES \A t \in Busy' : token'[Home[t]]
  BY DEF Busy, WriterHoldsToken
<1>4. CASE Busy' = Busy
  <2>1. CASE Stays
    BY <1>2, <1>4, <2>1 DEF Stays
  <2>2. ASSUME NEW p \in Pods, Gives(p) PROVE \A t \in Busy' : token'[Home[t]]
    BY <1>1, <1>2, <1>4, <2>2, GiverIdle DEF Gives
  <2>3. ASSUME NEW p \in Pods, Takes(p) PROVE \A t \in Busy' : token'[Home[t]]
    BY <1>1, <1>2, <1>4, <2>3 DEF Takes
  <2> QED
    BY <2>1, <2>2, <2>3, TokenMoves
<1>5. CASE token' = token /\ \E t \in Threads : Starts(t) \/ Stops(t)
  BY <1>2, <1>5 DEF Starts, Stops
<1> QED
  BY <1>4, <1>5, WritersMove

------------------------------------------------------------------------------
(* The order of messages *)

Facts == {"UpdateReply", "CreateReplica", "TokenUpdateReply", "Invalidate"}

IsCopy(m) == m.type \in Facts \ {"Invalidate"}

\* The handler threads of a pod are numbered in the order of delivery.
Numbered(box) ==
    /\ \A m \in box : m.no \in Nat
    /\ \A m, n \in box : m.no = n.no => m = n
    /\ \E last \in Nat : \A m \in box : m.no <= last

\* What a pod with these messages, flags and copy knows of the resource, when
\* total writes were made; late: a writer has not told of its write yet.
Knows(box, tok, valid, copy, total, late) ==
    /\ tok => valid /\ copy = total /\ \A m \in box : m.type \notin Facts
    /\ \A m \in box : m.type = "TokenUpdateReply" =>
          m.data = total /\ \A n \in box : n.type \in Facts => n.no <= m.no
    /\ copy <= total
    /\ \A m \in box : IsCopy(m) =>
          /\ copy <= m.data /\ m.data <= total
          /\ m.data = total \/ late \/ \E n \in box : n.type = "Invalidate" /\ m.no < n.no
    /\ \A m, n \in box : IsCopy(m) /\ IsCopy(n) /\ m.no <= n.no => m.data <= n.data
    /\ valid => copy = total \/ late \/ \E n \in box : n.type = "Invalidate"

\* Messages are between pods of crew.
Contained(boxes, crew) ==
    \A p \in Pods : /\ boxes[p] # {} => p \in crew
                    /\ \A m \in boxes[p] : m.from \in crew

\* Requests wait at members, for members.
Waiters(queues) ==
    \A p \in Pods : \A i \in DOMAIN queues[p] :
        p \in members /\ queues[p][i].from \in members

\* Only pods of the resource's group take part.
Situated ==
    /\ replica \subseteq members
    /\ \A p \in Pods : validity[p] => p \in members
    /\ Contained(inbox, members)
    /\ Waiters(queue)
    /\ \A t \in Threads : pc[t] # "idle" => Home[t] \in members

\* A set of natural numbers has a least one.
LEMMA LeastOfNaturals ==
    ASSUME NEW S, S \subseteq Nat, S # {}
    PROVE  \E least \in S : \A k \in S : least <= k
<1> DEFINE below == OpToRel(<, Nat)
<1>1. IsWellFoundedOn(below, Nat)
  BY NatLessThanWellFounded
<1>2. \A i, j \in Nat : <<i, j>> \in below <=> i < j
  BY DEF OpToRel
<1> HIDE DEF below
<1>3. PICK least \in S : \A k \in S : ~(<<k, least>> \in below)
  BY <1>1, WFMin
<1>4. ASSUME NEW k \in S PROVE least <= k
  <2>1. k \in Nat /\ least \in Nat /\ ~(<<k, least>> \in below)
    BY <1>3
  <2>2. ~(k < least)
    BY <1>2, <2>1
  <2> QED
    BY <2>1, <2>2
<1> QED
  BY <1>4

\* A new handler thread comes after every one that waits.
LEMMA PlaceLast ==
    ASSUME InOrder, NEW box, Numbered(box), NEW type, NEW from, NEW value
    PROVE  /\ Place(box, type, from, value) \in Nat
           /\ \A m \in box : m.no < Place(box, type, from, value)
<1> DEFINE nos == {m.no : m \in box} \cup {0}
           bounds == {k \in Nat : \A x \in nos : x <= k}
<1>1. nos \subseteq Nat /\ nos # {} /\ 0 \in nos
  BY DEF Numbered
<1>2. \E k \in Nat : k \in bounds
  BY DEF Numbered
<1>3. PICK top \in bounds : \A k \in bounds : top <= k
  BY <1>2, LeastOfNaturals
<1>4. top \in nos
  <2> SUFFICES ASSUME top \notin nos PROVE FALSE
    OBVIOUS
  <2>1. top \in Nat /\ \A x \in nos : x \in Nat /\ x <= top /\ x # top
    BY <1>1
  <2>2. top # 0
    BY <1>1
  <2>3. top - 1 \in Nat /\ \A x \in nos : x <= top - 1
    BY <2>1, <2>2
  <2>4. top <= top - 1
    BY <1>3, <2>3
  <2> QED
    BY <2>1, <2>4
<1>5. Max(nos) \in nos /\ \A x \in nos : Max(nos) >= x
  <2>1. top \in nos /\ \A x \in nos : top >= x
    BY <1>1, <1>4
  <2> QED
    BY <2>1 DEF Max
<1>6. Place(box, type, from, value) = Max(nos) + 1
  BY DEF Place
<1> HIDE DEF nos, bounds
<1>7. Max(nos) \in Nat /\ \A m \in box : m.no <= Max(nos) /\ m.no \in Nat
  <2>1. \A m \in box : m.no \in nos
    BY DEF nos
  <2> QED
    BY <1>1, <1>5, <2>1
<1> QED
  BY <1>6, <1>7

LEMMA DeliverNumbered ==
    ASSUME InOrder, NEW box, Numbered(box), NEW type, NEW from, NEW value
    PROVE  Numbered(Deliver(box, type, from, value))
<1> DEFINE place == Place(box, type, from, value)
           new == [type |-> type, from |-> from, data |-> value, no |-> place]
<1>1. place \in Nat /\ \A m \in box : m.no < place
  BY PlaceLast
<1>2. Deliver(box, type, from, value) = box \cup {new} /\ new.no = place
  BY DEF Deliver
<1> HIDE DEF place, new
<1>3. \A m \in box : m.no \in Nat
  BY DEF Numbered
<1>4. \A m \in box \cup {new} : m.no \in Nat /\ m.no <= place
  BY <1>1, <1>2, <1>3
<1>5. \A m, n \in box \cup {new} : m.no = n.no => m = n
  <2> SUFFICES ASSUME NEW m \in box \cup {new}, NEW n \in box \cup {new}, m.no = n.no
               PROVE  m = n
    OBVIOUS
  <2>1. CASE m \in box /\ n \in box
    BY <2>1 DEF Numbered
  <2>2. CASE m = new /\ n \in box
    BY <1>1, <1>2, <1>3, <2>2
  <2>3. CASE m \in box /\ n = new
    BY <1>1, <1>2, <1>3, <2>3
  <2> QED
    BY <2>1, <2>2, <2>3
<1> QED
  BY <1>1, <1>2, <1>4, <1>5 DEF Numbered

------------------------------------------------------------------------------
(* What a pod knows, message by message *)

\* A message that carries no fact about the resource changes nothing.
LEMMA OtherAdded ==
    ASSUME NEW box, NEW new, new.type \notin Facts, NEW tok, NEW valid, NEW copy, NEW total,
           NEW late, Knows(box, tok, valid, copy, total, late)
    PROVE  Knows(box \cup {new}, tok, valid, copy, total, late)
<1>1. new.type # "TokenUpdateReply" /\ ~IsCopy(new) /\ new.type # "Invalidate"
  BY DEF Facts, IsCopy
<1> QED
  BY <1>1 DEF Knows

LEMMA OtherTaken ==
    ASSUME NEW box, NEW m, m.type \notin Facts, NEW tok, NEW valid, NEW copy, NEW total,
           NEW late, Knows(box, tok, valid, copy, total, late)
    PROVE  Knows(box \ {m}, tok, valid, copy, total, late)
<1>1. m.type # "Invalidate"
  BY DEF Facts
<1> QED
  BY <1>1 DEF Knows

\* The messages of a box carry numbers.
Numeric(box) == \A m \in box : m.no \in Nat /\ m.data \in Nat

NoToken(box) == \A m \in box : m.type # "TokenUpdateReply"

\* A copy of the resource with every write so far, sent after everything else.
LEMMA CopyAdded ==
    ASSUME NEW box, Numeric(box), NoToken(box), NEW new, IsCopy(new), new.no \in Nat,
           \A m \in box : m.no < new.no,
           NEW valid, NEW copy \in Nat, NEW total \in Nat, new.data = total,
           NEW late, Knows(box, FALSE, valid, copy, total, late)
    PROVE  Knows(box \cup {new}, FALSE, valid, copy, total, late)
<1> DEFINE after == box \cup {new}
<1>1. new.type # "Invalidate"
  BY DEF IsCopy
<1>2. ASSUME NEW m \in after, m.type = "TokenUpdateReply"
      PROVE  m.data = total /\ \A n \in after : n.type \in Facts => n.no <= m.no
  BY <1>2 DEF NoToken, Numeric
<1>3. ASSUME NEW m \in after, IsCopy(m)
      PROVE  /\ copy <= m.data /\ m.data <= total
             /\ m.data = total \/ late \/ \E n \in after : n.type = "Invalidate" /\ m.no < n.no
  BY <1>3 DEF Knows
<1>4. ASSUME NEW m \in after, NEW n \in after, IsCopy(m), IsCopy(n), m.no <= n.no
      PROVE  m.data <= n.data
  <2>1. m \in box \/ n = new
    BY <1>4 DEF Numeric
  <2>2. m.data <= total
    BY <1>3, <1>4
  <2>3. CASE n = new
    BY <2>2, <2>3
  <2>4. CASE m \in box /\ n \in box
    BY <1>4, <2>4 DEF Knows
  <2> QED
    BY <2>1, <2>3, <2>4
<1>5. copy <= total /\ (valid => copy = total \/ late \/ \E n \in after : n.type = "Invalidate")
  BY DEF Knows
<1> QED
  BY <1>2, <1>3, <1>4, <1>5 DEF Knows

\* An invalidation, sent after everything else, covers every copy before it.
LEMMA InvalidateAdded ==
    ASSUME NEW box, NoToken(box), NEW new, new.type = "Invalidate",
           \A m \in box : m.no < new.no,
           NEW valid, NEW copy, NEW total,
           NEW late, NEW other, Knows(box, FALSE, valid, copy, total, late)
    PROVE  Knows(box \cup {new}, FALSE, valid, copy, total, other)
<1>1. ~IsCopy(new)
  BY DEF IsCopy
<1> QED
  BY <1>1 DEF Knows, NoToken

\* The holder of the token has no news to come.
LEMMA HolderKnows ==
    ASSUME NEW box, NEW valid, NEW copy, NEW total \in Nat, NEW late, NEW more \in Nat, NEW other,
           Knows(box, TRUE, valid, copy, total, late)
    PROVE  Knows(box, TRUE, valid, more, more, other)
<1>1. \A m \in box : ~IsCopy(m) /\ m.type # "TokenUpdateReply"
  BY DEF Knows, IsCopy, Facts
<1>2. valid /\ copy = total /\ \A m \in box : m.type \notin Facts
  BY DEF Knows
<1> QED
  BY <1>1, <1>2 DEF Knows

LEMMA GiverKnows ==
    ASSUME NEW box, NEW tok, NEW valid, NEW copy, NEW total, NEW late,
           Knows(box, tok, valid, copy, total, late)
    PROVE  Knows(box, FALSE, valid, copy, total, late)
BY DEF Knows

\* Elsewhere, a write makes copies late.
LEMMA OthersWrite ==
    ASSUME NEW box, Numeric(box), NoToken(box), NEW valid, NEW copy \in Nat, NEW total \in Nat,
           NEW late, Knows(box, FALSE, valid, copy, total, late)
    PROVE  Knows(box, FALSE, valid, copy, total + 1, TRUE)
<1>1. copy <= total + 1
  BY DEF Knows
<1>2. \A m \in box : IsCopy(m) => copy <= m.data /\ m.data <= total + 1
  BY DEF Knows, Numeric
<1> QED
  BY <1>1, <1>2 DEF Knows, NoToken

\* A pod outside the resource's group has nothing that could become stale.
LEMMA StrangerKnows ==
    ASSUME NEW copy, NEW total, NEW late, NEW other, Knows({}, FALSE, FALSE, copy, total, late)
    PROVE  Knows({}, FALSE, FALSE, copy, total, other)
BY DEF Knows

\* The first message of a box.
First(box, m) == m \in box /\ \A n \in box : m.no <= n.no

\* A copy that is taken in turn is as recent as the one it replaces.
LEMMA CopyTaken ==
    ASSUME NEW box, Numeric(box), NEW m, First(box, m), IsCopy(m), m.type # "TokenUpdateReply",
           NEW tok, NEW valid, NEW copy \in Nat, NEW total \in Nat, NEW late, NEW fresh,
           Knows(box, tok, valid, copy, total, late)
    PROVE  /\ ~tok
           /\ copy <= m.data
           /\ Knows(box \ {m}, tok, fresh, m.data, total, late)
<1> DEFINE after == box \ {m}
<1>1. m.type \in Facts /\ m.type # "Invalidate" /\ m \in box
  BY DEF IsCopy, First
<1>2. ~tok /\ copy <= m.data /\ m.data <= total
  BY <1>1 DEF Knows
<1>3. m.data = total \/ late \/ \E n \in after : n.type = "Invalidate" /\ m.no < n.no
  BY <1>1 DEF Knows
<1>4. ASSUME NEW n \in after, IsCopy(n)
      PROVE  /\ m.data <= n.data /\ n.data <= total
             /\ n.data = total \/ late \/ \E k \in after : k.type = "Invalidate" /\ n.no < k.no
  <2>1. m.no <= n.no /\ n \in box
    BY DEF First
  <2> QED
    BY <1>1, <1>4, <2>1 DEF Knows
<1>5. \A n \in after : n.type = "TokenUpdateReply" =>
          n.data = total /\ \A k \in after : k.type \in Facts => k.no <= n.no
  BY DEF Knows
<1>6. \A k, n \in after : IsCopy(k) /\ IsCopy(n) /\ k.no <= n.no => k.data <= n.data
  BY DEF Knows
<1>7. fresh => m.data = total \/ late \/ \E n \in after : n.type = "Invalidate"
  BY <1>3
<1> HIDE DEF after
<1>8. Knows(after, tok, fresh, m.data, total, late)
  BY <1>2, <1>4, <1>5, <1>6, <1>7 DEF Knows
<1> QED
  BY <1>2, <1>8 DEF after

\* The token comes last, with the resource as it is.
LEMMA TokenTakenLast ==
    ASSUME NEW box, Numeric(box), \A m, n \in box : m.no = n.no => m = n,
           NEW m, First(box, m), m.type = "TokenUpdateReply",
           NEW tok, NEW valid, NEW copy \in Nat, NEW total \in Nat, NEW late,
           Knows(box, tok, valid, copy, total, late)
    PROVE  /\ copy <= m.data
           /\ Knows(box \ {m}, TRUE, TRUE, m.data, total, late)
<1>1. m \in box /\ IsCopy(m)
  BY DEF First, IsCopy, Facts
<1>2. m.data = total /\ copy <= m.data
  BY <1>1 DEF Knows
<1>3. ASSUME NEW n \in box, n.type \in Facts PROVE n = m
  <2>1. n.no <= m.no /\ m.no <= n.no
    BY <1>1, <1>3 DEF Knows, First
  <2>2. n.no = m.no
    BY <1>1, <2>1 DEF Numeric
  <2> QED
    BY <1>1, <2>2
<1>4. \A n \in box \ {m} : n.type \notin Facts
  BY <1>3
<1>5. \A n \in box \ {m} : ~IsCopy(n) /\ n.type # "TokenUpdateReply"
  BY <1>4 DEF IsCopy, Facts
<1> QED
  BY <1>2, <1>4, <1>5 DEF Knows

\* The copies that come after an invalidation are not covered by it.
LEMMA InvalidateTaken ==
    ASSUME NEW box, Numeric(box), NEW m, First(box, m), m.type = "Invalidate",
           NEW tok, NEW valid, NEW copy, NEW total, NEW late,
           Knows(box, tok, valid, copy, total, late)
    PROVE  Knows(box \ {m}, tok, FALSE, copy, total, late)
<1>1. m \in box /\ ~tok
  BY DEF First, Knows, Facts
<1>2. \A n \in box : m.no <= n.no /\ m.no \in Nat /\ n.no \in Nat
  BY <1>1 DEF First, Numeric
<1>3. ASSUME NEW n \in box, IsCopy(n)
      PROVE  n.data = total \/ late \/ \E k \in box \ {m} : k.type = "Invalidate" /\ n.no < k.no
  <2>1. \A k \in box : n.no < k.no => k # m
    BY <1>2
  <2> QED
    BY <1>3, <2>1 DEF Knows
<1> QED
  BY <1>1, <1>3 DEF Knows

------------------------------------------------------------------------------
(* Numbers and members *)

AllNumbered(boxes) == \A p \in Pods : Numbered(boxes[p])

LEMMA MulticastNumbered ==
    ASSUME InOrder, NEW boxes, AllNumbered(boxes), NEW to, NEW type, NEW from, NEW value
    PROVE  AllNumbered(Multicast(boxes, to, type, from, value))
<1> SUFFICES ASSUME NEW p \in Pods
             PROVE  Numbered(Multicast(boxes, to, type, from, value)[p])
  BY DEF AllNumbered
<1>1. Numbered(boxes[p])
  BY DEF AllNumbered
<1>2. Numbered(Deliver(boxes[p], type, from, value))
  BY <1>1, DeliverNumbered
<1>3. \/ Multicast(boxes, to, type, from, value)[p] = boxes[p]
      \/ Multicast(boxes, to, type, from, value)[p] = Deliver(boxes[p], type, from, value)
  BY DEF Multicast
<1> QED
  BY <1>1, <1>2, <1>3

LEMMA TakenNumbered ==
    ASSUME DOMAIN inbox = Pods, AllNumbered(inbox), NEW p \in Pods, NEW m
    PROVE  AllNumbered(Taken(p, m))
<1>1. \A q \in Pods : Taken(p, m)[q] \subseteq inbox[q]
  BY DEF Taken
<1> QED
  BY <1>1 DEF AllNumbered, Numbered

LEMMA MulticastSituated ==
    ASSUME NEW boxes, NEW crew, Contained(boxes, crew), NEW to, to \subseteq crew,
           NEW type, NEW from \in crew, NEW value
    PROVE  Contained(Multicast(boxes, to, type, from, value), crew)
BY DEF Contained, Multicast, Deliver

LEMMA TakenSituated ==
    ASSUME DOMAIN inbox = Pods, NEW crew, Contained(inbox, crew), NEW p \in Pods, NEW m
    PROVE  Contained(Taken(p, m), crew)
<1>1. \A q \in Pods : Taken(p, m)[q] \subseteq inbox[q]
  BY DEF Taken
<1> QED
  BY <1>1 DEF Contained

LEMMA ServeSituated ==
    ASSUME NEW p \in Pods, NEW m, p \in members, m.from \in members,
           NEW boxes, Contained(boxes, members), AllNumbered(boxes), InOrder,
           Serve(p, m, boxes)
    PROVE  Contained(inbox', members) /\ AllNumbered(inbox')
<1>1. CASE inbox' = boxes
  BY <1>1
<1>2. CASE inbox' = Multicast(boxes, {m.from}, ReplyTo[m.type], p, data[p])
  BY <1>2, MulticastNumbered, MulticastSituated
<1> QED
  BY <1>1, <1>2 DEF Serve, Reply

\* Only members send, receive, wait and use the resource, and the messages of
\* every pod stay numbered.
LEMMA SituatedStep ==
    ASSUME TypeOK, Situated, AllNumbered(inbox), InOrder, [Next]_vars
    PROVE  Situated' /\ AllNumbered(inbox')
<1> USE DEF vars, group, flags, counters, threads
<1>1. /\ DOMAIN inbox = Pods /\ pc \in [Threads -> Places]
      /\ \A t \in Threads : Home[t] \in Pods
  BY PodAssumption DEF TypeOK
<1>2. /\ replica \subseteq members
      /\ \A p \in Pods : validity[p] => p \in members
      /\ Contained(inbox, members)
      /\ Waiters(queue)
      /\ \A t \in Threads : pc[t] # "idle" => Home[t] \in members
  BY DEF Situated
<1>3. ASSUME NEW t \in Threads, Home[t] \in members,
             pc' = pc \/ \E s : pc' = [pc EXCEPT ![t] = s],
             Contained(inbox', members), UNCHANGED <<group, validity, queue>>
      PROVE  Situated'
  <2>1. \A u \in Threads : pc'[u] # "idle" => Home[u] \in members
    BY <1>1, <1>2, <1>3
  <2>2. Waiters(queue)'
    BY <1>2, <1>3 DEF Waiters
  <2> QED
    BY <1>2, <1>3, <2>1, <2>2 DEF Situated, Contained
<1>4. ASSUME NEW t \in Threads, Home[t] \in members, NEW to, to \subseteq members, NEW type,
             NEW value
      PROVE  /\ Contained(Multicast(inbox, to, type, Home[t], value), members)
             /\ AllNumbered(Multicast(inbox, to, type, Home[t], value))
  BY <1>2, <1>4, MulticastSituated, MulticastNumbered
<1>5. ASSUME NEW t \in Threads, Acquire(t) \/ Proceed(t) \/ SpuriousWakeup(t)
      PROVE  Situated' /\ AllNumbered(inbox')
  <2>1. CASE SpuriousWakeup(t)
    BY <1>2, <2>1 DEF SpuriousWakeup, Situated, Contained, Waiters, AllNumbered
  <2>2. ASSUME ~SpuriousWakeup(t) PROVE Home[t] \in members
    BY <1>2, <1>5, <2>2 DEF Acquire, Proceed, AcquireRead, RetryRead, AwaitUpdate, ReleaseRead,
                            AcquireWrite, RetryWrite, AwaitToken, Write, ReleaseWrite
  <2> DEFINE Moves == /\ UNCHANGED <<group, validity, queue>>
                      /\ pc' = pc \/ \E s : pc' = [pc EXCEPT ![t] = s]
             Sends == \E to, type : /\ to \subseteq members
                                    /\ inbox' = Multicast(inbox, to, type, Home[t], 0)
  <2>3. Moves
    <3>1. ASSUME EnterRead(t) PROVE Moves
      BY <3>1 DEF EnterRead, Sleep
    <3>2. ASSUME NEW waiting, EnterWrite(t, waiting) PROVE Moves
      BY <3>2 DEF EnterWrite, StartWriting, Sleep
    <3> QED
      BY <1>5, <3>1, <3>2
         DEF Acquire, Proceed, AcquireRead, RetryRead, AwaitUpdate, ReleaseRead, AcquireWrite,
             RetryWrite, AwaitToken, StartWriting, Write, ReleaseWrite, SpuriousWakeup, Sleep
  <2>4. ASSUME Home[t] \in members PROVE Contained(inbox', members) /\ AllNumbered(inbox')
    <3>1. UNCHANGED inbox \/ Sends
      <4>1. ASSUME EnterRead(t) PROVE UNCHANGED inbox \/ Sends
        BY <4>1 DEF EnterRead
      <4>2. ASSUME NEW waiting, EnterWrite(t, waiting) PROVE UNCHANGED inbox \/ Sends
        BY <4>2 DEF EnterWrite
      <4>3. ASSUME ReleaseWrite(t) PROVE UNCHANGED inbox \/ Sends
        <5>1. Invalidated(Home[t]) \subseteq members
          BY DEF Invalidated
        <5> QED
          BY <4>3, <5>1 DEF ReleaseWrite
      <4> QED
        BY <1>5, <4>1, <4>2, <4>3
           DEF Acquire, Proceed, AcquireRead, RetryRead, AwaitUpdate, ReleaseRead,
               AcquireWrite, RetryWrite, AwaitToken, Write, SpuriousWakeup
    <3> QED
      BY <1>2, <1>4, <2>4, <3>1
  <2> QED
    BY <1>3, <2>1, <2>2, <2>3, <2>4
<1>6. ASSUME NEW p \in Pods, JoinGroup(p) PROVE Situated' /\ AllNumbered(inbox')
  <2>1. members' = members \cup {p} /\ inbox' = Multicast(inbox, members', "Join", p, 0)
    BY <1>6 DEF JoinGroup
  <2>2. Contained(inbox, members')
    BY <1>2, <2>1 DEF Contained
  <2>3. Contained(inbox', members') /\ AllNumbered(inbox')
    BY <2>1, <2>2, MulticastSituated, MulticastNumbered
  <2>4. UNCHANGED <<replica, validity, queue, pc>>
    BY <1>6 DEF JoinGroup
  <2>5. Waiters(queue)'
    BY <1>2, <2>1, <2>4 DEF Waiters
  <2>6. /\ replica' \subseteq members'
        /\ \A q \in Pods : validity'[q] => q \in members'
        /\ \A t \in Threads : pc'[t] # "idle" => Home[t] \in members'
    BY <1>2, <2>1, <2>4
  <2> QED
    BY <2>3, <2>5, <2>6 DEF Situated
<1>7. ASSUME Contained(inbox', members), Waiters(queue)', UNCHANGED <<members, pc>>,
             replica' \subseteq members, \A q \in Pods : validity'[q] => q \in members
      PROVE  Situated'
  <2>1. \A t \in Threads : pc'[t] # "idle" => Home[t] \in members'
    BY <1>2, <1>7
  <2>2. Contained(inbox', members')
    BY <1>7
  <2> QED
    BY <1>7, <2>1, <2>2 DEF Situated
<1>8. ASSUME NEW p \in Pods, NEW m \in inbox[p], Handle(p, m)
      PROVE  Situated' /\ AllNumbered(inbox')
  <2>1. p \in members /\ m.from \in members
    BY <1>2 DEF Contained
  <2>2. Contained(Taken(p, m), members) /\ AllNumbered(Taken(p, m))
    BY <1>1, <1>2, TakenSituated, TakenNumbered
  <2>3. UNCHANGED <<members, pc>>
    BY <1>8 DEF Handle, HandleRequest, Serve, AcquireReplica, AcquireTokenUpdate, TokenAck,
                Invalidate, Update
  <2>4. replica' \subseteq members
    BY <1>2, <1>8, <2>1 DEF Handle, HandleRequest, Serve, AcquireReplica, AcquireTokenUpdate,
                            TokenAck, Invalidate, Update
  <2>5. \A q \in Pods : validity'[q] => q \in members
    <3>1. validity' = validity \/ validity' = [validity EXCEPT ![p] = TRUE]
             \/ validity' = [validity EXCEPT ![p] = FALSE]
      BY <1>8 DEF Handle, HandleRequest, Serve, AcquireReplica, AcquireTokenUpdate, TokenAck,
                  Invalidate, Update
    <3>2. validity \in [Pods -> BOOLEAN]
      BY DEF TypeOK
    <3> QED
      BY <1>2, <2>1, <3>1, <3>2
  <2>6. Contained(inbox', members) /\ AllNumbered(inbox')
    <3>1. CASE HandleRequest(p, m)
      BY <2>1, <2>2, <3>1, ServeSituated DEF HandleRequest
    <3>2. CASE AcquireTokenUpdate(p, m)
      BY <2>1, <2>2, <3>2, MulticastSituated, MulticastNumbered DEF AcquireTokenUpdate
    <3>3. CASE AcquireReplica(p, m) \/ TokenAck(p, m) \/ Invalidate(p, m) \/ Update(p, m)
      BY <2>2, <3>3 DEF AcquireReplica, TokenAck, Invalidate, Update
    <3> QED
      BY <1>8, <3>1, <3>2, <3>3 DEF Handle
  <2>7. Waiters(queue)'
    <3>1. CASE UNCHANGED queue
      BY <1>2, <2>3, <3>1 DEF Waiters
    <3>2. CASE queue' = [queue EXCEPT ![p] = Append(@, [type |-> m.type, from |-> m.from])]
      <4> DEFINE new == [type |-> m.type, from |-> m.from]
      <4>1. queue[p] \in Seq([type : Requests, from : Pods]) /\ new.from \in members
        BY <2>1 DEF TypeOK
      <4>2. \A q \in Pods : queue'[q] = IF q = p THEN Append(queue[p], new) ELSE queue[q]
        BY <3>2 DEF TypeOK
      <4>3. \A i \in DOMAIN queue'[p] : queue'[p][i].from \in members
        <5> TAKE i \in DOMAIN queue'[p]
        <5>1. queue'[p] = Append(queue[p], new)
          BY <4>2
        <5> HIDE DEF new
        <5>2. queue'[p][i] = IF i = Len(queue[p]) + 1 THEN new ELSE queue[p][i]
          BY <4>1, <5>1
        <5>3. i = Len(queue[p]) + 1 \/ i \in DOMAIN queue[p]
          BY <4>1, <5>1
        <5> QED
          BY <1>2, <4>1, <5>2, <5>3 DEF Waiters
      <4> HIDE DEF new
      <4>4. ASSUME NEW q \in Pods, NEW i \in DOMAIN queue'[q]
            PROVE  q \in members /\ queue'[q][i].from \in members
        <5>1. CASE q = p
          BY <2>1, <4>3, <4>4, <5>1
        <5>2. CASE q # p
          BY <1>2, <4>2, <4>4, <5>2 DEF Waiters
        <5> QED
          BY <5>1, <5>2
      <4> QED
        BY <2>3, <4>4 DEF Waiters
    <3> QED
      BY <1>8, <3>1, <3>2 DEF Handle, HandleRequest, AcquireReplica, AcquireTokenUpdate,
                              TokenAck, Invalidate, Update
  <2> QED
    BY <1>7, <2>3, <2>4, <2>5, <2>6, <2>7
<1>9. ASSUME NEW p \in Pods, ServeNext(p) PROVE Situated' /\ AllNumbered(inbox')
  <2>1. queue[p] \in Seq([type : Requests, from : Pods]) /\ queue[p] # <<>>
    BY <1>9 DEF ServeNext, TypeOK
  <2>2. 1 \in DOMAIN queue[p] /\ Head(queue[p]) = queue[p][1]
    BY <2>1
  <2>3. Head(queue[p]).from \in members
    BY <1>2, <2>2 DEF Waiters
  <2>4. /\ Serve(p, Head(queue[p]), inbox) /\ queue' = [queue EXCEPT ![p] = Tail(@)]
        /\ UNCHANGED <<group, validity, pc>>
    BY <1>9 DEF ServeNext, Serve
  <2>5. p \in members
    BY <1>2, <2>2 DEF Waiters
  <2>6. Contained(inbox', members) /\ AllNumbered(inbox')
    BY <1>2, <2>3, <2>4, <2>5, ServeSituated
  <2>7. \A i \in DOMAIN Tail(queue[p]) : Tail(queue[p])[i].from \in members
    <3> TAKE i \in DOMAIN Tail(queue[p])
    <3>1. i + 1 \in DOMAIN queue[p] /\ Tail(queue[p])[i] = queue[p][i + 1]
      BY <2>1
    <3> QED
      BY <1>2, <3>1 DEF Waiters
  <2>8. Waiters(queue)'
    <3>1. \A q \in Pods : queue'[q] = IF q = p THEN Tail(queue[p]) ELSE queue[q]
      BY <2>4 DEF TypeOK
    <3> QED
      BY <1>2, <2>4, <2>5, <2>7, <3>1 DEF Waiters
  <2> QED
    BY <1>2, <1>7, <2>4, <2>6, <2>8
<1>10. CASE UNCHANGED vars
  BY <1>2, <1>10 DEF Situated, Contained, Waiters, AllNumbered
<1>11. CASE Next
  <2>1. ASSUME NEW p \in Pods, HandleSome(p) PROVE Situated' /\ AllNumbered(inbox')
    BY <1>8, <2>1 DEF HandleSome, Runnable
  <2> QED
    BY <1>5, <1>6, <1>9, <1>11, <2>1 DEF Next
<1> QED
  BY <1>10, <1>11

------------------------------------------------------------------------------
(* What every pod knows *)

Late == \E t \in Threads : pc[t] = "wrote"

\* The pods know what they should when these are the messages.
Informed(boxes) ==
    \A p \in Pods : Knows(boxes[p], token[p], validity[p], data[p], writes, Late)

NumericBoxes(boxes) == \A p \in Pods : Numeric(boxes[p])

\* While a pod holds the token, no other pod does and no message carries it.
LEMMA HolderAlone ==
    ASSUME TypeOK, OneToken, NEW p \in Pods, token[p]
    PROVE  /\ \A q \in Pods : NoToken(inbox[q])
           /\ \A q \in Pods \ {p} : token[q] = FALSE
BY DEF OneToken, InFlight, NoToken, TypeOK

LEMMA InboxNumeric ==
    ASSUME TypeOK, AllNumbered(inbox)
    PROVE  NumericBoxes(inbox)
BY DEF TypeOK, AllNumbered, Numbered, IsMessage, NumericBoxes, Numeric

\* A request or an ack leaves everybody as informed as before.
LEMMA MulticastOther ==
    ASSUME NEW boxes, NEW to, NEW type, type \notin Facts, NEW from, NEW value, NEW p \in Pods,
           NEW tok, NEW valid, NEW copy, NEW total, NEW late,
           Knows(boxes[p], tok, valid, copy, total, late)
    PROVE  Knows(Multicast(boxes, to, type, from, value)[p], tok, valid, copy, total, late)
<1> DEFINE new == [type |-> type, from |-> from, data |-> value,
                   no |-> Place(boxes[p], type, from, value)]
<1>1. new.type \notin Facts
  OBVIOUS
<1>2. \/ Multicast(boxes, to, type, from, value)[p] = boxes[p]
      \/ Multicast(boxes, to, type, from, value)[p] = boxes[p] \cup {new}
  BY DEF Multicast, Deliver
<1> HIDE DEF new
<1>3. Knows(boxes[p] \cup {new}, tok, valid, copy, total, late)
  BY <1>1, OtherAdded
<1> QED
  BY <1>2, <1>3

LEMMA InformedOther ==
    ASSUME NEW boxes, Informed(boxes), NEW to, NEW type, type \notin Facts, NEW from, NEW value
    PROVE  Informed(Multicast(boxes, to, type, from, value))
BY MulticastOther DEF Informed

\* What a message to one pod does to the boxes, in delivery order.
LEMMA MulticastLast ==
    ASSUME InOrder, NEW boxes, AllNumbered(boxes), NEW to, NEW type, NEW from, NEW value,
           NEW p \in Pods, p \in to
    PROVE  \E new : /\ new.type = type /\ new.data = value /\ new.no \in Nat
                    /\ \A m \in boxes[p] : m.no < new.no
                    /\ Multicast(boxes, to, type, from, value)[p] = boxes[p] \cup {new}
<1> DEFINE place == Place(boxes[p], type, from, value)
           msg == [type |-> type, from |-> from, data |-> value, no |-> place]
<1>1. place \in Nat /\ \A m \in boxes[p] : m.no < place
  BY PlaceLast DEF AllNumbered
<1>2. Multicast(boxes, to, type, from, value)[p] = boxes[p] \cup {msg}
  BY DEF Multicast, Deliver
<1>3. msg.type = type /\ msg.data = value /\ msg.no = place
  OBVIOUS
<1> HIDE DEF msg, place
<1> QED
  BY <1>1, <1>2, <1>3

\* Serving a request hands out the resource as it is, or nothing.
LEMMA ServeInforms ==
    ASSUME TypeOK, OneToken, InOrder, NEW p \in Pods, NEW m,
           m.type \in Requests, m.from \in Pods,
           NEW boxes, Informed(boxes), AllNumbered(boxes), NumericBoxes(boxes),
           \A q \in Pods : boxes[q] \subseteq inbox[q],
           Serve(p, m, boxes)
    PROVE  Informed(inbox)'
<1> USE DEF threads
<1>1. /\ token \in [Pods -> BOOLEAN] /\ data \in [Pods -> Nat] /\ writes \in Nat
  BY DEF TypeOK
<1>2. /\ token' = [token EXCEPT ![p] = KeepsToken(p, m)]
      /\ inbox' = Reply(p, m, boxes)
      /\ UNCHANGED <<validity, data, writes, pc>>
  BY DEF Serve
<1>3. Late' = Late
  BY <1>2 DEF Late
<1>4. \A q \in Pods : Knows(boxes[q], token[q], validity[q], data[q], writes, Late)
  BY DEF Informed
<1>5. SUFFICES ASSUME NEW q \in Pods
               PROVE  Knows(inbox'[q], token'[q], validity[q], data[q], writes, Late)
  BY <1>2, <1>3 DEF Informed
<1>6. Knows(boxes[q], token'[q], validity[q], data[q], writes, Late)
  <2>1. CASE token'[q] = token[q]
    BY <1>4, <2>1
  <2>2. CASE token'[q] = FALSE
    BY <1>4, <2>2, GiverKnows
  <2>3. token'[q] = token[q] \/ token'[q] = FALSE
    BY <1>1, <1>2 DEF KeepsToken
  <2> QED
    BY <2>1, <2>2, <2>3
<1>7. CASE ~(m.from # p /\ Answers(p, m))
  BY <1>2, <1>6, <1>7 DEF Reply
<1>8. CASE m.from # p /\ Answers(p, m)
  <2> DEFINE r == m.from
             kind == ReplyTo[m.type]
  <2>1. inbox' = Multicast(boxes, {r}, kind, p, data[p])
    BY <1>2, <1>8 DEF Reply
  <2>2. CASE q # r
    <3>1. inbox'[q] = boxes[q]
      BY <2>1, <2>2 DEF Multicast
    <3> QED
      BY <1>6, <3>1
  <2>3. CASE q = r
    <3>1. token[p]
      BY <1>8 DEF Answers
    <3>2. token'[q] = FALSE
      BY <1>1, <1>2, <1>8, <2>3, <3>1, HolderAlone
    <3>3. data[p] = writes
      BY <1>4, <3>1 DEF Knows
    <3>4. NoToken(boxes[q]) /\ Numeric(boxes[q])
      <4>1. NoToken(inbox[q])
        BY <3>1, HolderAlone
      <4> QED
        BY <4>1 DEF NoToken, NumericBoxes
    <3>5. PICK new : /\ new.type = kind /\ new.data = data[p] /\ new.no \in Nat
                     /\ \A n \in boxes[q] : n.no < new.no
                     /\ Multicast(boxes, {r}, kind, p, data[p])[q] = boxes[q] \cup {new}
      <4> HIDE DEF r, kind
      <4>1. q \in {r}
        BY <2>3
      <4> DEFINE to == {r}
                 value == data[p]
      <4> HIDE DEF to, value
      <4>2. q \in to
        BY <4>1 DEF to
      <4>3. \E new : /\ new.type = kind /\ new.data = value /\ new.no \in Nat
                     /\ \A n \in boxes[q] : n.no < new.no
                     /\ Multicast(boxes, to, kind, p, value)[q] = boxes[q] \cup {new}
        BY <4>2, MulticastLast
      <4> QED
        BY <4>3 DEF to, value
    <3>6. IsCopy(new)
      <4>1. kind \in {"UpdateReply", "TokenUpdateReply", "CreateReplica"}
        BY DEF ReplyTo
      <4> QED
        BY <3>5, <4>1 DEF IsCopy, Facts
    <3>7. Knows(boxes[q], FALSE, validity[q], data[q], writes, Late)
      BY <1>6, <3>2
    <3>8. data[q] \in Nat /\ new.data = writes
      BY <1>1, <3>3, <3>5
    <3>9. Knows(boxes[q] \cup {new}, FALSE, validity[q], data[q], writes, Late)
      BY <1>1, <3>4, <3>5, <3>6, <3>7, <3>8, CopyAdded
    <3> QED
      BY <2>1, <3>2, <3>5, <3>9
  <2> QED
    BY <2>2, <2>3
<1> QED
  BY <1>7, <1>8

\* A pod's copy never loses a write, and every pod stays as well informed.
Forward == \A p \in Pods : data[p] <= data'[p]

LEMMA ThreadInforms ==
    ASSUME TypeOK, OneToken, WriterHoldsToken, Situated, AllNumbered(inbox), InOrder,
           Informed(inbox), NEW t \in Threads, Acquire(t) \/ Proceed(t) \/ SpuriousWakeup(t)
    PROVE  Informed(inbox)' /\ Forward
<1> USE DEF flags, counters, group, threads
<1>1. /\ token \in [Pods -> BOOLEAN] /\ data \in [Pods -> Nat] /\ writes \in Nat
      /\ pc \in [Threads -> Places] /\ Home[t] \in Pods /\ DOMAIN inbox = Pods
  BY PodAssumption DEF TypeOK
<1>2. \A q \in Pods : Knows(inbox[q], token[q], validity[q], data[q], writes, Late)
  BY DEF Informed
<1>3. NumericBoxes(inbox)
  BY InboxNumeric
<1>4. CASE Write(t)
  <2> DEFINE p == Home[t]
  <2>1. pc[t] \in Writers /\ token[p]
    <3>1. pc[t] \in Writers
      BY <1>4 DEF Write
    <3> QED
      BY <3>1 DEF WriterHoldsToken
  <2>2. /\ data' = [data EXCEPT ![p] = @ + 1] /\ writes' = writes + 1
        /\ UNCHANGED <<inbox, token, validity>>
    BY <1>4 DEF Write
  <2>3. Late' = TRUE
    BY <1>1, <1>4 DEF Late, Write
  <2> HIDE DEF p
  <2>4. p \in Pods /\ token[p] = TRUE
    BY <1>1, <2>1 DEF p
  <2>5. ASSUME NEW q \in Pods
        PROVE  Knows(inbox[q], token[q], validity[q], data'[q], writes + 1, TRUE)
    <3>1. CASE q = p
      <4>1. Knows(inbox[q], TRUE, validity[q], data[q], writes, Late)
        BY <1>2, <2>4, <3>1
      <4>2. data[q] = writes /\ data'[q] = writes + 1 /\ writes + 1 \in Nat
        BY <1>1, <2>2, <2>4, <3>1, <4>1 DEF Knows
      <4>3. Knows(inbox[q], TRUE, validity[q], writes + 1, writes + 1, TRUE)
        BY <1>1, <4>1, <4>2, HolderKnows
      <4> QED
        BY <2>4, <3>1, <4>2, <4>3
    <3>2. CASE q # p
      <4>1. token[q] = FALSE /\ NoToken(inbox[q]) /\ Numeric(inbox[q])
        BY <1>3, <2>4, <3>2, HolderAlone DEF NumericBoxes
      <4>2. data'[q] = data[q] /\ data[q] \in Nat
        BY <1>1, <2>2, <3>2
      <4>3. Knows(inbox[q], FALSE, validity[q], data[q], writes, Late)
        BY <1>2, <4>1
      <4>4. Knows(inbox[q], FALSE, validity[q], data[q], writes + 1, TRUE)
        BY <1>1, <4>1, <4>2, <4>3, OthersWrite
      <4> QED
        BY <4>1, <4>2, <4>4
    <3> QED
      BY <3>1, <3>2
  <2>6. Forward
    BY <1>1, <2>2, <2>4 DEF Forward
  <2> QED
    BY <2>2, <2>3, <2>5, <2>6 DEF Informed
<1>5. CASE ReleaseWrite(t)
  <2> DEFINE p == Home[t]
  <2>1. pc[t] \in Writers /\ token[p]
    <3>1. pc[t] \in Writers
      BY <1>5 DEF ReleaseWrite
    <3> QED
      BY <3>1 DEF WriterHoldsToken
  <2>2. /\ inbox' = Multicast(inbox, members \ {p}, "Invalidate", p, 0)
        /\ UNCHANGED <<data, writes, token, validity>>
    BY <1>5 DEF ReleaseWrite, Invalidated
  <2> HIDE DEF p
  <2>3. p \in Pods /\ token[p] = TRUE
    BY <1>1, <2>1 DEF p
  <2>4. ASSUME NEW q \in Pods
        PROVE  Knows(inbox'[q], token[q], validity[q], data[q], writes, Late')
    <3>1. CASE q = p
      <4>1. Knows(inbox[q], TRUE, validity[q], data[q], writes, Late)
        BY <1>2, <2>3, <3>1
      <4>2. data[q] = writes
        BY <4>1 DEF Knows
      <4>3. Knows(inbox[q], TRUE, validity[q], writes, writes, Late')
        BY <1>1, <4>1, HolderKnows
      <4>4. inbox'[q] = inbox[q]
        BY <2>2, <3>1 DEF Multicast
      <4> QED
        BY <2>3, <3>1, <4>2, <4>3, <4>4
    <3>2. CASE q # p /\ q \in members
      <4>1. token[q] = FALSE /\ NoToken(inbox[q])
        BY <2>3, <3>2, HolderAlone
      <4>2. Knows(inbox[q], FALSE, validity[q], data[q], writes, Late)
        BY <1>2, <4>1
      <4>3. PICK new : /\ new.type = "Invalidate"
                       /\ \A n \in inbox[q] : n.no < new.no
                       /\ inbox'[q] = inbox[q] \cup {new}
        <5> DEFINE to == members \ {p}
        <5>1. q \in to
          BY <3>2
        <5> HIDE DEF to
        <5>2. \E new : /\ new.type = "Invalidate" /\ new.data = 0 /\ new.no \in Nat
                       /\ \A m \in inbox[q] : m.no < new.no
                       /\ Multicast(inbox, to, "Invalidate", p, 0)[q] = inbox[q] \cup {new}
          BY <5>1, MulticastLast
        <5> QED
          BY <2>2, <5>2 DEF to
      <4>4. Knows(inbox[q] \cup {new}, FALSE, validity[q], data[q], writes, Late')
        BY <4>1, <4>2, <4>3, InvalidateAdded
      <4> QED
        BY <4>1, <4>3, <4>4
    <3>3. CASE q # p /\ q \notin members
      <4>1. token[q] = FALSE
        BY <2>3, <3>3, HolderAlone
      <4>2. inbox[q] = {} /\ validity[q] = FALSE
        BY <3>3 DEF Situated, Contained, TypeOK
      <4>3. Knows({}, FALSE, FALSE, data[q], writes, Late)
        BY <1>2, <4>1, <4>2
      <4>4. Knows({}, FALSE, FALSE, data[q], writes, Late')
        BY <4>3, StrangerKnows
      <4>5. inbox'[q] = {}
        BY <2>2, <3>3, <4>2 DEF Multicast
      <4> QED
        BY <4>1, <4>2, <4>4, <4>5
    <3> QED
      BY <3>1, <3>2, <3>3
  <2>5. Forward
    BY <1>1, <2>2 DEF Forward
  <2> QED
    BY <2>2, <2>4, <2>5 DEF Informed
<1>6. CASE ~Write(t) /\ ~ReleaseWrite(t)
  <2> DEFINE Sends == \E to, type : /\ type \in Requests
                                   /\ inbox' = Multicast(inbox, to, type, Home[t], 0)
  <2>1. UNCHANGED inbox \/ Sends
    <3>1. ASSUME EnterRead(t) PROVE UNCHANGED inbox \/ Sends
      BY <3>1 DEF EnterRead
    <3>2. ASSUME NEW waiting, EnterWrite(t, waiting) PROVE UNCHANGED inbox \/ Sends
      BY <3>2 DEF EnterWrite
    <3> QED
      BY <1>6, <3>1, <3>2
         DEF Acquire, Proceed, AcquireRead, RetryRead, AwaitUpdate, ReleaseRead,
             AcquireWrite, RetryWrite, AwaitToken, SpuriousWakeup
  <2>2. UNCHANGED <<token, validity, data, writes>>
    BY <1>6 DEF Acquire, Proceed, AcquireRead, RetryRead, EnterRead, AwaitUpdate, ReleaseRead,
                AcquireWrite, RetryWrite, EnterWrite, AwaitToken, SpuriousWakeup
  <2>3. pc' = pc \/ (pc[t] # "wrote" /\ \E s \in Places \ {"wrote"} : pc' = [pc EXCEPT ![t] = s])
    <3> DEFINE Moves == pc' = pc \/ \E s \in Places \ {"wrote"} : pc' = [pc EXCEPT ![t] = s]
    <3>1. ASSUME EnterRead(t) PROVE Moves
      BY <3>1 DEF EnterRead, Sleep
    <3>2. ASSUME NEW waiting, EnterWrite(t, waiting) PROVE Moves
      BY <3>2 DEF EnterWrite, StartWriting, Sleep
    <3> QED
      BY <1>6, <3>1, <3>2
         DEF Acquire, Proceed, AcquireRead, RetryRead, AwaitUpdate, ReleaseRead,
             AcquireWrite, RetryWrite, AwaitToken, StartWriting, SpuriousWakeup, Sleep
  <2>4. Late' = Late
    BY <1>1, <2>3 DEF Late
  <2>5. Informed(inbox')
    <3>1. \A type \in Requests : type \notin Facts
      BY DEF Facts
    <3> QED
      BY <2>1, <3>1, InformedOther
  <2>6. Forward
    BY <1>1, <2>2 DEF Forward
  <2> QED
    BY <2>2, <2>4, <2>5, <2>6 DEF Informed
<1> QED
  BY <1>4, <1>5, <1>6

LEMMA HandleInforms ==
    ASSUME TypeOK, OneToken, AllNumbered(inbox), InOrder, Informed(inbox),
           NEW p \in Pods, NEW m \in Runnable(p), Handle(p, m)
    PROVE  Informed(inbox)' /\ Forward
<1> USE DEF flags, counters, group, threads
<1>1. /\ token \in [Pods -> BOOLEAN] /\ validity \in [Pods -> BOOLEAN]
      /\ data \in [Pods -> Nat] /\ writes \in Nat /\ DOMAIN inbox = Pods
  BY DEF TypeOK
<1>2. \A q \in Pods : Knows(inbox[q], token[q], validity[q], data[q], writes, Late)
  BY DEF Informed
<1>3. First(inbox[p], m) /\ m \in inbox[p]
  BY DEF Runnable, First
<1>4. IsMessage(m) /\ Numeric(inbox[p]) /\ \A k, n \in inbox[p] : k.no = n.no => k = n
  BY <1>3, InboxNumeric DEF TypeOK, NumericBoxes, AllNumbered, Numbered
<1>5. \A q \in Pods : Taken(p, m)[q] = IF q = p THEN inbox[p] \ {m} ELSE inbox[q]
  <2>1. DOMAIN inbox = Pods
    BY <1>1
  <2> QED
    BY <1>3, <2>1 DEF Taken
<1>6. Late' = Late /\ writes' = writes
  BY DEF Handle, HandleRequest, Serve, AcquireReplica, AcquireTokenUpdate, TokenAck,
         Invalidate, Update, Late
<1>7. Knows(inbox[p], token[p], validity[p], data[p], writes, Late) /\ data[p] \in Nat
  BY <1>1, <1>2
<1>8. ASSUME UNCHANGED data PROVE Forward
  BY <1>1, <1>8 DEF Forward
<1>9. ASSUME m.type \notin Facts PROVE Informed(Taken(p, m))
  <2>1. Knows(inbox[p] \ {m}, token[p], validity[p], data[p], writes, Late)
    BY <1>7, <1>9, OtherTaken
  <2> QED
    BY <1>2, <1>5, <2>1 DEF Informed
<1>10. ASSUME inbox' = Taken(p, m),
              Knows(inbox[p] \ {m}, token'[p], validity'[p], data'[p], writes, Late),
              \A q \in Pods \ {p} : /\ token'[q] = token[q] /\ validity'[q] = validity[q]
                                    /\ data'[q] = data[q]
       PROVE  Informed(inbox)'
  <2>1. ASSUME NEW q \in Pods
        PROVE  Knows(inbox'[q], token'[q], validity'[q], data'[q], writes, Late)
    <3>1. CASE q = p
      BY <1>5, <1>10, <3>1
    <3>2. CASE q # p
      BY <1>2, <1>5, <1>10, <3>2
    <3> QED
      BY <3>1, <3>2
  <2> QED
    BY <1>6, <2>1 DEF Informed
<1>11. CASE HandleRequest(p, m)
  <2>1. m.type \in Requests /\ m.type \notin Facts /\ m.from \in Pods /\ UNCHANGED data
    BY <1>4, <1>11 DEF HandleRequest, Serve, IsMessage, Facts
  <2>2. Informed(Taken(p, m))
    BY <1>9, <2>1
  <2>3. CASE Serve(p, m, Taken(p, m))
    <3>1. /\ AllNumbered(Taken(p, m))
          /\ \A q \in Pods : Taken(p, m)[q] \subseteq inbox[q]
      BY <1>1, <1>5, TakenNumbered
    <3>2. NumericBoxes(Taken(p, m))
      BY <3>1, InboxNumeric DEF NumericBoxes, Numeric
    <3>3. Informed(inbox)'
      BY <2>1, <2>2, <2>3, <3>1, <3>2, ServeInforms
    <3> QED
      BY <1>8, <2>1, <3>3
  <2>4. CASE inbox' = Taken(p, m) /\ UNCHANGED <<token, validity>>
    BY <1>6, <1>8, <2>1, <2>2, <2>4 DEF Informed
  <2> QED
    BY <1>11, <2>3, <2>4 DEF HandleRequest
<1>12. CASE TokenAck(p, m)
  <2>1. m.type \notin Facts /\ inbox' = Taken(p, m) /\ UNCHANGED <<token, validity, data>>
    BY <1>12 DEF TokenAck, Facts
  <2> QED
    BY <1>6, <1>8, <1>9, <2>1 DEF Informed
<1>13. CASE Invalidate(p, m)
  <2>1. /\ inbox' = Taken(p, m) /\ m.type = "Invalidate"
        /\ validity' = [validity EXCEPT ![p] = FALSE] /\ UNCHANGED <<token, data>>
    BY <1>13 DEF Invalidate
  <2>2. Knows(inbox[p] \ {m}, token[p], FALSE, data[p], writes, Late)
    BY <1>3, <1>4, <1>7, <2>1, InvalidateTaken
  <2>3. validity'[p] = FALSE /\ \A q \in Pods \ {p} : validity'[q] = validity[q]
    BY <1>1, <2>1
  <2> QED
    BY <1>8, <1>10, <2>1, <2>2, <2>3
<1>14. CASE AcquireReplica(p, m) \/ Update(p, m)
  <2>1. /\ inbox' = Taken(p, m) /\ data' = [data EXCEPT ![p] = m.data]
        /\ UNCHANGED token
        /\ validity' = validity \/ validity' = [validity EXCEPT ![p] = TRUE]
    BY <1>14 DEF AcquireReplica, Update
  <2>2. IsCopy(m) /\ m.type # "TokenUpdateReply"
    BY <1>14 DEF AcquireReplica, Update, IsCopy, Facts
  <2>3. \A fresh : data[p] <= m.data /\ Knows(inbox[p] \ {m}, token[p], fresh, m.data, writes, Late)
    BY <1>1, <1>3, <1>4, <1>7, <2>2, CopyTaken
  <2>4. /\ data'[p] = m.data
        /\ \A q \in Pods \ {p} : data'[q] = data[q] /\ validity'[q] = validity[q]
    BY <1>1, <2>1
  <2>5. Informed(inbox)'
    BY <1>10, <2>1, <2>3, <2>4
  <2>6. Forward
    BY <1>1, <2>3, <2>4 DEF Forward
  <2> QED
    BY <2>5, <2>6
<1>15. CASE AcquireTokenUpdate(p, m)
  <2> DEFINE boxes == Taken(p, m)
  <2>1. /\ m.type = "TokenUpdateReply"
        /\ token' = [token EXCEPT ![p] = TRUE] /\ validity' = [validity EXCEPT ![p] = TRUE]
        /\ data' = [data EXCEPT ![p] = m.data]
        /\ inbox' = Multicast(boxes, {m.from}, "TokenAck", p, 0)
    BY <1>15 DEF AcquireTokenUpdate
  <2>2. data[p] <= m.data /\ Knows(inbox[p] \ {m}, TRUE, TRUE, m.data, writes, Late)
    BY <1>1, <1>3, <1>4, <1>7, <2>1, TokenTakenLast
  <2>3. /\ token'[p] = TRUE /\ validity'[p] = TRUE /\ data'[p] = m.data
        /\ \A q \in Pods \ {p} : /\ token'[q] = token[q] /\ validity'[q] = validity[q]
                                 /\ data'[q] = data[q]
    BY <1>1, <2>1
  <2>4. ASSUME NEW q \in Pods
        PROVE  Knows(boxes[q], token'[q], validity'[q], data'[q], writes, Late)
    <3>1. CASE q = p
      BY <1>5, <2>2, <2>3, <3>1
    <3>2. CASE q # p
      BY <1>2, <1>5, <2>3, <3>2
    <3> QED
      BY <3>1, <3>2
  <2> HIDE DEF boxes
  <2>5. ASSUME NEW q \in Pods
        PROVE  Knows(inbox'[q], token'[q], validity'[q], data'[q], writes, Late)
    <3> DEFINE tok == token'[q]
               valid == validity'[q]
               copy == data'[q]
               to == {m.from}
    <3>1. Knows(boxes[q], tok, valid, copy, writes, Late)
      BY <2>4
    <3>2. "TokenAck" \notin Facts
      BY DEF Facts
    <3> HIDE DEF tok, valid, copy, to
    <3>3. Knows(Multicast(boxes, to, "TokenAck", p, 0)[q], tok, valid, copy, writes, Late)
      BY <3>1, <3>2, MulticastOther
    <3> QED
      BY <2>1, <3>3 DEF tok, valid, copy, to
  <2>6. Informed(inbox)'
    BY <1>6, <2>5 DEF Informed
  <2>7. Forward
    BY <1>1, <2>2, <2>3 DEF Forward
  <2> QED
    BY <2>6, <2>7
<1> QED
  BY <1>11, <1>12, <1>13, <1>14, <1>15 DEF Handle

LEMMA InformedStep ==
    ASSUME TypeOK, OneToken, WriterHoldsToken, Situated, AllNumbered(inbox), InOrder,
           Informed(inbox), [Next]_vars
    PROVE  Informed(inbox)' /\ Forward
<1> USE DEF vars, flags, counters, group, threads
<1>1. /\ data \in [Pods -> Nat] /\ DOMAIN inbox = Pods
  BY DEF TypeOK
<1>2. ASSUME UNCHANGED data PROVE Forward
  BY <1>1, <1>2 DEF Forward
<1>3. ASSUME NEW p \in Pods, JoinGroup(p) PROVE Informed(inbox)' /\ Forward
  <2>1. /\ inbox' = Multicast(inbox, members', "Join", p, 0)
        /\ UNCHANGED <<token, validity, data, writes, pc>>
    BY <1>3 DEF JoinGroup
  <2>2. "Join" \notin Facts
    BY DEF Facts
  <2>3. Informed(inbox')
    BY <2>1, <2>2, InformedOther
  <2> QED
    BY <1>2, <2>1, <2>3 DEF Informed, Late
<1>4. ASSUME NEW p \in Pods, ServeNext(p) PROVE Informed(inbox)' /\ Forward
  <2>1. Head(queue[p]) \in [type : Requests, from : Pods]
    <3>1. queue[p] \in Seq([type : Requests, from : Pods]) /\ queue[p] # <<>>
      BY <1>4 DEF ServeNext, TypeOK
    <3> QED
      BY <3>1, HeadTailProperties
  <2>2. Head(queue[p]).type \in Requests /\ Head(queue[p]).from \in Pods
    BY <2>1
  <2>3. NumericBoxes(inbox) /\ \A q \in Pods : inbox[q] \subseteq inbox[q]
    BY InboxNumeric
  <2>4. Serve(p, Head(queue[p]), inbox) /\ UNCHANGED data
    BY <1>4 DEF ServeNext, Serve
  <2>5. Informed(inbox)'
    BY <2>2, <2>3, <2>4, ServeInforms
  <2> QED
    BY <1>2, <2>4, <2>5
<1>5. CASE UNCHANGED vars
  BY <1>2, <1>5 DEF Informed, Late
<1>6. CASE Next
  BY <1>3, <1>4, <1>6, ThreadInforms, HandleInforms DEF Next, HandleSome
<1> QED
  BY <1>5, <1>6

------------------------------------------------------------------------------
(* The theorems *)

\* The inductive invariant.
Inv ==
    /\ TypeOK
    /\ CountersMatch
    /\ OneToken
    /\ WriterHoldsToken
    /\ AdmittedShutsReadersOut
    /\ AcksMatch

LEMMA InitInv == Init => Inv
<1> SUFFICES ASSUME Init PROVE Inv
  OBVIOUS
<1>1. Owner \in Pods /\ Joined \subseteq Pods
  BY PodAssumption
<1>2. TypeOK
  <2>1. queue \in [Pods -> Seq([type : Requests, from : Pods])]
    BY DEF Init
  <2> QED
    BY <1>1, <2>1 DEF Init, TypeOK
<1>3. CountersMatch
  <2> SUFFICES ASSUME NEW p \in Pods, NEW states, "idle" \notin states
               PROVE  Cardinality(ThreadsAt(pc, p, states)) = 0
    BY DEF CountersMatch, Init
  <2>1. ThreadsAt(pc, p, states) = {}
    BY DEF ThreadsAt, Init
  <2> QED
    BY <2>1, FS_EmptySet
<1>4. OneToken
  BY <1>1 DEF Init, OneToken, InFlight
<1>5. WriterHoldsToken /\ AdmittedShutsReadersOut
  BY DEF Init, WriterHoldsToken, AdmittedShutsReadersOut
<1>6. AcksMatch
  BY DEF Init, AcksMatch, Owes, Handed, TokensIn, AcksIn, AtMostOne
<1> QED
  BY <1>2, <1>3, <1>4, <1>5, <1>6 DEF Inv

LEMMA NextInv == Inv /\ [Next]_vars => Inv'
BY TypeStep, CountStep, TokenStep, HoldStep, ExcludeStep, AckStep DEF Inv

LEMMA SpecInv == Spec => []Inv
BY InitInv, NextInv, PTL DEF Spec

\* The state of every consistency object stays well formed; in particular no
\* counter ever goes below zero and no pod serves a request that is not there.
THEOREM TypeCorrect == Spec => []TypeOK
<1>1. Inv => TypeOK
  BY DEF Inv
<1> QED
  BY <1>1, SpecInv, PTL

\* Whatever the number of pods and threads and whatever order the handler
\* threads run in, there is one token: CheckTokenUpdate and AcquireTokenUpdate
\* neither lose nor copy it.
THEOREM TokenUnique == Spec => []OneToken
<1>1. Inv => OneToken
  BY DEF Inv
<1> QED
  BY <1>1, SpecInv, PTL

\* _reading, _writing and _wwriters count the threads they stand for, also
\* across the waits in which AcquireRead and AcquireWrite give _mtx up.
THEOREM CountersCorrect == Spec => []CountersMatch
<1>1. Inv => CountersMatch
  BY DEF Inv
<1> QED
  BY <1>1, SpecInv, PTL

\* A pod that gave the token away waits for exactly one ack until it comes, and
\* no ack comes that nobody waits for: _wtoken_ack needs no counter.
THEOREM AcksOutstanding == Spec => []AckIsOutstanding
<1>1. ASSUME NEW S, AtMostOne(S)
      PROVE  Cardinality(S) = IF S = {} THEN 0 ELSE 1
  <2>1. CASE S = {}
    BY <2>1, FS_EmptySet
  <2>2. ASSUME NEW a \in S PROVE Cardinality(S) = 1
    <3>1. S = {a}
      BY <1>1, <2>2 DEF AtMostOne
    <3> QED
      BY <3>1, FS_Singleton
  <2> QED
    BY <2>1, <2>2
<1>2. AcksMatch => AckIsOutstanding
  <2> SUFFICES ASSUME AcksMatch, NEW p \in Pods
               PROVE  Cardinality(Handed(inbox, p)) + Cardinality(AcksIn(inbox[p]))
                        = IF wtoken_ack[p] THEN 1 ELSE 0
    BY DEF AckIsOutstanding, InFlight, Handed, TokensIn, AcksIn
  <2>1. Owes(inbox, wtoken_ack[p], p)
    BY DEF AcksMatch
  <2>2. /\ Cardinality(Handed(inbox, p)) = IF Handed(inbox, p) = {} THEN 0 ELSE 1
        /\ Cardinality(AcksIn(inbox[p])) = IF AcksIn(inbox[p]) = {} THEN 0 ELSE 1
    BY <1>1, <2>1 DEF Owes
  <2> QED
    BY <2>1, <2>2 DEF Owes
<1>3. Inv => AckIsOutstanding
  BY <1>2 DEF Inv
<1> QED
  BY <1>3, SpecInv, PTL

\* Two pods never write the resource at the same time: a writer's pod holds
\* the one token.
THEOREM WritersExcluded == Spec => []WritersShareAPod
<1>1. Inv => WritersShareAPod
  BY PodAssumption DEF Inv, OneToken, WriterHoldsToken, WritersShareAPod
<1> QED
  BY <1>1, SpecInv, PTL

\* In a pod, a thread that reads or waits for an update excludes the writers.
THEOREM ReadersExcluded == Spec => []ReadersExcludeWriters
<1>1. Inv => ReadersExcludeWriters
  BY DEF Inv, AdmittedShutsReadersOut, ReadersExcludeWriters
<1> QED
  BY <1>1, SpecInv, PTL

\* The protocol implements the abstract token: CheckTokenUpdate gives it away
\* only when no thread of its pod writes, AcquireTokenUpdate takes it only when
\* nobody has it, and a writer starts only at the pod that has it.
THEOREM TokenRefines == Spec => ImplementsWriteToken
<1> DEFINE held == {p \in Pods : token[p]}
<1>1. Init => WT!Init
  <2> SUFFICES ASSUME Init PROVE WT!Init
    OBVIOUS
  <2>1. held = {Owner}
    BY PodAssumption DEF Init
  <2>2. Busy = {}
    BY DEF Init, Busy
  <2> QED
    BY <2>1, <2>2 DEF WT!Init, Busy
<1>2. Inv /\ [Next]_vars => [WT!Next]_<<held, Busy>>
  <2> SUFFICES ASSUME Inv, [Next]_vars PROVE [WT!Next]_<<held, Busy>>
    OBVIOUS
  <2>1. TypeOK /\ CountersMatch /\ OneToken /\ WriterHoldsToken
    BY DEF Inv
  <2>2. \A t \in Threads : Home[t] \in Pods
    BY PodAssumption
  <2>3. token \in [Pods -> BOOLEAN]
    BY <2>1 DEF TypeOK
  <2>4. CASE token' = token /\ \E t \in Threads : Starts(t) \/ Stops(t)
    <3>1. held' = held
      BY <2>4
    <3>2. ASSUME NEW t \in Threads, Starts(t) PROVE WT!StartWriting(t)
      <4>1. Home[t] \in held
        BY <2>2, <3>2 DEF Starts
      <4> QED
        BY <3>1, <3>2, <4>1 DEF Starts, Busy, WT!StartWriting
    <3>3. ASSUME NEW t \in Threads, Stops(t) PROVE WT!StopWriting(t)
      BY <3>1, <3>3 DEF Stops, Busy, WT!StopWriting
    <3> QED
      BY <2>4, <3>2, <3>3 DEF WT!Next
  <2>5. CASE Busy' = Busy /\ Stays
    BY <2>5 DEF Stays
  <2>6. ASSUME Busy' = Busy, NEW p \in Pods, Gives(p) PROVE WT!Give
    <3>1. held = {p} /\ held' = {}
      BY <2>1, <2>3, <2>6 DEF Gives, OneToken
    <3>2. \A t \in Busy : Home[t] # p
      BY <2>1, <2>6, GiverIdle
    <3> QED
      BY <2>6, <3>1, <3>2 DEF Busy, WT!Give
  <2>7. ASSUME Busy' = Busy, NEW p \in Pods, Takes(p) PROVE WT!Take(p)
    <3>1. InFlight(p, "TokenUpdateReply") # {}
      BY <2>7 DEF Takes, TokensIn, InFlight
    <3>2. held = {} /\ held' = {p}
      BY <2>1, <2>3, <2>7, <3>1 DEF Takes, OneToken
    <3> QED
      BY <2>7, <3>2 DEF Busy, WT!Take
  <2>8. CASE Busy' = Busy
    BY <2>1, <2>5, <2>6, <2>7, <2>8, TokenMoves DEF WT!Next
  <2> QED
    BY <2>1, <2>4, <2>8, WritersMove
<1> QED
  BY <1>1, <1>2, SpecInv, PTL DEF Spec, ImplementsWriteToken, WT!Spec, Busy

------------------------------------------------------------------------------
(* The theorems about schedules that run handlers in delivery order *)

OrderInv ==
    /\ Inv
    /\ Situated
    /\ AllNumbered(inbox)
    /\ Informed(inbox)

LEMMA InitOrder == Init => OrderInv
<1> SUFFICES ASSUME Init PROVE OrderInv
  OBVIOUS
<1>1. Owner \in Pods /\ Joined \subseteq Pods /\ Owner \in Joined
  BY PodAssumption
<1>2. Situated
  <2>1. Contained(inbox, members)
    BY DEF Init, Contained
  <2>2. Waiters(queue)
    <3>1. \A p \in Pods : DOMAIN queue[p] = {}
      BY DEF Init
    <3> QED
      BY <3>1 DEF Waiters
  <2>3. /\ replica \subseteq members
        /\ \A p \in Pods : validity[p] => p \in members
        /\ \A t \in Threads : pc[t] # "idle" => Home[t] \in members
    BY <1>1 DEF Init
  <2> QED
    BY <2>1, <2>2, <2>3 DEF Situated
<1>3. AllNumbered(inbox)
  BY DEF Init, AllNumbered, Numbered
<1>4. Informed(inbox)
  BY DEF Init, Informed, Knows
<1> QED
  BY <1>2, <1>3, <1>4, InitInv DEF OrderInv

LEMMA NextOrder == InOrder /\ OrderInv /\ [Next]_vars => OrderInv' /\ Forward
<1> SUFFICES ASSUME InOrder, OrderInv, [Next]_vars PROVE OrderInv' /\ Forward
  OBVIOUS
<1>1. /\ Inv /\ Situated /\ AllNumbered(inbox) /\ Informed(inbox)
      /\ TypeOK /\ OneToken /\ WriterHoldsToken
  BY DEF OrderInv, Inv
<1>2. Inv'
  BY <1>1, NextInv
<1>3. Situated' /\ AllNumbered(inbox')
  BY <1>1, SituatedStep
<1>4. Informed(inbox)' /\ Forward
  BY <1>1, InformedStep
<1>5. AllNumbered(inbox)'
  BY <1>3
<1> QED
  BY <1>2, <1>3, <1>4, <1>5 DEF OrderInv

LEMMA SpecOrder == InOrder /\ Spec => []OrderInv
<1> SUFFICES ASSUME InOrder PROVE Spec => []OrderInv
  OBVIOUS
<1>1. OrderInv /\ [Next]_vars => OrderInv'
  BY NextOrder
<1> QED
  BY <1>1, InitOrder, PTL DEF Spec

\* In delivery order, the holder of the token has every write made so far and
\* knows it, and so has the reply in which the token travels: a pod that may
\* write starts from the latest state of the resource.
THEOREM HolderCurrent == InOrder /\ Spec => []HolderIsCurrent
<1>1. OrderInv => HolderIsCurrent
  BY DEF OrderInv, Informed, Knows, HolderIsCurrent, InFlight
<1> QED
  BY <1>1, SpecOrder, PTL

\* In delivery order, a valid replica is stale only while the news is on its
\* way: a read that AcquireRead lets through misses no write whose invalidation
\* its pod has handled.
THEOREM ValidCurrent == InOrder /\ Spec => []ValidReplicaIsCurrent
<1>1. OrderInv => ValidReplicaIsCurrent
  <2> SUFFICES ASSUME OrderInv, NEW p \in replica
               PROVE  \/ ~validity[p] \/ data[p] = writes
                      \/ InFlight(p, "Invalidate") # {} \/ Late
    BY DEF ValidReplicaIsCurrent, Late
  <2>1. p \in Pods
    BY DEF OrderInv, Inv, TypeOK
  <2>2. Knows(inbox[p], token[p], validity[p], data[p], writes, Late)
    BY <2>1 DEF OrderInv, Informed
  <2> QED
    BY <2>2 DEF Knows, InFlight
<1> QED
  BY <1>1, SpecOrder, PTL

\* In delivery order, no update, token or new replica replaces a copy by one
\* that has seen fewer writes.
THEOREM CopiesGoForward == InOrder /\ Spec => ReplicasNeverGoBack
<1> SUFFICES ASSUME InOrder PROVE Spec => ReplicasNeverGoBack
  OBVIOUS
<1>1. OrderInv /\ [Next]_vars => [\A p \in Pods : data'[p] >= data[p]]_vars
  <2> SUFFICES ASSUME OrderInv, [Next]_vars
               PROVE  \A p \in Pods : data'[p] >= data[p]
    OBVIOUS
  <2>1. Forward
    BY NextOrder
  <2>2. data \in [Pods -> Nat] /\ data' \in [Pods -> Nat]
    <3>1. TypeOK /\ TypeOK'
      BY NextOrder DEF OrderInv, Inv
    <3> QED
      BY <3>1 DEF TypeOK
  <2> QED
    BY <2>1, <2>2 DEF Forward
<1> QED
  BY <1>1, SpecOrder, PTL DEF Spec, ReplicasNeverGoBack
==============================================================================

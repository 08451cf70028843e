---------------------------- MODULE MailerProofs ----------------------------
(***************************************************************************)
(* What a pod's mailer does, whatever the senders, the mailboxes and the   *)
(* receivers: no receiver sleeps on a message that it wants, and the       *)
(* mailer implements Mail.                                                 *)
(*                                                                         *)
(* For the second, a step has one of seven effects on what is Going out    *)
(* and what is Coming to each mailbox (EffectIs, from the invariant        *)
(* MailInv), and each effect is a step of Mail or none.  What it does to   *)
(* the messages of one agent to another follows from what Between does     *)
(* when a message is appended or left out; its elements are listed in the  *)
(* order of their places.                                                  *)
(***************************************************************************)
EXTENDS Mailer, FiniteSetTheorems, SequenceTheorems, TLAPS

------------------------------------------------------------------------------
(* Messages and sequences of them *)

\* A message has a mailbox and is not the cleared one.
LEMMA MessageFields ==
    ASSUME NEW m \in Message
    PROVE  m.to \in Boxes /\ m # Empty
BY MailerAssumption DEF Message

LEMMA IsMessage ==
    ASSUME NEW s \in Senders, NEW b \in Boxes, NEW n \in 1 .. MaxSent[s]
    PROVE  [from |-> s, to |-> b, num |-> n] \in Message
<1>1. [from |-> s, to |-> b, num |-> n] \in [from : {s}, to : Boxes, num : 1 .. MaxSent[s]]
  OBVIOUS
<1> QED
  BY <1>1 DEF Message

\* rest[j] is seq[j] with the element i left out.
Skips(rest, seq, i) == \A j \in 1 .. Len(seq) - 1 : rest[j] = IF j < i THEN seq[j] ELSE seq[j + 1]

Within(rest, seq) == \A j \in DOMAIN rest : \E k \in DOMAIN seq : rest[j] = seq[k]

\* A message taken from a mailbox leaves the others.
LEMMA Removed ==
    ASSUME NEW S, NEW seq \in Seq(S), NEW i \in DOMAIN seq,
           NEW rest, rest = SubSeq(seq, 1, i - 1) \o SubSeq(seq, i + 1, Len(seq))
    PROVE  /\ rest \in Seq(S) /\ Within(rest, seq)
           /\ Len(seq) \in Nat /\ i \in 1 .. Len(seq) /\ Len(rest) = Len(seq) - 1
           /\ Skips(rest, seq, i)
<1>1. Len(seq) \in Nat /\ DOMAIN seq = 1 .. Len(seq) /\ i \in 1 .. Len(seq)
  BY LenProperties
<1>2. PICK front, back : front = SubSeq(seq, 1, i - 1) /\ back = SubSeq(seq, i + 1, Len(seq))
  OBVIOUS
<1>3. \A k \in 1 .. Len(seq) : seq[k] \in S
  BY <1>1, ElementOfSeq
<1>4. /\ front \in Seq(S) /\ Len(front) = i - 1
      /\ \A k \in 1 .. i - 1 : front[k] = seq[k]
  <2>1. \A k \in 1 .. i - 1 : seq[k] \in S
    BY <1>1, <1>3
  <2>2. /\ front \in Seq(S) /\ Len(front) = IF 1 <= i - 1 THEN i - 1 - 1 + 1 ELSE 0
        /\ \A k \in 1 .. i - 1 - 1 + 1 : front[k] = seq[1 + k - 1]
    BY <1>1, <1>2, <2>1, SubSeqProperties
  <2> QED
    BY <1>1, <2>2
<1>5. /\ back \in Seq(S) /\ Len(back) = Len(seq) - i
      /\ \A k \in 1 .. Len(seq) - i : back[k] = seq[i + k]
  <2>1. PICK n \in Int : n = i + 1
    BY <1>1
  <2>2. \A k \in n .. Len(seq) : seq[k] \in S
    BY <1>1, <1>3, <2>1
  <2>3. /\ back \in Seq(S)
        /\ Len(back) = IF n <= Len(seq) THEN Len(seq) - n + 1 ELSE 0
        /\ \A k \in 1 .. Len(seq) - n + 1 : back[k] = seq[n + k - 1]
    <3>1. back = SubSeq(seq, n, Len(seq)) /\ Len(seq) \in Int
      BY <1>1, <1>2, <2>1
    <3> QED
      BY <2>2, <3>1, SubSeqProperties
  <2>4. Len(back) = Len(seq) - i
    BY <1>1, <2>1, <2>3
  <2>5. ASSUME NEW k \in 1 .. Len(seq) - i
        PROVE  back[k] = seq[i + k]
    <3>1. k \in Int /\ i \in Int /\ Len(seq) \in Int /\ 1 <= k /\ k <= Len(seq) - i
      BY <1>1, <2>5
    <3>2. k \in 1 .. Len(seq) - n + 1
      BY <2>1, <3>1
    <3>3. n + k - 1 = i + k
      BY <2>1, <3>1
    <3> QED
      BY <2>3, <3>2, <3>3
  <2> QED
    BY <2>3, <2>4, <2>5
<1>6. /\ rest \in Seq(S) /\ Len(rest) = Len(seq) - 1
      /\ \A j \in 1 .. Len(seq) - 1 : rest[j] = IF j <= i - 1 THEN front[j] ELSE back[j - (i - 1)]
  <2>1. /\ rest \in Seq(S) /\ Len(rest) = Len(front) + Len(back)
        /\ \A j \in 1 .. Len(front) + Len(back) :
              rest[j] = IF j <= Len(front) THEN front[j] ELSE back[j - Len(front)]
    <3>1. rest = front \o back
      BY <1>2
    <3>2. front \in Seq(S) /\ back \in Seq(S)
      BY <1>4, <1>5
    <3> QED
      BY <3>1, <3>2, ConcatProperties
  <2>2. Len(front) = i - 1 /\ Len(front) + Len(back) = Len(seq) - 1
    BY <1>1, <1>4, <1>5
  <2> QED
    BY <2>1, <2>2
<1>7. DOMAIN rest = 1 .. Len(seq) - 1
  BY <1>1, <1>6, LenProperties
<1>8. ASSUME NEW j \in 1 .. Len(seq) - 1
      PROVE  rest[j] = IF j < i THEN seq[j] ELSE seq[j + 1]
  <2> j \in Int /\ i \in Int /\ Len(seq) \in Int
    BY <1>1, <1>8
  <2>1. CASE j < i
    <3>1. j \in 1 .. i - 1 /\ j <= i - 1
      BY <1>1, <2>1
    <3> QED
      BY <1>4, <1>6, <2>1, <3>1
  <2>2. CASE ~(j < i)
    <3>1. j - (i - 1) \in 1 .. Len(seq) - i /\ ~(j <= i - 1)
      BY <1>1, <2>2
    <3>2. rest[j] = seq[i + (j - (i - 1))]
      BY <1>5, <1>6, <3>1
    <3>3. i + (j - (i - 1)) = j + 1
      BY <1>1
    <3> QED
      BY <2>2, <3>2, <3>3
  <2> QED
    BY <2>1, <2>2
<1>9. Within(rest, seq)
  <2>1. \A j \in 1 .. Len(seq) - 1 : j \in 1 .. Len(seq) /\ j + 1 \in 1 .. Len(seq)
    BY <1>1
  <2> QED
    BY <1>1, <1>7, <1>8, <2>1 DEF Within
<1> QED
  BY <1>1, <1>6, <1>8, <1>9 DEF Skips

------------------------------------------------------------------------------
(* Types *)

LEMMA TypeInit == Init => TypeOK
<1> SUFFICES ASSUME Init PROVE TypeOK
  OBVIOUS
<1>1. <<>> \in Seq(Message) /\ <<>> \in Seq([group : Boxes, body : Message \cup {Empty}])
  BY EmptySeq
<1> QED
  BY <1>1 DEF Init, TypeOK

LEMMA TypeStep ==
    ASSUME TypeOK, [Next]_vars
    PROVE  TypeOK'
<1>1. ASSUME NEW s \in Senders, NEW b \in Boxes, Submit(s, b)
      PROVE  TypeOK'
  <2>1. PICK m : m = [from |-> s, to |-> b, num |-> nsent[s] + 1]
    OBVIOUS
  <2>2. nsent[s] + 1 \in 1 .. MaxSent[s]
    <3>1. nsent[s] \in Nat /\ MaxSent[s] \in Nat /\ nsent[s] < MaxSent[s]
      BY <1>1, MailerAssumption DEF Submit, TypeOK
    <3> QED
      BY <3>1
  <2>3. m \in Message /\ m.to = b
    BY <2>1, <2>2, IsMessage
  <2>4. nsent' \in [Senders -> Nat]
    BY <1>1 DEF Submit, TypeOK
  <2>5. CASE ongoing
    <3>1. queue' = Append(queue, m) /\ UNCHANGED <<pc, ongoing, groups, body>>
      BY <1>1, <2>1, <2>5 DEF Submit
    <3>2. queue' \in Seq(Message)
      BY <2>3, <3>1, AppendProperties DEF TypeOK
    <3> QED
      BY <1>1, <2>4, <3>1, <3>2 DEF Submit, TypeOK, inbox
  <2>6. CASE ~ongoing
    <3>1. /\ ongoing' = TRUE /\ groups' = b /\ body' = m /\ queue' = queue
          /\ pc' = [pc EXCEPT ![s] = "ending"]
      BY <1>1, <2>1, <2>6 DEF Submit
    <3> QED
      BY <1>1, <2>3, <2>4, <3>1 DEF Submit, TypeOK, inbox
  <2> QED
    BY <2>5, <2>6
<1>2. ASSUME NEW s \in Senders, EndWrite(s) \/ StartWrite(s)
      PROVE  TypeOK'
  BY <1>2 DEF EndWrite, StartWrite, TypeOK, out, inbox
<1>3. CASE BuildMessage
  BY <1>3 DEF BuildMessage, TypeOK, out, inbox
<1>4. CASE Send
  <2>1. groups # NoGroup => groups \in Boxes
    BY MessageFields DEF TypeOK
  <2>2. wire' \in Seq([group : Boxes, body : Message \cup {Empty}])
    <3>1. CASE groups # NoGroup /\ Joined(groups)
      <4>1. [group |-> groups, body |-> held] \in [group : Boxes, body : Message \cup {Empty}]
        BY <2>1, <3>1 DEF TypeOK
      <4>2. wire' = Append(wire, [group |-> groups, body |-> held])
        BY <1>4, <3>1 DEF Send
      <4> QED
        BY <4>1, <4>2, AppendProperties DEF TypeOK
    <3>2. CASE ~(groups # NoGroup /\ Joined(groups))
      BY <1>4, <3>2 DEF Send, TypeOK
    <3> QED
      BY <3>1, <3>2
  <2> QED
    BY <1>4, <2>2 DEF Send, TypeOK, out, inbox
<1>5. CASE Pop
  <2>1. CASE queue # <<>>
    <3>1. Head(queue) \in Message /\ Tail(queue) \in Seq(Message)
      BY <2>1, HeadTailProperties DEF TypeOK
    <3> QED
      BY <1>5, <2>1, <3>1 DEF Pop, NextOutgoing, TypeOK, inbox
  <2>2. CASE queue = <<>>
    BY <1>5, <2>2 DEF Pop, NextOutgoing, TypeOK, inbox
  <2> QED
    BY <2>1, <2>2
<1>6. CASE Disarm \/ Rearm
  BY <1>6 DEF Disarm, Rearm, TypeOK, out, inbox
<1>7. CASE HandleRead
  <2>1. /\ Head(wire) \in [group : Boxes, body : Message \cup {Empty}]
        /\ Tail(wire) \in Seq([group : Boxes, body : Message \cup {Empty}])
    BY <1>7, HeadTailProperties DEF HandleRead, TypeOK
  <2>2. CASE Head(wire).body = Empty
    BY <1>7, <2>1, <2>2 DEF HandleRead, TypeOK, out
  <2>3. CASE Head(wire).body # Empty
    <3>1. PICK b \in Boxes : b = Head(wire).group
      BY <2>1
    <3>2. Append(mail[b], Head(wire).body) \in Seq(Message)
      BY <2>1, <2>3, AppendProperties DEF TypeOK
    <3>3. mail' = [mail EXCEPT ![b] = Append(@, Head(wire).body)] /\ made' = made \cup {b}
      BY <1>7, <2>3, <3>1 DEF HandleRead
    <3>4. mail' \in [Boxes -> Seq(Message)]
      BY <3>2, <3>3 DEF TypeOK
    <3> QED
      BY <1>7, <2>1, <2>3, <3>1, <3>3, <3>4 DEF HandleRead, Notify, Waiting, TypeOK, out
  <2> QED
    BY <2>2, <2>3
<1>8. ASSUME NEW b \in Boxes, Join(b)
      PROVE  TypeOK'
  BY <1>8 DEF Join, TypeOK, out
<1>9. ASSUME NEW b \in Boxes, CreateMailbox(b)
      PROVE  TypeOK'
  <2>1. mail' \in [Boxes -> Seq(Message)]
    BY <1>9, EmptySeq DEF CreateMailbox, Insert, TypeOK
  <2> QED
    BY <1>9, <2>1 DEF CreateMailbox, Insert, TypeOK, out
<1>10. ASSUME NEW r \in Receivers, ReceiveMessage(r)
       PROVE  TypeOK'
  <2>1. CASE Wanted(r) = {}
    BY <1>10, <2>1 DEF ReceiveMessage, TypeOK, out
  <2>2. CASE Wanted(r) # {}
    <3>1. PICK i \in Wanted(r) :
             mail' = [mail EXCEPT ![Box[r]] = SubSeq(@, 1, i - 1) \o SubSeq(@, i + 1, Len(@))]
      BY <1>10, <2>2 DEF ReceiveMessage
    <3>2. Box[r] \in Boxes /\ mail[Box[r]] \in Seq(Message) /\ i \in DOMAIN mail[Box[r]]
      BY <3>1, MailerAssumption DEF TypeOK, Wanted
    <3>3. PICK rest : rest = SubSeq(mail[Box[r]], 1, i - 1)
                               \o SubSeq(mail[Box[r]], i + 1, Len(mail[Box[r]]))
      OBVIOUS
    <3>4. rest \in Seq(Message)
      BY <3>2, <3>3, Removed
    <3>5. mail' \in [Boxes -> Seq(Message)]
      BY <3>1, <3>2, <3>3, <3>4 DEF TypeOK
    <3> QED
      BY <1>10, <2>2, <3>5 DEF ReceiveMessage, TypeOK, out
  <2> QED
    BY <2>1, <2>2
<1>11. ASSUME NEW r \in Receivers, SpuriousWakeup(r)
       PROVE  TypeOK'
  BY <1>11 DEF SpuriousWakeup, TypeOK, out
<1>12. CASE UNCHANGED vars
  BY <1>12 DEF vars, TypeOK, out, inbox
<1> QED
  BY <1>1, <1>2, <1>3, <1>4, <1>5, <1>6, <1>7, <1>8, <1>9, <1>10, <1>11, <1>12 DEF Next

\* The parts of the state have their types: among them, that the outgoing
\* message and its groups are set and cleared together.
THEOREM TypeCorrect == Spec => []TypeOK
BY TypeInit, TypeStep, PTL DEF Spec

------------------------------------------------------------------------------
(* Receivers *)

\* Nothing new in a mailbox, and nobody falls asleep.
LEMMA SleepKept ==
    ASSUME NoneOversleeps, asleep' \subseteq asleep,
           \A r \in asleep' : Within(mail'[Box[r]], mail[Box[r]])
    PROVE  NoneOversleeps'
<1>1. ASSUME NEW r \in asleep', NEW j \in DOMAIN mail'[Box[r]], mail'[Box[r]][j].from \in Wants[r]
      PROVE  FALSE
  <2>1. PICK k \in DOMAIN mail[Box[r]] : mail'[Box[r]][j] = mail[Box[r]][k]
    BY <1>1 DEF Within
  <2>2. k \in Wanted(r)
    BY <1>1, <2>1 DEF Wanted
  <2> QED
    BY <1>1, <2>2 DEF NoneOversleeps
<1> QED
  BY <1>1 DEF NoneOversleeps, Wanted

LEMMA SleepStep ==
    ASSUME TypeOK, NoneOversleeps, [Next]_vars
    PROVE  NoneOversleeps'
<1>1. mail \in [Boxes -> Seq(Message)] /\ asleep \subseteq Receivers /\ Box \in [Receivers -> Boxes]
  BY MailerAssumption DEF TypeOK
<1>2. ASSUME mail' = mail, asleep' \subseteq asleep
      PROVE  NoneOversleeps'
  BY <1>2, SleepKept DEF Within
<1>3. CASE HandleRead
  <2>1. CASE Head(wire).body = Empty
    BY <1>2, <1>3, <2>1 DEF HandleRead
  <2>2. CASE Head(wire).body # Empty
    <3>1. /\ mail' = [mail EXCEPT ![Head(wire).group] = Append(@, Head(wire).body)]
          /\ asleep' = asleep \ Waiting(Head(wire).group)
      BY <1>3, <2>2 DEF HandleRead, Notify
    <3>2. \A r \in asleep' : mail'[Box[r]] = mail[Box[r]]
      BY <1>1, <3>1 DEF Waiting
    <3> QED
      BY <3>1, <3>2, SleepKept DEF Within
  <2> QED
    BY <2>1, <2>2
<1>4. ASSUME NEW b \in Boxes, CreateMailbox(b)
      PROVE  NoneOversleeps'
  <2>1. asleep' = asleep /\ \A c \in Boxes : mail'[c] = mail[c] \/ mail'[c] = <<>>
    BY <1>1, <1>4 DEF CreateMailbox, Insert
  <2>2. ASSUME NEW r \in asleep'
        PROVE  Within(mail'[Box[r]], mail[Box[r]])
    <3>1. mail'[Box[r]] = mail[Box[r]] \/ mail'[Box[r]] = <<>>
      BY <1>1, <2>1
    <3> QED
      BY <3>1 DEF Within
  <2> QED
    BY <2>1, <2>2, SleepKept
<1>5. ASSUME NEW r \in Receivers, ReceiveMessage(r)
      PROVE  NoneOversleeps'
  <2>1. CASE Wanted(r) = {}
    BY <1>5, <2>1 DEF ReceiveMessage, NoneOversleeps, Wanted
  <2>2. CASE Wanted(r) # {}
    <3>1. PICK i \in Wanted(r) :
             mail' = [mail EXCEPT ![Box[r]] = SubSeq(@, 1, i - 1) \o SubSeq(@, i + 1, Len(@))]
      BY <1>5, <2>2 DEF ReceiveMessage
    <3>2. Box[r] \in Boxes /\ mail[Box[r]] \in Seq(Message) /\ i \in DOMAIN mail[Box[r]]
      BY <1>1, <3>1 DEF Wanted
    <3>3. PICK rest : rest = SubSeq(mail[Box[r]], 1, i - 1)
                               \o SubSeq(mail[Box[r]], i + 1, Len(mail[Box[r]]))
      OBVIOUS
    <3>4. rest \in Seq(Message) /\ Within(rest, mail[Box[r]])
      BY <3>2, <3>3, Removed
    <3>5. mail' = [mail EXCEPT ![Box[r]] = rest] /\ asleep' = asleep
      BY <1>5, <2>2, <3>1, <3>3 DEF ReceiveMessage
    <3>6. ASSUME NEW u \in asleep'
          PROVE  Within(mail'[Box[u]], mail[Box[u]])
      <4>1. CASE Box[u] = Box[r]
        BY <1>1, <3>2, <3>4, <3>5, <4>1
      <4>2. CASE Box[u] # Box[r]
        BY <1>1, <3>5, <4>2 DEF Within
      <4> QED
        BY <4>1, <4>2
    <3> QED
      BY <3>5, <3>6, SleepKept
  <2> QED
    BY <2>1, <2>2
<1>6. CASE \/ \E s \in Senders : EndWrite(s) \/ StartWrite(s) \/ \E b \in Boxes : Submit(s, b)
           \/ BuildMessage \/ Send \/ Pop \/ Disarm \/ Rearm
           \/ \E b \in Boxes : Join(b)
           \/ \E r \in Receivers : SpuriousWakeup(r)
           \/ UNCHANGED vars
  <2>1. mail' = mail /\ asleep' \subseteq asleep
    BY <1>6 DEF EndWrite, StartWrite, Submit, BuildMessage, Send, Pop, Disarm, Rearm, Join,
       SpuriousWakeup, vars, inbox
  <2> QED
    BY <1>2, <2>1
<1> QED
  BY <1>3, <1>4, <1>5, <1>6 DEF Next

\* No receiver sleeps on a message that it wants, though senders, receivers and
\* the service thread share one condition for each mailbox (HandleRead wakes all
\* that wait; the mailbox that CreateMailbox inserts never replaces a full one).
THEOREM ReceiversAwake == Spec => []NoneOversleeps
<1>1. Init => NoneOversleeps
  BY DEF Init, NoneOversleeps
<1>2. TypeOK /\ NoneOversleeps /\ [Next]_vars => NoneOversleeps'
  BY SleepStep
<1> QED
  BY <1>1, <1>2, TypeCorrect, PTL DEF Spec

------------------------------------------------------------------------------
(* The elements at the places of a set *)

\* list has the places in ascending order.
Lists(list, n, places) ==
    /\ n \in Nat /\ list \in [1 .. n -> Nat] /\ places = {list[k] : k \in 1 .. n}
    /\ \A k, l \in 1 .. n : k < l => list[k] < list[l]

UpTo(places, i) == {j \in places : j <= i}

\* The k-th of the list has k places up to it.
LEMMA ListCounts ==
    ASSUME NEW list, NEW n, NEW places, Lists(list, n, places)
    PROVE  /\ IsFiniteSet(places) /\ Cardinality(places) = n
           /\ \A k \in 1 .. n : Cardinality(UpTo(places, list[k])) = k
<1>1. n \in Nat /\ list \in [1 .. n -> Nat] /\ places = {list[k] : k \in 1 .. n}
  BY DEF Lists
<1>2. \A k, l \in 1 .. n : /\ k < l => list[k] < list[l]
                           /\ k # l => list[k] # list[l]
                           /\ list[l] <= list[k] <=> l <= k
  <2> SUFFICES ASSUME NEW k \in 1 .. n, NEW l \in 1 .. n
               PROVE  /\ k < l => list[k] < list[l]
                      /\ k # l => list[k] # list[l]
                      /\ list[l] <= list[k] <=> l <= k
    OBVIOUS
  <2>1. list[k] \in Nat /\ list[l] \in Nat /\ k \in Nat /\ l \in Nat
    BY <1>1
  <2>2. (k < l => list[k] < list[l]) /\ (l < k => list[l] < list[k])
    BY DEF Lists
  <2> QED
    BY <2>1, <2>2
<1>3. ASSUME NEW k \in 0 .. n
      PROVE  /\ IsFiniteSet({list[l] : l \in 1 .. k})
             /\ Cardinality({list[l] : l \in 1 .. k}) = k
  <2>1. PICK part : part = {list[l] : l \in 1 .. k}
    OBVIOUS
  <2>2. [l \in 1 .. k |-> list[l]] \in Bijection(1 .. k, part)
    <3>1. k \in Nat /\ \A l \in 1 .. k : l \in 1 .. n
      BY <1>1, <1>3
    <3>2. [l \in 1 .. k |-> list[l]] \in [1 .. k -> part]
      BY <2>1
    <3>3. \A l, m \in 1 .. k : l # m => list[l] # list[m]
      BY <1>2, <3>1
    <3> QED
      BY <2>1, <3>2, <3>3 DEF Bijection, Injection, Surjection, IsInjective
  <2>3. IsFiniteSet(1 .. k) /\ Cardinality(1 .. k) = k
    <3>1. k \in Int /\ 1 \in Int /\ k >= 0
      BY <1>1, <1>3
    <3>2. IsFiniteSet(1 .. k) /\ Cardinality(1 .. k) = IF 1 > k THEN 0 ELSE k - 1 + 1
      BY <3>1, FS_Interval
    <3> QED
      BY <3>1, <3>2
  <2> QED
    BY <2>1, <2>2, <2>3, FS_Bijection DEF ExistsBijection
<1>4. IsFiniteSet(places) /\ Cardinality(places) = n
  <2>1. n \in 0 .. n
    BY <1>1
  <2> QED
    BY <1>1, <1>3, <2>1
<1>5. ASSUME NEW k \in 1 .. n
      PROVE  Cardinality(UpTo(places, list[k])) = k
  <2>1. UpTo(places, list[k]) = {list[l] : l \in 1 .. k}
    <3>1. \A l \in 1 .. n : list[l] <= list[k] <=> l \in 1 .. k
      BY <1>1, <1>2
    <3>2. \A l \in 1 .. k : l \in 1 .. n
      BY <1>1
    <3> QED
      BY <1>1, <3>1, <3>2 DEF UpTo
  <2>2. k \in 0 .. n
    BY <1>1
  <2> QED
    BY <1>3, <2>1, <2>2
<1> QED
  BY <1>4, <1>5

\* So Place finds it.
LEMMA ListIs ==
    ASSUME NEW list, NEW n, NEW places, Lists(list, n, places)
    PROVE  \A k \in 1 .. n : Place(places, k) = list[k]
<1> SUFFICES ASSUME NEW k \in 1 .. n PROVE Place(places, k) = list[k]
  OBVIOUS
<1>1. n \in Nat /\ places = {list[l] : l \in 1 .. n}
  BY DEF Lists
<1>2. \A l \in 1 .. n : Cardinality(UpTo(places, list[l])) = l
  BY ListCounts
<1>3. list[k] \in places /\ Cardinality(UpTo(places, list[k])) = k
  BY <1>1, <1>2
<1>4. \A i \in places : Cardinality(UpTo(places, i)) = k => i = list[k]
  BY <1>1, <1>2
<1>5. Place(places, k) = CHOOSE i \in places : Cardinality(UpTo(places, i)) = k
  BY DEF Place, UpTo
<1> QED
  BY <1>3, <1>4, <1>5

\* Every finite set of places has a list: a place is where its rank says.
LEMMA ListExists ==
    ASSUME NEW places, places \subseteq Nat, IsFiniteSet(places)
    PROVE  \E list : Lists(list, Cardinality(places), places)
<1>1. PICK n \in Nat : n = Cardinality(places)
  BY FS_CardinalityType
<1>2. PICK rank : rank = [i \in places |-> Cardinality(UpTo(places, i))]
  OBVIOUS
<1>3. ASSUME NEW i \in places
      PROVE  /\ UpTo(places, i) \in SUBSET places /\ IsFiniteSet(UpTo(places, i)) /\ i \in UpTo(places, i)
             /\ rank[i] = Cardinality(UpTo(places, i)) /\ rank[i] \in 1 .. n
  <2>1. UpTo(places, i) \in SUBSET places /\ i \in UpTo(places, i)
    BY DEF UpTo
  <2>2. IsFiniteSet(UpTo(places, i)) /\ Cardinality(UpTo(places, i)) <= n
    BY <1>1, <2>1, FS_Subset
  <2>3. Cardinality(UpTo(places, i)) \in Nat /\ Cardinality(UpTo(places, i)) # 0
    BY <2>1, <2>2, FS_CardinalityType, FS_EmptySet
  <2> QED
    BY <1>2, <2>1, <2>2, <2>3
<1>4. ASSUME NEW i \in places, NEW j \in places, i < j
      PROVE  rank[i] < rank[j]
  <2>1. UpTo(places, i) \in SUBSET UpTo(places, j) /\ j \notin UpTo(places, i)
    <3>1. i \in Nat /\ j \in Nat /\ ~(j <= i) /\ \A k \in places : k \in Nat /\ (k <= i => k <= j)
      <4>1. i \in Nat /\ j \in Nat
        OBVIOUS
      <4>2. \A k \in places : k \in Nat
        OBVIOUS
      <4> QED
        BY <1>4, <4>1, <4>2
    <3> QED
      BY <3>1 DEF UpTo
  <2>2. /\ Cardinality(UpTo(places, i)) <= Cardinality(UpTo(places, j))
        /\ Cardinality(UpTo(places, i)) # Cardinality(UpTo(places, j))
    BY <1>3, <2>1, FS_Subset
  <2>3. rank[i] \in Nat /\ rank[j] \in Nat
    BY <1>1, <1>3
  <2> QED
    BY <1>3, <2>2, <2>3
<1>5. rank \in Injection(places, 1 .. n)
  <2>1. \A i, j \in places : rank[i] = rank[j] => i = j
    <3> SUFFICES ASSUME NEW i \in places, NEW j \in places, rank[i] = rank[j], i # j PROVE FALSE
      OBVIOUS
    <3>1. i < j \/ j < i
      OBVIOUS
    <3>2. rank[i] \in 1 .. n /\ rank[j] \in 1 .. n
      BY <1>3
    <3>3. rank[i] < rank[j] \/ rank[j] < rank[i]
      BY <1>4, <3>1
    <3> QED
      BY <3>2, <3>3
  <2>2. rank \in [places -> 1 .. n]
    BY <1>2, <1>3
  <2> QED
    BY <2>1, <2>2 DEF Injection, IsInjective
<1>6. \A k \in 1 .. n : \E i \in places : rank[i] = k
  <2>1. IsFiniteSet(1 .. n) /\ Cardinality(1 .. n) = n
    <3>1. IsFiniteSet(1 .. n) /\ Cardinality(1 .. n) = IF 1 > n THEN 0 ELSE n - 1 + 1
      BY FS_Interval
    <3> QED
      BY <3>1
  <2>2. rank \in Surjection(places, 1 .. n)
    BY <1>1, <1>5, <2>1, FS_Injection
  <2> QED
    BY <2>2 DEF Surjection
<1>7. PICK list : list = [k \in 1 .. n |-> CHOOSE i \in places : rank[i] = k]
  OBVIOUS
<1>8. \A k \in 1 .. n : list[k] \in places /\ rank[list[k]] = k
  BY <1>6, <1>7
<1>9. places = {list[k] : k \in 1 .. n}
  <2>1. \A i \in places : rank[i] \in 1 .. n /\ list[rank[i]] = i
    <3> SUFFICES ASSUME NEW i \in places PROVE rank[i] \in 1 .. n /\ list[rank[i]] = i
      OBVIOUS
    <3>1. rank[i] \in 1 .. n
      BY <1>3
    <3>2. list[rank[i]] \in places /\ rank[list[rank[i]]] = rank[i]
      BY <1>8, <3>1
    <3> QED
      BY <1>5, <3>1, <3>2 DEF Injection, IsInjective
  <2> QED
    BY <1>8, <2>1
<1>10. ASSUME NEW k \in 1 .. n, NEW l \in 1 .. n, k < l
       PROVE  list[k] < list[l]
  <2>1. list[k] \in Nat /\ list[l] \in Nat /\ rank[list[k]] = k /\ rank[list[l]] = l
    BY <1>8
  <2>2. list[l] < list[k] => l < k
    BY <1>4, <1>8, <2>1
  <2>3. k \in Nat /\ l \in Nat
    OBVIOUS
  <2>4. list[k] # list[l]
    BY <1>10, <2>1, <2>3
  <2> QED
    BY <1>10, <2>1, <2>2, <2>3, <2>4
<1>11. list \in [1 .. n -> Nat]
  BY <1>7, <1>8
<1> QED
  BY <1>1, <1>9, <1>10, <1>11 DEF Lists

\* What is selected is what the list says.
LEMMA SelectedIs ==
    ASSUME NEW list, NEW n, NEW places, Lists(list, n, places), NEW ms
    PROVE  Selected(ms, places) = [k \in 1 .. n |-> ms[list[k]]]
<1>1. Cardinality(places) = n /\ \A k \in 1 .. n : Place(places, k) = list[k]
  BY ListCounts, ListIs
<1> QED
  BY <1>1 DEF Selected

------------------------------------------------------------------------------
(* The messages of one agent to another, in a sequence *)

Any == Message \cup {Empty}

Matches(m, s, b) == m # Empty /\ m.from = s /\ m.to = b

\* list has the places of what matches, in ascending order.
Picks(list, n, ms, s, b) ==
    /\ n \in Nat /\ list \in [1 .. n -> Nat]
    /\ \A k, l \in 1 .. n : k < l => list[k] < list[l]
    /\ \A k \in 1 .. n : list[k] \in 1 .. Len(ms) /\ Matches(ms[list[k]], s, b)
    /\ \A i \in 1 .. Len(ms) : Matches(ms[i], s, b) => \E k \in 1 .. n : i = list[k]

\* There is a list of what matches ...
LEMMA BetweenIs ==
    ASSUME NEW ms \in Seq(Any), NEW s, NEW b
    PROVE  \E list, n : Picks(list, n, ms, s, b)
<1>1. Len(ms) \in Nat /\ DOMAIN ms = 1 .. Len(ms)
  BY LenProperties
<1>2. PICK places : places = {i \in 1 .. Len(ms) : Matches(ms[i], s, b)}
  OBVIOUS
<1>3. places \subseteq Nat /\ IsFiniteSet(places)
  <2>1. IsFiniteSet(1 .. Len(ms))
    BY <1>1, FS_Interval
  <2>2. places \in SUBSET (1 .. Len(ms))
    BY <1>2
  <2>3. IsFiniteSet(places)
    BY <2>1, <2>2, FS_Subset
  <2> QED
    BY <1>1, <2>2, <2>3
<1>4. PICK list : Lists(list, Cardinality(places), places)
  BY <1>3, ListExists
<1>5. PICK n : n = Cardinality(places)
  OBVIOUS
<1>6. /\ n \in Nat /\ list \in [1 .. n -> Nat] /\ places = {list[k] : k \in 1 .. n}
      /\ \A k, l \in 1 .. n : k < l => list[k] < list[l]
  BY <1>4, <1>5 DEF Lists
<1>7. \A k \in 1 .. n : list[k] \in places
  BY <1>6
<1>8. Picks(list, n, ms, s, b)
  <2>1. \A k \in 1 .. n : list[k] \in 1 .. Len(ms) /\ Matches(ms[list[k]], s, b)
    BY <1>2, <1>7
  <2>2. \A i \in 1 .. Len(ms) : Matches(ms[i], s, b) => \E k \in 1 .. n : i = list[k]
    BY <1>2, <1>6
  <2> QED
    BY <1>6, <2>1, <2>2 DEF Picks
<1> QED
  BY <1>8

\* ... and Between follows it.
LEMMA BetweenFrom ==
    ASSUME NEW ms \in Seq(Any), NEW s, NEW b, NEW n, NEW list, Picks(list, n, ms, s, b)
    PROVE  Between(ms, s, b) = [k \in 1 .. n |-> ms[list[k]]]
<1>1. DOMAIN ms = 1 .. Len(ms)
  BY LenProperties
<1>2. PlacesOf(ms, s, b) = {list[k] : k \in 1 .. n}
  <2>1. PlacesOf(ms, s, b) = {i \in 1 .. Len(ms) : Matches(ms[i], s, b)}
    BY <1>1 DEF PlacesOf, Matches
  <2> QED
    BY <2>1 DEF Picks
<1>3. Lists(list, n, PlacesOf(ms, s, b))
  BY <1>2 DEF Lists, Picks
<1> QED
  BY <1>3, SelectedIs DEF Between

LEMMA BetweenType ==
    ASSUME NEW ms \in Seq(Any), NEW s, NEW b
    PROVE  Between(ms, s, b) \in Seq(Message)
<1>1. PICK list, n : Picks(list, n, ms, s, b)
  BY BetweenIs
<1>2. n \in Nat /\ Between(ms, s, b) = [k \in 1 .. n |-> ms[list[k]]]
  <2>1. n \in Nat
    BY <1>1 DEF Picks
  <2> QED
    BY <1>1, <2>1, BetweenFrom
<1>3. ASSUME NEW k \in 1 .. n
      PROVE  ms[list[k]] \in Message
  <2>1. list[k] \in 1 .. Len(ms) /\ ms[list[k]] # Empty
    BY <1>1 DEF Picks, Matches
  <2>2. ms[list[k]] \in Any
    BY <2>1, ElementOfSeq
  <2> QED
    BY <2>1, <2>2 DEF Any
<1> QED
  BY <1>2, <1>3

LEMMA BetweenNone ==
    ASSUME NEW s, NEW b
    PROVE  Between(<<>>, s, b) = <<>>
<1>1. PICK none \in Seq(Any) : none = <<>> /\ Len(none) = 0
  BY EmptySeq
<1>2. PICK list, n : Picks(list, n, none, s, b)
  BY BetweenIs
<1>3. n \in Nat /\ \A k \in 1 .. n : FALSE
  BY <1>1, <1>2 DEF Picks
<1>4. n = 0
  BY <1>3
<1>5. Between(none, s, b) = [k \in 1 .. n |-> none[list[k]]]
  BY <1>2, BetweenFrom
<1> QED
  BY <1>1, <1>4, <1>5

\* A message at the end.
LEMMA BetweenAppended ==
    ASSUME NEW ms \in Seq(Any), NEW m \in Any, NEW s, NEW b
    PROVE  Between(Append(ms, m), s, b) =
              IF Matches(m, s, b) THEN Append(Between(ms, s, b), m) ELSE Between(ms, s, b)
<1>1. PICK list, n : Picks(list, n, ms, s, b)
  BY BetweenIs
<1>2. /\ n \in Nat /\ list \in [1 .. n -> Nat] /\ Len(ms) \in Nat
      /\ \A k, l \in 1 .. n : k < l => list[k] < list[l]
      /\ \A k \in 1 .. n : list[k] \in 1 .. Len(ms) /\ Matches(ms[list[k]], s, b)
      /\ \A i \in 1 .. Len(ms) : Matches(ms[i], s, b) => \E k \in 1 .. n : i = list[k]
      /\ Between(ms, s, b) = [k \in 1 .. n |-> ms[list[k]]]
  <2>1. Between(ms, s, b) = [k \in 1 .. n |-> ms[list[k]]] /\ Len(ms) \in Nat
    BY <1>1, BetweenFrom, LenProperties
  <2> QED
    BY <1>1, <2>1 DEF Picks
<1>3. PICK more : more = Append(ms, m)
  OBVIOUS
<1>4. /\ more \in Seq(Any) /\ Len(more) = Len(ms) + 1
      /\ \A i \in 1 .. Len(ms) : more[i] = ms[i]
      /\ more[Len(ms) + 1] = m
  BY <1>3, AppendProperties
<1>5. ASSUME NEW i \in 1 .. Len(more)
      PROVE  i \in 1 .. Len(ms) \/ i = Len(ms) + 1
  BY <1>2, <1>4
<1>6. CASE ~Matches(m, s, b)
  <2>1. \A k \in 1 .. n : list[k] \in 1 .. Len(more) /\ Matches(more[list[k]], s, b)
    <3>1. \A i \in 1 .. Len(ms) : i \in 1 .. Len(more)
      BY <1>2, <1>4
    <3> QED
      BY <1>2, <1>4, <3>1
  <2>2. \A i \in 1 .. Len(more) : Matches(more[i], s, b) => \E k \in 1 .. n : i = list[k]
    BY <1>2, <1>4, <1>5, <1>6
  <2>3. Picks(list, n, more, s, b)
    BY <1>2, <2>1, <2>2 DEF Picks
  <2>4. Between(more, s, b) = [k \in 1 .. n |-> more[list[k]]]
    BY <1>4, <2>3, BetweenFrom
  <2> QED
    BY <1>2, <1>3, <1>4, <1>6, <2>4
<1>7. CASE Matches(m, s, b)
  <2>1. PICK longer : longer = [k \in 1 .. n + 1 |-> IF k \in 1 .. n THEN list[k] ELSE Len(ms) + 1]
    OBVIOUS
  <2>2. /\ \A k \in 1 .. n : k \in 1 .. n + 1 /\ longer[k] = list[k]
        /\ n + 1 \in 1 .. n + 1 /\ longer[n + 1] = Len(ms) + 1
        /\ \A k \in 1 .. n + 1 : k \in 1 .. n \/ k = n + 1
    BY <1>2, <2>1
  <2>3. longer \in [1 .. n + 1 -> Nat]
    BY <1>2, <2>1
  <2>4. ASSUME NEW k \in 1 .. n + 1, NEW l \in 1 .. n + 1, k < l
        PROVE  longer[k] < longer[l]
    <3>1. k \in 1 .. n
      BY <1>2, <2>2, <2>4
    <3>2. CASE l \in 1 .. n
      BY <1>2, <2>2, <2>4, <3>1, <3>2
    <3>3. CASE l = n + 1
      BY <1>2, <2>2, <3>1, <3>3
    <3> QED
      BY <2>2, <3>2, <3>3
  <2>5. ASSUME NEW k \in 1 .. n + 1
        PROVE  longer[k] \in 1 .. Len(more) /\ Matches(more[longer[k]], s, b)
    <3>1. CASE k \in 1 .. n
      <4>1. longer[k] = list[k] /\ list[k] \in 1 .. Len(ms) /\ Matches(ms[list[k]], s, b)
        BY <1>2, <2>2, <3>1
      <4>2. more[list[k]] = ms[list[k]] /\ list[k] \in 1 .. Len(more)
        BY <1>2, <1>4, <4>1
      <4> QED
        BY <4>1, <4>2
    <3>2. CASE k = n + 1
      BY <1>2, <1>4, <1>7, <2>2, <3>2
    <3> QED
      BY <2>2, <3>1, <3>2
  <2>6. ASSUME NEW i \in 1 .. Len(more), Matches(more[i], s, b)
        PROVE  \E k \in 1 .. n + 1 : i = longer[k]
    BY <1>2, <1>4, <1>5, <2>2, <2>6
  <2>7. PICK size \in Nat : size = n + 1
    BY <1>2
  <2>8. Between(more, s, b) = [k \in 1 .. size |-> more[longer[k]]]
    <3>1. Picks(longer, size, more, s, b)
      BY <2>3, <2>4, <2>5, <2>6, <2>7 DEF Picks
    <3> QED
      BY <1>4, <3>1, BetweenFrom
  <2>9. PICK before : before = Between(ms, s, b)
    OBVIOUS
  <2>10. before \in Seq(Message) /\ Len(before) = n
    BY <1>2, <2>9, BetweenType
  <2>11. m \in Message
    BY <1>7 DEF Matches, Any
  <2>12. PICK after : after = Append(before, m)
    OBVIOUS
  <2>13. /\ after \in Seq(Message) /\ Len(after) = n + 1 /\ after[n + 1] = m
         /\ \A k \in 1 .. n : after[k] = before[k]
    BY <2>10, <2>11, <2>12, AppendProperties
  <2>14. after = [k \in 1 .. size |-> after[k]]
    BY <2>7, <2>13
  <2>15. ASSUME NEW k \in 1 .. size
         PROVE  after[k] = more[longer[k]]
    <3>1. CASE k \in 1 .. n
      <4>1. longer[k] = list[k] /\ list[k] \in 1 .. Len(ms) /\ before[k] = ms[list[k]]
        BY <1>2, <2>2, <2>9, <3>1
      <4>2. more[list[k]] = ms[list[k]] /\ after[k] = before[k]
        BY <1>4, <2>13, <3>1, <4>1
      <4> QED
        BY <4>1, <4>2
    <3>2. CASE k = n + 1
      BY <1>4, <2>2, <2>13, <3>2
    <3> QED
      BY <2>2, <2>7, <3>1, <3>2
  <2>16. after = Between(more, s, b)
    BY <2>8, <2>14, <2>15
  <2> QED
    BY <1>3, <1>7, <2>9, <2>12, <2>16
<1> QED
  BY <1>6, <1>7

\* rest is ms without its element i.
Without(rest, ms, i) ==
    /\ ms \in Seq(Any) /\ rest \in Seq(Any) /\ i \in 1 .. Len(ms)
    /\ Len(ms) \in Nat /\ Len(rest) = Len(ms) - 1
    /\ Skips(rest, ms, i)

LEMMA RemovedIs ==
    ASSUME NEW seq, seq \in Seq(Any), NEW i \in DOMAIN seq,
           NEW rest, rest = SubSeq(seq, 1, i - 1) \o SubSeq(seq, i + 1, Len(seq))
    PROVE  Without(rest, seq, i)
BY Removed DEF Without

\* What does not match is not missed.
LEMMA BetweenOthers ==
    ASSUME NEW rest, NEW ms, NEW i, Without(rest, ms, i), NEW s, NEW b, ~Matches(ms[i], s, b)
    PROVE  Between(rest, s, b) = Between(ms, s, b)
<1>1. /\ ms \in Seq(Any) /\ rest \in Seq(Any) /\ i \in 1 .. Len(ms)
      /\ Len(ms) \in Nat /\ Len(rest) = Len(ms) - 1
      /\ \A j \in 1 .. Len(ms) - 1 : rest[j] = IF j < i THEN ms[j] ELSE ms[j + 1]
  BY DEF Without, Skips
<1>2. PICK list, n : Picks(list, n, ms, s, b)
  BY <1>1, BetweenIs
<1>3. Between(ms, s, b) = [k \in 1 .. n |-> ms[list[k]]]
  BY <1>1, <1>2, BetweenFrom
<1>4. /\ n \in Nat /\ list \in [1 .. n -> Nat]
      /\ \A k, l \in 1 .. n : k < l => list[k] < list[l]
      /\ \A k \in 1 .. n : list[k] \in 1 .. Len(ms) /\ Matches(ms[list[k]], s, b)
      /\ \A j \in 1 .. Len(ms) : Matches(ms[j], s, b) => \E k \in 1 .. n : j = list[k]
  BY <1>2 DEF Picks
<1>5. PICK moved : moved = [k \in 1 .. n |-> IF list[k] < i THEN list[k] ELSE list[k] - 1]
  OBVIOUS
<1>6. ASSUME NEW k \in 1 .. n
      PROVE  /\ list[k] \in 1 .. Len(ms) /\ moved[k] \in 1 .. Len(rest) /\ moved[k] \in Nat
             /\ list[k] < i => moved[k] = list[k]
             /\ ~(list[k] < i) => moved[k] = list[k] - 1 /\ i < list[k]
             /\ rest[moved[k]] = ms[list[k]]
  <2>1. list[k] \in 1 .. Len(ms) /\ list[k] # i
    BY <1>4
  <2>2. moved[k] = IF list[k] < i THEN list[k] ELSE list[k] - 1
    BY <1>5
  <2>3. CASE list[k] < i
    <3>1. moved[k] = list[k] /\ moved[k] \in 1 .. Len(ms) - 1
      BY <1>1, <2>1, <2>2, <2>3
    <3>2. rest[moved[k]] = ms[list[k]]
      BY <1>1, <2>3, <3>1
    <3> QED
      BY <1>1, <2>1, <2>3, <3>1, <3>2
  <2>4. CASE ~(list[k] < i)
    <3>1. i < list[k] /\ moved[k] = list[k] - 1 /\ moved[k] \in 1 .. Len(ms) - 1 /\ ~(moved[k] < i)
      BY <1>1, <2>1, <2>2, <2>4
    <3>2. moved[k] + 1 = list[k]
      BY <2>1, <3>1
    <3>3. rest[moved[k]] = ms[list[k]]
      BY <1>1, <3>1, <3>2
    <3> QED
      BY <1>1, <2>1, <2>4, <3>1, <3>3
  <2> QED
    BY <2>3, <2>4
<1>7. ASSUME NEW k \in 1 .. n, NEW l \in 1 .. n, k < l
      PROVE  moved[k] < moved[l]
  <2>1. list[k] < list[l]
    BY <1>4, <1>7
  <2>2. /\ list[k] \in Nat /\ list[l] \in Nat /\ i \in Nat
        /\ list[k] < i => moved[k] = list[k]
        /\ ~(list[k] < i) => moved[k] = list[k] - 1 /\ i < list[k]
        /\ list[l] < i => moved[l] = list[l]
        /\ ~(list[l] < i) => moved[l] = list[l] - 1 /\ i < list[l]
    BY <1>1, <1>4, <1>6
  <2> QED
    BY <2>1, <2>2
<1>8. ASSUME NEW j \in 1 .. Len(rest), Matches(rest[j], s, b)
      PROVE  \E k \in 1 .. n : j = moved[k]
  <2>1. j \in 1 .. Len(ms) - 1 /\ j \in 1 .. Len(ms) /\ j + 1 \in 1 .. Len(ms) /\ j \in Nat /\ i \in Nat
    BY <1>1
  <2>2. CASE j < i
    <3>1. Matches(ms[j], s, b)
      BY <1>1, <1>8, <2>1, <2>2
    <3>2. PICK k \in 1 .. n : j = list[k]
      BY <1>4, <2>1, <3>1
    <3> QED
      BY <1>6, <2>2, <3>2
  <2>3. CASE ~(j < i)
    <3>1. Matches(ms[j + 1], s, b)
      BY <1>1, <1>8, <2>1, <2>3
    <3>2. PICK k \in 1 .. n : j + 1 = list[k]
      BY <1>4, <2>1, <3>1
    <3>3. ~(list[k] < i) /\ moved[k] = list[k] - 1
      BY <1>6, <2>1, <2>3, <3>2
    <3>4. moved[k] = j
      BY <2>1, <3>2, <3>3
    <3> QED
      BY <3>4
  <2> QED
    BY <2>2, <2>3
<1>9. Picks(moved, n, rest, s, b)
  <2>1. moved \in [1 .. n -> Nat]
    BY <1>5, <1>6
  <2>2. \A k \in 1 .. n : moved[k] \in 1 .. Len(rest) /\ Matches(rest[moved[k]], s, b)
    BY <1>4, <1>6
  <2> QED
    BY <1>4, <1>7, <1>8, <2>1, <2>2 DEF Picks
<1>10. Between(rest, s, b) = [k \in 1 .. n |-> rest[moved[k]]]
  BY <1>1, <1>9, BetweenFrom
<1> QED
  BY <1>3, <1>6, <1>10

\* The first that matches is the head.
LEMMA BetweenHead ==
    ASSUME NEW rest, NEW ms, NEW i, Without(rest, ms, i), NEW s, NEW b, Matches(ms[i], s, b),
           \A j \in 1 .. Len(ms) : j < i => ~Matches(ms[j], s, b)
    PROVE  /\ Between(ms, s, b) # <<>> /\ Head(Between(ms, s, b)) = ms[i]
           /\ Between(rest, s, b) = Tail(Between(ms, s, b))
<1>1. /\ ms \in Seq(Any) /\ rest \in Seq(Any) /\ i \in 1 .. Len(ms)
      /\ Len(ms) \in Nat /\ Len(rest) = Len(ms) - 1
      /\ \A j \in 1 .. Len(ms) - 1 : rest[j] = IF j < i THEN ms[j] ELSE ms[j + 1]
  BY DEF Without, Skips
<1>2. PICK list, n : Picks(list, n, ms, s, b)
  BY <1>1, BetweenIs
<1>3. Between(ms, s, b) = [k \in 1 .. n |-> ms[list[k]]]
  BY <1>1, <1>2, BetweenFrom
<1>4. /\ n \in Nat /\ list \in [1 .. n -> Nat]
      /\ \A k, l \in 1 .. n : k < l => list[k] < list[l]
      /\ \A k \in 1 .. n : list[k] \in 1 .. Len(ms) /\ Matches(ms[list[k]], s, b)
      /\ \A j \in 1 .. Len(ms) : Matches(ms[j], s, b) => \E k \in 1 .. n : j = list[k]
  BY <1>2 DEF Picks
<1>5. 1 \in 1 .. n /\ list[1] = i
  <2>1. PICK k \in 1 .. n : i = list[k]
    BY <1>1, <1>4
  <2>2. 1 \in 1 .. n
    BY <1>4
  <2>3. list[1] \in Nat /\ list[k] \in Nat /\ (k = 1 \/ list[1] < list[k])
    BY <1>4, <2>2
  <2>4. ~(list[1] < i)
    BY <1>4, <2>2
  <2> QED
    BY <2>1, <2>2, <2>3, <2>4
<1>6. PICK found : found = Between(ms, s, b)
  OBVIOUS
<1>7. found \in Seq(Message) /\ found = [k \in 1 .. n |-> ms[list[k]]]
  BY <1>1, <1>3, <1>6, BetweenType
<1>8. Len(found) = n /\ found # <<>> /\ Head(found) = ms[i]
  <2>1. Len(found) = n
    BY <1>4, <1>7
  <2>2. found # <<>>
    BY <1>5, <1>7
  <2>3. Head(found) = found[1]
    BY <1>7, <2>2
  <2> QED
    BY <1>5, <1>7, <2>1, <2>2, <2>3
<1>9. PICK m \in Nat : m = n - 1
  BY <1>4, <1>5
<1>10. PICK moved : moved = [k \in 1 .. m |-> list[k + 1] - 1]
  OBVIOUS
<1>11. ASSUME NEW k \in 1 .. m
       PROVE  /\ k + 1 \in 1 .. n /\ moved[k] = list[k + 1] - 1 /\ moved[k] \in Nat /\ moved[k] \in 1 .. Len(rest)
              /\ list[k + 1] \in 1 .. Len(ms) /\ i < list[k + 1] /\ rest[moved[k]] = ms[list[k + 1]]
  <2>1. k + 1 \in 1 .. n /\ 1 < k + 1
    BY <1>4, <1>9
  <2>2. i < list[k + 1] /\ list[k + 1] \in 1 .. Len(ms)
    BY <1>4, <1>5, <2>1
  <2>3. moved[k] = list[k + 1] - 1
    BY <1>10
  <2>4. moved[k] \in 1 .. Len(ms) - 1 /\ ~(moved[k] < i) /\ moved[k] + 1 = list[k + 1]
    BY <1>1, <2>2, <2>3
  <2>5. rest[moved[k]] = ms[list[k + 1]]
    BY <1>1, <2>4
  <2> QED
    BY <1>1, <2>1, <2>2, <2>3, <2>4, <2>5
<1>12. ASSUME NEW k \in 1 .. m, NEW l \in 1 .. m, k < l
       PROVE  moved[k] < moved[l]
  <2>1. k + 1 \in 1 .. n /\ l + 1 \in 1 .. n /\ k + 1 < l + 1
    <3>1. k + 1 \in 1 .. n /\ l + 1 \in 1 .. n
      BY <1>11
    <3>2. k \in Nat /\ l \in Nat
      OBVIOUS
    <3> QED
      BY <1>12, <3>1, <3>2
  <2>2. list[k + 1] < list[l + 1] /\ list[k + 1] \in Nat /\ list[l + 1] \in Nat
    BY <1>4, <2>1
  <2>3. moved[k] = list[k + 1] - 1 /\ moved[l] = list[l + 1] - 1
    BY <1>11
  <2> QED
    BY <2>2, <2>3
<1>13. ASSUME NEW j \in 1 .. Len(rest), Matches(rest[j], s, b)
       PROVE  \E k \in 1 .. m : j = moved[k]
  <2>1. j \in 1 .. Len(ms) - 1 /\ j \in 1 .. Len(ms) /\ j + 1 \in 1 .. Len(ms) /\ j \in Nat /\ i \in Nat
    BY <1>1
  <2>2. ~(j < i)
    <3>1. j < i => rest[j] = ms[j]
      BY <1>1, <2>1
    <3> QED
      BY <1>13, <2>1, <3>1
  <2>3. Matches(ms[j + 1], s, b)
    BY <1>1, <1>13, <2>1, <2>2
  <2>4. PICK l \in 1 .. n : j + 1 = list[l]
    BY <1>4, <2>1, <2>3
  <2>5. l # 1
    BY <1>5, <2>1, <2>2, <2>4
  <2>6. PICK k \in 1 .. m : k + 1 = l
    <3>1. l - 1 \in 1 .. m /\ (l - 1) + 1 = l
      BY <1>4, <1>9, <2>5
    <3> QED
      BY <3>1
  <2>7. moved[k] = j
    BY <1>11, <2>1, <2>4, <2>6
  <2> QED
    BY <2>7
<1>14. Picks(moved, m, rest, s, b)
  <2>1. moved \in [1 .. m -> Nat]
    BY <1>10, <1>11
  <2>2. \A k \in 1 .. m : moved[k] \in 1 .. Len(rest) /\ Matches(rest[moved[k]], s, b)
    BY <1>4, <1>11
  <2> QED
    BY <1>9, <1>12, <1>13, <2>1, <2>2 DEF Picks
<1>15. Between(rest, s, b) = [k \in 1 .. m |-> rest[moved[k]]]
  BY <1>1, <1>14, BetweenFrom
<1>16. Between(rest, s, b) = Tail(found)
  <2>1. PICK tail : tail = Tail(found)
    OBVIOUS
  <2>2. /\ tail \in Seq(Message) /\ Len(tail) = m
        /\ \A k \in 1 .. m : tail[k] = found[k + 1]
    <3>1. /\ tail \in Seq(Message) /\ Len(tail) = Len(found) - 1
          /\ \A k \in 1 .. Len(tail) : tail[k] = found[k + 1]
      BY <1>7, <1>8, <2>1, HeadTailProperties
    <3>2. Len(tail) = m
      BY <1>8, <1>9, <3>1
    <3> QED
      BY <3>1, <3>2
  <2>3. tail = [k \in 1 .. m |-> tail[k]]
    BY <2>2
  <2>4. ASSUME NEW k \in 1 .. m
        PROVE  tail[k] = rest[moved[k]]
    <3>1. found[k + 1] = ms[list[k + 1]]
      BY <1>7, <1>11
    <3> QED
      BY <1>11, <2>2, <3>1
  <2> QED
    BY <1>15, <2>1, <2>3, <2>4
<1> QED
  BY <1>6, <1>8, <1>16

------------------------------------------------------------------------------
(* What is on its way in the mailer *)

\* There is an outgoing message while a write goes on, and what HandleWrite
\* holds is that message or nothing.
OutMatches ==
    /\ ongoing <=> body # Empty
    /\ body = Empty => queue = <<>>
    /\ held = Empty \/ (svc \in {"writing", "sent"} /\ held = body)

WireMatches == \A i \in DOMAIN wire : wire[i].body # Empty => wire[i].group = wire[i].body.to

BoxesMatch == \A b \in Boxes : b \notin made => mail[b] = <<>>

MailInv == TypeOK /\ OutMatches /\ WireMatches /\ BoxesMatch

\* The monitor of _out_queue keeps the outgoing message and the flag together.
LEMMA OutStep ==
    ASSUME TypeOK, OutMatches, [Next]_vars
    PROVE  OutMatches'
<1>1. ASSUME NEW s \in Senders, NEW b \in Boxes, Submit(s, b)
      PROVE  OutMatches'
  <2>1. PICK m : m = [from |-> s, to |-> b, num |-> nsent[s] + 1]
    OBVIOUS
  <2>2. m # Empty
    <3>1. nsent[s] + 1 \in 1 .. MaxSent[s]
      <4>1. nsent[s] \in Nat /\ MaxSent[s] \in Nat /\ nsent[s] < MaxSent[s]
        BY <1>1, MailerAssumption DEF Submit, TypeOK
      <4> QED
        BY <4>1
    <3> QED
      BY <2>1, <3>1, IsMessage, MessageFields
  <2>3. CASE ongoing
    BY <1>1, <2>3 DEF Submit, OutMatches
  <2>4. CASE ~ongoing
    <3>1. ongoing' = TRUE /\ body' = m /\ queue' = queue /\ held' = held /\ svc' = svc
      BY <1>1, <2>1, <2>4 DEF Submit
    <3>2. held = Empty
      BY <2>4 DEF OutMatches
    <3> QED
      BY <2>2, <3>1, <3>2 DEF OutMatches
  <2> QED
    BY <2>3, <2>4
<1>2. CASE Pop
  <2>1. CASE queue # <<>>
    <3>1. body' = Head(queue) /\ ongoing' = ongoing /\ held' = Empty
      BY <1>2, <2>1 DEF Pop, NextOutgoing
    <3>2. Head(queue) # Empty /\ ongoing
      BY <2>1, HeadTailProperties, MessageFields DEF TypeOK, OutMatches
    <3> QED
      BY <3>1, <3>2 DEF OutMatches
  <2>2. CASE queue = <<>>
    BY <1>2, <2>2 DEF Pop, NextOutgoing, OutMatches
  <2> QED
    BY <2>1, <2>2
<1>3. CASE \/ \E s \in Senders : EndWrite(s) \/ StartWrite(s)
           \/ Send \/ Disarm \/ Rearm \/ BuildMessage \/ HandleRead
           \/ \E b \in Boxes : Join(b) \/ CreateMailbox(b)
           \/ \E r \in Receivers : ReceiveMessage(r) \/ SpuriousWakeup(r)
           \/ UNCHANGED vars
  BY <1>3 DEF EndWrite, StartWrite, BuildMessage, Send, Disarm, Rearm, HandleRead, Join, CreateMailbox,
       ReceiveMessage, SpuriousWakeup, vars, out, OutMatches
<1> QED
  BY <1>1, <1>2, <1>3 DEF Next

\* A message is delivered to the group it was sent to.
LEMMA WireStep ==
    ASSUME TypeOK, OutMatches, WireMatches, [Next]_vars
    PROVE  WireMatches'
<1>1. CASE Send
  <2>1. CASE groups # NoGroup /\ Joined(groups)
    <3>1. PICK msg : msg = [group |-> groups, body |-> held]
      OBVIOUS
    <3>2. wire' = Append(wire, msg)
      BY <1>1, <2>1, <3>1 DEF Send
    <3>3. msg.body # Empty => msg.group = msg.body.to
      BY <3>1 DEF TypeOK, OutMatches
    <3>4. wire \in Seq([group : Boxes, body : Message \cup {Empty}])
      BY DEF TypeOK
    <3>5. groups \in Boxes /\ held \in Message \cup {Empty}
      BY <2>1, MessageFields DEF TypeOK
    <3>6. msg \in [group : Boxes, body : Message \cup {Empty}]
      BY <3>1, <3>5
    <3>7. /\ Len(wire) \in Nat /\ DOMAIN wire = 1 .. Len(wire) /\ DOMAIN wire' = 1 .. Len(wire) + 1
          /\ \A i \in 1 .. Len(wire) : wire'[i] = wire[i]
          /\ wire'[Len(wire) + 1] = msg
      BY <3>2, <3>4, <3>6, AppendProperties, LenProperties
    <3>8. \A i \in DOMAIN wire' : i \in DOMAIN wire \/ i = Len(wire) + 1
      BY <3>7
    <3> QED
      BY <3>3, <3>7, <3>8 DEF WireMatches
  <2>2. CASE ~(groups # NoGroup /\ Joined(groups))
    BY <1>1, <2>2 DEF Send, WireMatches
  <2> QED
    BY <2>1, <2>2
<1>2. CASE HandleRead
  <2>1. wire \in Seq([group : Boxes, body : Message \cup {Empty}]) /\ wire # <<>> /\ wire' = Tail(wire)
    BY <1>2 DEF TypeOK, HandleRead
  <2>2. /\ Len(wire) \in Nat /\ DOMAIN wire = 1 .. Len(wire) /\ Len(wire') = Len(wire) - 1
        /\ wire' \in Seq([group : Boxes, body : Message \cup {Empty}])
        /\ \A i \in 1 .. Len(wire') : wire'[i] = wire[i + 1]
    BY <2>1, HeadTailProperties, LenProperties
  <2>3. DOMAIN wire' = 1 .. Len(wire')
    BY <2>2, LenProperties
  <2>4. \A i \in DOMAIN wire' : i + 1 \in DOMAIN wire
    BY <2>2, <2>3
  <2> QED
    BY <2>2, <2>3, <2>4 DEF WireMatches
<1>3. CASE \/ \E s \in Senders : EndWrite(s) \/ StartWrite(s) \/ \E b \in Boxes : Submit(s, b)
           \/ Pop \/ Disarm \/ Rearm \/ BuildMessage
           \/ \E b \in Boxes : Join(b) \/ CreateMailbox(b)
           \/ \E r \in Receivers : ReceiveMessage(r) \/ SpuriousWakeup(r)
           \/ UNCHANGED vars
  <2>1. wire' = wire
    BY <1>3 DEF EndWrite, StartWrite, Submit, BuildMessage, Pop, Disarm, Rearm, Join, CreateMailbox,
       ReceiveMessage, SpuriousWakeup, vars
  <2> QED
    BY <2>1 DEF WireMatches
<1> QED
  BY <1>1, <1>2, <1>3 DEF Next

\* No mail before the mailbox.
LEMMA BoxesStep ==
    ASSUME TypeOK, BoxesMatch, [Next]_vars
    PROVE  BoxesMatch'
<1>1. mail \in [Boxes -> Seq(Message)]
  BY DEF TypeOK
<1>2. CASE HandleRead
  <2>1. CASE Head(wire).body = Empty
    BY <1>2, <2>1 DEF HandleRead, BoxesMatch
  <2>2. CASE Head(wire).body # Empty
    <3>1. PICK b : b = Head(wire).group
      OBVIOUS
    <3>2. made' = made \cup {b} /\ \A c \in Boxes : c # b => mail'[c] = mail[c]
      BY <1>1, <1>2, <2>2, <3>1 DEF HandleRead
    <3> QED
      BY <3>2 DEF BoxesMatch
  <2> QED
    BY <2>1, <2>2
<1>3. ASSUME NEW b \in Boxes, CreateMailbox(b)
      PROVE  BoxesMatch'
  BY <1>1, <1>3 DEF CreateMailbox, Insert, BoxesMatch
<1>4. ASSUME NEW r \in Receivers, ReceiveMessage(r)
      PROVE  BoxesMatch'
  <2>1. CASE Wanted(r) = {}
    BY <1>4, <2>1 DEF ReceiveMessage, BoxesMatch
  <2>2. CASE Wanted(r) # {}
    <3>1. made' = made /\ \A c \in Boxes : c # Box[r] => mail'[c] = mail[c]
      BY <1>1, <1>4, <2>2 DEF ReceiveMessage
    <3>2. mail[Box[r]] # <<>>
      BY <2>2 DEF Wanted
    <3>3. Box[r] \in Boxes
      BY MailerAssumption
    <3> QED
      BY <3>1, <3>2, <3>3 DEF BoxesMatch
  <2> QED
    BY <2>1, <2>2
<1>5. CASE \/ \E s \in Senders : EndWrite(s) \/ StartWrite(s) \/ \E b \in Boxes : Submit(s, b)
           \/ Send \/ Pop \/ Disarm \/ Rearm \/ BuildMessage
           \/ \E b \in Boxes : Join(b)
           \/ \E r \in Receivers : SpuriousWakeup(r)
           \/ UNCHANGED vars
  <2>1. mail' = mail /\ made' = made
    BY <1>5 DEF EndWrite, StartWrite, Submit, BuildMessage, Send, Pop, Disarm, Rearm, Join,
       SpuriousWakeup, vars, inbox
  <2> QED
    BY <2>1 DEF BoxesMatch
<1> QED
  BY <1>2, <1>3, <1>4, <1>5 DEF Next

\* The invariant that the effects rest on.
LEMMA SpecMail == Spec => []MailInv
<1>1. Init => MailInv
  <2>1. Init => OutMatches /\ WireMatches /\ BoxesMatch
    BY DEF Init, OutMatches, WireMatches, BoxesMatch
  <2> QED
    BY <2>1, TypeInit DEF MailInv
<1>2. MailInv /\ [Next]_vars => MailInv'
  BY TypeStep, OutStep, WireStep, BoxesStep DEF MailInv
<1> QED
  BY <1>1, <1>2, PTL DEF Spec

------------------------------------------------------------------------------
(* What a step does to what is on its way *)

Going == Unsent \o queue

Coming(b) == mail[b] \o Bodies

Same == Going' = Going /\ \A b \in Boxes : Coming(b)' = Coming(b)

Posts == \E m \in Message : Going' = Append(Going, m) /\ \A b \in Boxes : Coming(b)' = Coming(b)

Loses == /\ Going # <<>> /\ Going' = Tail(Going)
         /\ \A b \in Boxes : Coming(b)' = Coming(b)

Arrives == /\ Going # <<>> /\ Going' = Tail(Going)
           /\ \A b \in Boxes : Coming(b)' = Append(Coming(b), Head(Going))

\* A message with nothing in it is sent.
Blanks == Going' = Going /\ \A b \in Boxes : Coming(b)' = Append(Coming(b), Empty)

\* What is not for b may go.
Passes(b) == \E i : /\ Without(Coming(b)', Coming(b), i)
                    /\ Coming(b)[i] = Empty \/ Coming(b)[i].to # b

Reads == Going' = Going /\ \A b \in Boxes : Coming(b)' = Coming(b) \/ Passes(b)

\* The first message of some sender is taken.
Takes(b, i) == /\ Without(Coming(b)', Coming(b), i) /\ Coming(b)[i] \in Message
               /\ \A j \in 1 .. Len(Coming(b)) :
                     j < i => Coming(b)[j] \in Message /\ Coming(b)[j].from # Coming(b)[i].from

Receives == /\ Going' = Going
            /\ \E b \in Boxes : /\ \E i : Takes(b, i)
                                /\ \A c \in Boxes : c # b => Coming(c)' = Coming(c)

\* The types of what is on its way.
LEMMA TypesAre ==
    ASSUME TypeOK
    PROVE  /\ queue \in Seq(Message) /\ Unsent \in Seq(Message) /\ Going \in Seq(Message)
           /\ Bodies \in Seq(Any) /\ Len(Bodies) = Len(wire) /\ Len(wire) \in Nat
           /\ \A i \in 1 .. Len(wire) : Bodies[i] = wire[i].body
           /\ \A b \in Boxes : mail[b] \in Seq(Message) /\ mail[b] \in Seq(Any) /\ Coming(b) \in Seq(Any)
<1>1. queue \in Seq(Message) /\ mail \in [Boxes -> Seq(Message)]
  BY DEF TypeOK
<1>2. Unsent \in Seq(Message)
  <2>1. body # Empty => body \in Message
    BY DEF TypeOK
  <2> QED
    BY <2>1 DEF Unsent
<1>3. Going \in Seq(Message)
  BY <1>1, <1>2, ConcatProperties DEF Going
<1>4. /\ wire \in Seq([group : Boxes, body : Message \cup {Empty}])
  BY DEF TypeOK
<1>5. Len(wire) \in Nat /\ DOMAIN wire = 1 .. Len(wire)
  BY <1>4, LenProperties
<1>6. ASSUME NEW i \in 1 .. Len(wire)
      PROVE  wire[i].body \in Any
  <2>1. wire[i] \in [group : Boxes, body : Message \cup {Empty}]
    BY <1>4, ElementOfSeq
  <2> QED
    BY <2>1 DEF Any
<1>7. /\ Bodies \in Seq(Any) /\ Len(Bodies) = Len(wire)
      /\ \A i \in 1 .. Len(wire) : Bodies[i] = wire[i].body
  BY <1>5, <1>6 DEF Bodies
<1>8. ASSUME NEW b \in Boxes
      PROVE  mail[b] \in Seq(Message) /\ mail[b] \in Seq(Any) /\ Coming(b) \in Seq(Any)
  <2>1. mail[b] \in Seq(Message)
    BY <1>1
  <2>2. mail[b] \in Seq(Any)
    BY <2>1, SeqMonotonic DEF Any
  <2> QED
    BY <1>7, <2>1, <2>2, ConcatProperties DEF Coming
<1> QED
  BY <1>1, <1>2, <1>3, <1>5, <1>7, <1>8

LEMMA PushedIs ==
    ASSUME NEW m \in Message, NEW rest \in Seq(Message)
    PROVE  /\ <<m>> \o rest # <<>> /\ Head(<<m>> \o rest) = m /\ Tail(<<m>> \o rest) = rest
           /\ <<>> \o rest = rest
<1>1. <<m>> \in Seq(Message) /\ Len(<<m>>) = 1 /\ (<<m>>)[1] = m
  OBVIOUS
<1>2. PICK all : all = <<m>> \o rest
  OBVIOUS
<1>3. /\ all \in Seq(Message) /\ Len(all) = 1 + Len(rest) /\ Len(rest) \in Nat
      /\ \A i \in 1 .. 1 + Len(rest) : all[i] = IF i <= 1 THEN (<<m>>)[i] ELSE rest[i - 1]
  BY <1>1, <1>2, ConcatProperties, LenProperties
<1>4. all # <<>> /\ Head(all) = m
  <2>1. all # <<>>
    BY <1>3
  <2>2. Head(all) = all[1]
    BY <1>3, <2>1
  <2> QED
    BY <1>1, <1>3, <2>1, <2>2
<1>5. Tail(all) = rest
  <2>1. PICK tail : tail = Tail(all)
    OBVIOUS
  <2>2. /\ tail \in Seq(Message) /\ Len(tail) = Len(all) - 1
        /\ \A i \in 1 .. Len(tail) : tail[i] = all[i + 1]
    BY <1>3, <1>4, <2>1, HeadTailProperties
  <2>3. Len(tail) = Len(rest)
    BY <1>3, <2>2
  <2>4. ASSUME NEW i \in 1 .. Len(tail)
        PROVE  tail[i] = rest[i]
    <3>1. i + 1 \in 1 .. 1 + Len(rest) /\ ~(i + 1 <= 1) /\ (i + 1) - 1 = i
      BY <1>3, <2>3
    <3> QED
      BY <1>3, <2>2, <3>1
  <2> QED
    BY <2>1, <2>2, <2>3, <2>4, SeqEqual
<1> QED
  BY <1>2, <1>4, <1>5, ConcatEmptySeq

\* The outgoing message is the first of what is going, until it is sent.
LEMMA UnsentIs ==
    ASSUME TypeOK
    PROVE  /\ body = Empty \/ (svc = "sent" /\ held = body) => Going = queue
           /\ body # Empty /\ ~(svc = "sent" /\ held = body) =>
                 /\ body \in Message
                 /\ Going # <<>> /\ Head(Going) = body /\ Tail(Going) = queue
<1>1. queue \in Seq(Message) /\ (body # Empty => body \in Message)
  BY DEF TypeOK
<1>2. CASE body = Empty \/ (svc = "sent" /\ held = body)
  BY <1>1, <1>2, ConcatEmptySeq DEF Going, Unsent
<1>3. CASE body # Empty /\ ~(svc = "sent" /\ held = body)
  BY <1>1, <1>3, PushedIs DEF Going, Unsent
<1> QED
  BY <1>2, <1>3

LEMMA ComingSame ==
    ASSUME wire' = wire, NEW b \in Boxes, mail'[b] = mail[b]
    PROVE  Coming(b)' = Coming(b)
BY DEF Coming, Bodies

LEMMA GoingSame ==
    ASSUME body' = body, queue' = queue, (svc' = "sent" /\ held' = body') <=> (svc = "sent" /\ held = body)
    PROVE  Going' = Going
BY DEF Going, Unsent

LEMMA AppendIs ==
    ASSUME NEW elems, NEW seq \in Seq(elems), NEW m \in elems, NEW longer, longer = Append(seq, m)
    PROVE  /\ longer \in Seq(elems) /\ Len(longer) = Len(seq) + 1 /\ Len(seq) \in Nat
           /\ \A i \in 1 .. Len(seq) : longer[i] = seq[i]
           /\ longer[Len(seq) + 1] = m
BY AppendProperties, LenProperties

LEMMA ConcatIs ==
    ASSUME NEW elems, NEW front \in Seq(elems), NEW rest \in Seq(elems), NEW both, both = front \o rest
    PROVE  /\ both \in Seq(elems) /\ Len(both) = Len(front) + Len(rest)
           /\ Len(front) \in Nat /\ Len(rest) \in Nat
           /\ \A i \in 1 .. Len(front) + Len(rest) :
                 both[i] = IF i <= Len(front) THEN front[i] ELSE rest[i - Len(front)]
BY ConcatProperties, LenProperties

LEMMA ConcatAppend ==
    ASSUME NEW elems, NEW front \in Seq(elems), NEW rest \in Seq(elems), NEW m \in elems
    PROVE  front \o Append(rest, m) = Append(front \o rest, m)
<1>1. PICK left, right : left = front \o Append(rest, m) /\ right = Append(front \o rest, m)
  OBVIOUS
<1>2. PICK longer : longer = Append(rest, m)
  OBVIOUS
<1>3. /\ longer \in Seq(elems) /\ Len(longer) = Len(rest) + 1 /\ Len(rest) \in Nat /\ Len(front) \in Nat
      /\ \A i \in 1 .. Len(rest) : longer[i] = rest[i]
      /\ longer[Len(rest) + 1] = m
  BY <1>2, AppendIs, LenProperties
<1>4. PICK both : both = front \o rest
  OBVIOUS
<1>5. /\ both \in Seq(elems) /\ Len(both) = Len(front) + Len(rest)
      /\ \A i \in 1 .. Len(front) + Len(rest) :
            both[i] = IF i <= Len(front) THEN front[i] ELSE rest[i - Len(front)]
  BY <1>4, ConcatIs
<1>6. /\ left \in Seq(elems) /\ Len(left) = Len(front) + Len(longer)
      /\ \A i \in 1 .. Len(front) + Len(longer) :
            left[i] = IF i <= Len(front) THEN front[i] ELSE longer[i - Len(front)]
  <2>1. left = front \o longer
    BY <1>1, <1>2
  <2>2. longer \in Seq(elems)
    BY <1>3
  <2> QED
    BY <2>1, <2>2, ConcatIs
<1>7. /\ right \in Seq(elems) /\ Len(right) = Len(both) + 1
      /\ \A i \in 1 .. Len(both) : right[i] = both[i]
      /\ right[Len(both) + 1] = m
  <2>1. right = Append(both, m)
    BY <1>1, <1>4
  <2>2. both \in Seq(elems)
    BY <1>5
  <2> QED
    BY <2>1, <2>2, AppendIs
<1>8. Len(left) = Len(right)
  BY <1>3, <1>5, <1>6, <1>7
<1>9. ASSUME NEW i \in 1 .. Len(left)
      PROVE  left[i] = right[i]
  <2>1. CASE i <= Len(front)
    <3>1. i \in 1 .. Len(both) /\ i \in 1 .. Len(front) + Len(rest) /\ i \in 1 .. Len(front) + Len(longer)
      BY <1>3, <1>5, <1>6, <2>1
    <3> QED
      BY <1>5, <1>6, <1>7, <2>1, <3>1
  <2>2. CASE ~(i <= Len(front)) /\ i <= Len(front) + Len(rest)
    <3>1. /\ i \in 1 .. Len(both) /\ i \in 1 .. Len(front) + Len(rest) /\ i \in 1 .. Len(front) + Len(longer)
          /\ i - Len(front) \in 1 .. Len(rest)
      BY <1>3, <1>5, <1>6, <2>2
    <3>2. left[i] = longer[i - Len(front)] /\ right[i] = rest[i - Len(front)]
      BY <1>5, <1>6, <1>7, <2>2, <3>1
    <3> QED
      BY <1>3, <3>1, <3>2
  <2>3. CASE i = Len(front) + Len(rest) + 1
    <3>1. /\ i = Len(both) + 1 /\ i \in 1 .. Len(front) + Len(longer) /\ ~(i <= Len(front))
          /\ i - Len(front) = Len(rest) + 1
      BY <1>3, <1>5, <1>6, <2>3
    <3> QED
      BY <1>3, <1>6, <1>7, <3>1
  <2>4. i <= Len(front) + Len(rest) + 1 /\ i \in Nat
    BY <1>3, <1>6
  <2> QED
    BY <1>3, <2>1, <2>2, <2>3, <2>4
<1> QED
  BY <1>1, <1>6, <1>7, <1>8, <1>9, SeqEqual

\* Taking an element from the front part of a sequence, or the first of the rest.
LEMMA ConcatWithout ==
    ASSUME NEW front \in Seq(Any), NEW rest \in Seq(Any), NEW i, NEW less, Without(less, front, i)
    PROVE  Without(less \o rest, front \o rest, i)
<1>1. /\ less \in Seq(Any) /\ i \in 1 .. Len(front) /\ Len(front) \in Nat /\ Len(less) = Len(front) - 1
      /\ \A j \in 1 .. Len(front) - 1 : less[j] = IF j < i THEN front[j] ELSE front[j + 1]
  BY DEF Without, Skips
<1>2. PICK before, after : before = front \o rest /\ after = less \o rest
  OBVIOUS
<1>3. /\ before \in Seq(Any) /\ Len(before) = Len(front) + Len(rest) /\ Len(rest) \in Nat
      /\ \A j \in 1 .. Len(front) + Len(rest) :
            before[j] = IF j <= Len(front) THEN front[j] ELSE rest[j - Len(front)]
  BY <1>2, ConcatIs
<1>4. /\ after \in Seq(Any) /\ Len(after) = Len(less) + Len(rest)
      /\ \A j \in 1 .. Len(less) + Len(rest) :
            after[j] = IF j <= Len(less) THEN less[j] ELSE rest[j - Len(less)]
  <2>1. less \in Seq(Any)
    BY <1>1
  <2> QED
    BY <1>2, <2>1, ConcatIs
<1>5. ASSUME NEW j \in 1 .. Len(before) - 1
      PROVE  after[j] = IF j < i THEN before[j] ELSE before[j + 1]
  <2>1. j \in Nat /\ i \in Nat /\ j \in 1 .. Len(less) + Len(rest)
    BY <1>1, <1>3
  <2>2. CASE j < i
    <3>1. j <= Len(less) /\ j \in 1 .. Len(front) - 1 /\ j \in 1 .. Len(front) + Len(rest) /\ j <= Len(front)
      BY <1>1, <1>3, <2>1, <2>2
    <3>2. after[j] = front[j] /\ before[j] = front[j]
      BY <1>1, <1>3, <1>4, <2>1, <2>2, <3>1
    <3> QED
      BY <2>2, <3>2
  <2>3. CASE ~(j < i) /\ j <= Len(less)
    <3>1. /\ j \in 1 .. Len(front) - 1 /\ j + 1 \in 1 .. Len(front) + Len(rest) /\ j + 1 <= Len(front)
      BY <1>1, <1>3, <2>1, <2>3
    <3>2. after[j] = front[j + 1] /\ before[j + 1] = front[j + 1]
      BY <1>1, <1>3, <1>4, <2>1, <2>3, <3>1
    <3> QED
      BY <2>3, <3>2
  <2>4. CASE ~(j <= Len(less))
    <3>1. /\ ~(j < i) /\ j + 1 \in 1 .. Len(front) + Len(rest) /\ ~(j + 1 <= Len(front))
          /\ (j + 1) - Len(front) = j - Len(less)
      BY <1>1, <1>3, <2>1, <2>4
    <3>2. after[j] = rest[j - Len(less)] /\ before[j + 1] = rest[(j + 1) - Len(front)]
      BY <1>3, <1>4, <2>1, <2>4, <3>1
    <3> QED
      BY <3>1, <3>2
  <2> QED
    BY <2>2, <2>3, <2>4
<1>6. i \in 1 .. Len(before) /\ Len(before) \in Nat /\ Len(after) = Len(before) - 1
  BY <1>1, <1>3, <1>4
<1>7. Without(after, before, i)
  BY <1>3, <1>4, <1>5, <1>6 DEF Without, Skips
<1> QED
  BY <1>2, <1>7

\* The first of the rest, left out or moved to the front part.
LEMMA ConcatTail ==
    ASSUME NEW front \in Seq(Any), NEW rest \in Seq(Any), rest # <<>>
    PROVE  /\ Without(front \o Tail(rest), front \o rest, Len(front) + 1)
           /\ (front \o rest)[Len(front) + 1] = Head(rest)
           /\ Append(front, Head(rest)) \o Tail(rest) = front \o rest
<1>1. PICK head, tail : head = Head(rest) /\ tail = Tail(rest)
  OBVIOUS
<1>2. /\ tail \in Seq(Any) /\ Len(tail) = Len(rest) - 1 /\ Len(rest) \in Nat /\ Len(rest) > 0
      /\ head \in Any /\ head = rest[1]
      /\ \A k \in 1 .. Len(rest) - 1 : tail[k] = rest[k + 1]
  <2>1. /\ tail \in Seq(Any) /\ Len(tail) = Len(rest) - 1 /\ head \in Any
        /\ \A k \in 1 .. Len(tail) : tail[k] = rest[k + 1]
    BY <1>1, HeadTailProperties
  <2>2. Len(rest) \in Nat /\ Len(rest) > 0 /\ head = rest[1]
    BY <1>1, EmptySeq, LenProperties
  <2> QED
    BY <2>1, <2>2
<1>3. PICK before, after : before = front \o rest /\ after = front \o tail
  OBVIOUS
<1>4. /\ before \in Seq(Any) /\ Len(before) = Len(front) + Len(rest) /\ Len(front) \in Nat
      /\ \A j \in 1 .. Len(front) + Len(rest) :
            before[j] = IF j <= Len(front) THEN front[j] ELSE rest[j - Len(front)]
  BY <1>3, ConcatIs
<1>5. /\ after \in Seq(Any) /\ Len(after) = Len(front) + Len(tail)
      /\ \A j \in 1 .. Len(front) + Len(tail) :
            after[j] = IF j <= Len(front) THEN front[j] ELSE tail[j - Len(front)]
  <2>1. tail \in Seq(Any)
    BY <1>2
  <2> QED
    BY <1>3, <2>1, ConcatIs
<1>6. PICK i \in Nat : i = Len(front) + 1
  BY <1>4
<1>7. i \in 1 .. Len(before) /\ Len(before) \in Nat /\ Len(after) = Len(before) - 1
  BY <1>2, <1>4, <1>5, <1>6
<1>8. ASSUME NEW j \in 1 .. Len(before) - 1
      PROVE  after[j] = IF j < i THEN before[j] ELSE before[j + 1]
  <2>1. j \in Nat /\ j \in 1 .. Len(front) + Len(tail) /\ j \in 1 .. Len(front) + Len(rest)
    BY <1>2, <1>4, <1>5
  <2>2. CASE j <= Len(front)
    BY <1>4, <1>5, <1>6, <2>1, <2>2
  <2>3. CASE ~(j <= Len(front))
    <3>1. /\ j - Len(front) \in 1 .. Len(rest) - 1 /\ ~(j < i) /\ ~(j + 1 <= Len(front))
          /\ j + 1 \in 1 .. Len(front) + Len(rest) /\ (j + 1) - Len(front) = (j - Len(front)) + 1
      BY <1>2, <1>4, <1>6, <2>1, <2>3
    <3>2. after[j] = tail[j - Len(front)] /\ before[j + 1] = rest[(j - Len(front)) + 1]
      BY <1>4, <1>5, <2>1, <2>3, <3>1
    <3> QED
      BY <1>2, <3>1, <3>2
  <2> QED
    BY <2>2, <2>3
<1>9. Without(after, before, i)
  BY <1>4, <1>5, <1>7, <1>8 DEF Without, Skips
<1>10. before[i] = head
  BY <1>2, <1>4, <1>6, <1>7
<1>11. PICK front1, again : front1 = Append(front, head) /\ again = front1 \o tail
  OBVIOUS
<1>12. /\ front1 \in Seq(Any) /\ Len(front1) = i
       /\ \A k \in 1 .. Len(front) : front1[k] = front[k]
       /\ front1[i] = head
  <2>1. head \in Any
    BY <1>2
  <2>2. /\ front1 \in Seq(Any) /\ Len(front1) = Len(front) + 1
        /\ \A k \in 1 .. Len(front) : front1[k] = front[k]
        /\ front1[Len(front) + 1] = head
    BY <1>11, <2>1, AppendIs
  <2> QED
    BY <1>6, <2>2
<1>13. /\ again \in Seq(Any) /\ Len(again) = Len(front1) + Len(tail)
       /\ \A j \in 1 .. Len(front1) + Len(tail) :
             again[j] = IF j <= Len(front1) THEN front1[j] ELSE tail[j - Len(front1)]
  <2>1. front1 \in Seq(Any) /\ tail \in Seq(Any)
    BY <1>2, <1>12
  <2> QED
    BY <1>11, <2>1, ConcatIs
<1>14. again = before
  <2>1. Len(again) = Len(before)
    BY <1>2, <1>4, <1>6, <1>12, <1>13
  <2>2. ASSUME NEW j \in 1 .. Len(again)
        PROVE  again[j] = before[j]
    <3>1. /\ j \in Nat /\ j \in 1 .. Len(front1) + Len(tail) /\ j \in 1 .. Len(front) + Len(rest)
          /\ Len(front1) = Len(front) + 1
      BY <1>2, <1>4, <1>6, <1>12, <1>13
    <3>2. CASE j <= Len(front)
      <4>1. j \in 1 .. Len(front) /\ j <= Len(front1)
        BY <3>1, <3>2
      <4> QED
        BY <1>4, <1>12, <1>13, <3>1, <3>2, <4>1
    <3>3. CASE j = i
      <4>1. j <= Len(front1) /\ front1[j] = head /\ before[j] = head
        <5>1. Len(front1) = i
          BY <1>12
        <5>2. j <= Len(front1)
          BY <3>1, <3>3, <5>1
        <5> QED
          BY <1>10, <1>12, <3>3, <5>2
      <4>2. again[j] = front1[j]
        BY <1>13, <3>1, <4>1
      <4> QED
        BY <4>1, <4>2
    <3>4. CASE ~(j <= Len(front)) /\ j # i
      <4>1. /\ ~(j <= Len(front1)) /\ j - Len(front1) \in 1 .. Len(rest) - 1
            /\ (j - Len(front1)) + 1 = j - Len(front)
        BY <1>2, <1>4, <1>6, <3>1, <3>4
      <4>2. again[j] = tail[j - Len(front1)] /\ before[j] = rest[j - Len(front)]
        BY <1>4, <1>13, <3>1, <3>4, <4>1
      <4> QED
        BY <1>2, <4>1, <4>2
    <3>5. j <= Len(front) \/ j = i \/ (~(j <= Len(front)) /\ j # i)
      OBVIOUS
    <3> QED
      BY <3>2, <3>3, <3>4, <3>5
  <2> QED
    BY <1>4, <1>13, <2>1, <2>2, SeqEqual
<1> QED
  BY <1>1, <1>3, <1>6, <1>9, <1>10, <1>11, <1>14

LEMMA HeadTailIs ==
    ASSUME NEW seq \in Seq(Message), seq # <<>>
    PROVE  <<Head(seq)>> \o Tail(seq) = seq
<1>1. PICK head, tail : head = Head(seq) /\ tail = Tail(seq)
  OBVIOUS
<1>2. /\ head \in Message /\ head = seq[1] /\ tail \in Seq(Message)
      /\ Len(seq) \in Nat /\ Len(seq) > 0 /\ Len(tail) = Len(seq) - 1
      /\ \A k \in 1 .. Len(tail) : tail[k] = seq[k + 1]
  <2>1. /\ tail \in Seq(Message) /\ Len(tail) = Len(seq) - 1 /\ head \in Message
        /\ \A k \in 1 .. Len(tail) : tail[k] = seq[k + 1]
    BY <1>1, HeadTailProperties
  <2>2. Len(seq) \in Nat /\ Len(seq) > 0 /\ head = seq[1]
    BY <1>1, EmptySeq, LenProperties
  <2> QED
    BY <2>1, <2>2
<1>3. PICK all : all = <<head>> \o tail
  OBVIOUS
<1>4. PICK first : first = <<head>>
  OBVIOUS
<1>5. first \in Seq(Message) /\ Len(first) = 1 /\ first[1] = head
  BY <1>2, <1>4
<1>6. /\ all \in Seq(Message) /\ Len(all) = Len(first) + Len(tail)
      /\ \A i \in 1 .. Len(first) + Len(tail) :
            all[i] = IF i <= Len(first) THEN first[i] ELSE tail[i - Len(first)]
  <2>1. all = first \o tail /\ first \in Seq(Message) /\ tail \in Seq(Message)
    BY <1>2, <1>3, <1>4, <1>5
  <2> QED
    BY <2>1, ConcatIs
<1>7. Len(all) = Len(seq)
  BY <1>2, <1>5, <1>6
<1>8. ASSUME NEW i \in 1 .. Len(all)
      PROVE  all[i] = seq[i]
  <2>1. i \in Nat /\ i \in 1 .. Len(first) + Len(tail) /\ Len(first) = 1
    BY <1>5, <1>6
  <2>2. CASE i = 1
    BY <1>2, <1>5, <1>6, <2>1, <2>2
  <2>3. CASE i # 1
    <3>1. i - 1 \in 1 .. Len(tail) /\ (i - 1) + 1 = i /\ ~(i <= Len(first)) /\ i - Len(first) = i - 1
      BY <1>2, <1>5, <2>1, <2>3
    <3>2. all[i] = tail[i - 1]
      BY <1>6, <2>1, <3>1
    <3> QED
      BY <1>2, <3>1, <3>2
  <2> QED
    BY <2>2, <2>3
<1> QED
  BY <1>1, <1>3, <1>6, <1>7, <1>8, SeqEqual

\* HandleRead takes the first body off the wire.
LEMMA BodiesTail ==
    ASSUME TypeOK, wire # <<>>, wire' = Tail(wire)
    PROVE  Bodies # <<>> /\ Head(Bodies) = Head(wire).body /\ Bodies' = Tail(Bodies)
<1>1. /\ wire \in Seq([group : Boxes, body : Message \cup {Empty}])
      /\ Bodies \in Seq(Any) /\ Len(Bodies) = Len(wire) /\ Len(wire) \in Nat
      /\ \A i \in 1 .. Len(wire) : Bodies[i] = wire[i].body
  BY TypesAre DEF TypeOK
<1>2. /\ wire' \in Seq([group : Boxes, body : Message \cup {Empty}])
      /\ Len(wire') = Len(wire) - 1 /\ Len(wire) > 0
      /\ \A i \in 1 .. Len(wire') : wire'[i] = wire[i + 1]
      /\ Head(wire) = wire[1]
  BY <1>1, HeadTailProperties, EmptySeq, LenProperties
<1>3. DOMAIN wire' = 1 .. Len(wire')
  BY <1>2, LenProperties
<1>4. Bodies # <<>> /\ Head(Bodies) = Bodies[1]
  <2>1. Bodies # <<>>
    BY <1>1, <1>2
  <2> QED
    BY <1>1, <2>1
<1>5. PICK n \in Nat : n = Len(wire) - 1
  BY <1>1, <1>2
<1>6. PICK tail : tail = Tail(Bodies)
  OBVIOUS
<1>7. /\ tail \in Seq(Any) /\ Len(tail) = n
      /\ \A i \in 1 .. n : tail[i] = Bodies[i + 1]
  <2>1. /\ tail \in Seq(Any) /\ Len(tail) = Len(Bodies) - 1
        /\ \A i \in 1 .. Len(tail) : tail[i] = Bodies[i + 1]
    BY <1>1, <1>4, <1>6, HeadTailProperties
  <2> QED
    BY <1>1, <1>5, <2>1
<1>8. tail = [i \in 1 .. n |-> tail[i]]
  BY <1>7
<1>9. Bodies' = [i \in 1 .. n |-> wire'[i].body]
  BY <1>2, <1>3, <1>5 DEF Bodies
<1>10. ASSUME NEW i \in 1 .. n
       PROVE  tail[i] = wire'[i].body
  <2>1. i + 1 \in 1 .. Len(wire) /\ i \in 1 .. Len(wire')
    BY <1>1, <1>2, <1>5
  <2> QED
    BY <1>1, <1>2, <1>7, <2>1
<1>11. Head(Bodies) = Head(wire).body
  <2>1. 1 \in 1 .. Len(wire)
    BY <1>1, <1>2
  <2> QED
    BY <1>1, <1>2, <1>4, <2>1
<1> QED
  BY <1>4, <1>6, <1>8, <1>9, <1>10, <1>11

\* HandleWrite puts what it holds on it.
LEMMA BodiesAppend ==
    ASSUME TypeOK, NEW b \in Boxes, wire' = Append(wire, [group |-> b, body |-> held])
    PROVE  Bodies' = Append(Bodies, held) /\ held \in Any
<1>1. /\ wire \in Seq([group : Boxes, body : Message \cup {Empty}])
      /\ Bodies \in Seq(Any) /\ Len(Bodies) = Len(wire) /\ Len(wire) \in Nat
      /\ \A i \in 1 .. Len(wire) : Bodies[i] = wire[i].body
  BY TypesAre DEF TypeOK
<1>2. PICK msg : msg = [group |-> b, body |-> held]
  OBVIOUS
<1>3. held \in Any /\ msg \in [group : Boxes, body : Message \cup {Empty}] /\ msg.body = held
  BY <1>2 DEF TypeOK, Any
<1>4. /\ wire' \in Seq([group : Boxes, body : Message \cup {Empty}]) /\ Len(wire') = Len(wire) + 1
      /\ \A i \in 1 .. Len(wire) : wire'[i] = wire[i]
      /\ wire'[Len(wire) + 1] = msg
  BY <1>1, <1>2, <1>3, AppendIs
<1>5. PICK n \in Nat : n = Len(wire) + 1
  BY <1>1
<1>6. DOMAIN wire' = 1 .. n
  BY <1>4, <1>5, LenProperties
<1>7. Bodies' = [i \in 1 .. n |-> wire'[i].body]
  BY <1>6 DEF Bodies
<1>8. PICK longer : longer = Append(Bodies, held)
  OBVIOUS
<1>9. /\ longer \in Seq(Any) /\ Len(longer) = n
      /\ \A i \in 1 .. Len(wire) : longer[i] = Bodies[i]
      /\ longer[n] = held
  <2>1. /\ longer \in Seq(Any) /\ Len(longer) = Len(Bodies) + 1
        /\ \A i \in 1 .. Len(Bodies) : longer[i] = Bodies[i]
        /\ longer[Len(Bodies) + 1] = held
    BY <1>1, <1>3, <1>8, AppendIs
  <2> QED
    BY <1>1, <1>5, <2>1
<1>10. longer = [i \in 1 .. n |-> longer[i]]
  BY <1>9
<1>11. ASSUME NEW i \in 1 .. n
       PROVE  longer[i] = wire'[i].body
  <2>1. CASE i \in 1 .. Len(wire)
    BY <1>1, <1>4, <1>9, <2>1
  <2>2. CASE i = n
    BY <1>3, <1>4, <1>5, <1>9, <2>2
  <2>3. i \in 1 .. Len(wire) \/ i = n
    BY <1>1, <1>5
  <2> QED
    BY <2>1, <2>2, <2>3
<1> QED
  BY <1>3, <1>7, <1>8, <1>10, <1>11

------------------------------------------------------------------------------
(* Each step has one of these effects *)

\* SendMessage posts.
LEMMA SubmitIs ==
    ASSUME TypeOK, OutMatches, NEW s \in Senders, NEW b \in Boxes, Submit(s, b)
    PROVE  Posts
<1>1. PICK m : m = [from |-> s, to |-> b, num |-> nsent[s] + 1]
  OBVIOUS
<1>2. m \in Message
  <2>1. nsent[s] + 1 \in 1 .. MaxSent[s]
    <3>1. nsent[s] \in Nat /\ MaxSent[s] \in Nat /\ nsent[s] < MaxSent[s]
      BY MailerAssumption DEF Submit, TypeOK
    <3> QED
      BY <3>1
  <2> QED
    BY <1>1, <2>1, IsMessage
<1>3. wire' = wire /\ mail' = mail /\ svc' = svc /\ held' = held
  BY DEF Submit, inbox
<1>4. \A c \in Boxes : Coming(c)' = Coming(c)
  BY <1>3, ComingSame
<1>5. queue \in Seq(Message) /\ Unsent \in Seq(Message) /\ Going \in Seq(Message)
  BY TypesAre
<1>6. CASE ongoing
  <2>1. queue' = Append(queue, m) /\ body' = body
    BY <1>1, <1>6 DEF Submit
  <2>2. Going' = Unsent \o Append(queue, m)
    BY <1>3, <2>1 DEF Going, Unsent
  <2>3. Unsent \o Append(queue, m) = Append(Unsent \o queue, m)
    BY <1>2, <1>5, ConcatAppend
  <2> QED
    BY <1>2, <1>4, <2>2, <2>3 DEF Posts, Going
<1>7. CASE ~ongoing
  <2>1. body = Empty /\ queue = <<>> /\ held = Empty
    BY <1>7 DEF OutMatches
  <2>2. body' = m /\ queue' = queue
    BY <1>1, <1>7 DEF Submit
  <2>3. Going = <<>>
    BY <2>1, UnsentIs
  <2>4. m # Empty
    BY <1>2, MessageFields
  <2>5. Going' = <<m>> \o <<>>
    BY <1>3, <2>1, <2>2, <2>4 DEF Going, Unsent
  <2>6. <<m>> \o <<>> = Append(<<>>, m)
    <3>1. <<m>> \in Seq(Message)
      BY <1>2
    <3> QED
      BY <3>1, ConcatEmptySeq
  <2> QED
    BY <1>2, <1>4, <2>3, <2>5, <2>6 DEF Posts
<1> QED
  BY <1>6, <1>7

\* HandleWrite sends what it holds, to the mailboxes or to nobody; it may hold nothing.
LEMMA SendIs ==
    ASSUME TypeOK, OutMatches, Send
    PROVE  Same \/ Loses \/ Arrives \/ Blanks
<1>1. svc = "writing" /\ svc' = "sent" /\ held' = held /\ body' = body /\ queue' = queue /\ mail' = mail
  BY DEF Send, out, inbox
<1>2. queue \in Seq(Message) /\ Bodies \in Seq(Any) /\ \A c \in Boxes : mail[c] \in Seq(Any)
  BY TypesAre
<1>3. \/ wire' = wire
      \/ \E b \in Boxes : wire' = Append(wire, [group |-> b, body |-> held])
  <2>1. groups # NoGroup => groups \in Boxes
    BY MessageFields DEF TypeOK
  <2> QED
    BY <2>1 DEF Send
<1>4. \/ \A c \in Boxes : Coming(c)' = Coming(c)
      \/ \A c \in Boxes : Coming(c)' = Append(Coming(c), held)
  <2>1. CASE wire' = wire
    BY <1>1, <2>1, ComingSame
  <2>2. ASSUME NEW b \in Boxes, wire' = Append(wire, [group |-> b, body |-> held])
        PROVE  \A c \in Boxes : Coming(c)' = Append(Coming(c), held)
    <3>1. Bodies' = Append(Bodies, held) /\ held \in Any
      BY <2>2, BodiesAppend
    <3>2. ASSUME NEW c \in Boxes
          PROVE  Coming(c)' = Append(Coming(c), held)
      <4>1. mail[c] \o Append(Bodies, held) = Append(mail[c] \o Bodies, held)
        <5>1. PICK front, rest, m : front = mail[c] /\ rest = Bodies /\ m = held
          OBVIOUS
        <5>2. front \in Seq(Any) /\ rest \in Seq(Any) /\ m \in Any
          BY <1>2, <3>1, <5>1
        <5>3. front \o Append(rest, m) = Append(front \o rest, m)
          BY <5>2, ConcatAppend
        <5> QED
          BY <5>1, <5>3
      <4>2. Coming(c)' = mail[c] \o Append(Bodies, held)
        BY <1>1, <3>1 DEF Coming
      <4> QED
        BY <4>1, <4>2 DEF Coming
    <3> QED
      BY <3>2
  <2> QED
    BY <1>3, <2>1, <2>2
<1>5. CASE held = Empty
  <2>1. Going' = Going
    BY <1>1, <1>5 DEF Going, Unsent
  <2> QED
    BY <1>4, <1>5, <2>1 DEF Same, Blanks
<1>6. CASE held # Empty
  <2>1. held = body /\ body # Empty
    BY <1>6 DEF OutMatches
  <2>2. Going # <<>> /\ Head(Going) = body /\ Tail(Going) = queue
    BY <1>1, <2>1, UnsentIs
  <2>3. Going' = <<>> \o queue
    BY <1>1, <2>1 DEF Going, Unsent
  <2>4. Going' = Tail(Going)
    BY <1>2, <2>2, <2>3, ConcatEmptySeq
  <2> QED
    BY <1>4, <2>1, <2>2, <2>4 DEF Loses, Arrives
<1> QED
  BY <1>5, <1>6

\* It then drops the outgoing message, and with it one that it did not send.
LEMMA PopIs ==
    ASSUME TypeOK, OutMatches, Pop
    PROVE  Same \/ Loses
<1>1. svc = "sent" /\ svc' = "popped" /\ held' = Empty /\ wire' = wire /\ mail' = mail
  BY DEF Pop, inbox
<1>2. \A c \in Boxes : Coming(c)' = Coming(c)
  BY <1>1, ComingSame
<1>3. queue \in Seq(Message)
  BY TypesAre
<1>4. Going' = queue
  <2>1. CASE queue # <<>>
    <3>1. body' = Head(queue) /\ queue' = Tail(queue)
      BY <2>1 DEF Pop, NextOutgoing
    <3>2. Head(queue) \in Message /\ Tail(queue) \in Seq(Message)
      BY <1>3, <2>1, HeadTailProperties
    <3>3. Head(queue) # Empty
      BY <3>2, MessageFields
    <3>4. Going' = <<Head(queue)>> \o Tail(queue)
      BY <1>1, <3>1, <3>3 DEF Going, Unsent
    <3> QED
      BY <1>3, <2>1, <3>4, HeadTailIs
  <2>2. CASE queue = <<>>
    <3>1. body' = Empty /\ queue' = queue
      BY <2>2 DEF Pop, NextOutgoing
    <3>2. Going' = <<>> \o queue
      BY <3>1 DEF Going, Unsent
    <3> QED
      BY <1>3, <3>2, ConcatEmptySeq
  <2> QED
    BY <2>1, <2>2
<1>5. CASE body = Empty \/ held = body
  BY <1>1, <1>2, <1>4, <1>5, UnsentIs DEF Same
<1>6. CASE body # Empty /\ held # body
  BY <1>1, <1>2, <1>4, <1>6, UnsentIs DEF Loses
<1> QED
  BY <1>5, <1>6

\* HandleRead moves a message from the wire to its mailbox.
LEMMA ReadIs ==
    ASSUME TypeOK, WireMatches, HandleRead
    PROVE  Reads
<1>1. /\ svc # "sent" /\ svc' # "sent" /\ held' = held /\ body' = body /\ queue' = queue
      /\ wire # <<>> /\ wire' = Tail(wire)
  BY DEF HandleRead, out
<1>2. Going' = Going
  BY <1>1, GoingSame
<1>3. Bodies \in Seq(Any) /\ mail \in [Boxes -> Seq(Message)] /\ \A c \in Boxes : mail[c] \in Seq(Any)
  BY TypesAre DEF TypeOK
<1>4. Bodies # <<>> /\ Head(Bodies) = Head(wire).body /\ Bodies' = Tail(Bodies)
  BY <1>1, BodiesTail
<1>5. PICK head, b : head = Head(wire).body /\ b = Head(wire).group
  OBVIOUS
<1>6. b \in Boxes /\ (head # Empty => head.to = b)
  <2>1. wire \in Seq([group : Boxes, body : Message \cup {Empty}])
    BY DEF TypeOK
  <2>2. Head(wire) \in [group : Boxes, body : Message \cup {Empty}]
    BY <1>1, <2>1, HeadTailProperties
  <2>3. 1 \in DOMAIN wire /\ Head(wire) = wire[1]
    BY <1>1, <2>1, EmptySeq, LenProperties
  <2> QED
    BY <1>5, <2>2, <2>3 DEF WireMatches
<1>7. ASSUME NEW c \in Boxes
      PROVE  /\ Without(mail[c] \o Tail(Bodies), mail[c] \o Bodies, Len(mail[c]) + 1)
             /\ (mail[c] \o Bodies)[Len(mail[c]) + 1] = head
             /\ Append(mail[c], head) \o Tail(Bodies) = mail[c] \o Bodies
  BY <1>3, <1>4, <1>5, ConcatTail
<1>8. ASSUME NEW c \in Boxes, mail'[c] = mail[c], head = Empty \/ c # b
      PROVE  Passes(c)
  <2>1. Coming(c)' = mail[c] \o Tail(Bodies) /\ Coming(c) = mail[c] \o Bodies
    BY <1>4, <1>8 DEF Coming
  <2>2. PICK i : i = Len(mail[c]) + 1
    OBVIOUS
  <2>3. Without(Coming(c)', Coming(c), i) /\ Coming(c)[i] = head
    BY <1>7, <2>1, <2>2
  <2>4. head = Empty \/ head.to # c
    BY <1>6, <1>8
  <2> QED
    BY <2>3, <2>4 DEF Passes
<1>9. CASE head = Empty
  <2>1. mail' = mail
    BY <1>5, <1>9 DEF HandleRead
  <2> QED
    BY <1>2, <1>8, <1>9, <2>1 DEF Reads
<1>10. CASE head # Empty
  <2>1. mail' = [mail EXCEPT ![b] = Append(@, head)]
    BY <1>5, <1>10 DEF HandleRead
  <2>2. \A c \in Boxes : c # b => mail'[c] = mail[c]
    BY <1>3, <2>1
  <2>3. Coming(b)' = Coming(b)
    <3>1. mail'[b] = Append(mail[b], head)
      BY <1>3, <1>6, <2>1
    <3> QED
      BY <1>4, <1>6, <1>7, <3>1 DEF Coming
  <2>4. \A c \in Boxes : c # b => Passes(c)
    BY <1>8, <2>2
  <2> QED
    BY <1>2, <2>3, <2>4 DEF Reads
<1> QED
  BY <1>9, <1>10

\* ReceiveMessage takes the first of those it wants, so the first of its sender.
LEMMA ReceiveIs ==
    ASSUME TypeOK, NEW r \in Receivers, ReceiveMessage(r)
    PROVE  Same \/ Receives
<1>1. svc' = svc /\ held' = held /\ body' = body /\ queue' = queue /\ wire' = wire
  BY DEF ReceiveMessage, out
<1>2. Going' = Going
  BY <1>1, GoingSame
<1>3. CASE Wanted(r) = {}
  <2>1. mail' = mail
    BY <1>3 DEF ReceiveMessage
  <2> QED
    BY <1>1, <1>2, <2>1, ComingSame DEF Same
<1>4. CASE Wanted(r) # {}
  <2>1. PICK i \in Wanted(r) :
           /\ \A j \in Wanted(r) : i <= j
           /\ mail' = [mail EXCEPT ![Box[r]] = SubSeq(@, 1, i - 1) \o SubSeq(@, i + 1, Len(@))]
    BY <1>4 DEF ReceiveMessage
  <2>2. PICK b \in Boxes : b = Box[r]
    BY MailerAssumption
  <2>3. PICK before : before = mail[b]
    OBVIOUS
  <2>4. before \in Seq(Message) /\ before \in Seq(Any) /\ Bodies \in Seq(Any) /\ mail \in [Boxes -> Seq(Message)]
    BY <2>2, <2>3, TypesAre DEF TypeOK
  <2>5. /\ Wanted(r) = {j \in 1 .. Len(before) : before[j].from \in Wants[r]} /\ Len(before) \in Nat
    BY <2>2, <2>3, <2>4, LenProperties DEF Wanted
  <2>6. PICK rest : rest = SubSeq(before, 1, i - 1) \o SubSeq(before, i + 1, Len(before))
    OBVIOUS
  <2>7. Without(rest, before, i)
    <3>1. i \in DOMAIN before
      BY <2>2, <2>3 DEF Wanted
    <3> QED
      BY <2>4, <2>6, <3>1, RemovedIs
  <2>8. mail'[b] = rest /\ \A c \in Boxes : c # b => mail'[c] = mail[c]
    BY <2>1, <2>2, <2>3, <2>4, <2>6
  <2>9. PICK all, now : all = before \o Bodies /\ now = rest \o Bodies
    OBVIOUS
  <2>10. Coming(b) = all /\ Coming(b)' = now
    <3>1. Bodies' = Bodies
      BY <1>1 DEF Bodies
    <3> QED
      BY <2>3, <2>8, <2>9, <3>1 DEF Coming
  <2>11. Without(now, all, i)
    BY <2>4, <2>7, <2>9, ConcatWithout
  <2>12. ASSUME NEW j \in 1 .. Len(before)
         PROVE  all[j] = before[j] /\ before[j] \in Message
    <3>1. /\ Len(before) \in Nat /\ Len(Bodies) \in Nat
          /\ \A k \in 1 .. Len(before) + Len(Bodies) :
                all[k] = IF k <= Len(before) THEN before[k] ELSE Bodies[k - Len(before)]
      BY <2>4, <2>9, ConcatIs
    <3>2. j \in 1 .. Len(before) + Len(Bodies) /\ j <= Len(before)
      BY <3>1
    <3>3. before[j] \in Message
      BY <2>4, ElementOfSeq
    <3> QED
      BY <3>1, <3>2, <3>3
  <2>13. i \in 1 .. Len(before) /\ before[i].from \in Wants[r]
    BY <2>5
  <2>14. ASSUME NEW j \in 1 .. Len(all), j < i
         PROVE  all[j] \in Message /\ all[j].from # all[i].from
    <3>1. j \in 1 .. Len(before) /\ ~(i <= j)
      BY <2>5, <2>13, <2>14
    <3>2. before[j].from \notin Wants[r]
      BY <2>1, <2>5, <3>1
    <3> QED
      BY <2>12, <2>13, <3>1, <3>2
  <2>15. Takes(b, i)
    BY <2>10, <2>11, <2>12, <2>13, <2>14 DEF Takes
  <2>16. \A c \in Boxes : c # b => Coming(c)' = Coming(c)
    BY <1>1, <2>8, ComingSame
  <2> QED
    BY <1>2, <2>15, <2>16 DEF Receives
<1> QED
  BY <1>3, <1>4

\* Every step has one of the effects.
LEMMA EffectIs ==
    ASSUME MailInv, [Next]_vars
    PROVE  Same \/ Posts \/ Loses \/ Arrives \/ Blanks \/ Reads \/ Receives
<1>1. TypeOK /\ OutMatches /\ WireMatches /\ BoxesMatch
  BY DEF MailInv
<1>2. CASE \E s \in Senders, b \in Boxes : Submit(s, b)
  BY <1>1, <1>2, SubmitIs
<1>3. CASE Send
  BY <1>1, <1>3, SendIs
<1>4. CASE Pop
  BY <1>1, <1>4, PopIs
<1>5. CASE HandleRead
  BY <1>1, <1>5, ReadIs
<1>6. CASE \E r \in Receivers : ReceiveMessage(r)
  BY <1>1, <1>6, ReceiveIs
<1>7. CASE \E b \in Boxes : CreateMailbox(b)
  <2>1. PICK b \in Boxes : CreateMailbox(b)
    BY <1>7
  <2>2. mail' = mail
    <3>1. mail \in [Boxes -> Seq(Message)]
      BY <1>1 DEF TypeOK
    <3> QED
      BY <1>1, <2>1, <3>1 DEF CreateMailbox, Insert, BoxesMatch
  <2>3. wire' = wire /\ svc' = svc /\ held' = held /\ body' = body /\ queue' = queue
    BY <2>1 DEF CreateMailbox, out
  <2> QED
    BY <2>2, <2>3, ComingSame, GoingSame DEF Same
<1>8. CASE \/ \E s \in Senders : EndWrite(s) \/ StartWrite(s)
           \/ BuildMessage \/ Disarm \/ Rearm
           \/ \E b \in Boxes : Join(b)
           \/ \E r \in Receivers : SpuriousWakeup(r)
           \/ UNCHANGED vars
  <2>1. /\ mail' = mail /\ wire' = wire /\ body' = body /\ queue' = queue
        /\ (svc' = "sent" /\ held' = body') <=> (svc = "sent" /\ held = body)
    BY <1>8 DEF EndWrite, StartWrite, BuildMessage, Disarm, Rearm, Join, SpuriousWakeup, vars, out, inbox
  <2> QED
    BY <2>1, ComingSame, GoingSame DEF Same
<1> QED
  BY <1>2, <1>3, <1>4, <1>5, <1>6, <1>7, <1>8 DEF Next

------------------------------------------------------------------------------
(* The effects, in lossy mail *)

Table(f) == f = [s \in Senders |-> [b \in Boxes |-> f[s][b]]]

\* Where, if anywhere, a table differs from another.
Elsewhere(after, before, s, b) ==
    \A u \in Senders, c \in Boxes : u # s \/ c # b => after[u][c] = before[u][c]

\* A table that differs in one place.
LEMMA OneChanges ==
    ASSUME NEW before, NEW after, Table(before), Table(after),
           NEW s \in Senders, NEW b \in Boxes, Elsewhere(after, before, s, b)
    PROVE  after = [before EXCEPT ![s][b] = after[s][b]]
<1>1. /\ after = [u \in Senders |-> [c \in Boxes |-> after[u][c]]]
      /\ before = [u \in Senders |-> [c \in Boxes |-> before[u][c]]]
  BY DEF Table
<1>2. PICK new : new = [before EXCEPT ![s][b] = after[s][b]]
  OBVIOUS
<1>3. /\ \A u \in Senders : u # s => new[u] = before[u]
      /\ new[s] = [before[s] EXCEPT ![b] = after[s][b]]
      /\ new = [u \in Senders |-> new[u]]
  BY <1>1, <1>2
<1>4. ASSUME NEW u \in Senders
      PROVE  after[u] = new[u]
  <2>1. after[u] = [c \in Boxes |-> after[u][c]] /\ before[u] = [c \in Boxes |-> before[u][c]]
    BY <1>1
  <2>2. CASE u # s
    <3>1. \A c \in Boxes : after[u][c] = before[u][c]
      BY <2>2 DEF Elsewhere
    <3> QED
      BY <1>3, <2>1, <2>2, <3>1
  <2>3. CASE u = s
    <3>1. new[u] = [c \in Boxes |-> IF c = b THEN after[u][c] ELSE before[u][c]]
      BY <1>3, <2>1, <2>3
    <3>2. \A c \in Boxes : (IF c = b THEN after[u][c] ELSE before[u][c]) = after[u][c]
      BY <2>3 DEF Elsewhere
    <3> QED
      BY <2>1, <3>1, <3>2
  <2> QED
    BY <2>2, <2>3
<1>5. after = [u \in Senders |-> after[u]]
  BY <1>1
<1> QED
  BY <1>2, <1>3, <1>4, <1>5

LEMMA NoneChanges ==
    ASSUME NEW before, NEW after, Table(before), Table(after),
           \A u \in Senders, c \in Boxes : after[u][c] = before[u][c]
    PROVE  after = before
BY DEF Table

\* The two tables of the refinement, and what they are after a step.
LEMMA TablesAre ==
    /\ Table(Posted) /\ Table(Arrived)
    /\ \A s \in Senders, b \in Boxes :
          Posted[s][b] = Between(Going, s, b) /\ Arrived[s][b] = Between(Coming(b), s, b)
BY DEF Table, Posted, Arrived, Going, Coming

LEMMA PostedNext ==
    ASSUME NEW next, next = Going'
    PROVE  Table(Posted') /\ \A s \in Senders, b \in Boxes : Posted'[s][b] = Between(next, s, b)
<1>1. Posted' = [s \in Senders |-> [b \in Boxes |-> Between(next, s, b)]]
  BY DEF Posted, Going, Between, Selected, PlacesOf, Place
<1> QED
  BY <1>1 DEF Table

LEMMA ArrivedNext ==
    ASSUME NEW next, \A b \in Boxes : next[b] = Coming(b)'
    PROVE  Table(Arrived') /\ \A s \in Senders, b \in Boxes : Arrived'[s][b] = Between(next[b], s, b)
<1>1. PICK bodies, boxes : bodies = Bodies' /\ boxes = mail'
  OBVIOUS
<1>2. Arrived' = [s \in Senders |-> [b \in Boxes |-> Between(boxes[b] \o bodies, s, b)]]
  BY <1>1 DEF Arrived, Between, Selected, PlacesOf, Place
<1>3. \A b \in Boxes : next[b] = boxes[b] \o bodies
  BY <1>1 DEF Coming
<1>4. Arrived' = [s \in Senders |-> [b \in Boxes |-> Between(next[b], s, b)]]
  BY <1>2, <1>3
<1> QED
  BY <1>4 DEF Table

\* The head goes.
LEMMA TailIs ==
    ASSUME NEW seq \in Seq(Any), seq # <<>>
    PROVE  /\ \E i : Without(Tail(seq), seq, i) /\ i = 1
           /\ seq[1] = Head(seq)
<1>1. PICK none : none = <<>>
  OBVIOUS
<1>2. none \in Seq(Any) /\ Len(none) + 1 = 1
  BY <1>1, EmptySeq
<1>3. Without(none \o Tail(seq), none \o seq, Len(none) + 1)
  BY <1>2, ConcatTail
<1>4. none \o Tail(seq) = Tail(seq) /\ none \o seq = seq
  <2>1. Tail(seq) \in Seq(Any)
    BY HeadTailProperties
  <2> QED
    BY <1>1, <2>1, ConcatEmptySeq
<1>5. Without(Tail(seq), seq, Len(none) + 1)
  BY <1>3, <1>4
<1> QED
  BY <1>2, <1>5

\* Taking the first as the abstract Lose writes it.
LEMMA FirstTaken ==
    ASSUME NEW seq \in Seq(Message), seq # <<>>, NEW i, i = 1
    PROVE  i \in DOMAIN seq /\ SubSeq(seq, 1, i - 1) \o SubSeq(seq, i + 1, Len(seq)) = Tail(seq)
<1>1. Len(seq) \in Nat /\ Len(seq) > 0 /\ DOMAIN seq = 1 .. Len(seq)
  BY EmptySeq, LenProperties
<1>2. i \in DOMAIN seq
  BY <1>1
<1>3. PICK rest, tail : /\ rest = SubSeq(seq, 1, i - 1) \o SubSeq(seq, i + 1, Len(seq))
                        /\ tail = Tail(seq)
  OBVIOUS
<1>4. rest \in Seq(Message) /\ Len(rest) = Len(seq) - 1 /\ Skips(rest, seq, i)
  BY <1>2, <1>3, Removed
<1>5. /\ tail \in Seq(Message) /\ Len(tail) = Len(seq) - 1
      /\ \A j \in 1 .. Len(tail) : tail[j] = seq[j + 1]
  BY <1>3, HeadTailProperties
<1>6. ASSUME NEW j \in 1 .. Len(rest)
      PROVE  rest[j] = tail[j]
  <2>1. j \in 1 .. Len(seq) - 1 /\ ~(j < i) /\ j \in 1 .. Len(tail)
    BY <1>1, <1>4, <1>5
  <2> QED
    BY <1>4, <1>5, <2>1 DEF Skips
<1>7. rest = tail
  BY <1>4, <1>5, <1>6, SeqEqual
<1> QED
  BY <1>2, <1>3, <1>7

LEMMA GoingIs ==
    ASSUME TypeOK
    PROVE  /\ Going \in Seq(Any)
           /\ Going # <<>> => Head(Going) \in Message
<1>1. Going \in Seq(Message)
  BY TypesAre
<1>2. Going \in Seq(Any)
  BY <1>1, SeqMonotonic DEF Any
<1> QED
  BY <1>1, <1>2, HeadTailProperties

LEMMA FieldsAre ==
    ASSUME NEW m \in Message
    PROVE  /\ m \in Any /\ m.from \in Senders /\ m.to \in Boxes
           /\ Matches(m, m.from, m.to)
           /\ \A u, c : u # m.from \/ c # m.to => ~Matches(m, u, c)
BY MessageFields DEF Message, Any, Matches

\* Nothing that arrives is no change in what has arrived.
LEMMA ArrivedKept ==
    ASSUME \A b \in Boxes : Coming(b)' = Coming(b)
    PROVE  Arrived' = Arrived
<1>1. PICK next : next = [b \in Boxes |-> Coming(b)']
  OBVIOUS
<1>2. \A b \in Boxes : next[b] = Coming(b)'
  BY <1>1
<1>3. Table(Arrived') /\ \A s \in Senders, b \in Boxes : Arrived'[s][b] = Between(next[b], s, b)
  BY <1>2, ArrivedNext
<1>4. \A b \in Boxes : next[b] = Coming(b)
  BY <1>2
<1> QED
  BY <1>3, <1>4, TablesAre, NoneChanges

LEMMA PostedKept ==
    ASSUME Going' = Going
    PROVE  Posted' = Posted
<1>1. PICK next : next = Going'
  OBVIOUS
<1>2. Table(Posted') /\ \A s \in Senders, b \in Boxes : Posted'[s][b] = Between(next, s, b)
  BY <1>1, PostedNext
<1> QED
  BY <1>1, <1>2, TablesAre, NoneChanges

\* Each effect is a step of Mail, or none.
LEMMA PostsMaps ==
    ASSUME TypeOK, Posts
    PROVE  M!Next
<1>1. PICK m \in Message : Going' = Append(Going, m) /\ \A b \in Boxes : Coming(b)' = Coming(b)
  BY DEF Posts
<1>2. PICK s \in Senders, b \in Boxes : s = m.from /\ b = m.to
  BY FieldsAre
<1>3. PICK next : next = Going'
  OBVIOUS
<1>4. Table(Posted') /\ \A u \in Senders, c \in Boxes : Posted'[u][c] = Between(next, u, c)
  BY <1>3, PostedNext
<1>5. ASSUME NEW u \in Senders, NEW c \in Boxes
      PROVE  Posted'[u][c] = IF Matches(m, u, c) THEN Append(Posted[u][c], m) ELSE Posted[u][c]
  <2>1. PICK going : going = Going
    OBVIOUS
  <2>2. going \in Seq(Any) /\ m \in Any /\ next = Append(going, m)
    BY <1>1, <1>3, <2>1, GoingIs, FieldsAre
  <2>3. Between(next, u, c) = IF Matches(m, u, c) THEN Append(Between(going, u, c), m) ELSE Between(going, u, c)
    BY <2>2, BetweenAppended
  <2> QED
    BY <1>4, <2>1, <2>3, TablesAre
<1>6. Elsewhere(Posted', Posted, s, b)
  BY <1>2, <1>5, FieldsAre DEF Elsewhere
<1>7. Posted'[s][b] = Append(Posted[s][b], m)
  BY <1>2, <1>5, FieldsAre
<1>8. Posted' = [Posted EXCEPT ![s][b] = Posted'[s][b]]
  BY <1>4, <1>6, OneChanges, TablesAre
<1>9. Posted' = [Posted EXCEPT ![s][b] = Append(@, m)]
  BY <1>7, <1>8
<1>10. Arrived' = Arrived
  BY <1>1, ArrivedKept
<1> QED
  BY <1>9, <1>10 DEF M!Next, M!Post

\* The first of what is on its way leaves.
LEMMA HeadLeaves ==
    ASSUME TypeOK, Going # <<>>, Going' = Tail(Going),
           NEW s \in Senders, NEW b \in Boxes, s = Head(Going).from, b = Head(Going).to
    PROVE  /\ Posted[s][b] \in Seq(Message) /\ Posted[s][b] # <<>> /\ Head(Posted[s][b]) = Head(Going)
           /\ Posted' = [Posted EXCEPT ![s][b] = Tail(Posted[s][b])]
<1>1. PICK next, going, m : next = Going' /\ going = Going /\ m = Head(Going)
  OBVIOUS
<1>2. Table(Posted') /\ \A u \in Senders, c \in Boxes : Posted'[u][c] = Between(next, u, c)
  BY <1>1, PostedNext
<1>3. going \in Seq(Any) /\ going # <<>> /\ m \in Message /\ m = Head(going) /\ next = Tail(going)
  BY <1>1, GoingIs
<1>4. PICK i : Without(next, going, i) /\ i = 1 /\ going[i] = m
  BY <1>3, TailIs
<1>5. Elsewhere(Posted', Posted, s, b)
  <2> SUFFICES ASSUME NEW u \in Senders, NEW c \in Boxes, u # s \/ c # b
               PROVE  Posted'[u][c] = Posted[u][c]
    BY DEF Elsewhere
  <2>1. ~Matches(going[i], u, c)
    BY <1>1, <1>3, <1>4, FieldsAre
  <2>2. Between(next, u, c) = Between(going, u, c)
    BY <1>4, <2>1, BetweenOthers
  <2> QED
    BY <1>1, <1>2, <2>2, TablesAre
<1>6. PICK first : first = Between(going, s, b)
  OBVIOUS
<1>7. first # <<>> /\ Head(first) = m /\ Between(next, s, b) = Tail(first) /\ first \in Seq(Message)
  <2>1. Matches(going[i], s, b)
    BY <1>1, <1>3, <1>4, FieldsAre
  <2>2. \A j \in 1 .. Len(going) : j < i => ~Matches(going[j], s, b)
    <3>1. \A j \in 1 .. Len(going) : ~(j < i)
      BY <1>4
    <3> QED
      BY <3>1
  <2>3. /\ Between(going, s, b) # <<>> /\ Head(Between(going, s, b)) = going[i]
        /\ Between(next, s, b) = Tail(Between(going, s, b))
    BY <1>4, <2>1, <2>2, BetweenHead
  <2>4. Between(going, s, b) \in Seq(Message)
    BY <1>3, BetweenType
  <2> QED
    BY <1>4, <1>6, <2>3, <2>4
<1>8. Posted[s][b] = first /\ Posted'[s][b] = Tail(first)
  BY <1>1, <1>2, <1>6, <1>7, TablesAre
<1>9. Posted' = [Posted EXCEPT ![s][b] = Posted'[s][b]]
  BY <1>2, <1>5, OneChanges, TablesAre
<1> QED
  BY <1>1, <1>7, <1>8, <1>9

LEMMA LosesMaps ==
    ASSUME TypeOK, Loses
    PROVE  M!Next
<1>1. Going # <<>> /\ Going' = Tail(Going) /\ \A b \in Boxes : Coming(b)' = Coming(b)
  BY DEF Loses
<1>2. PICK s \in Senders, b \in Boxes : s = Head(Going).from /\ b = Head(Going).to
  BY <1>1, GoingIs, FieldsAre
<1>3. PICK sent : sent = Posted[s][b]
  OBVIOUS
<1>4. sent \in Seq(Message) /\ sent # <<>> /\ Posted' = [Posted EXCEPT ![s][b] = Tail(sent)]
  BY <1>1, <1>2, <1>3, HeadLeaves
<1>5. PICK i : i = 1
  OBVIOUS
<1>6. i \in DOMAIN sent /\ SubSeq(sent, 1, i - 1) \o SubSeq(sent, i + 1, Len(sent)) = Tail(sent)
  BY <1>4, <1>5, FirstTaken
<1>7. Posted' = [Posted EXCEPT ![s][b] = SubSeq(@, 1, i - 1) \o SubSeq(@, i + 1, Len(@))]
  BY <1>3, <1>4, <1>6
<1>8. Arrived' = Arrived
  BY <1>1, ArrivedKept
<1> QED
  BY <1>3, <1>6, <1>7, <1>8 DEF M!Next, M!Lose

\* What comes after the last.
LEMMA ArrivedMore ==
    ASSUME TypeOK, NEW m \in Any, \A b \in Boxes : Coming(b)' = Append(Coming(b), m)
    PROVE  /\ Table(Arrived')
           /\ \A u \in Senders, c \in Boxes :
                 Arrived'[u][c] = IF Matches(m, u, c) THEN Append(Arrived[u][c], m) ELSE Arrived[u][c]
<1>1. PICK next : next = [b \in Boxes |-> Coming(b)']
  OBVIOUS
<1>2. \A b \in Boxes : next[b] = Coming(b)'
  BY <1>1
<1>3. Table(Arrived') /\ \A u \in Senders, c \in Boxes : Arrived'[u][c] = Between(next[c], u, c)
  BY <1>2, ArrivedNext
<1>4. ASSUME NEW u \in Senders, NEW c \in Boxes
      PROVE  Arrived'[u][c] = IF Matches(m, u, c) THEN Append(Arrived[u][c], m) ELSE Arrived[u][c]
  <2>1. PICK coming : coming = Coming(c)
    OBVIOUS
  <2>2. coming \in Seq(Any) /\ next[c] = Append(coming, m)
    BY <1>2, <2>1, TypesAre
  <2>3. Between(next[c], u, c) =
           IF Matches(m, u, c) THEN Append(Between(coming, u, c), m) ELSE Between(coming, u, c)
    BY <2>2, BetweenAppended
  <2> QED
    BY <1>3, <2>1, <2>3, TablesAre
<1> QED
  BY <1>3, <1>4

LEMMA ArrivesMaps ==
    ASSUME TypeOK, Arrives
    PROVE  M!Next
<1>1. Going # <<>> /\ Going' = Tail(Going)
  BY DEF Arrives
<1>2. PICK m \in Message : m = Head(Going)
  BY <1>1, GoingIs
<1>3. PICK s \in Senders, b \in Boxes : s = m.from /\ b = m.to
  BY FieldsAre
<1>4. /\ Posted[s][b] # <<>> /\ Head(Posted[s][b]) = m
      /\ Posted' = [Posted EXCEPT ![s][b] = Tail(Posted[s][b])]
  BY <1>1, <1>2, <1>3, HeadLeaves
<1>5. /\ Table(Arrived')
      /\ \A u \in Senders, c \in Boxes :
            Arrived'[u][c] = IF Matches(m, u, c) THEN Append(Arrived[u][c], m) ELSE Arrived[u][c]
  <2>1. m \in Any /\ \A c \in Boxes : Coming(c)' = Append(Coming(c), m)
    BY <1>2, FieldsAre DEF Arrives
  <2> QED
    BY <2>1, ArrivedMore
<1>6. Elsewhere(Arrived', Arrived, s, b)
  BY <1>3, <1>5, FieldsAre DEF Elsewhere
<1>7. Arrived'[s][b] = Append(Arrived[s][b], m)
  BY <1>3, <1>5, FieldsAre
<1>8. Arrived' = [Arrived EXCEPT ![s][b] = Arrived'[s][b]]
  BY <1>5, <1>6, OneChanges, TablesAre
<1>9. Arrived' = [Arrived EXCEPT ![s][b] = Append(@, Head(Posted[s][b]))]
  BY <1>4, <1>7, <1>8
<1>10. Posted' = [Posted EXCEPT ![s][b] = Tail(@)]
  BY <1>4
<1> QED
  BY <1>4, <1>9, <1>10 DEF M!Next, M!Arrive

LEMMA BlanksMaps ==
    ASSUME TypeOK, Blanks
    PROVE  UNCHANGED <<Posted, Arrived>>
<1>1. Posted' = Posted
  BY PostedKept DEF Blanks
<1>2. PICK m \in Any : m = Empty
  BY DEF Any
<1>3. /\ Table(Arrived')
      /\ \A u \in Senders, c \in Boxes :
            Arrived'[u][c] = IF Matches(m, u, c) THEN Append(Arrived[u][c], m) ELSE Arrived[u][c]
  <2>1. \A c \in Boxes : Coming(c)' = Append(Coming(c), m)
    BY <1>2 DEF Blanks
  <2> QED
    BY <2>1, ArrivedMore
<1>4. \A u \in Senders, c \in Boxes : Arrived'[u][c] = Arrived[u][c]
  BY <1>2, <1>3 DEF Matches
<1>5. Arrived' = Arrived
  BY <1>3, <1>4, NoneChanges, TablesAre
<1> QED
  BY <1>1, <1>5

LEMMA ReadsMaps ==
    ASSUME TypeOK, Reads
    PROVE  UNCHANGED <<Posted, Arrived>>
<1>1. Posted' = Posted
  BY PostedKept DEF Reads
<1>2. PICK next : next = [b \in Boxes |-> Coming(b)']
  OBVIOUS
<1>3. \A b \in Boxes : next[b] = Coming(b)'
  BY <1>2
<1>4. Table(Arrived') /\ \A u \in Senders, c \in Boxes : Arrived'[u][c] = Between(next[c], u, c)
  BY <1>3, ArrivedNext
<1>5. ASSUME NEW u \in Senders, NEW c \in Boxes
      PROVE  Arrived'[u][c] = Arrived[u][c]
  <2>1. PICK coming : coming = Coming(c)
    OBVIOUS
  <2>2. Between(next[c], u, c) = Between(coming, u, c)
    <3>1. CASE Coming(c)' = Coming(c)
      BY <1>3, <2>1, <3>1
    <3>2. CASE Passes(c)
      <4>1. PICK i : Without(Coming(c)', Coming(c), i) /\ (Coming(c)[i] = Empty \/ Coming(c)[i].to # c)
        BY <3>2 DEF Passes
      <4>2. Without(next[c], coming, i) /\ ~Matches(coming[i], u, c)
        BY <1>3, <2>1, <4>1 DEF Matches
      <4> QED
        BY <4>2, BetweenOthers
    <3> QED
      BY <3>1, <3>2 DEF Reads
  <2> QED
    BY <1>4, <2>1, <2>2, TablesAre
<1>6. Arrived' = Arrived
  BY <1>4, <1>5, NoneChanges, TablesAre
<1> QED
  BY <1>1, <1>6

LEMMA ReceivesMaps ==
    ASSUME TypeOK, Receives
    PROVE  M!Next \/ UNCHANGED <<Posted, Arrived>>
<1>1. Posted' = Posted
  BY PostedKept DEF Receives
<1>2. PICK next : next = [b \in Boxes |-> Coming(b)']
  OBVIOUS
<1>3. \A b \in Boxes : next[b] = Coming(b)'
  BY <1>2
<1>4. Table(Arrived') /\ \A u \in Senders, c \in Boxes : Arrived'[u][c] = Between(next[c], u, c)
  BY <1>3, ArrivedNext
<1>5. PICK b \in Boxes : (\E i : Takes(b, i)) /\ \A c \in Boxes : c # b => Coming(c)' = Coming(c)
  BY DEF Receives
<1>6. PICK i : Takes(b, i)
  BY <1>5
<1>7. PICK coming, rest : coming = Coming(b) /\ rest = next[b]
  OBVIOUS
<1>8. /\ Without(rest, coming, i) /\ coming[i] \in Message
      /\ \A j \in 1 .. Len(coming) : j < i => coming[j] \in Message /\ coming[j].from # coming[i].from
  BY <1>3, <1>6, <1>7 DEF Takes
<1>9. PICK s \in Senders : s = coming[i].from
  BY <1>8, FieldsAre
<1>10. ASSUME NEW u \in Senders, NEW c \in Boxes, u # s \/ c # b
       PROVE  Arrived'[u][c] = Arrived[u][c]
  <2>1. CASE c # b
    <3>1. next[c] = Coming(c)
      BY <1>3, <1>5, <2>1
    <3> QED
      BY <1>4, <3>1, TablesAre
  <2>2. CASE c = b /\ u # s
    <3>1. ~Matches(coming[i], u, b)
      BY <1>9, <2>2 DEF Matches
    <3>2. Between(rest, u, b) = Between(coming, u, b)
      BY <1>8, <3>1, BetweenOthers
    <3> QED
      BY <1>4, <1>7, <2>2, <3>2, TablesAre
  <2> QED
    BY <1>10, <2>1, <2>2
<1>11. CASE coming[i].to # b
  <2>1. ~Matches(coming[i], s, b)
    BY <1>11 DEF Matches
  <2>2. Between(rest, s, b) = Between(coming, s, b)
    BY <1>8, <2>1, BetweenOthers
  <2>3. Arrived'[s][b] = Arrived[s][b]
    BY <1>4, <1>7, <2>2, TablesAre
  <2>4. \A u \in Senders, c \in Boxes : Arrived'[u][c] = Arrived[u][c]
    BY <1>10, <2>3
  <2>5. Arrived' = Arrived
    BY <1>4, <2>4, NoneChanges, TablesAre
  <2> QED
    BY <1>1, <2>5
<1>12. CASE coming[i].to = b
  <2>1. Matches(coming[i], s, b)
    BY <1>8, <1>9, <1>12, FieldsAre
  <2>2. \A j \in 1 .. Len(coming) : j < i => ~Matches(coming[j], s, b)
    BY <1>8, <1>9 DEF Matches
  <2>3. Between(coming, s, b) # <<>> /\ Between(rest, s, b) = Tail(Between(coming, s, b))
    BY <1>8, <2>1, <2>2, BetweenHead
  <2>4. Arrived[s][b] # <<>> /\ Arrived'[s][b] = Tail(Arrived[s][b])
    BY <1>4, <1>7, <2>3, TablesAre
  <2>5. Elsewhere(Arrived', Arrived, s, b)
    BY <1>10 DEF Elsewhere
  <2>6. Arrived' = [Arrived EXCEPT ![s][b] = Arrived'[s][b]]
    BY <1>4, <2>5, OneChanges, TablesAre
  <2>7. Arrived' = [Arrived EXCEPT ![s][b] = Tail(@)]
    BY <2>4, <2>6
  <2> QED
    BY <1>1, <2>4, <2>7 DEF M!Next, M!Receive
<1> QED
  BY <1>11, <1>12

LEMMA InitMaps == Init => M!Init
<1> SUFFICES ASSUME Init PROVE M!Init
  OBVIOUS
<1>1. Going = <<>> /\ \A b \in Boxes : Coming(b) = <<>>
  <2>1. body = Empty /\ queue = <<>> /\ wire = <<>> /\ \A b \in Boxes : mail[b] = <<>>
    BY DEF Init
  <2>2. Bodies = <<>>
    BY <2>1 DEF Bodies
  <2>3. <<>> \o <<>> = <<>>
    OBVIOUS
  <2> QED
    BY <2>1, <2>2, <2>3 DEF Going, Unsent, Coming
<1>2. \A s \in Senders, b \in Boxes : Posted[s][b] = <<>> /\ Arrived[s][b] = <<>>
  BY <1>1, TablesAre, BetweenNone
<1>3. /\ Posted = [s \in Senders |-> [b \in Boxes |-> Posted[s][b]]]
      /\ Arrived = [s \in Senders |-> [b \in Boxes |-> Arrived[s][b]]]
  BY TablesAre DEF Table
<1>4. Posted = M!Nothing /\ Arrived = M!Nothing
  BY <1>2, <1>3 DEF M!Nothing
<1> QED
  BY <1>4 DEF M!Init

\* The mailer is lossy mail, whatever the agents, the mailboxes and the threads:
\* SendMessage, HandleWrite and HandleRead may lose a message, but none gets to
\* a mailbox twice or before an older one of its sender, and ReceiveMessage takes
\* the oldest of a sender first, though the outgoing message is not locked.
THEOREM MailRefined == Spec => ImplementsMail
<1>1. MailInv /\ [Next]_vars => [M!Next]_<<Posted, Arrived>>
  <2> SUFFICES ASSUME MailInv, [Next]_vars PROVE M!Next \/ UNCHANGED <<Posted, Arrived>>
    OBVIOUS
  <2>1. TypeOK
    BY DEF MailInv
  <2>2. Same => UNCHANGED <<Posted, Arrived>>
    BY PostedKept, ArrivedKept DEF Same
  <2> QED
    BY <2>1, <2>2, EffectIs, PostsMaps, LosesMaps, ArrivesMaps, BlanksMaps, ReadsMaps, ReceivesMaps
<1> QED
  BY <1>1, InitMaps, SpecMail, PTL DEF Spec, ImplementsMail, M!Spec
==============================================================================

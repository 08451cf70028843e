--------------------------- MODULE StaticGroupProofs ---------------------------
(***************************************************************************)
(* A static group is a barrier: nobody leaves an operation before everyone *)
(* has entered it, and a collective gives every member the resource that   *)
(* the root created in it, whatever the members, the pods they are in and  *)
(* the program they run.                                                   *)
(***************************************************************************)
EXTENDS StaticGroup, FiniteSetTheorems, TLAPS

------------------------------------------------------------------------------
(* The inductive invariant *)

\* What a member's place says about the operation it is in.
PlacesMatch ==
    \A m \in Members :
        /\ pc[m] = "new" <=> entered[m] = 0
        /\ pc[m] = "creating" => entered[m] = 1
        /\ pc[m] = "syncing" => entered[m] >= 2
        /\ pc[m] \in {"asking", "made"} => Doing(m, "collective")
        /\ m = Root => pc[m] # "asking"
        /\ m \in asleep => pc[m] \in {"creating", "syncing", "asking"}

\* An entry that a message has made before the member came has no total.
EntriesMatch ==
    /\ \A m \in Members : entered[m] >= 1 => Home[m] \in entry
    /\ \A p \in Pods : IF p \in entry THEN total[p] = N \/ (total[p] = 0 /\ count[p] >= 1)
                       ELSE count[p] = 0

\* What the messages in the inbox of a pod, and the threads that wait there for
\* the entry, say about the members that sent them; the message of the creation
\* is in one of three places.
Sent(box, waiting, ops) ==
    /\ \A msg \in box :
          /\ msg.no <= ops[msg.from]
          /\ msg.type \in {"create", "woken"} => msg.no = 1
          /\ msg.type = "synchronize" => msg.no >= 2
          /\ msg.type = "idp" => msg.from = Root
          /\ msg.type = "create" => Message("woken", msg.from, 1) \notin box
    /\ \A m \in waiting :
          /\ ops[m] >= 1
          /\ Message("create", m, 1) \notin box /\ Message("woken", m, 1) \notin box

MessagesMatch == \A p \in Pods : Sent(inbox[p], late[p], entered)

\* The message of m's operation k is among these and still to be counted.
Unread(box, waiting, m, k) ==
    IF k = 1 THEN \/ m \in waiting
                  \/ Message("create", m, 1) \in box \/ Message("woken", m, 1) \in box
             ELSE Message("synchronize", m, k) \in box

Operations == 1 .. Len(Program) + 1

\* The operations whose message the pod has counted.
CountedOf(box, waiting, ops) ==
    {o \in Members \X Operations : o[2] <= ops[o[1]] /\ ~Unread(box, waiting, o[1], o[2])}

Counted(p) == CountedOf(inbox[p], late[p], entered)

\* No member in the pod of a has left more operations than a.
Ahead(a) == \A n \in Members : Home[n] = Home[a] => Left[n] <= Left[a]

\* A pod takes N messages off its count each time that its foremost member
\* leaves an operation, whichever messages these are.
RoundsMatch ==
    \A m \in Members :
        \E a \in Members :
            /\ Home[a] = Home[m] /\ Ahead(a)
            /\ Cardinality(Counted(Home[a])) = count[Home[a]] + N * Left[a]

\* Nobody has left an operation that somebody has not entered.
Together == \A m, n \in Members : Left[m] <= entered[n]

GroupInv ==
    /\ TypeOK
    /\ PlacesMatch
    /\ EntriesMatch
    /\ MessagesMatch
    /\ RoundsMatch
    /\ Together

\* Member m has its resource of operation k.
Past(m, k) == k < entered[m] \/ (k = entered[m] /\ pc[m] = "made")

\* The root has created the resource that j stands for.
Created(j) == j \in 1 .. Len(Program) /\ Program[j] = "collective" /\ Past(Root, j)

\* An idp is in flight or kept, never both, and nobody in its pod has left the
\* collective that it belongs to.
IdpsMatch ==
    /\ \A p \in Pods : \A msg \in inbox[p] :
          msg.type = "idp" =>
              /\ Created(msg.no) /\ cc[p] # msg.no
              /\ \A m \in Members \ {Root} : Home[m] = p => ~Past(m, msg.no)
    /\ \A p \in Pods : cc[p] # 0 => Created(cc[p])
    /\ \A m \in Members \ {Root} :
          pc[m] \in {"ready", "asking"} /\ cc[Home[m]] # 0 => ~Past(m, cc[Home[m]])

\* The root is the first to have the resource of a collective.
RootFirst ==
    \A m \in Members, k \in 1 .. Len(Program) :
        Program[k] = "collective" /\ Past(m, k) => Past(Root, k)

CollectiveInv == IdpsMatch /\ RootFirst /\ CollectiveAgrees

\* The inductive invariant.
Inv == GroupInv /\ CollectiveInv

------------------------------------------------------------------------------
(* Counting *)

LEMMA MembersCount == N \in Nat /\ N >= 1
BY StaticGroupAssumption, FS_CardinalityType, FS_EmptySet DEF N

\* Operations up to k have at most N * k messages, and fewer when a member has
\* not entered the last of them.
LEMMA CountedBound ==
    ASSUME NEW k \in Nat, NEW S \in SUBSET (Members \X Nat),
           \A o \in S : o[2] \in 1 .. k
    PROVE  /\ IsFiniteSet(S) /\ Cardinality(S) \in Nat
           /\ Cardinality(S) <= N * k
           /\ \A n \in Members : k >= 1 /\ <<n, k>> \notin S => Cardinality(S) < N * k
<1> DEFINE All == Members \X (1 .. k)
<1>1. IsFiniteSet(All) /\ Cardinality(All) = N * k
  <2>1. IsFiniteSet(1 .. k) /\ Cardinality(1 .. k) = k
    BY FS_Interval
  <2> QED
    BY <2>1, FS_Product, StaticGroupAssumption DEF N
<1>2. S \in SUBSET All
  OBVIOUS
<1>3. IsFiniteSet(S) /\ Cardinality(S) <= Cardinality(All) /\ (Cardinality(S) = Cardinality(All) => S = All)
  BY <1>1, <1>2, FS_Subset
<1>4. Cardinality(S) \in Nat /\ Cardinality(All) \in Nat
  BY <1>1, <1>3, FS_CardinalityType
<1>5. ASSUME NEW n \in Members, k >= 1, <<n, k>> \notin S
      PROVE  Cardinality(S) < N * k
  <2>1. <<n, k>> \in All
    BY <1>5
  <2>2. S # All
    BY <2>1, <1>5
  <2> HIDE DEF All
  <2>3. Cardinality(S) # Cardinality(All) /\ Cardinality(S) <= Cardinality(All)
    BY <1>3, <2>2
  <2>4. \A x, y \in Nat : x # y /\ x <= y => x < y
    OBVIOUS
  <2>5. Cardinality(S) < Cardinality(All)
    BY <1>4, <2>3, <2>4
  <2> QED
    BY <2>5, <1>1
<1> QED
  BY <1>1, <1>3, <1>4, <1>5

\* The arithmetic of a pod: e[n] operations are entered and l[n] left by n, a
\* is the foremost member of the pod, and S holds the operations that the pod
\* has counted, c of them since the last reset.
LEMMA Counting ==
    ASSUME NEW e \in [Members -> Nat], NEW l \in [Members -> Nat], NEW a \in Members,
           \A m, n \in Members : l[m] <= e[n],
           \A m \in Members : e[m] = l[m] \/ e[m] = l[m] + 1,
           NEW S \in SUBSET (Members \X Nat), \A o \in S : o[2] >= 1 /\ o[2] <= e[o[1]],
           NEW c \in Nat, Cardinality(S) = c + N * l[a]
    PROVE  /\ c < 2 * N
           /\ c = N => \A n \in Members : l[a] + 1 <= e[n]
<1> DEFINE r == l[a]
<1>1. r \in Nat /\ N \in Nat /\ N >= 1 /\ N * r \in Nat
  BY MembersCount
<1>2. N * (r + 1) = N * r + N /\ N * (r + 2) = N * r + 2 * N
  BY <1>1
<1>3. \A m \in Members : e[m] <= r + 2
  BY <1>1
<1>4. ASSUME NEW n \in Members, e[n] <= r
      PROVE  c < N
  <2>1. \A m \in Members : e[m] <= r + 1
    BY <1>1, <1>4
  <2>2. \A o \in S : o[2] \in 1 .. r + 1
    <3> SUFFICES ASSUME NEW o \in S PROVE o[2] \in 1 .. r + 1
      OBVIOUS
    <3>1. o[1] \in Members /\ o[2] \in Nat /\ o[2] <= e[o[1]] /\ o[2] >= 1
      OBVIOUS
    <3> QED
      BY <3>1, <2>1, <1>1
  <2>3. <<n, r + 1>> \notin S
    <3>1. ASSUME <<n, r + 1>> \in S PROVE r + 1 <= e[n]
      BY <3>1
    <3> QED
      BY <3>1, <1>4, <1>1
  <2>4. Cardinality(S) < N * (r + 1)
    BY <2>2, <2>3, <1>1, CountedBound
  <2> QED
    BY <2>4, <1>1, <1>2
<1>5. c < 2 * N
  <2>1. CASE e[a] <= r
    BY <2>1, <1>4, <1>1
  <2>2. CASE e[a] = r + 1
    <3>1. \A o \in S : o[2] \in 1 .. r + 2
      <4> SUFFICES ASSUME NEW o \in S PROVE o[2] \in 1 .. r + 2
        OBVIOUS
      <4>1. o[1] \in Members /\ o[2] \in Nat /\ o[2] <= e[o[1]] /\ o[2] >= 1
        OBVIOUS
      <4> QED
        BY <4>1, <1>3, <1>1
    <3>2. <<a, r + 2>> \notin S
      <4>1. ASSUME <<a, r + 2>> \in S PROVE r + 2 <= e[a]
        BY <4>1
      <4> QED
        BY <4>1, <2>2, <1>1
    <3>3. Cardinality(S) < N * (r + 2)
      BY <3>1, <3>2, <1>1, CountedBound
    <3> QED
      BY <3>3, <1>1, <1>2
  <2> QED
    BY <2>1, <2>2, <1>1
<1>6. ASSUME c = N, NEW n \in Members PROVE r + 1 <= e[n]
  <2>1. ~(e[n] <= r)
    BY <1>4, <1>6, <1>1
  <2> QED
    BY <2>1, <1>1
<1> QED
  BY <1>5, <1>6

------------------------------------------------------------------------------
(* Types and places *)

LEMMA LeftFacts ==
    entered \in [Members -> 0 .. Len(Program) + 1] /\ PlacesMatch =>
        /\ entered \in [Members -> Nat] /\ Left \in [Members -> Nat]
        /\ \A m \in Members : entered[m] = Left[m] \/ entered[m] = Left[m] + 1
<1> SUFFICES ASSUME entered \in [Members -> 0 .. Len(Program) + 1], PlacesMatch
             PROVE  /\ entered \in [Members -> Nat] /\ Left \in [Members -> Nat]
                    /\ \A m \in Members : entered[m] = Left[m] \/ entered[m] = Left[m] + 1
  OBVIOUS
<1>1. Len(Program) \in Nat
  BY StaticGroupAssumption
<1>2. \A m \in Members : entered[m] \in Nat
  BY <1>1
<1>3. \A m \in Members : pc[m] \in {"creating", "syncing"} => entered[m] >= 1
  BY <1>2 DEF PlacesMatch
<1> QED
  BY <1>2, <1>3 DEF Left

Messages == [type : {"create", "woken", "synchronize", "idp"},
             from : Members, no : 1 .. Len(Program) + 1]

\* All of TypeOK that does not follow from the counting.
Typed ==
    /\ entry \in SUBSET Pods
    /\ count \in [Pods -> Nat]
    /\ total \in [Pods -> {0, N}]
    /\ cc \in [Pods -> 0 .. Len(Program)]
    /\ inbox \in [Pods -> SUBSET Messages]
    /\ late \in [Pods -> SUBSET Members]
    /\ pc \in [Members -> Places]
    /\ asleep \in SUBSET Members
    /\ entered \in [Members -> 0 .. Len(Program) + 1]
    /\ got \in [Members -> 0 .. Len(Program)]

LEMMA NotifyTypes ==
    ASSUME Typed, NEW p \in Pods, NEW boxes, Notify(p, boxes),
           boxes \in [Pods -> SUBSET Messages]
    PROVE  /\ inbox' \in [Pods -> SUBSET Messages]
           /\ late' \in [Pods -> SUBSET Members]
           /\ asleep' \in SUBSET Members
<1>1. 1 \in 1 .. Len(Program) + 1
  BY StaticGroupAssumption
<1>2. {Message("woken", m, 1) : m \in late[p]} \in SUBSET Messages
  BY <1>1 DEF Typed, Message, Messages
<1>3. boxes \in [Pods -> SUBSET Messages]
  BY DEF Messages
<1>4. inbox' \in [Pods -> SUBSET Messages]
  BY <1>2, <1>3 DEF Notify
<1> QED
  BY <1>4 DEF Notify, Typed

LEMMA TypeStep == ASSUME Inv, [Next]_vars PROVE Typed'
<1>1. Typed /\ inbox \in [Pods -> SUBSET Messages]
  BY DEF Inv, GroupInv, TypeOK, Typed, Messages
<1>2. Len(Program) \in Nat /\ N \in Nat /\ Home \in [Members -> Pods] /\ Root \in Members
  BY StaticGroupAssumption, MembersCount
<1>3. ASSUME NEW m \in Members, CreateStaticGroup(m) PROVE Typed'
  <2>1. Message("create", m, 1) \in Messages /\ Home[m] \in Pods /\ 1 \in 0 .. Len(Program) + 1
    BY <1>2 DEF Message, Messages
  <2>2. [q \in Pods |-> inbox[q] \cup {Message("create", m, 1)}] \in [Pods -> SUBSET Messages]
    BY <1>1, <2>1
  <2>3. /\ inbox' \in [Pods -> SUBSET Messages] /\ late' \in [Pods -> SUBSET Members]
        /\ asleep' \in SUBSET Members
    BY <1>1, <1>3, <2>1, <2>2, NotifyTypes DEF CreateStaticGroup
  <2>4. count' \in [Pods -> Nat] /\ total' \in [Pods -> {0, N}]
    <3>1. NewEntry(Home[m])
      BY <1>3 DEF CreateStaticGroup
    <3>2. count \in [Pods -> Nat] /\ total \in [Pods -> {0, N}] /\ 0 \in Nat /\ N \in {0, N}
      BY <1>1 DEF Typed
    <3> QED
      BY <2>1, <3>1, <3>2 DEF NewEntry
  <2>5. pc' \in [Members -> Places] /\ entered' \in [Members -> 0 .. Len(Program) + 1]
    BY <1>1, <1>3, <2>1 DEF CreateStaticGroup, Typed, Places
  <2> QED
    BY <1>1, <1>3, <2>1, <2>3, <2>4, <2>5 DEF CreateStaticGroup, Typed
<1>4. ASSUME NEW m \in Members, SynchronizeStaticGroup(m) PROVE Typed'
  <2>1. entered[m] <= Len(Program)
    BY <1>4 DEF SynchronizeStaticGroup, Doing, Inv, GroupInv, PlacesMatch
  <2>2. entered[m] + 1 \in 1 .. Len(Program) + 1 /\ entered[m] + 1 \in 0 .. Len(Program) + 1
    BY <1>1, <1>2, <2>1 DEF Typed
  <2>3. Message("synchronize", m, entered[m] + 1) \in Messages
    BY <2>2 DEF Message, Messages
  <2>4. inbox' \in [Pods -> SUBSET Messages]
    BY <1>1, <1>4, <2>3 DEF SynchronizeStaticGroup, Multicast
  <2>5. pc' \in [Members -> Places] /\ entered' \in [Members -> 0 .. Len(Program) + 1]
    BY <1>1, <1>4, <2>2 DEF SynchronizeStaticGroup, Typed, Places
  <2> QED
    BY <1>1, <1>4, <2>4, <2>5 DEF SynchronizeStaticGroup, Typed, records
<1>5. ASSUME NEW m \in Members, AwaitAll(m) PROVE Typed'
  <2>1. pc' \in [Members -> Places] /\ asleep' \in SUBSET Members
    BY <1>1, <1>5 DEF AwaitAll, Sleep, Typed, Places
  <2>2. Home[m] \in Pods /\ 0 \in Nat /\ 0 \in 0 .. Len(Program)
    BY <1>2
  <2>3. count' \in [Pods -> Nat]
    BY <1>1, <1>5, <2>2 DEF AwaitAll, Reset, Typed
  <2>4. cc' \in [Pods -> 0 .. Len(Program)]
    BY <1>1, <1>5, <2>2 DEF AwaitAll, Reset, Typed
  <2> QED
    BY <1>1, <1>5, <2>1, <2>3, <2>4 DEF AwaitAll, Typed
<1>6. ASSUME NEW m \in Members, CreateCollective(m) PROVE Typed'
  <2>1. entered[m] \in 1 .. Len(Program) /\ entered[m] \in 0 .. Len(Program)
    BY <1>1, <1>2, <1>6 DEF CreateCollective, Doing, Inv, GroupInv, PlacesMatch, Typed
  <2>2. Message("idp", m, entered[m]) \in Messages
    BY <2>1, <1>2 DEF Message, Messages
  <2>3. inbox' \in [Pods -> SUBSET Messages]
    BY <1>1, <1>6, <2>2 DEF CreateCollective, Multicast
  <2>4. pc' \in [Members -> Places]
    BY <1>1, <1>6 DEF CreateCollective, Typed, Places
  <2>5. got' \in [Members -> 0 .. Len(Program)]
    BY <1>1, <1>6, <2>1 DEF CreateCollective, Typed
  <2> QED
    BY <1>1, <1>6, <2>3, <2>4, <2>5 DEF CreateCollective, Typed, records
<1>7. ASSUME NEW m \in Members, GetStaticGroupCCIdp(m) PROVE Typed'
  <2>1. /\ pc' \in [Members -> Places] /\ got' \in [Members -> 0 .. Len(Program)]
        /\ asleep' \in SUBSET Members
    BY <1>1, <1>2, <1>7 DEF GetStaticGroupCCIdp, Sleep, Typed, Places
  <2> QED
    BY <1>1, <1>7, <2>1 DEF GetStaticGroupCCIdp, Typed, records
<1>8. ASSUME NEW m \in Members, SpuriousWakeup(m) PROVE Typed'
  BY <1>1, <1>8 DEF SpuriousWakeup, Typed, records
<1>9. ASSUME NEW p \in Pods, NEW msg \in inbox[p], Count(p, Handled(p, msg)),
             UNCHANGED <<total, cc, pc, entered, got>>
      PROVE  Typed'
  <2>1. Handled(p, msg) \in [Pods -> SUBSET Messages]
    BY <1>1 DEF Handled
  <2>2. /\ inbox' \in [Pods -> SUBSET Messages] /\ late' \in [Pods -> SUBSET Members]
        /\ asleep' \in SUBSET Members
    BY <1>1, <1>9, <2>1, NotifyTypes DEF Count, Typed
  <2>3. count' \in [Pods -> Nat] /\ entry' \in SUBSET Pods
    BY <1>1, <1>9 DEF Count, Typed
  <2> QED
    BY <1>1, <1>9, <2>2, <2>3 DEF Typed
<1>10. ASSUME NEW p \in Pods, NEW msg \in inbox[p], HandleCreateStaticGroup(p, msg) PROVE Typed'
  <2>1. CASE /\ late' = [late EXCEPT ![p] = @ \cup {msg.from}]
             /\ inbox' = Handled(p, msg)
             /\ UNCHANGED <<records, members>>
    <3>1. msg.from \in Members
      BY <1>1 DEF Messages
    <3>2. inbox' \in [Pods -> SUBSET Messages]
      BY <1>1, <2>1 DEF Handled
      <3> QED
      BY <1>1, <2>1, <3>1, <3>2 DEF Typed, records, members
  <2> QED
    BY <1>9, <1>10, <2>1 DEF HandleCreateStaticGroup
<1>11. ASSUME NEW p \in Pods, NEW msg \in inbox[p], HandleSynchronizeStaticGroup(p, msg) PROVE Typed'
  BY <1>9, <1>11 DEF HandleSynchronizeStaticGroup
<1>12. ASSUME NEW p \in Pods, NEW msg \in inbox[p], HandleStaticGroupCCIdp(p, msg) PROVE Typed'
  <2>1. Handled(p, msg) \in [Pods -> SUBSET Messages]
    BY <1>1 DEF Handled
  <2>2. /\ inbox' \in [Pods -> SUBSET Messages] /\ late' \in [Pods -> SUBSET Members]
        /\ asleep' \in SUBSET Members
    BY <1>1, <1>12, <2>1, NotifyTypes DEF HandleStaticGroupCCIdp
  <2>3. msg.no \in 0 .. Len(Program)
    BY <1>2, <1>12 DEF HandleStaticGroupCCIdp, Inv, CollectiveInv, IdpsMatch, Created
  <2>4. cc' \in [Pods -> 0 .. Len(Program)]
    BY <1>1, <1>12, <2>3 DEF HandleStaticGroupCCIdp, Typed
  <2> QED
    BY <1>1, <1>12, <2>2, <2>4 DEF HandleStaticGroupCCIdp, Typed
<1>13. ASSUME NEW p \in Pods, LateWakeup(p) PROVE Typed'
  <2>1. PICK m \in late[p] :
          /\ late' = [late EXCEPT ![p] = @ \ {m}]
          /\ inbox' = [inbox EXCEPT ![p] = @ \cup {Message("woken", m, 1)}]
          /\ UNCHANGED <<records, members>>
    BY <1>13 DEF LateWakeup
  <2>2. Message("woken", m, 1) \in Messages
    BY <1>1, <1>2 DEF Message, Messages, Typed
  <2>3. inbox' \in [Pods -> SUBSET Messages]
    BY <1>1, <2>1, <2>2
  <2> QED
    BY <1>1, <2>1, <2>3 DEF Typed, records, members
<1>14. CASE UNCHANGED vars
  BY <1>1, <1>14 DEF vars, records, members, Typed
<1> QED
  BY <1>3, <1>4, <1>5, <1>6, <1>7, <1>8, <1>10, <1>11, <1>12, <1>13, <1>14
  DEF Next, Proceed, Handle

LEMMA PlacesStep == ASSUME Inv, [Next]_vars PROVE PlacesMatch'
<1>1. /\ pc \in [Members -> Places] /\ entered \in [Members -> 0 .. Len(Program) + 1]
      /\ asleep \subseteq Members /\ Len(Program) \in Nat /\ PlacesMatch
  BY StaticGroupAssumption DEF Inv, GroupInv, TypeOK
<1>2. ASSUME NEW m \in Members, CreateStaticGroup(m) PROVE PlacesMatch'
  BY <1>1, <1>2 DEF CreateStaticGroup, Notify, PlacesMatch, Doing
<1>3. ASSUME NEW m \in Members, SynchronizeStaticGroup(m) PROVE PlacesMatch'
  BY <1>1, <1>3 DEF SynchronizeStaticGroup, PlacesMatch, Doing
<1>4. ASSUME NEW m \in Members, AwaitAll(m) PROVE PlacesMatch'
  BY <1>1, <1>4 DEF AwaitAll, Sleep, PlacesMatch, Doing
<1>5. ASSUME NEW m \in Members, CreateCollective(m) PROVE PlacesMatch'
  BY <1>1, <1>5 DEF CreateCollective, PlacesMatch, Doing
<1>6. ASSUME NEW m \in Members, GetStaticGroupCCIdp(m) PROVE PlacesMatch'
  BY <1>1, <1>6 DEF GetStaticGroupCCIdp, Sleep, PlacesMatch, Doing
<1>7. ASSUME NEW m \in Members, SpuriousWakeup(m) PROVE PlacesMatch'
  BY <1>1, <1>7 DEF SpuriousWakeup, PlacesMatch, Doing
<1>8. ASSUME asleep' \subseteq asleep, UNCHANGED <<pc, entered>> PROVE PlacesMatch'
  BY <1>1, <1>8 DEF PlacesMatch, Doing
<1>9. ASSUME NEW p \in Pods, Handle(p) \/ LateWakeup(p) PROVE PlacesMatch'
  BY <1>8, <1>9 DEF Handle, HandleCreateStaticGroup, HandleSynchronizeStaticGroup,
     HandleStaticGroupCCIdp, LateWakeup, Count, Notify, members
<1>10. CASE UNCHANGED vars
  BY <1>8, <1>10 DEF vars, members
<1> QED
  BY <1>2, <1>3, <1>4, <1>5, <1>6, <1>7, <1>9, <1>10 DEF Next, Proceed

LEMMA EntriesStep == ASSUME Inv, [Next]_vars PROVE EntriesMatch'
<1>1. /\ entered \in [Members -> Nat] /\ count \in [Pods -> Nat] /\ total \in [Pods -> {0, N}]
      /\ entry \subseteq Pods /\ Home \in [Members -> Pods] /\ N \in Nat /\ N >= 1
      /\ EntriesMatch /\ PlacesMatch
  <2>1. entered \in [Members -> Nat]
    BY StaticGroupAssumption DEF Inv, GroupInv, TypeOK
  <2> QED
    BY <2>1, StaticGroupAssumption, MembersCount DEF Inv, GroupInv, TypeOK
<1>2. ASSUME UNCHANGED <<entry, count, total, entered>> PROVE EntriesMatch'
  BY <1>1, <1>2 DEF EntriesMatch
<1>3. ASSUME NEW m \in Members, CreateStaticGroup(m) PROVE EntriesMatch'
  <2>1. /\ entry' = entry \cup {Home[m]} /\ entered' = [entered EXCEPT ![m] = 1]
        /\ NewEntry(Home[m])
    BY <1>3 DEF CreateStaticGroup
  <2>2. CASE Home[m] \in entry
    BY <1>1, <2>1, <2>2 DEF NewEntry, EntriesMatch
  <2>3. CASE Home[m] \notin entry
    BY <1>1, <2>1, <2>3 DEF NewEntry, EntriesMatch
  <2> QED
    BY <2>2, <2>3
<1>4. ASSUME NEW m \in Members, SynchronizeStaticGroup(m) PROVE EntriesMatch'
  <2>1. entered[m] >= 1
    BY <1>1, <1>4 DEF SynchronizeStaticGroup, PlacesMatch
  <2>2. entered' = [entered EXCEPT ![m] = @ + 1] /\ UNCHANGED <<entry, count, total>>
    BY <1>4 DEF SynchronizeStaticGroup, records
  <2> QED
    BY <1>1, <2>1, <2>2 DEF EntriesMatch
<1>5. ASSUME NEW m \in Members, AwaitAll(m) PROVE EntriesMatch'
  <2>1. CASE UNCHANGED count
    BY <1>2, <1>5, <2>1 DEF AwaitAll
  <2>2. CASE count[Home[m]] = total[Home[m]] /\ count' = [count EXCEPT ![Home[m]] = 0]
    <3>1. entered[m] >= 1
      BY <1>1, <1>5 DEF AwaitAll, PlacesMatch
    <3>2. Home[m] \in entry /\ total[Home[m]] = N
      BY <1>1, <2>2, <3>1 DEF EntriesMatch
    <3>3. UNCHANGED <<entry, total, entered>>
      BY <1>5 DEF AwaitAll
    <3> QED
      BY <1>1, <2>2, <3>2, <3>3 DEF EntriesMatch
  <2> QED
    BY <1>5, <2>1, <2>2 DEF AwaitAll, Reset
<1>6. ASSUME NEW m \in Members,
             CreateCollective(m) \/ GetStaticGroupCCIdp(m) \/ SpuriousWakeup(m)
      PROVE  EntriesMatch'
  BY <1>2, <1>6 DEF CreateCollective, GetStaticGroupCCIdp, SpuriousWakeup, records
<1>7. ASSUME NEW p \in Pods, Handle(p) PROVE EntriesMatch'
  <2>1. ASSUME entry' = entry \cup {p}, count' = [count EXCEPT ![p] = @ + 1],
               UNCHANGED <<total, entered>>
        PROVE  EntriesMatch'
    <3>1. count[p] + 1 >= 1 /\ (p \notin entry => count[p] = 0)
      BY <1>1 DEF EntriesMatch
    <3>2. total[p] = N \/ total[p] = 0
      BY <1>1
    <3> QED
      BY <1>1, <2>1, <3>1, <3>2 DEF EntriesMatch
  <2> QED
    BY <1>2, <1>7, <2>1 DEF Handle, HandleCreateStaticGroup, HandleSynchronizeStaticGroup,
       HandleStaticGroupCCIdp, Count, records, members
<1>8. CASE (\E p \in Pods : LateWakeup(p)) \/ UNCHANGED vars
  BY <1>2, <1>8 DEF LateWakeup, vars, records, members
<1> QED
  BY <1>3, <1>4, <1>5, <1>6, <1>7, <1>8 DEF Next, Proceed

------------------------------------------------------------------------------
(* Messages *)

Woken(waiting) == {Message("woken", m, 1) : m \in waiting}

LEMMA MessageIs == \A msg \in Messages : msg = Message(msg.type, msg.from, msg.no)
BY DEF Message, Messages

LEMMA SentWhenNotified ==
    ASSUME NEW box \in SUBSET Messages, NEW waiting \in SUBSET Members,
           NEW ops \in [Members -> Nat], Sent(box, waiting, ops)
    PROVE  Sent(box \cup Woken(waiting), {}, ops)
<1>1. ASSUME NEW x \in Woken(waiting)
      PROVE  x.no = 1 /\ x.type = "woken" /\ x.from \in waiting /\ x = Message("woken", x.from, 1)
  BY <1>1 DEF Woken, Message
<1>2. ASSUME NEW m \in waiting
      PROVE  ops[m] >= 1 /\ \A x \in box : x.from = m => x.type # "create"
  BY <1>2, MessageIs DEF Sent
<1>3. ASSUME NEW x \in box \cup Woken(waiting)
      PROVE  /\ x.no <= ops[x.from]
             /\ x.type \in {"create", "woken"} => x.no = 1
             /\ x.type = "synchronize" => x.no >= 2
             /\ x.type = "idp" => x.from = Root
  BY <1>1, <1>2 DEF Sent
<1>4. ASSUME NEW x \in box \cup Woken(waiting), x.type = "create"
      PROVE  Message("woken", x.from, 1) \notin box \cup Woken(waiting)
  <2>1. x \in box /\ x.from \notin waiting
    BY <1>1, <1>2, <1>4
  <2>2. Message("woken", x.from, 1).from = x.from
    BY DEF Message
  <2> QED
    BY <1>1, <1>4, <2>1, <2>2 DEF Sent
<1> QED
  BY <1>3, <1>4 DEF Sent

LEMMA SentWhenHandled ==
    ASSUME NEW box \in SUBSET Messages, NEW waiting \in SUBSET Members,
           NEW ops \in [Members -> Nat], Sent(box, waiting, ops), NEW msg \in box
    PROVE  Sent(box \ {msg}, waiting, ops)
BY DEF Sent

LEMMA SentWhenLate ==
    ASSUME NEW box \in SUBSET Messages, NEW waiting \in SUBSET Members,
           NEW ops \in [Members -> Nat], Sent(box, waiting, ops),
           NEW msg \in box, msg.type = "create"
    PROVE  Sent(box \ {msg}, waiting \cup {msg.from}, ops)
<1>1. msg = Message("create", msg.from, 1) /\ ops[msg.from] >= 1
  BY DEF Sent, Message, Messages
<1> QED
  BY <1>1 DEF Sent

LEMMA SentWhenWoken ==
    ASSUME NEW box \in SUBSET Messages, NEW waiting \in SUBSET Members,
           NEW ops \in [Members -> Nat], Sent(box, waiting, ops), NEW m \in waiting
    PROVE  Sent(box \cup {Message("woken", m, 1)}, waiting \ {m}, ops)
<1> DEFINE msg == Message("woken", m, 1)
<1>1. msg.no = 1 /\ msg.type = "woken" /\ msg.from = m
  BY DEF Message
<1>2. \A x \in waiting \ {m} : Message("create", x, 1) # msg /\ Message("woken", x, 1) # msg
  BY DEF Message
<1>3. \A x \in box : x.type = "create" => x.from # m
  BY MessageIs DEF Sent
<1>4. \A x : Message("woken", x, 1) = msg => x = m
  BY DEF Message
<1>5. ops[m] >= 1
  BY DEF Sent
<1> HIDE DEF msg
<1>6. ASSUME NEW x \in box \cup {msg}
      PROVE  /\ x.no <= ops[x.from]
             /\ x.type \in {"create", "woken"} => x.no = 1
             /\ x.type = "synchronize" => x.no >= 2
             /\ x.type = "idp" => x.from = Root
  BY <1>1, <1>5 DEF Sent
<1>7. ASSUME NEW x \in box \cup {msg}, x.type = "create"
      PROVE  Message("woken", x.from, 1) \notin box \cup {msg}
  BY <1>1, <1>3, <1>4, <1>7 DEF Sent
<1>8. Sent(box \cup {msg}, waiting \ {m}, ops)
  BY <1>2, <1>6, <1>7 DEF Sent
<1> QED
  BY <1>8 DEF msg

\* A member sends the message of the operation that it enters, or the root an
\* idp.
LEMMA SentWhenSent ==
    ASSUME NEW box \in SUBSET Messages, NEW waiting \in SUBSET Members,
           NEW ops \in [Members -> Nat], Sent(box, waiting, ops),
           NEW m \in Members, NEW n \in Nat, ops[m] <= n, NEW msg \in Messages,
           msg.from = m, msg.no <= n,
           \/ msg.type = "create" /\ msg.no = 1 /\ ops[m] = 0
           \/ msg.type = "synchronize" /\ msg.no >= 2
           \/ msg.type = "idp" /\ m = Root
    PROVE  Sent(box \cup {msg}, waiting, [ops EXCEPT ![m] = n])
<1> DEFINE new == [ops EXCEPT ![m] = n]
<1>1. \A k \in Members : new[k] \in Nat /\ ops[k] <= new[k]
  OBVIOUS
<1>2. new[m] = n
  OBVIOUS
<1> HIDE DEF new
<1>3. \A x \in box : x.no <= new[x.from]
  BY <1>1, StaticGroupAssumption DEF Sent, Messages
<1>4. msg.type = "create" =>
        /\ \A x \in box : x.from # m
        /\ m \notin waiting
  BY DEF Sent, Messages
<1>5. \A x \in waiting : new[x] >= 1
  BY <1>1 DEF Sent
<1> SUFFICES Sent(box \cup {msg}, waiting, new)
  BY DEF new
<1>6. ASSUME NEW x \in box \cup {msg}
      PROVE  /\ x.no <= new[x.from]
             /\ x.type \in {"create", "woken"} => x.no = 1
             /\ x.type = "synchronize" => x.no >= 2
             /\ x.type = "idp" => x.from = Root
  BY <1>2, <1>3 DEF Sent
<1>7. ASSUME NEW x \in box \cup {msg}, x.type = "create"
      PROVE  Message("woken", x.from, 1) \notin box \cup {msg}
  BY <1>4, <1>7 DEF Sent, Message
<1>8. ASSUME NEW x \in waiting
      PROVE  /\ Message("create", x, 1) \notin box \cup {msg}
             /\ Message("woken", x, 1) \notin box \cup {msg}
  BY <1>4, <1>8 DEF Sent, Message
<1> QED
  BY <1>5, <1>6, <1>7, <1>8 DEF Sent

LEMMA MessagesStep == ASSUME Inv, [Next]_vars PROVE MessagesMatch'
<1>1. /\ inbox \in [Pods -> SUBSET Messages] /\ late \in [Pods -> SUBSET Members]
      /\ entered \in [Members -> Nat] /\ MessagesMatch /\ PlacesMatch
      /\ Home \in [Members -> Pods] /\ Len(Program) \in Nat
  <2>1. entered \in [Members -> Nat]
    BY StaticGroupAssumption DEF Inv, GroupInv, TypeOK
  <2> QED
    BY <2>1, StaticGroupAssumption DEF Inv, GroupInv, TypeOK, Messages
<1>2. \A m \in Members : entered[m] <= Len(Program) + 1
  BY <1>1 DEF Inv, GroupInv, TypeOK
<1>3. ASSUME NEW p \in Pods, NEW boxes \in [Pods -> SUBSET Messages], Notify(p, boxes),
             entered' \in [Members -> Nat],
             \A q \in Pods : Sent(boxes[q], late[q], entered')
      PROVE  MessagesMatch'
  <2> SUFFICES ASSUME NEW q \in Pods PROVE Sent(inbox'[q], late'[q], entered')
    BY DEF MessagesMatch
  <2>1. CASE q # p
    BY <1>1, <1>3, <2>1 DEF Notify
  <2>2. CASE q = p
    <3>1. inbox'[q] = boxes[q] \cup Woken(late[q]) /\ late'[q] = {}
      BY <1>1, <1>3, <2>2 DEF Notify, Woken
    <3>2. /\ boxes[q] \in SUBSET Messages /\ late[q] \in SUBSET Members
          /\ Sent(boxes[q], late[q], entered')
      BY <1>1, <1>3
    <3>3. Sent(boxes[q] \cup Woken(late[q]), {}, entered')
      BY <1>3, <3>2, SentWhenNotified
    <3> QED
      BY <3>1, <3>3
  <2> QED
    BY <2>1, <2>2
<1>4. ASSUME NEW p \in Pods, NEW msg \in inbox[p]
      PROVE  /\ Handled(p, msg) \in [Pods -> SUBSET Messages]
             /\ \A q \in Pods : Sent(Handled(p, msg)[q], late[q], entered)
  <2>1. \A q \in Pods : Handled(p, msg)[q] = IF q = p THEN inbox[q] \ {msg} ELSE inbox[q]
    BY <1>1 DEF Handled
  <2>2. \A q \in Pods : Sent(inbox[q], late[q], entered)
    BY <1>1 DEF MessagesMatch
  <2>3. Sent(inbox[p] \ {msg}, late[p], entered)
    BY <1>1, <2>2, SentWhenHandled
  <2>4. Handled(p, msg) \in [Pods -> SUBSET Messages]
    BY <1>1 DEF Handled
  <2> QED
    BY <2>1, <2>2, <2>3, <2>4
<1>5. ASSUME NEW m \in Members, NEW n \in Nat, entered[m] <= n, NEW msg \in Messages,
             msg.from = m, msg.no <= n,
             \/ msg.type = "create" /\ msg.no = 1 /\ entered[m] = 0
             \/ msg.type = "synchronize" /\ msg.no >= 2
             \/ msg.type = "idp" /\ m = Root
      PROVE  \A q \in Pods : Sent(inbox[q] \cup {msg}, late[q], [entered EXCEPT ![m] = n])
  BY <1>1, <1>5, SentWhenSent DEF MessagesMatch
<1>6. ASSUME NEW m \in Members, CreateStaticGroup(m) PROVE MessagesMatch'
  <2> DEFINE boxes == [q \in Pods |-> inbox[q] \cup {Message("create", m, 1)}]
  <2>1. Message("create", m, 1) \in Messages
    BY <1>1 DEF Message, Messages
  <2>2. boxes \in [Pods -> SUBSET Messages] /\ Home[m] \in Pods
    BY <1>1, <2>1
  <2>3. entered[m] = 0 /\ entered' = [entered EXCEPT ![m] = 1]
    BY <1>1, <1>6 DEF CreateStaticGroup, PlacesMatch
  <2>4. \A q \in Pods : Sent(boxes[q], late[q], entered')
    <3> DEFINE msg == Message("create", m, 1)
    <3>1. msg \in Messages /\ msg.from = m /\ msg.no = 1 /\ msg.type = "create"
      BY <2>1 DEF Message
    <3> HIDE DEF msg
    <3>2. 1 \in Nat /\ entered[m] <= 1 /\ msg.no <= 1
      BY <2>3, <3>1
    <3>3. \A q \in Pods : Sent(inbox[q] \cup {msg}, late[q], [entered EXCEPT ![m] = 1])
      BY <1>5, <2>3, <3>1, <3>2
    <3> QED
      BY <2>3, <3>3 DEF msg
  <2>5. Notify(Home[m], boxes)
    BY <1>6 DEF CreateStaticGroup
  <2>6. entered' \in [Members -> Nat]
    BY <1>1, <2>3
  <2> HIDE DEF boxes
  <2> QED
    BY <1>3, <2>2, <2>4, <2>5, <2>6
<1>7. ASSUME NEW m \in Members, SynchronizeStaticGroup(m) PROVE MessagesMatch'
  <2> DEFINE msg == Message("synchronize", m, entered[m] + 1)
  <2>1. entered[m] <= Len(Program) /\ entered[m] >= 1 /\ entered[m] \in Nat
    BY <1>1, <1>7 DEF SynchronizeStaticGroup, PlacesMatch, Doing
  <2>2. msg \in Messages
    BY <1>1, <2>1 DEF Message, Messages
  <2>3. msg.from = m /\ msg.no = entered[m] + 1 /\ msg.type = "synchronize"
    BY DEF Message
  <2>4. /\ entered' = [entered EXCEPT ![m] = entered[m] + 1] /\ UNCHANGED late
        /\ inbox' = [q \in Pods |-> inbox[q] \cup {msg}]
    BY <1>1, <1>7 DEF SynchronizeStaticGroup, Multicast
  <2> HIDE DEF msg
  <2>5. \A q \in Pods : Sent(inbox[q] \cup {msg}, late[q], [entered EXCEPT ![m] = entered[m] + 1])
    <3>1. entered[m] + 1 \in Nat /\ entered[m] <= entered[m] + 1 /\ msg.no >= 2
      BY <2>1, <2>3
    <3> QED
      BY <1>5, <2>2, <2>3, <3>1
  <2> QED
    BY <2>4, <2>5 DEF MessagesMatch
<1>8. ASSUME NEW m \in Members, CreateCollective(m) PROVE MessagesMatch'
  <2>1. CASE UNCHANGED inbox
    BY <1>1, <1>8, <2>1 DEF CreateCollective, MessagesMatch
  <2>2. CASE m = Root /\ Multicast(Message("idp", m, entered[m]))
    <3> DEFINE msg == Message("idp", m, entered[m])
    <3>1. entered[m] >= 1 /\ entered[m] \in Nat
      BY <1>1, <1>8 DEF CreateCollective, PlacesMatch
    <3>2. msg \in Messages
      BY <1>1, <1>2, <3>1 DEF Message, Messages
    <3>3. msg.from = m /\ msg.no = entered[m] /\ msg.type = "idp"
      BY DEF Message
    <3>4. UNCHANGED <<late, entered>> /\ inbox' = [q \in Pods |-> inbox[q] \cup {msg}]
      BY <1>8, <2>2 DEF CreateCollective, Multicast
    <3> HIDE DEF msg
    <3>5. \A q \in Pods : Sent(inbox[q] \cup {msg}, late[q], [entered EXCEPT ![m] = entered[m]])
      BY <1>5, <2>2, <3>1, <3>2, <3>3
    <3>6. [entered EXCEPT ![m] = entered[m]] = entered
      BY <1>1
    <3> QED
      BY <3>4, <3>5, <3>6 DEF MessagesMatch
  <2> QED
    BY <1>8, <2>1, <2>2 DEF CreateCollective
<1>9. ASSUME NEW p \in Pods, NEW msg \in inbox[p], Count(p, Handled(p, msg)), UNCHANGED entered
      PROVE  MessagesMatch'
  <2>1. CASE Notify(p, Handled(p, msg))
    BY <1>1, <1>3, <1>4, <1>9, <2>1
  <2>2. CASE inbox' = Handled(p, msg) /\ UNCHANGED late
    BY <1>4, <1>9, <2>2 DEF MessagesMatch
  <2> QED
    BY <1>9, <2>1, <2>2 DEF Count
<1>10. ASSUME NEW p \in Pods, NEW msg \in inbox[p], HandleCreateStaticGroup(p, msg)
       PROVE  MessagesMatch'
  <2>1. CASE /\ msg.type = "create" /\ late' = [late EXCEPT ![p] = @ \cup {msg.from}]
             /\ inbox' = Handled(p, msg) /\ UNCHANGED members
    <3> SUFFICES ASSUME NEW q \in Pods PROVE Sent(inbox'[q], late'[q], entered')
      BY DEF MessagesMatch
    <3>1. Sent(inbox[q], late[q], entered)
      BY <1>1 DEF MessagesMatch
    <3>2. CASE q = p
      <4>1. inbox'[q] = inbox[q] \ {msg} /\ late'[q] = late[q] \cup {msg.from} /\ entered' = entered
        BY <1>1, <2>1, <3>2 DEF Handled, members
      <4> QED
        BY <1>1, <2>1, <3>1, <3>2, <4>1, SentWhenLate
    <3>3. CASE q # p
      BY <1>1, <2>1, <3>1, <3>3 DEF Handled, members
    <3> QED
      BY <3>2, <3>3
  <2> QED
    BY <1>9, <1>10, <2>1 DEF HandleCreateStaticGroup
<1>11. ASSUME NEW p \in Pods, NEW msg \in inbox[p], HandleSynchronizeStaticGroup(p, msg)
       PROVE  MessagesMatch'
  BY <1>9, <1>11 DEF HandleSynchronizeStaticGroup
<1>12. ASSUME NEW p \in Pods, NEW msg \in inbox[p], HandleStaticGroupCCIdp(p, msg)
       PROVE  MessagesMatch'
  BY <1>1, <1>3, <1>4, <1>12 DEF HandleStaticGroupCCIdp
<1>13. ASSUME NEW p \in Pods, LateWakeup(p) PROVE MessagesMatch'
  <2>1. PICK m \in late[p] :
          /\ late' = [late EXCEPT ![p] = @ \ {m}]
          /\ inbox' = [inbox EXCEPT ![p] = @ \cup {Message("woken", m, 1)}]
          /\ UNCHANGED members
    BY <1>13 DEF LateWakeup
  <2>2. Sent(inbox[p] \cup {Message("woken", m, 1)}, late[p] \ {m}, entered)
    BY <1>1, SentWhenWoken DEF MessagesMatch
  <2> QED
    BY <1>1, <2>1, <2>2 DEF MessagesMatch, members
<1>14. CASE \/ UNCHANGED vars
            \/ \E m \in Members : AwaitAll(m) \/ GetStaticGroupCCIdp(m) \/ SpuriousWakeup(m)
  BY <1>1, <1>14 DEF AwaitAll, GetStaticGroupCCIdp, SpuriousWakeup, vars, members, MessagesMatch
<1> QED
  BY <1>6, <1>7, <1>8, <1>10, <1>11, <1>12, <1>13, <1>14 DEF Next, Proceed, Handle

------------------------------------------------------------------------------
(* What the pods have counted *)

LEMMA CountedWhenNotified ==
    ASSUME NEW box \in SUBSET Messages, NEW waiting \in SUBSET Members, NEW ops
    PROVE  CountedOf(box \cup Woken(waiting), {}, ops) = CountedOf(box, waiting, ops)
<1>1. ASSUME NEW m \in Members, NEW k \in Operations
      PROVE  Unread(box \cup Woken(waiting), {}, m, k) <=> Unread(box, waiting, m, k)
  <2>1. /\ Message("create", m, 1) \notin Woken(waiting)
        /\ Message("synchronize", m, k) \notin Woken(waiting)
        /\ Message("woken", m, 1) \in Woken(waiting) <=> m \in waiting
    BY DEF Woken, Message
  <2> QED
    BY <2>1 DEF Unread
<1> QED
  BY <1>1 DEF CountedOf

LEMMA CountedWhenWoken ==
    ASSUME NEW box \in SUBSET Messages, NEW waiting \in SUBSET Members, NEW ops,
           NEW n \in waiting
    PROVE  CountedOf(box \cup {Message("woken", n, 1)}, waiting \ {n}, ops)
             = CountedOf(box, waiting, ops)
<1>1. ASSUME NEW m \in Members, NEW k \in Operations
      PROVE  Unread(box \cup {Message("woken", n, 1)}, waiting \ {n}, m, k)
               <=> Unread(box, waiting, m, k)
  <2>1. /\ Message("create", m, 1) # Message("woken", n, 1)
        /\ Message("synchronize", m, k) # Message("woken", n, 1)
        /\ Message("woken", m, 1) = Message("woken", n, 1) <=> m = n
    BY DEF Message
  <2> QED
    BY <2>1 DEF Unread
<1> QED
  BY <1>1 DEF CountedOf

LEMMA CountedWhenLate ==
    ASSUME NEW box \in SUBSET Messages, NEW waiting \in SUBSET Members, NEW ops,
           NEW msg \in box, msg.type = "create", Sent(box, waiting, ops)
    PROVE  CountedOf(box \ {msg}, waiting \cup {msg.from}, ops) = CountedOf(box, waiting, ops)
<1>1. msg = Message("create", msg.from, 1)
  BY MessageIs DEF Sent
<1>2. ASSUME NEW m \in Members, NEW k \in Operations
      PROVE  Unread(box \ {msg}, waiting \cup {msg.from}, m, k) <=> Unread(box, waiting, m, k)
  <2>1. /\ Message("woken", m, 1) # msg /\ Message("synchronize", m, k) # msg
        /\ Message("create", m, 1) = msg <=> m = msg.from
    BY <1>1 DEF Message
  <2> QED
    BY <2>1 DEF Unread
<1> QED
  BY <1>2 DEF CountedOf

\* Messages with an idp are not counted.
LEMMA CountedWithIdp ==
    ASSUME NEW box \in SUBSET Messages, NEW waiting \in SUBSET Members, NEW ops,
           NEW msg \in Messages, msg.type = "idp"
    PROVE  /\ CountedOf(box \ {msg}, waiting, ops) = CountedOf(box, waiting, ops)
           /\ CountedOf(box \cup {msg}, waiting, ops) = CountedOf(box, waiting, ops)
<1>1. ASSUME NEW m \in Members, NEW k \in Operations
      PROVE  /\ Unread(box \ {msg}, waiting, m, k) <=> Unread(box, waiting, m, k)
             /\ Unread(box \cup {msg}, waiting, m, k) <=> Unread(box, waiting, m, k)
  <2>1. /\ Message("woken", m, 1) # msg /\ Message("create", m, 1) # msg
        /\ Message("synchronize", m, k) # msg
    BY DEF Message
  <2> QED
    BY <2>1 DEF Unread
<1> QED
  BY <1>1 DEF CountedOf

\* The message of the operation that n is about to enter.
Entering(ops, n) ==
    IF ops[n] = 0 THEN Message("create", n, 1) ELSE Message("synchronize", n, ops[n] + 1)

Enters(ops, new, n) == new = [ops EXCEPT ![n] = ops[n] + 1]

\* A member enters an operation: the message is on its way.
LEMMA CountedWhenSent ==
    ASSUME NEW box \in SUBSET Messages, NEW waiting \in SUBSET Members,
           NEW ops \in [Members -> Nat], NEW new, NEW n \in Members, Enters(ops, new, n)
    PROVE  CountedOf(box \cup {Entering(ops, n)}, waiting, new) = CountedOf(box, waiting, ops)
<1> DEFINE msg == Entering(ops, n)
<1>1. /\ ops[n] \in Nat /\ Operations \subseteq Nat
      /\ new[n] = ops[n] + 1 /\ \A m \in Members : m # n => new[m] = ops[m]
  BY StaticGroupAssumption DEF Operations, Enters
<1>1a. \/ ops[n] = 0 /\ msg = Message("create", n, 1)
       \/ ops[n] >= 1 /\ msg = Message("synchronize", n, ops[n] + 1)
  BY <1>1 DEF Entering
<1> HIDE DEF msg
<1>2. ASSUME NEW m \in Members, NEW k \in Operations, ~(m = n /\ k = ops[n] + 1)
      PROVE  Unread(box \cup {msg}, waiting, m, k) <=> Unread(box, waiting, m, k)
  <2>1. Message("woken", m, 1) # msg
    BY <1>1a DEF Message
  <2>2. k = 1 => Message("create", m, 1) # msg
    BY <1>1a, <1>2 DEF Message
  <2>3. k # 1 => Message("synchronize", m, k) # msg
    BY <1>1a, <1>2 DEF Message
  <2> QED
    BY <2>1, <2>2, <2>3 DEF Unread
<1>3. ASSUME NEW k \in Operations, k = ops[n] + 1 PROVE Unread(box \cup {msg}, waiting, n, k)
  BY <1>1a, <1>1, <1>3 DEF Unread
<1>4. ASSUME NEW m \in Members, NEW k \in Operations
      PROVE  (k <= new[m] /\ ~Unread(box \cup {msg}, waiting, m, k))
               <=> (k <= ops[m] /\ ~Unread(box, waiting, m, k))
  <2>1. CASE m = n /\ k = ops[n] + 1
    <3>1. Unread(box \cup {msg}, waiting, m, k)
      BY <1>3, <2>1
    <3>2. ~(k <= ops[m])
      BY <1>1, <2>1
    <3> QED
      BY <3>1, <3>2
  <2>2. CASE m # n
    <3>1. new[m] = ops[m]
      BY <1>1, <2>2
    <3>2. Unread(box \cup {msg}, waiting, m, k) <=> Unread(box, waiting, m, k)
      BY <1>2, <2>2
    <3> QED
      BY <3>1, <3>2
  <2>3. CASE m = n /\ k # ops[n] + 1
    <3>1. k <= new[m] <=> k <= ops[m]
      BY <1>1, <2>3
    <3> QED
      BY <1>2, <2>3, <3>1
  <2> QED
    BY <2>1, <2>2, <2>3
<1>5. CountedOf(box \cup {msg}, waiting, new) = CountedOf(box, waiting, ops)
  BY <1>4 DEF CountedOf
<1> QED
  BY <1>5 DEF msg

\* A pod counts a message.
LEMMA CountedWhenCounted ==
    ASSUME NEW box \in SUBSET Messages, NEW waiting \in SUBSET Members, NEW ops,
           NEW msg \in box, msg.type # "idp", Sent(box, waiting, ops)
    PROVE  /\ <<msg.from, msg.no>> \notin CountedOf(box, waiting, ops)
           /\ CountedOf(box \ {msg}, waiting, ops)
                = CountedOf(box, waiting, ops) \cup {<<msg.from, msg.no>>}
<1>1. /\ msg.from \in Members /\ msg.no \in Operations /\ msg.no <= ops[msg.from]
      /\ msg = Message(msg.type, msg.from, msg.no)
  BY MessageIs DEF Sent, Messages, Operations
<1>2. \/ msg = Message("create", msg.from, 1) /\ msg.no = 1
      \/ msg = Message("woken", msg.from, 1) /\ msg.no = 1
      \/ msg = Message("synchronize", msg.from, msg.no) /\ msg.no # 1
  <2>1. msg.type \in {"create", "woken", "synchronize"}
    BY DEF Messages
  <2>2. msg.type = "synchronize" => msg.no # 1
    <3>1. msg.type = "synchronize" => msg.no >= 2
      BY DEF Sent
    <3> QED
      BY <3>1
  <2> QED
    BY <1>1, <2>1, <2>2 DEF Sent
<1>3. Unread(box, waiting, msg.from, msg.no)
  BY <1>2 DEF Unread
<1>4. ~Unread(box \ {msg}, waiting, msg.from, msg.no)
  <2>1. CASE msg = Message("create", msg.from, 1) /\ msg.no = 1
    <3>1. msg.from \notin waiting /\ Message("woken", msg.from, 1) \notin box
      BY <2>1 DEF Sent, Message
    <3> QED
      BY <2>1, <3>1 DEF Unread
  <2>2. CASE msg = Message("woken", msg.from, 1) /\ msg.no = 1
    <3>1. msg.from \notin waiting
      BY <2>2 DEF Sent
    <3>2. Message("create", msg.from, 1) \notin box
      <4>1. /\ Message("create", msg.from, 1).from = msg.from
            /\ Message("create", msg.from, 1).type = "create"
        BY DEF Message
      <4> QED
        BY <2>2, <4>1 DEF Sent
    <3> QED
      BY <2>2, <3>1, <3>2 DEF Unread
  <2>3. CASE msg = Message("synchronize", msg.from, msg.no) /\ msg.no # 1
    BY <2>3 DEF Unread
  <2> QED
    BY <1>2, <2>1, <2>2, <2>3
<1>5. ASSUME NEW m \in Members, NEW k \in Operations, ~(m = msg.from /\ k = msg.no)
      PROVE  Unread(box \ {msg}, waiting, m, k) <=> Unread(box, waiting, m, k)
  <2>1. /\ k = 1 => Message("create", m, 1) # msg /\ Message("woken", m, 1) # msg
        /\ Message("synchronize", m, k) # msg
    BY <1>2, <1>5 DEF Message
  <2> QED
    BY <2>1 DEF Unread
<1> QED
  BY <1>1, <1>3, <1>4, <1>5 DEF CountedOf

\* Member m leaves the operation that it is in.
Leaves(m) == AwaitAll(m) /\ count[Home[m]] = total[Home[m]]

\* A step counts the message of one operation at a pod, or nothing changes
\* there, unless a member leaves.
LEMMA CountedStep ==
    ASSUME Inv, [Next]_vars, NEW p \in Pods
    PROVE  \/ Counted(p)' = Counted(p) /\ count'[p] = count[p]
           \/ /\ \E o \in Members \X Operations :
                    o \notin Counted(p) /\ Counted(p)' = Counted(p) \cup {o}
              /\ count'[p] = count[p] + 1
           \/ \E m \in Members : Leaves(m)
<1>1. /\ inbox \in [Pods -> SUBSET Messages] /\ late \in [Pods -> SUBSET Members]
      /\ entered \in [Members -> Nat] /\ count \in [Pods -> Nat]
      /\ Home \in [Members -> Pods] /\ Len(Program) \in Nat
      /\ MessagesMatch /\ PlacesMatch /\ EntriesMatch
  <2>1. entered \in [Members -> Nat]
    BY StaticGroupAssumption DEF Inv, GroupInv, TypeOK
  <2> QED
    BY <2>1, StaticGroupAssumption DEF Inv, GroupInv, TypeOK, Messages
<1>2. Counted(p) = CountedOf(inbox[p], late[p], entered)
      /\ Counted(p)' = CountedOf(inbox'[p], late'[p], entered')
  BY DEF Counted
<1>3. inbox[p] \in SUBSET Messages /\ late[p] \in SUBSET Members /\ Sent(inbox[p], late[p], entered)
  BY <1>1 DEF MessagesMatch
<1>4. ASSUME NEW q \in Pods, NEW boxes \in [Pods -> SUBSET Messages], Notify(q, boxes)
      PROVE  Counted(p)' = CountedOf(boxes[p], late[p], entered')
  <2>1. CASE p = q
    <3>1. inbox'[p] = boxes[p] \cup Woken(late[p]) /\ late'[p] = {}
      BY <1>1, <1>4, <2>1 DEF Notify, Woken
    <3> QED
      BY <1>2, <1>3, <1>4, <3>1, CountedWhenNotified
  <2>2. CASE p # q
    <3>1. inbox'[p] = boxes[p] /\ late'[p] = late[p]
      BY <1>1, <1>4, <2>2 DEF Notify
    <3> QED
      BY <1>2, <3>1
  <2> QED
    BY <2>1, <2>2
<1>5. ASSUME NEW m \in Members, CreateStaticGroup(m)
      PROVE  Counted(p)' = Counted(p) /\ count'[p] = count[p]
  <2> DEFINE boxes == [q \in Pods |-> inbox[q] \cup {Message("create", m, 1)}]
  <2>1. boxes \in [Pods -> SUBSET Messages] /\ boxes[p] = inbox[p] \cup {Message("create", m, 1)}
    <3>1. Message("create", m, 1) \in Messages
      BY <1>1 DEF Message, Messages
    <3> QED
      BY <1>1, <3>1
  <2>2. Notify(Home[m], boxes) /\ Home[m] \in Pods
    BY <1>1, <1>5 DEF CreateStaticGroup
  <2>3. entered[m] = 0 /\ entered' = [entered EXCEPT ![m] = entered[m] + 1]
    <3>1. entered[m] = 0 /\ entered' = [entered EXCEPT ![m] = 1]
      BY <1>1, <1>5 DEF CreateStaticGroup, PlacesMatch
    <3>2. 1 = entered[m] + 1
      BY <3>1
    <3> QED
      BY <3>1, <3>2
  <2> HIDE DEF boxes
  <2>4. Counted(p)' = CountedOf(boxes[p], late[p], entered')
    BY <1>4, <2>1, <2>2
  <2>5. CountedOf(inbox[p] \cup {Message("create", m, 1)}, late[p], entered')
          = CountedOf(inbox[p], late[p], entered)
    <3>1. Message("create", m, 1) = Entering(entered, m)
      BY <2>3 DEF Entering
    <3>2. entered \in [Members -> Nat]
      BY <1>1
    <3>3. Enters(entered, entered', m)
      BY <2>3 DEF Enters
    <3>4. CountedOf(inbox[p] \cup {Entering(entered, m)}, late[p], entered')
            = CountedOf(inbox[p], late[p], entered)
      BY <1>3, <3>2, <3>3, CountedWhenSent
    <3> QED
      BY <3>1, <3>4
  <2>6. count'[p] = count[p]
    BY <1>1, <1>5 DEF CreateStaticGroup, NewEntry, EntriesMatch
  <2> QED
    BY <1>2, <2>1, <2>3, <2>4, <2>5, <2>6
<1>6. ASSUME NEW m \in Members, SynchronizeStaticGroup(m)
      PROVE  Counted(p)' = Counted(p) /\ count'[p] = count[p]
  <2> DEFINE msg == Message("synchronize", m, entered[m] + 1)
  <2>1. entered[m] >= 1
    BY <1>1, <1>6 DEF SynchronizeStaticGroup, PlacesMatch
  <2>2. /\ entered' = [entered EXCEPT ![m] = entered[m] + 1]
        /\ inbox'[p] = inbox[p] \cup {msg} /\ UNCHANGED <<late, count>>
    BY <1>1, <1>6 DEF SynchronizeStaticGroup, Multicast, records
  <2>3. CountedOf(inbox[p] \cup {msg}, late[p], entered')
          = CountedOf(inbox[p], late[p], entered)
    <3>1. msg = Entering(entered, m)
      BY <2>1 DEF Entering
    <3>2. entered \in [Members -> Nat]
      BY <1>1
    <3>3. Enters(entered, entered', m)
      BY <2>2 DEF Enters
    <3>4. CountedOf(inbox[p] \cup {Entering(entered, m)}, late[p], entered')
            = CountedOf(inbox[p], late[p], entered)
      BY <1>3, <3>2, <3>3, CountedWhenSent
    <3> QED
      BY <3>1, <3>4
  <2> QED
    BY <1>2, <2>2, <2>3
<1>7. ASSUME UNCHANGED <<inbox, late, entered, count>>
      PROVE  Counted(p)' = Counted(p) /\ count'[p] = count[p]
  BY <1>2, <1>7
<1>8. ASSUME NEW m \in Members, AwaitAll(m)
      PROVE  Leaves(m) \/ (Counted(p)' = Counted(p) /\ count'[p] = count[p])
  BY <1>2, <1>8 DEF AwaitAll, Leaves
<1>9. ASSUME NEW m \in Members, CreateCollective(m)
      PROVE  Counted(p)' = Counted(p) /\ count'[p] = count[p]
  <2>1. CASE UNCHANGED inbox
    BY <1>7, <1>9, <2>1 DEF CreateCollective, records
  <2>2. CASE Multicast(Message("idp", m, entered[m]))
    <3>1. entered[m] \in 1 .. Len(Program) + 1
      BY <1>1, <1>9 DEF CreateCollective, PlacesMatch, Doing
    <3>2. Message("idp", m, entered[m]) \in Messages /\ Message("idp", m, entered[m]).type = "idp"
      BY <3>1 DEF Message, Messages
    <3>3. /\ inbox'[p] = inbox[p] \cup {Message("idp", m, entered[m])}
          /\ UNCHANGED <<late, entered, count>>
      BY <1>1, <1>9, <2>2 DEF Multicast, CreateCollective, records
    <3> QED
      BY <1>2, <1>3, <3>2, <3>3, CountedWithIdp
  <2> QED
    BY <1>9, <2>1, <2>2 DEF CreateCollective
<1>10. ASSUME NEW m \in Members, GetStaticGroupCCIdp(m) \/ SpuriousWakeup(m)
       PROVE  Counted(p)' = Counted(p) /\ count'[p] = count[p]
  BY <1>7, <1>10 DEF GetStaticGroupCCIdp, SpuriousWakeup, records
<1>11. ASSUME NEW q \in Pods, NEW msg \in inbox[q]
       PROVE  /\ Handled(q, msg) \in [Pods -> SUBSET Messages]
              /\ Handled(q, msg)[p] = IF p = q THEN inbox[p] \ {msg} ELSE inbox[p]
  BY <1>1 DEF Handled
<1>12. ASSUME NEW q \in Pods, NEW msg \in inbox[q], msg.type # "idp",
              Count(q, Handled(q, msg)), UNCHANGED entered
       PROVE  \/ Counted(p)' = Counted(p) /\ count'[p] = count[p]
              \/ /\ \E o \in Members \X Operations :
                       o \notin Counted(p) /\ Counted(p)' = Counted(p) \cup {o}
                 /\ count'[p] = count[p] + 1
  <2>1. Counted(p)' = CountedOf(Handled(q, msg)[p], late[p], entered)
    <3>1. CASE Notify(q, Handled(q, msg))
      BY <1>4, <1>11, <1>12, <3>1
    <3>2. CASE inbox' = Handled(q, msg) /\ UNCHANGED late
      BY <1>2, <1>12, <3>2
    <3> QED
      BY <1>12, <3>1, <3>2 DEF Count
  <2>2. count' = [count EXCEPT ![q] = @ + 1]
    BY <1>12 DEF Count
  <2>3. CASE p = q
    <3>0. msg \in inbox[p] /\ Handled(q, msg)[p] = inbox[p] \ {msg}
      BY <1>11, <2>3
    <3>1. /\ <<msg.from, msg.no>> \notin Counted(p)
          /\ Counted(p)' = Counted(p) \cup {<<msg.from, msg.no>>}
      BY <1>2, <1>3, <1>12, <2>1, <3>0, CountedWhenCounted
    <3>2. <<msg.from, msg.no>> \in Members \X Operations
      BY <1>1 DEF Messages, Operations
    <3>3. count'[p] = count[p] + 1
      BY <1>1, <2>2, <2>3
    <3> QED
      BY <3>1, <3>2, <3>3
  <2>4. CASE p # q
    BY <1>1, <1>2, <1>11, <2>1, <2>2, <2>4
  <2> QED
    BY <2>3, <2>4
<1>13. ASSUME NEW q \in Pods, NEW msg \in inbox[q], HandleCreateStaticGroup(q, msg)
       PROVE  \/ Counted(p)' = Counted(p) /\ count'[p] = count[p]
              \/ /\ \E o \in Members \X Operations :
                       o \notin Counted(p) /\ Counted(p)' = Counted(p) \cup {o}
                 /\ count'[p] = count[p] + 1
  <2>1. CASE /\ msg.type = "create" /\ late' = [late EXCEPT ![q] = @ \cup {msg.from}]
             /\ inbox' = Handled(q, msg) /\ UNCHANGED <<records, members>>
    <3>1. CASE p = q
      <4>1. /\ inbox'[p] = inbox[p] \ {msg} /\ late'[p] = late[p] \cup {msg.from}
            /\ UNCHANGED <<entered, count>>
        BY <1>1, <1>11, <2>1, <3>1 DEF records, members
      <4> QED
        BY <1>2, <1>3, <2>1, <3>1, <4>1, CountedWhenLate
    <3>2. CASE p # q
      <4>1. inbox'[p] = inbox[p] /\ late'[p] = late[p] /\ UNCHANGED <<entered, count>>
        BY <1>1, <1>11, <2>1, <3>2 DEF records, members
      <4> QED
        BY <1>2, <4>1
    <3> QED
      BY <3>1, <3>2
  <2> QED
    BY <1>12, <1>13, <2>1 DEF HandleCreateStaticGroup
<1>14. ASSUME NEW q \in Pods, NEW msg \in inbox[q], HandleSynchronizeStaticGroup(q, msg)
       PROVE  \/ Counted(p)' = Counted(p) /\ count'[p] = count[p]
              \/ /\ \E o \in Members \X Operations :
                       o \notin Counted(p) /\ Counted(p)' = Counted(p) \cup {o}
                 /\ count'[p] = count[p] + 1
  BY <1>12, <1>14 DEF HandleSynchronizeStaticGroup
<1>15. ASSUME NEW q \in Pods, NEW msg \in inbox[q], HandleStaticGroupCCIdp(q, msg)
       PROVE  Counted(p)' = Counted(p) /\ count'[p] = count[p]
  <2>1. Notify(q, Handled(q, msg)) /\ UNCHANGED <<entered, count>> /\ msg.type = "idp"
    BY <1>15 DEF HandleStaticGroupCCIdp
  <2>2. Counted(p)' = CountedOf(Handled(q, msg)[p], late[p], entered)
    BY <1>4, <1>11, <2>1
  <2>3. msg \in Messages
    BY <1>1
  <2>4. CountedOf(inbox[p] \ {msg}, late[p], entered) = CountedOf(inbox[p], late[p], entered)
    BY <1>3, <2>1, <2>3, CountedWithIdp
  <2> QED
    BY <1>2, <1>11, <2>1, <2>2, <2>4
<1>16. ASSUME NEW q \in Pods, LateWakeup(q)
       PROVE  Counted(p)' = Counted(p) /\ count'[p] = count[p]
  <2>1. PICK m \in late[q] :
          /\ late' = [late EXCEPT ![q] = @ \ {m}]
          /\ inbox' = [inbox EXCEPT ![q] = @ \cup {Message("woken", m, 1)}]
          /\ UNCHANGED <<records, members>>
    BY <1>16 DEF LateWakeup
  <2>2. UNCHANGED <<entered, count>>
    BY <2>1 DEF records, members
  <2>3. CASE p = q
    BY <1>1, <1>2, <1>3, <2>1, <2>2, <2>3, CountedWhenWoken
  <2>4. CASE p # q
    BY <1>1, <1>2, <2>1, <2>2, <2>4
  <2> QED
    BY <2>3, <2>4
<1>17. CASE UNCHANGED vars
  BY <1>7, <1>17 DEF vars, records, members
<1> QED
  BY <1>5, <1>6, <1>8, <1>9, <1>10, <1>13, <1>14, <1>15, <1>16, <1>17 DEF Next, Proceed, Handle

------------------------------------------------------------------------------
(* Entering and leaving *)

LEMMA CountingTypes ==
    ASSUME Inv
    PROVE  /\ entered \in [Members -> Nat] /\ Left \in [Members -> Nat]
           /\ count \in [Pods -> Nat] /\ Home \in [Members -> Pods] /\ N \in Nat
           /\ \A m \in Members : entered[m] = Left[m] \/ entered[m] = Left[m] + 1
           /\ \A m, n \in Members : Left[m] <= entered[n]
<1>1. entered \in [Members -> 0 .. Len(Program) + 1] /\ PlacesMatch
  BY DEF Inv, GroupInv, TypeOK
<1> QED
  BY <1>1, LeftFacts, MembersCount, StaticGroupAssumption DEF Inv, GroupInv, TypeOK, Together

LEMMA CountedFacts ==
    ASSUME NEW box, NEW waiting, NEW ops
    PROVE  /\ CountedOf(box, waiting, ops) \in SUBSET (Members \X Nat)
           /\ IsFiniteSet(CountedOf(box, waiting, ops))
           /\ \A o \in CountedOf(box, waiting, ops) : o[2] >= 1 /\ o[2] <= ops[o[1]]
<1>1. Operations \subseteq Nat \ {0} /\ IsFiniteSet(Operations)
  <2>1. Len(Program) + 1 \in Int /\ 1 \in Int
    BY StaticGroupAssumption
  <2>2. IsFiniteSet(1 .. Len(Program) + 1)
    BY <2>1, FS_Interval
  <2> QED
    BY <2>1, <2>2 DEF Operations
<1>2. IsFiniteSet(Members \X Operations)
  BY <1>1, StaticGroupAssumption, FS_Product
<1>3. CountedOf(box, waiting, ops) \in SUBSET (Members \X Operations)
  BY DEF CountedOf
<1>4. IsFiniteSet(CountedOf(box, waiting, ops))
  BY <1>2, <1>3, FS_Subset
<1>5. ASSUME NEW o \in CountedOf(box, waiting, ops) PROVE o[2] >= 1 /\ o[2] <= ops[o[1]]
  <2>1. o[2] \in Operations /\ o[2] <= ops[o[1]]
    BY DEF CountedOf
  <2>2. \A k \in Nat \ {0} : k >= 1
    OBVIOUS
  <2>3. o[2] >= 1
    BY <1>1, <2>1, <2>2
  <2> QED
    BY <2>1, <2>3
<1>6. CountedOf(box, waiting, ops) \in SUBSET (Members \X Nat)
  BY <1>1, <1>3
<1> QED
  BY <1>4, <1>5, <1>6

\* Whoever leaves an operation finds that everyone has entered it, and nobody
\* in its pod is ahead of it.
LEMMA LeaveFacts ==
    ASSUME Inv, NEW m \in Members, Leaves(m)
    PROVE  /\ \A n \in Members : entered[m] <= entered[n]
           /\ \A n \in Members : Home[n] = Home[m] => Left[n] <= Left[m]
           /\ Cardinality(Counted(Home[m])) = N * entered[m]
           /\ entered[m] = Left[m] + 1 /\ total[Home[m]] = N
<1>1. /\ entered \in [Members -> Nat] /\ Left \in [Members -> Nat] /\ count \in [Pods -> Nat]
      /\ Home \in [Members -> Pods] /\ N \in Nat
      /\ \A k \in Members : entered[k] = Left[k] \/ entered[k] = Left[k] + 1
      /\ \A k, n \in Members : Left[k] <= entered[n]
  BY CountingTypes
<1>2. entered[m] >= 1 /\ Left[m] = entered[m] - 1
  <2>1. pc[m] \in {"creating", "syncing"} /\ entered[m] \in Nat
    BY <1>1 DEF Leaves, AwaitAll
  <2>2. entered[m] >= 1
    BY <2>1 DEF Inv, GroupInv, PlacesMatch
  <2> QED
    BY <2>1, <2>2 DEF Left
<1>3. entered[m] = Left[m] + 1
  BY <1>1, <1>2
<1>4. count[Home[m]] = N /\ total[Home[m]] = N
  BY <1>1, <1>2 DEF Leaves, Inv, GroupInv, EntriesMatch
<1>5. PICK a \in Members :
        /\ Home[a] = Home[m] /\ Ahead(a)
        /\ Cardinality(Counted(Home[a])) = count[Home[a]] + N * Left[a]
  BY DEF Inv, GroupInv, RoundsMatch
<1> DEFINE S == Counted(Home[m])
<1>6. S \in SUBSET (Members \X Nat) /\ \A o \in S : o[2] >= 1 /\ o[2] <= entered[o[1]]
  BY CountedFacts DEF Counted
<1>7. Cardinality(S) = N + N * Left[a]
  BY <1>4, <1>5
<1> HIDE DEF S
<1>8. \A n \in Members : Left[a] + 1 <= entered[n]
  BY <1>1, <1>6, <1>7, Counting
<1>9. Left[m] <= Left[a] /\ Left[a] + 1 <= entered[m]
  BY <1>5, <1>8 DEF Ahead
<1>10. Left[a] = Left[m]
  BY <1>1, <1>3, <1>9
<1>11. N + N * Left[a] = N * (Left[a] + 1)
  BY <1>1
<1>12. Cardinality(S) = N * entered[m]
  BY <1>3, <1>7, <1>10, <1>11
<1> QED
  BY <1>3, <1>4, <1>5, <1>8, <1>10, <1>12 DEF Ahead, S

\* A member enters operations one by one, and has left none of those that it
\* is in.
LEMMA EnterLeaveStep ==
    ASSUME Inv, [Next]_vars
    PROVE  \/ entered' = entered /\ Left' = Left
           \/ \E m \in Members : entered[m] = Left[m] /\ Enters(entered, entered', m) /\ Left' = Left
           \/ \E m \in Members : Leaves(m)
<1>1. /\ entered \in [Members -> Nat] /\ pc \in [Members -> Places] /\ PlacesMatch
  BY CountingTypes DEF Inv, GroupInv, TypeOK
<1>2. ASSUME NEW m \in Members, CreateStaticGroup(m)
      PROVE  entered[m] = Left[m] /\ Enters(entered, entered', m) /\ Left' = Left
  <2>1. /\ pc[m] = "new" /\ entered[m] = 0 /\ entered' = [entered EXCEPT ![m] = 1]
        /\ pc' = [pc EXCEPT ![m] = "creating"]
    BY <1>1, <1>2 DEF CreateStaticGroup, PlacesMatch
  <2>2. 1 = entered[m] + 1 /\ entered[m] = 1 - 1
    BY <2>1
  <2>3. Left' = Left
    BY <1>1, <2>1, <2>2 DEF Left
  <2> QED
    BY <2>1, <2>2, <2>3 DEF Left, Enters
<1>3. ASSUME NEW m \in Members, SynchronizeStaticGroup(m)
      PROVE  entered[m] = Left[m] /\ Enters(entered, entered', m) /\ Left' = Left
  <2>1. /\ pc[m] \in {"ready", "made"} /\ entered' = [entered EXCEPT ![m] = entered[m] + 1]
        /\ pc' = [pc EXCEPT ![m] = "syncing"]
    BY <1>3 DEF SynchronizeStaticGroup
  <2>2. entered[m] \in Nat /\ entered[m] = (entered[m] + 1) - 1
    BY <1>1
  <2>3. Left' = Left
    BY <1>1, <2>1, <2>2 DEF Left
  <2> QED
    BY <2>1, <2>3 DEF Left, Enters
<1>4. ASSUME NEW m \in Members, AwaitAll(m), ~Leaves(m) PROVE entered' = entered /\ Left' = Left
  BY <1>1, <1>4 DEF AwaitAll, Leaves, Left
<1>5. ASSUME NEW m \in Members, CreateCollective(m) \/ GetStaticGroupCCIdp(m)
      PROVE  entered' = entered /\ Left' = Left
  <2>1. /\ entered' = entered /\ pc[m] \in {"ready", "asking"}
        /\ pc' = pc \/ pc' = [pc EXCEPT ![m] = "made"] \/ pc' = [pc EXCEPT ![m] = "asking"]
    BY <1>5 DEF CreateCollective, GetStaticGroupCCIdp
  <2> QED
    BY <1>1, <2>1 DEF Left
<1>6. ASSUME UNCHANGED <<pc, entered>> PROVE entered' = entered /\ Left' = Left
  BY <1>6 DEF Left
<1>7. ASSUME NEW m \in Members, SpuriousWakeup(m) PROVE entered' = entered /\ Left' = Left
  BY <1>6, <1>7 DEF SpuriousWakeup
<1>8. ASSUME NEW p \in Pods, Handle(p) \/ LateWakeup(p) PROVE entered' = entered /\ Left' = Left
  BY <1>6, <1>8 DEF Handle, HandleCreateStaticGroup, HandleSynchronizeStaticGroup,
     HandleStaticGroupCCIdp, LateWakeup, Count, Notify, members
<1>9. CASE UNCHANGED vars
  BY <1>6, <1>9 DEF vars, members
<1> QED
  BY <1>2, <1>3, <1>4, <1>5, <1>7, <1>8, <1>9 DEF Next, Proceed

LEMMA LeaveStep ==
    ASSUME Inv, NEW m \in Members, Leaves(m)
    PROVE  /\ entered' = entered /\ Left' = [Left EXCEPT ![m] = entered[m]]
           /\ count' = [count EXCEPT ![Home[m]] = 0]
           /\ \A p \in Pods : Counted(p)' = Counted(p)
<1>1. /\ pc \in [Members -> Places] /\ entered \in [Members -> Nat]
  BY CountingTypes DEF Inv, GroupInv, TypeOK
<1>2. /\ UNCHANGED <<inbox, late, entered>> /\ pc' = [pc EXCEPT ![m] = "ready"]
      /\ count' = [count EXCEPT ![Home[m]] = 0]
  BY DEF Leaves, AwaitAll, Reset
<1>3. Left' = [Left EXCEPT ![m] = entered[m]]
  BY <1>1, <1>2 DEF Left
<1> QED
  BY <1>2, <1>3 DEF Counted

LEMMA TogetherStep == ASSUME Inv, [Next]_vars PROVE Together'
<1>1. /\ entered \in [Members -> Nat] /\ Left \in [Members -> Nat]
      /\ \A m, n \in Members : Left[m] <= entered[n]
  BY CountingTypes
<1>2. CASE entered' = entered /\ Left' = Left
  BY <1>1, <1>2 DEF Together
<1>3. ASSUME NEW m \in Members, Enters(entered, entered', m), Left' = Left PROVE Together'
  <2>1. \A n \in Members : entered[n] <= entered'[n]
    BY <1>1, <1>3 DEF Enters
  <2>2. \A n \in Members : entered'[n] \in Nat
    BY <1>1, <1>3 DEF Enters
  <2> QED
    BY <1>1, <1>3, <2>1, <2>2 DEF Together
<1>4. ASSUME NEW m \in Members, Leaves(m) PROVE Together'
  <2>1. entered' = entered /\ Left' = [Left EXCEPT ![m] = entered[m]]
    BY <1>4, LeaveStep
  <2>2. \A n \in Members : entered[m] <= entered[n]
    BY <1>4, LeaveFacts
  <2> QED
    BY <1>1, <2>1, <2>2 DEF Together
<1> QED
  BY <1>2, <1>3, <1>4, EnterLeaveStep

LEMMA RoundsStep == ASSUME Inv, [Next]_vars PROVE RoundsMatch'
<1>1. /\ entered \in [Members -> Nat] /\ Left \in [Members -> Nat] /\ count \in [Pods -> Nat]
      /\ Home \in [Members -> Pods] /\ N \in Nat
  BY CountingTypes
<1>2. ASSUME NEW n \in Members
      PROVE  \E a \in Members :
                /\ Home[a] = Home[n] /\ Ahead(a)'
                /\ Cardinality(Counted(Home[a]))' = count'[Home[a]] + N * Left'[a]
  <2>1. PICK a \in Members :
          /\ Home[a] = Home[n] /\ Ahead(a)
          /\ Cardinality(Counted(Home[a])) = count[Home[a]] + N * Left[a]
    BY DEF Inv, GroupInv, RoundsMatch
  <2> DEFINE p == Home[n]
  <2>2. p \in Pods
    BY <1>1
  <2>3. ASSUME NEW m \in Members, Leaves(m), p = Home[m]
        PROVE  /\ Home[m] = Home[n] /\ Ahead(m)'
               /\ Cardinality(Counted(Home[m]))' = count'[Home[m]] + N * Left'[m]
    <3>1. /\ Left' = [Left EXCEPT ![m] = entered[m]]
          /\ count' = [count EXCEPT ![Home[m]] = 0] /\ Counted(Home[m])' = Counted(Home[m])
      BY <2>2, <2>3, LeaveStep
    <3>2. /\ \A k \in Members : Home[k] = Home[m] => Left[k] <= Left[m]
          /\ Cardinality(Counted(Home[m])) = N * entered[m] /\ entered[m] = Left[m] + 1
      BY <2>3, LeaveFacts
    <3>3. Left'[m] = entered[m] /\ count'[Home[m]] = 0
      BY <1>1, <3>1
    <3>4. \A k \in Members : Home[k] = Home[m] => Left'[k] <= Left'[m]
      BY <1>1, <3>1, <3>2
    <3>5. 0 + N * entered[m] = N * entered[m]
      BY <1>1
    <3> QED
      BY <2>3, <3>1, <3>2, <3>3, <3>4, <3>5 DEF Ahead
  <2>4. ASSUME NEW m \in Members, Leaves(m), p # Home[m]
        PROVE  /\ Ahead(a)'
               /\ Cardinality(Counted(Home[a]))' = count'[Home[a]] + N * Left'[a]
    <3>1. /\ Left' = [Left EXCEPT ![m] = entered[m]]
          /\ count' = [count EXCEPT ![Home[m]] = 0] /\ Counted(p)' = Counted(p)
      BY <2>2, <2>4, LeaveStep
    <3>2. count'[p] = count[p] /\ \A k \in Members : Home[k] = p => Left'[k] = Left[k]
      BY <1>1, <2>2, <2>4, <3>1
    <3>3. Ahead(a)'
      BY <2>1, <3>2 DEF Ahead
    <3> QED
      BY <2>1, <3>1, <3>2, <3>3
  <2>5. ASSUME Left' = Left, Counted(p)' = Counted(p), count'[p] = count[p]
        PROVE  /\ Ahead(a)'
               /\ Cardinality(Counted(Home[a]))' = count'[Home[a]] + N * Left'[a]
    BY <2>1, <2>5 DEF Ahead
  <2>6. ASSUME Left' = Left, NEW o \in Members \X Operations, o \notin Counted(p),
               Counted(p)' = Counted(p) \cup {o}, count'[p] = count[p] + 1
        PROVE  /\ Ahead(a)'
               /\ Cardinality(Counted(Home[a]))' = count'[Home[a]] + N * Left'[a]
    <3>1. IsFiniteSet(Counted(p))
      BY CountedFacts DEF Counted
    <3>2. Cardinality(Counted(p) \cup {o}) = Cardinality(Counted(p)) + 1
      BY <2>6, <3>1, FS_AddElement
    <3>3. Ahead(a)'
      BY <2>1, <2>6 DEF Ahead
    <3>4. count[p] \in Nat /\ N * Left[a] \in Nat
      BY <1>1, <2>2
    <3>5. (count[p] + N * Left[a]) + 1 = (count[p] + 1) + N * Left[a]
      BY <3>4
    <3> QED
      BY <2>1, <2>6, <3>2, <3>3, <3>5
  <2>7. CASE \E m \in Members : Leaves(m)
    BY <2>1, <2>3, <2>4, <2>7
  <2>8. CASE ~\E m \in Members : Leaves(m)
    <3>1. Left' = Left
      BY <2>8, EnterLeaveStep
    <3> QED
      BY <2>1, <2>2, <2>5, <2>6, <2>8, <3>1, CountedStep
  <2> QED
    BY <2>7, <2>8
<1> QED
  BY <1>2 DEF RoundsMatch

------------------------------------------------------------------------------
(* The resources of the collectives *)

LEMMA ProgramTypes ==
    ASSUME Inv
    PROVE  /\ entered \in [Members -> Nat] /\ pc \in [Members -> Places]
           /\ cc \in [Pods -> 0 .. Len(Program)] /\ inbox \in [Pods -> SUBSET Messages]
           /\ Home \in [Members -> Pods] /\ Root \in Members /\ Len(Program) \in Nat
           /\ PlacesMatch /\ IdpsMatch /\ RootFirst /\ CollectiveAgrees
BY CountingTypes, StaticGroupAssumption DEF Inv, GroupInv, CollectiveInv, TypeOK, Messages

\* The idp that a member finds is that of the collective it is in: the root is
\* past that collective and cannot be further on than one barrier.
LEMMA FindsItsOwn ==
    ASSUME Inv, NEW m \in Members, GetStaticGroupCCIdp(m), cc[Home[m]] # 0
    PROVE  m # Root /\ cc[Home[m]] = entered[m] /\ Created(entered[m])
<1>1. /\ entered \in [Members -> Nat] /\ Left \in [Members -> Nat]
      /\ Left[Root] <= entered[m] /\ Root \in Members /\ Home[m] \in Pods
  BY CountingTypes, StaticGroupAssumption
<1>2. pc[m] = "asking" /\ m # Root
  BY DEF GetStaticGroupCCIdp, Inv, GroupInv, PlacesMatch
<1> DEFINE j == cc[Home[m]]
<1>3. Created(j) /\ ~Past(m, j)
  BY <1>1, <1>2 DEF Inv, CollectiveInv, IdpsMatch
<1>4. j \in Nat /\ j >= entered[m]
  <2>1. j \in Nat
    BY <1>3, StaticGroupAssumption DEF Created
  <2> HIDE DEF j
  <2>2. entered[m] \in Nat /\ ~(j < entered[m])
    BY <1>1, <1>3 DEF Past
  <2> QED
    BY <2>1, <2>2
<1>5. j <= Left[Root]
  <2>1. CASE j < entered[Root]
    <3>1. entered[Root] = Left[Root] \/ entered[Root] = Left[Root] + 1
      BY CountingTypes, <1>1
    <3> HIDE DEF j
    <3> QED
      BY <1>1, <1>4, <2>1, <3>1
  <2>2. CASE j = entered[Root] /\ pc[Root] = "made"
    <3>1. Left[Root] = entered[Root]
      BY <1>1, <2>2 DEF Left
    <3> HIDE DEF j
    <3> QED
      BY <1>1, <2>2, <3>1
  <2> QED
    BY <1>3, <2>1, <2>2 DEF Created, Past
<1>6. j = entered[m]
  <2> HIDE DEF j
  <2> QED
    BY <1>1, <1>4, <1>5
<1> QED
  BY <1>2, <1>3, <1>6

\* Member m gets the resource of its collective: it makes it or finds its idp.
Gets(m) ==
    \/ m = Root /\ CreateCollective(m)
    \/ GetStaticGroupCCIdp(m) /\ cc[Home[m]] # 0

LEMMA PastStep ==
    ASSUME Inv, [Next]_vars, NEW m \in Members, NEW k \in 1 .. Len(Program),
           Program[k] = "collective"
    PROVE  /\ Past(m, k) => Past(m, k)'
           /\ Past(m, k)' => Past(m, k) \/ (k = entered[m] /\ Gets(m))
<1> DEFINE Goal == /\ Past(m, k) => Past(m, k)'
                   /\ Past(m, k)' => Past(m, k) \/ (k = entered[m] /\ Gets(m))
<1>1. /\ entered \in [Members -> Nat] /\ pc \in [Members -> Places]
      /\ PlacesMatch /\ k \in Nat /\ k >= 1
  BY ProgramTypes
<1>2. ASSUME entered'[m] = entered[m], pc'[m] = "made" <=> pc[m] = "made" PROVE Goal
  BY <1>2 DEF Past
<1>3. ASSUME NEW n \in Members, CreateStaticGroup(n) PROVE Goal
  <2>1. CASE n = m
    <3>1. /\ entered[m] = 0 /\ entered'[m] = 1 /\ pc'[m] = "creating"
      BY <1>1, <1>3, <2>1 DEF CreateStaticGroup, PlacesMatch
    <3> QED
      BY <1>1, <3>1 DEF Past
  <2>2. CASE n # m
    BY <1>1, <1>2, <1>3, <2>2 DEF CreateStaticGroup
  <2> QED
    BY <2>1, <2>2
<1>4. ASSUME NEW n \in Members, SynchronizeStaticGroup(n) PROVE Goal
  <2>1. CASE n = m
    <3>1. /\ entered'[m] = entered[m] + 1 /\ pc'[m] = "syncing" /\ entered[m] \in Nat
          /\ pc[m] = "made" \/ (pc[m] = "ready" /\ Program[entered[m]] = "synchronize")
      BY <1>1, <1>4, <2>1 DEF SynchronizeStaticGroup, Doing
    <3>2. Past(m, k)' <=> k < entered[m] \/ k = entered[m]
      BY <1>1, <3>1 DEF Past
    <3>3. k = entered[m] => pc[m] = "made"
      BY <3>1
    <3> QED
      BY <3>2, <3>3 DEF Past
  <2>2. CASE n # m
    BY <1>1, <1>2, <1>4, <2>2 DEF SynchronizeStaticGroup
  <2> QED
    BY <2>1, <2>2
<1>5. ASSUME NEW n \in Members, AwaitAll(n) PROVE Goal
  BY <1>1, <1>2, <1>5 DEF AwaitAll
<1>6. ASSUME NEW n \in Members, CreateCollective(n) \/ GetStaticGroupCCIdp(n), ~Gets(n) PROVE Goal
  BY <1>1, <1>2, <1>6 DEF CreateCollective, GetStaticGroupCCIdp, Gets
<1>7. ASSUME NEW n \in Members, Gets(n) PROVE Goal
  <2>1. /\ entered' = entered /\ pc' = [pc EXCEPT ![n] = "made"]
        /\ pc[n] \in {"ready", "asking"}
    BY <1>7 DEF CreateCollective, GetStaticGroupCCIdp, Gets
  <2>2. CASE n = m
    BY <1>1, <1>7, <2>1, <2>2 DEF Past
  <2>3. CASE n # m
    BY <1>1, <1>2, <2>1, <2>3
  <2> QED
    BY <2>2, <2>3
<1>8. ASSUME NEW n \in Members, SpuriousWakeup(n) PROVE Goal
  BY <1>2, <1>8 DEF SpuriousWakeup
<1>9. ASSUME NEW p \in Pods, Handle(p) \/ LateWakeup(p) PROVE Goal
  BY <1>2, <1>9 DEF Handle, HandleCreateStaticGroup, HandleSynchronizeStaticGroup,
     HandleStaticGroupCCIdp, LateWakeup, Count, members
<1>10. CASE UNCHANGED vars
  BY <1>2, <1>10 DEF vars, members
<1> QED
  BY <1>3, <1>4, <1>5, <1>6, <1>7, <1>8, <1>9, <1>10 DEF Next, Proceed

LEMMA RootFirstStep == ASSUME Inv, [Next]_vars PROVE RootFirst'
<1> SUFFICES ASSUME NEW m \in Members, NEW k \in 1 .. Len(Program),
                    Program[k] = "collective", Past(m, k)'
             PROVE  Past(Root, k)'
  BY DEF RootFirst
<1>1. Root \in Members /\ RootFirst
  BY ProgramTypes
<1>2. CASE Past(m, k)
  <2>1. Past(Root, k)
    BY <1>1, <1>2 DEF RootFirst
  <2> QED
    BY <1>1, <2>1, PastStep
<1>3. CASE k = entered[m] /\ Gets(m) /\ m # Root
  <2>1. Created(k)
    BY <1>3, FindsItsOwn DEF Gets
  <2> QED
    BY <1>1, <2>1, PastStep DEF Created
<1> QED
  BY <1>2, <1>3, PastStep

LEMMA CollectiveStep == ASSUME Inv, [Next]_vars PROVE CollectiveAgrees'
<1>1. /\ entered \in [Members -> Nat] /\ pc \in [Members -> Places]
      /\ got \in [Members -> 0 .. Len(Program)] /\ CollectiveAgrees
  BY ProgramTypes DEF Inv, GroupInv, TypeOK
<1>2. ASSUME NEW n \in Members, CreateStaticGroup(n) \/ SynchronizeStaticGroup(n) \/ AwaitAll(n)
      PROVE  CollectiveAgrees'
  BY <1>1, <1>2 DEF CreateStaticGroup, SynchronizeStaticGroup, AwaitAll, CollectiveAgrees
<1>3. ASSUME NEW n \in Members, CreateCollective(n) PROVE CollectiveAgrees'
  BY <1>1, <1>3 DEF CreateCollective, CollectiveAgrees
<1>4. ASSUME NEW n \in Members, GetStaticGroupCCIdp(n) PROVE CollectiveAgrees'
  <2>1. cc[Home[n]] # 0 => cc[Home[n]] = entered[n]
    BY <1>4, FindsItsOwn
  <2> QED
    BY <1>1, <1>4, <2>1 DEF GetStaticGroupCCIdp, CollectiveAgrees
<1>5. ASSUME UNCHANGED <<pc, entered, got>> PROVE CollectiveAgrees'
  BY <1>1, <1>5 DEF CollectiveAgrees
<1>6. ASSUME NEW n \in Members, SpuriousWakeup(n) PROVE CollectiveAgrees'
  BY <1>5, <1>6 DEF SpuriousWakeup
<1>7. ASSUME NEW p \in Pods, Handle(p) \/ LateWakeup(p) PROVE CollectiveAgrees'
  BY <1>5, <1>7 DEF Handle, HandleCreateStaticGroup, HandleSynchronizeStaticGroup,
     HandleStaticGroupCCIdp, LateWakeup, Count, members
<1>8. CASE UNCHANGED vars
  BY <1>5, <1>8 DEF vars, members
<1> QED
  BY <1>2, <1>3, <1>4, <1>6, <1>7, <1>8 DEF Next, Proceed

LEMMA IdpsStep == ASSUME Inv, [Next]_vars PROVE IdpsMatch'
<1>1. /\ entered \in [Members -> Nat] /\ pc \in [Members -> Places]
      /\ cc \in [Pods -> 0 .. Len(Program)] /\ inbox \in [Pods -> SUBSET Messages]
      /\ Home \in [Members -> Pods] /\ Root \in Members /\ Len(Program) \in Nat
      /\ PlacesMatch /\ IdpsMatch /\ RootFirst
  BY ProgramTypes
<1>2. \A j : Created(j) => Created(j)'
  BY <1>1, PastStep DEF Created
<1>2a. \A m \in Members : Gets(m) => pc[m] # "made" /\ pc'[m] = "made"
  BY <1>1 DEF Gets, CreateCollective, GetStaticGroupCCIdp
\* Neither a new idp nor a member that gets one.
<1>3. ASSUME \A q \in Pods : \A msg \in inbox'[q] : msg.type = "idp" => msg \in inbox[q],
             \A q \in Pods : cc'[q] \in {0, cc[q]},
             \A m \in Members : pc'[m] = "made" => pc[m] = "made",
             \A m \in Members : /\ pc'[m] \in {"ready", "asking"} /\ cc'[Home[m]] # 0
                                /\ pc[m] \notin {"ready", "asking"}
                                => pc[m] = "creating"
      PROVE  IdpsMatch'
  <2>1. \A j : \A m \in Members : Created(j) /\ Past(m, j)' => Past(m, j)
    BY <1>2a, <1>3, PastStep DEF Created
  <2>2. ASSUME NEW q \in Pods, NEW msg \in inbox'[q], msg.type = "idp"
        PROVE  /\ Created(msg.no)' /\ cc'[q] # msg.no
               /\ \A m \in Members \ {Root} : Home[m] = q => ~Past(m, msg.no)'
    <3>1. /\ Created(msg.no) /\ cc[q] # msg.no
          /\ \A m \in Members \ {Root} : Home[m] = q => ~Past(m, msg.no)
      BY <1>1, <1>3, <2>2 DEF IdpsMatch
    <3>2. msg.no # 0
      BY <1>1, <3>1 DEF Created
    <3> QED
      BY <1>2, <1>3, <2>1, <3>1, <3>2
  <2>3. ASSUME NEW q \in Pods, cc'[q] # 0 PROVE Created(cc[q])'
    BY <1>1, <1>2, <1>3, <2>3 DEF IdpsMatch
  <2>4. ASSUME NEW m \in Members \ {Root}, pc'[m] \in {"ready", "asking"}, cc'[Home[m]] # 0
        PROVE  ~Past(m, cc[Home[m]])'
    <3>1. cc'[Home[m]] = cc[Home[m]] /\ Created(cc[Home[m]])
      BY <1>1, <1>3, <2>4 DEF IdpsMatch
    <3>2. CASE pc[m] \in {"ready", "asking"}
      BY <1>1, <2>1, <2>4, <3>1, <3>2 DEF IdpsMatch
    <3>3. CASE pc[m] = "creating"
      <4>1. entered[m] = 1 /\ cc[Home[m]] \in 1 .. Len(Program)
        BY <1>1, <3>1, <3>3 DEF PlacesMatch, Created
      <4>2. ~Past(m, cc[Home[m]])
        BY <1>1, <3>3, <4>1 DEF Past
      <4> QED
        BY <2>1, <3>1, <4>2
    <3> QED
      BY <1>3, <2>4, <3>2, <3>3
  <2> QED
    BY <2>2, <2>3, <2>4 DEF IdpsMatch
<1>4. ASSUME NEW n \in Members, CreateStaticGroup(n) PROVE IdpsMatch'
  <2>1. \A q \in Pods : \A msg \in inbox'[q] : msg.type = "idp" => msg \in inbox[q]
    <3> SUFFICES ASSUME NEW q \in Pods, NEW msg \in inbox'[q], msg.type = "idp"
                 PROVE  msg \in inbox[q]
      OBVIOUS
    <3>1. \/ msg \in inbox[q] \/ msg = Message("create", n, 1)
          \/ \E m \in late[Home[n]] : msg = Message("woken", m, 1)
      BY <1>1, <1>4 DEF CreateStaticGroup, Notify
    <3> QED
      BY <3>1 DEF Message
  <2> QED
    BY <1>1, <1>3, <1>4, <2>1 DEF CreateStaticGroup

<1>5. ASSUME NEW n \in Members, SynchronizeStaticGroup(n) PROVE IdpsMatch'
  <2>1. \A q \in Pods : \A msg \in inbox'[q] : msg.type = "idp" => msg \in inbox[q]
    BY <1>1, <1>5 DEF SynchronizeStaticGroup, Multicast, Message
  <2> QED
    BY <1>1, <1>3, <1>5, <2>1 DEF SynchronizeStaticGroup, records
<1>6. ASSUME NEW n \in Members, AwaitAll(n) PROVE IdpsMatch'
  <2>1. CASE UNCHANGED <<inbox, cc, pc>>
    BY <1>1, <1>3, <2>1
  <2>2. CASE /\ UNCHANGED inbox /\ pc' = [pc EXCEPT ![n] = "ready"] /\ Reset(n)
             /\ pc[n] \in {"creating", "syncing"}
    <3>1. CASE pc[n] = "creating"
      BY <1>1, <1>3, <2>2, <3>1 DEF Reset
    <3>2. CASE pc[n] = "syncing"
      <4>1. cc' = [cc EXCEPT ![Home[n]] = 0]
        BY <2>2, <3>2 DEF Reset
      <4> QED
        BY <1>1, <1>3, <2>2, <3>2, <4>1
    <3> QED
      BY <2>2, <3>1, <3>2
  <2> QED
    BY <1>6, <2>1, <2>2 DEF AwaitAll
<1>7. ASSUME NEW n \in Members, CreateCollective(n) PROVE IdpsMatch'
  <2>1. CASE n # Root
    BY <1>1, <1>3, <1>7, <2>1 DEF CreateCollective, records
  <2>2. CASE n = Root
    <3>0. PICK e : e = entered[Root]
      OBVIOUS
    <3>1. /\ e \in 1 .. Len(Program) /\ Program[e] = "collective" /\ pc[Root] = "ready"
          /\ ~Past(Root, e)
      BY <1>1, <1>7, <2>2, <3>0 DEF CreateCollective, Doing, PlacesMatch, Past
    <3>2. /\ UNCHANGED <<cc, entered>> /\ pc' = [pc EXCEPT ![Root] = "made"]
          /\ \A q \in Pods : inbox'[q] = inbox[q] \cup {Message("idp", Root, e)}
      BY <1>1, <1>7, <2>2, <3>0 DEF CreateCollective, Multicast, records
    <3>3. Created(e)'
      BY <1>1, <3>0, <3>1, <3>2 DEF Created, Past
    <3>4. \A j : \A m \in Members \ {Root} : Past(m, j)' <=> Past(m, j)
      BY <1>1, <3>2 DEF Past
    <3>5. \A m \in Members \ {Root} : ~Past(m, e)
      BY <1>1, <3>1 DEF RootFirst
    <3>6. \A q \in Pods : cc[q] # e
      BY <1>1, <3>1 DEF IdpsMatch, Created
    <3>7. ASSUME NEW q \in Pods, NEW msg \in inbox'[q], msg.type = "idp"
          PROVE  /\ Created(msg.no)' /\ cc'[q] # msg.no
                 /\ \A m \in Members \ {Root} : Home[m] = q => ~Past(m, msg.no)'
      <4>1. CASE msg \in inbox[q]
        BY <1>1, <1>2, <3>2, <3>4, <3>7, <4>1 DEF IdpsMatch
      <4>2. CASE msg.no = e
        BY <3>2, <3>3, <3>4, <3>5, <3>6, <4>2
      <4> QED
        BY <3>2, <3>7, <4>1, <4>2 DEF Message
    <3>8. \A q \in Pods : cc'[q] # 0 => Created(cc[q])'
      BY <1>1, <1>2, <3>2 DEF IdpsMatch
    <3>9. \A m \in Members \ {Root} :
            pc'[m] \in {"ready", "asking"} /\ cc'[Home[m]] # 0 => ~Past(m, cc[Home[m]])'
      BY <1>1, <3>2, <3>4 DEF IdpsMatch
    <3> QED
      BY <3>7, <3>8, <3>9 DEF IdpsMatch
  <2> QED
    BY <2>1, <2>2
<1>8. ASSUME NEW n \in Members, GetStaticGroupCCIdp(n) PROVE IdpsMatch'
  <2>1. CASE cc[Home[n]] = 0
    BY <1>1, <1>3, <1>8, <2>1 DEF GetStaticGroupCCIdp, records
  <2>2. CASE cc[Home[n]] # 0
    <3>1. cc[Home[n]] = entered[n] /\ n # Root
      BY <1>8, <2>2, FindsItsOwn
    <3>2. UNCHANGED <<cc, inbox, entered>> /\ pc' = [pc EXCEPT ![n] = "made"]
      BY <1>8, <2>2 DEF GetStaticGroupCCIdp, records
    <3>3. \A j : \A m \in Members : m # n => (Past(m, j)' <=> Past(m, j))
      BY <1>1, <3>2 DEF Past
    <3>4. \A j : Past(n, j)' => Past(n, j) \/ j = cc[Home[n]]
      BY <1>1, <3>1, <3>2 DEF Past
    <3>5. ASSUME NEW q \in Pods, NEW msg \in inbox'[q], msg.type = "idp"
          PROVE  /\ Created(msg.no)' /\ cc'[q] # msg.no
                 /\ \A m \in Members \ {Root} : Home[m] = q => ~Past(m, msg.no)'
      <4>1. /\ Created(msg.no) /\ cc[q] # msg.no
            /\ \A m \in Members \ {Root} : Home[m] = q => ~Past(m, msg.no)
        BY <1>1, <3>2, <3>5 DEF IdpsMatch
      <4> QED
        BY <1>2, <3>2, <3>3, <3>4, <4>1
    <3>6. \A q \in Pods : cc'[q] # 0 => Created(cc[q])'
      BY <1>1, <1>2, <3>2 DEF IdpsMatch
    <3>7. \A m \in Members \ {Root} :
            pc'[m] \in {"ready", "asking"} /\ cc'[Home[m]] # 0 => ~Past(m, cc[Home[m]])'
      BY <1>1, <3>2, <3>3 DEF IdpsMatch
    <3> QED
      BY <3>5, <3>6, <3>7 DEF IdpsMatch
  <2> QED
    BY <2>1, <2>2
<1>9. ASSUME NEW q \in Pods, NEW boxes, Notify(q, boxes),
             boxes = inbox \/ \E msg \in inbox[q] : boxes = Handled(q, msg)
      PROVE  \A p \in Pods : \A msg \in inbox'[p] :
                msg.type = "idp" => msg \in inbox[p] /\ msg \in boxes[p]
  <2>1. ASSUME NEW p \in Pods, NEW msg \in inbox'[p], msg.type = "idp" PROVE msg \in boxes[p]
    <3>1. msg \in boxes[p] \/ \E m \in late[q] : msg = Message("woken", m, 1)
      BY <1>1, <1>9, <2>1 DEF Notify, Handled
    <3> QED
      BY <2>1, <3>1 DEF Message
  <2>2. \A p \in Pods : boxes[p] \subseteq inbox[p]
    <3>1. ASSUME NEW msg \in inbox[q], boxes = Handled(q, msg), NEW p \in Pods
          PROVE  boxes[p] \subseteq inbox[p]
      BY <1>1, <3>1 DEF Handled
    <3> QED
      BY <1>9, <3>1
  <2> QED
    BY <2>1, <2>2
<1>10. ASSUME NEW q \in Pods, NEW msg \in inbox[q], Count(q, Handled(q, msg)),
              UNCHANGED <<cc, pc>>
       PROVE  IdpsMatch'
  <2>1. \A p \in Pods : \A x \in inbox'[p] : x.type = "idp" => x \in inbox[p]
    <3>1. CASE Notify(q, Handled(q, msg))
      BY <1>9, <3>1
    <3>2. CASE inbox' = Handled(q, msg)
      BY <1>1, <3>2 DEF Handled
    <3> QED
      BY <1>10, <3>1, <3>2 DEF Count
  <2> QED
    BY <1>3, <1>10, <2>1
<1>11. ASSUME NEW q \in Pods, NEW msg \in inbox[q], HandleCreateStaticGroup(q, msg)
       PROVE  IdpsMatch'
  <2>1. CASE inbox' = Handled(q, msg) /\ UNCHANGED <<records, members>>
    <3>1. \A p \in Pods : \A x \in inbox'[p] : x.type = "idp" => x \in inbox[p]
      BY <1>1, <2>1 DEF Handled
    <3> QED
      BY <1>3, <2>1, <3>1 DEF records, members
  <2> QED
    BY <1>10, <1>11, <2>1 DEF HandleCreateStaticGroup
<1>12. ASSUME NEW q \in Pods, NEW msg \in inbox[q], HandleSynchronizeStaticGroup(q, msg)
       PROVE  IdpsMatch'
  BY <1>10, <1>12 DEF HandleSynchronizeStaticGroup
<1>13. ASSUME NEW q \in Pods, NEW msg \in inbox[q], HandleStaticGroupCCIdp(q, msg)
       PROVE  IdpsMatch'
  <2>1. /\ msg.type = "idp" /\ cc' = [cc EXCEPT ![q] = msg.no] /\ UNCHANGED <<pc, entered>>
        /\ Notify(q, Handled(q, msg))
    BY <1>13 DEF HandleStaticGroupCCIdp
  <2>2. /\ Created(msg.no)
        /\ \A m \in Members \ {Root} : Home[m] = q => ~Past(m, msg.no)
    BY <1>1, <2>1 DEF IdpsMatch
  <2>3. \A j : \A m \in Members : Past(m, j)' <=> Past(m, j)
    BY <2>1 DEF Past
  <2>4. ASSUME NEW p \in Pods, NEW x \in inbox'[p], x.type = "idp"
        PROVE  /\ Created(x.no)' /\ cc'[p] # x.no
               /\ \A m \in Members \ {Root} : Home[m] = p => ~Past(m, x.no)'
    <3>1. x \in inbox[p] /\ x \in Handled(q, msg)[p]
      BY <1>9, <2>1, <2>4
    <3>2. /\ Created(x.no) /\ cc[p] # x.no
          /\ \A m \in Members \ {Root} : Home[m] = p => ~Past(m, x.no)
      BY <1>1, <2>4, <3>1 DEF IdpsMatch
    <3>3. p = q => x # msg
      BY <1>1, <3>1 DEF Handled
    <3>4. p = q => x.no # msg.no
      <4>1. ASSUME p = q PROVE x.from = Root /\ msg.from = Root
        BY <2>1, <2>4, <3>1, <4>1 DEF Inv, GroupInv, MessagesMatch, Sent
      <4>2. ASSUME p = q
            PROVE  x = Message(x.type, x.from, x.no) /\ msg = Message(msg.type, msg.from, msg.no)
        BY <1>1, <3>1, <4>2, MessageIs
      <4> QED
        BY <2>1, <2>4, <3>3, <4>1, <4>2
    <3> QED
      BY <1>1, <1>2, <2>1, <2>3, <3>2, <3>4
  <2>5. \A p \in Pods : cc'[p] # 0 => Created(cc[p])'
    BY <1>1, <1>2, <2>1, <2>2 DEF IdpsMatch
  <2>6. \A m \in Members \ {Root} :
          pc'[m] \in {"ready", "asking"} /\ cc'[Home[m]] # 0 => ~Past(m, cc[Home[m]])'
    BY <1>1, <2>1, <2>2, <2>3 DEF IdpsMatch
  <2> QED
    BY <2>4, <2>5, <2>6 DEF IdpsMatch
<1>14. ASSUME NEW q \in Pods, LateWakeup(q) PROVE IdpsMatch'
  <2>1. PICK m \in late[q] :
          /\ inbox' = [inbox EXCEPT ![q] = @ \cup {Message("woken", m, 1)}]
          /\ UNCHANGED <<records, members>>
    BY <1>14 DEF LateWakeup
  <2>2. \A p \in Pods : \A x \in inbox'[p] : x.type = "idp" => x \in inbox[p]
    BY <1>1, <2>1 DEF Message
  <2> QED
    BY <1>3, <2>1, <2>2 DEF records, members
<1>15. CASE UNCHANGED vars \/ \E n \in Members : SpuriousWakeup(n)
  BY <1>3, <1>15 DEF SpuriousWakeup, vars, records, members
<1> QED
  BY <1>4, <1>5, <1>6, <1>7, <1>8, <1>11, <1>12, <1>13, <1>14, <1>15 DEF Next, Proceed, Handle

------------------------------------------------------------------------------
(* The theorems *)

LEMMA CountsBounded ==
    ASSUME Inv, [Next]_vars PROVE \A m \in Members : count'[Home[m]] < 2 * N
<1>1. Typed' /\ PlacesMatch' /\ Together' /\ RoundsMatch'
  BY TypeStep, PlacesStep, TogetherStep, RoundsStep
<1>2. /\ entered' \in [Members -> Nat] /\ Left' \in [Members -> Nat]
      /\ \A m \in Members : entered'[m] = Left'[m] \/ entered'[m] = Left'[m] + 1
  <2>1. entered' \in [Members -> 0 .. Len(Program) + 1]
    BY <1>1 DEF Typed
  <2>2. (entered \in [Members -> 0 .. Len(Program) + 1] /\ PlacesMatch)'
          => (/\ entered \in [Members -> Nat] /\ Left \in [Members -> Nat]
              /\ \A m \in Members : entered[m] = Left[m] \/ entered[m] = Left[m] + 1)'
    BY LeftFacts, PTL
  <2> QED
    BY <1>1, <2>1, <2>2
<1>3. ASSUME NEW m \in Members PROVE count'[Home[m]] < 2 * N
  <2>1. PICK a \in Members :
          /\ Home[a] = Home[m]
          /\ Cardinality(Counted(Home[a])') = count'[Home[a]] + N * Left'[a]
    BY <1>1 DEF RoundsMatch
  <2> DEFINE S == Counted(Home[m])'
  <2>2. S \in SUBSET (Members \X Nat) /\ \A o \in S : o[2] >= 1 /\ o[2] <= entered'[o[1]]
    BY CountedFacts DEF Counted
  <2>3. count'[Home[m]] \in Nat /\ Cardinality(S) = count'[Home[m]] + N * Left'[a]
    BY <1>1, <2>1, StaticGroupAssumption DEF Typed
  <2>4. \A k, n \in Members : Left'[k] <= entered'[n]
    BY <1>1 DEF Together
  <2> HIDE DEF S
  <2> QED
    BY <1>2, <2>2, <2>3, <2>4, Counting
<1> QED
  BY <1>3

LEMMA InitInv == Init => Inv
<1> SUFFICES ASSUME Init PROVE Inv
  OBVIOUS
<1>1. /\ Len(Program) \in Nat /\ Home \in [Members -> Pods] /\ Root \in Members
      /\ N \in Nat /\ N >= 1
  BY StaticGroupAssumption, MembersCount
<1>2. TypeOK
  <2>1. /\ 0 \in 0 .. Len(Program) + 1 /\ 0 \in 0 .. Len(Program) /\ 0 \in Nat /\ 0 < 2 * N
    BY <1>1
  <2>2. /\ entry = {} /\ asleep = {} /\ pc = [m \in Members |-> "new"]
        /\ count = [p \in Pods |-> 0] /\ total = [p \in Pods |-> 0] /\ cc = [p \in Pods |-> 0]
        /\ inbox = [p \in Pods |-> {}] /\ late = [p \in Pods |-> {}]
        /\ entered = [m \in Members |-> 0] /\ got = [m \in Members |-> 0]
    BY DEF Init
  <2> QED
    BY <1>1, <2>1, <2>2 DEF TypeOK, Places
<1>3. PlacesMatch /\ EntriesMatch /\ MessagesMatch
  BY <1>1 DEF Init, PlacesMatch, EntriesMatch, MessagesMatch, Sent
<1>4. Left = [m \in Members |-> 0]
  BY DEF Init, Left
<1>5. RoundsMatch
  <2>1. \A p \in Pods : Counted(p) = {}
    <3> SUFFICES ASSUME NEW p \in Pods, NEW o \in Counted(p) PROVE FALSE
      OBVIOUS
    <3>1. o[1] \in Members /\ o[2] \in Operations /\ o[2] <= entered[o[1]]
      BY DEF Counted, CountedOf
    <3>2. o[2] >= 1 /\ o[2] <= 0
      BY <1>1, <3>1 DEF Operations, Init
    <3>3. o[2] \in Nat
      BY <1>1, <3>1 DEF Operations
    <3> QED
      BY <3>2, <3>3
  <2>2. ASSUME NEW m \in Members
        PROVE  /\ Ahead(m) /\ Cardinality(Counted(Home[m])) = count[Home[m]] + N * Left[m]
    <3>1. Cardinality(Counted(Home[m])) = 0
      BY <1>1, <2>1, FS_EmptySet
    <3>2. count[Home[m]] = 0 /\ Left[m] = 0
      BY <1>1, <1>4 DEF Init
    <3>3. 0 = 0 + N * 0
      BY <1>1
    <3>4. Ahead(m)
      BY <1>4 DEF Ahead
    <3> QED
      BY <3>1, <3>2, <3>3, <3>4
  <2> QED
    BY <2>2 DEF RoundsMatch
<1>6. Together
  BY <1>4 DEF Init, Together
<1>7. IdpsMatch /\ CollectiveAgrees
  BY <1>1 DEF Init, IdpsMatch, CollectiveAgrees
<1>8. RootFirst
  BY <1>1 DEF Init, RootFirst, Past
<1> QED
  BY <1>2, <1>3, <1>5, <1>6, <1>7, <1>8 DEF Inv, GroupInv, CollectiveInv

LEMMA NextInv == Inv /\ [Next]_vars => Inv'
<1> SUFFICES ASSUME Inv, [Next]_vars PROVE Inv'
  OBVIOUS
<1>1. TypeOK'
  BY TypeStep, CountsBounded DEF Typed, TypeOK, Messages
<1>2. PlacesMatch' /\ EntriesMatch' /\ MessagesMatch'
  BY PlacesStep, EntriesStep, MessagesStep
<1>3. RoundsMatch' /\ Together'
  BY RoundsStep, TogetherStep
<1>4. IdpsMatch' /\ RootFirst' /\ CollectiveAgrees'
  BY IdpsStep, RootFirstStep, CollectiveStep
<1> QED
  BY <1>1, <1>2, <1>3, <1>4 DEF Inv, GroupInv, CollectiveInv

LEMMA SpecInv == Spec => []Inv
BY InitInv, NextInv, PTL DEF Spec

\* The variables keep their types; the count of a pod with a member never
\* passes two rounds of messages.
THEOREM TypeCorrect == Spec => []TypeOK
<1>1. Inv => TypeOK
  BY DEF Inv, GroupInv
<1> QED
  BY <1>1, SpecInv, PTL

\* CreateCollective returns to every member the resource that rank 0 created
\* in that collective, whatever idps are in flight or kept in _sg_cc.
THEOREM CollectivesAgree == Spec => []CollectiveAgrees
<1>1. Inv => CollectiveAgrees
  BY DEF Inv, CollectiveInv
<1> QED
  BY <1>1, SpecInv, PTL

\* CreateStaticGroup and SynchronizeStaticGroup are barriers: nobody returns
\* before every member has called, although the pods count messages in any
\* order and start again from 0 with messages of the next operation counted.
THEOREM GroupIsBarrier == Spec => ImplementsBarrier
<1>1. Init => B!Init
  <2> SUFFICES ASSUME Init PROVE B!Init
    OBVIOUS
  <2> QED
    BY DEF Init, Left, B!Init
<1>2. Inv /\ [Next]_vars => [B!Next]_<<entered, Left>>
  <2> SUFFICES ASSUME Inv, [Next]_vars PROVE [B!Next]_<<entered, Left>>
    OBVIOUS
  <2>1. entered \in [Members -> Nat] /\ Left \in [Members -> Nat]
    BY CountingTypes
  <2>2. ASSUME NEW m \in Members, entered[m] = Left[m], Enters(entered, entered', m), Left' = Left
        PROVE  B!Next
    BY <2>2 DEF Enters, B!Next, B!Enter
  <2>3. ASSUME NEW m \in Members, Leaves(m) PROVE B!Next
    <3>1. entered' = entered /\ Left' = [Left EXCEPT ![m] = entered[m]]
      BY <2>3, LeaveStep
    <3>2. entered[m] = Left[m] + 1 /\ \A n \in Members : entered[m] <= entered[n]
      BY <2>3, LeaveFacts
    <3>3. Left[m] < entered[m] /\ \A n \in Members : entered[n] >= entered[m]
      BY <2>1, <3>2
    <3> QED
      BY <3>1, <3>3 DEF B!Next, B!Leave
  <2> QED
    BY <2>2, <2>3, EnterLeaveStep
<1> QED
  BY <1>1, <1>2, SpecInv, PTL DEF Spec, ImplementsBarrier, B!Spec

LEMMA AwakeStep ==
    ASSUME Inv, NoneOversleeps, [Next]_vars PROVE NoneOversleeps'
<1>1. /\ pc \in [Members -> Places] /\ cc \in [Pods -> 0 .. Len(Program)]
      /\ count \in [Pods -> Nat] /\ total \in [Pods -> {0, N}] /\ asleep \subseteq Members
      /\ Home \in [Members -> Pods] /\ N \in Nat /\ N >= 1
      /\ \A m \in asleep : pc[m] \in {"creating", "syncing", "asking"}
  BY ProgramTypes, CountingTypes, MembersCount DEF Inv, GroupInv, TypeOK, PlacesMatch
<1>2. ASSUME NEW n \in Members, CreateStaticGroup(n) PROVE NoneOversleeps'
  <2>1. /\ asleep' = {m \in asleep : Home[m] # Home[n]} /\ pc' = [pc EXCEPT ![n] = "creating"]
        /\ NewEntry(Home[n]) /\ pc[n] = "new" /\ UNCHANGED cc
    BY <1>2 DEF CreateStaticGroup, Notify
  <2>2. \A p \in Pods : p # Home[n] => count'[p] = count[p] /\ total'[p] = total[p]
    BY <1>1, <2>1 DEF NewEntry
  <2> QED
    BY <1>1, <2>1, <2>2 DEF NoneOversleeps
<1>3. ASSUME NEW n \in Members, SynchronizeStaticGroup(n) PROVE NoneOversleeps'
  BY <1>1, <1>3 DEF SynchronizeStaticGroup, records, NoneOversleeps
<1>4. ASSUME NEW n \in Members, AwaitAll(n), ~Leaves(n) PROVE NoneOversleeps'
  BY <1>1, <1>4 DEF AwaitAll, Sleep, Leaves, NoneOversleeps
<1>5. ASSUME NEW n \in Members, Leaves(n) PROVE NoneOversleeps'
  <2>1. /\ total[Home[n]] = N /\ UNCHANGED <<total, asleep>>
        /\ count' = [count EXCEPT ![Home[n]] = 0] /\ pc' = [pc EXCEPT ![n] = "ready"]
        /\ n \notin asleep
        /\ cc' = [cc EXCEPT ![Home[n]] = IF pc[n] = "syncing" THEN 0 ELSE @]
    BY <1>5, LeaveFacts DEF Leaves, AwaitAll, Reset
  <2> SUFFICES ASSUME NEW m \in asleep
               PROVE  IF pc'[m] = "asking" THEN cc'[Home[m]] = 0
                      ELSE count'[Home[m]] # total'[Home[m]]
    BY <2>1 DEF NoneOversleeps
  <2>2. /\ pc'[m] = pc[m]
        /\ IF pc[m] = "asking" THEN cc[Home[m]] = 0 ELSE count[Home[m]] # total[Home[m]]
    BY <1>1, <2>1 DEF NoneOversleeps
  <2>3. cc[Home[m]] = 0 => cc'[Home[m]] = 0
    BY <1>1, <2>1
  <2>4. count'[Home[m]] = count[Home[m]] \/ count'[Home[m]] # total'[Home[m]]
    BY <1>1, <2>1
  <2> QED
    BY <2>1, <2>2, <2>3, <2>4
<1>6. ASSUME NEW n \in Members, CreateCollective(n) PROVE NoneOversleeps'
  BY <1>1, <1>6 DEF CreateCollective, records, NoneOversleeps
<1>7. ASSUME NEW n \in Members, GetStaticGroupCCIdp(n) PROVE NoneOversleeps'
  BY <1>1, <1>7 DEF GetStaticGroupCCIdp, Sleep, records, NoneOversleeps
<1>8. ASSUME NEW p \in Pods, NEW boxes, Count(p, boxes), UNCHANGED <<total, cc, pc>>
      PROVE  NoneOversleeps'
  <2>1. count' = [count EXCEPT ![p] = count[p] + 1]
    BY <1>8 DEF Count
  <2>2. CASE asleep' = {m \in asleep : Home[m] # p}
    BY <1>1, <1>8, <2>1, <2>2 DEF NoneOversleeps
  <2>3. CASE UNCHANGED asleep /\ count[p] + 1 # total[p]
    BY <1>1, <1>8, <2>1, <2>3 DEF NoneOversleeps
  <2> QED
    BY <1>8, <2>2, <2>3 DEF Count, Notify
<1>9. ASSUME asleep' \subseteq asleep, UNCHANGED <<count, total, cc, pc>> PROVE NoneOversleeps'
  BY <1>9 DEF NoneOversleeps
<1>10. ASSUME NEW p \in Pods, NEW msg \in inbox[p],
              \/ HandleCreateStaticGroup(p, msg) \/ HandleSynchronizeStaticGroup(p, msg)
       PROVE  NoneOversleeps'
  BY <1>8, <1>9, <1>10 DEF HandleCreateStaticGroup, HandleSynchronizeStaticGroup, records, members
<1>11. ASSUME NEW p \in Pods, NEW msg \in inbox[p], HandleStaticGroupCCIdp(p, msg)
       PROVE  NoneOversleeps'
  BY <1>1, <1>11 DEF HandleStaticGroupCCIdp, Notify, NoneOversleeps
<1>12. CASE UNCHANGED vars \/ (\E p \in Pods : LateWakeup(p)) \/ \E n \in Members : SpuriousWakeup(n)
  BY <1>9, <1>12 DEF vars, LateWakeup, SpuriousWakeup, records, members
<1> QED
  BY <1>2, <1>3, <1>4, <1>5, <1>6, <1>7, <1>10, <1>11, <1>12 DEF Next, Proceed, Handle

\* No member sleeps on what has happened: whoever counts the last message or
\* stores the idp notifies everyone who waits in that pod.
THEOREM NobodyOversleeps == Spec => []NoneOversleeps
<1>1. Init => NoneOversleeps
  BY DEF Init, NoneOversleeps
<1>2. Inv /\ NoneOversleeps /\ [Next]_vars => NoneOversleeps'
  BY AwakeStep
<1> QED
  BY <1>1, <1>2, SpecInv, PTL DEF Spec
==============================================================================

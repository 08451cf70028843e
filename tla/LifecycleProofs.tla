---------------------------- MODULE LifecycleProofs ----------------------------
(***************************************************************************)
(* What the life of the pods guarantees, whatever the pods, the contexts   *)
(* and who spawns them: the counters of a pod never exceed the pods that   *)
(* have sent it what it counts; a context enters and rests together, and   *)
(* nobody leaves the application while another still works; and, when the  *)
(* threads of a collective run in order, all of this is the Session.       *)
(***************************************************************************)
EXTENDS Lifecycle, FiniteSetTheorems, SequenceTheorems, WellFoundedInduction, TLAPS

------------------------------------------------------------------------------
(* The inductive invariant *)

\* Places of the main thread, by what the pod has done when it is there.
Stopping  == {"leaving", "sessions", "stopped"}
Finalized == {"finalizing"} \cup Stopping
Left      == {"ctx_final"} \cup Finalized
Rested    == {"ctx_finalizing"} \cup Left
Worked    == {"working", "spawning"} \cup Rested
Gathering == {"gathering", "gathered", "fetching"} \cup Worked
InContext == {"in_ctx"} \cup Gathering
Joined    == {"ctx_joining"} \cup InContext
Listed    == {"listed"} \cup Joined
Managed   == {"managed"} \cup Listed
Alive     == {"joining"} \cup Managed
Started   == {"dead"} \cup Alive

\* Where a pod may be that has sent a message of some type.
Since(type) ==
    {place \in Places :
        /\ type = "Join"            => place \in Started
        /\ type = "Directory"       => place \in Listed
        /\ type = "JoinContext"     => place \in Joined
        /\ type = "CollectiveInit"  => place \in Gathering
        /\ type = "CollectiveIdp"   => place \in Worked
        /\ type = "FinalizeContext" => place \in Rested
        /\ type = "Finalize"        => place \in Finalized
        /\ type = "SelfLeave"       => place \in Stopping}

\* Messages that stay in the sender's context.
OfContext == {"JoinContext", "CollectiveInit", "CollectiveIdp", "FinalizeContext"}

Message == [type : Types, from : Pods, size : 0 .. Cardinality(Pods)]

\* Those whose message of a type is in p's inbox behind the first i.
Later(p, i, type) ==
    {q \in Pods : \E j \in DOMAIN inbox[p] :
        j > i /\ inbox[p][j].type = type /\ inbox[p][j].from = q}

\* Those who have sent a message of a type that p has handled when it has
\* handled the first i of its inbox, or that it does not get.
Heard(p, i, type) == {q \in Pods : pc[q] \in Since(type) /\ q \notin Later(p, i, type)}

Waiting(p) == {q \in Pods : \E i \in DOMAIN handlers[p] : handlers[p][i] = q}

\* The groups, the managers and the contexts go with the main threads.
Placed(p) ==
    /\ p \in app <=> pc[p] \in Alive \ Stopping
    /\ p \in ctx <=> pc[p] \in Joined \ Left
    /\ pc[p] \in Managed => p \in managers
    /\ pc[p] # "off" => Context[p] \in launched
    /\ pc[p] \notin Worked => closure[p] = None

PlacesMatch == \A p \in Pods : Placed(p)

\* A message has been sent by its sender, once.
Fits(p, i) ==
    /\ pc[inbox[p][i].from] \in Since(inbox[p][i].type)
    /\ inbox[p][i].from \notin Later(p, i, inbox[p][i].type)
    /\ inbox[p][i].type \in OfContext => inbox[p][i].from \in Mates(p)

\* A pod that has not started has no messages.
MailMatches ==
    \A p \in Pods : /\ pc[p] = "off" => inbox[p] = <<>>
                    /\ \A i \in DOMAIN inbox[p] : Fits(p, i)

\* The detached threads of CreateCollectiveInit are for different pods.
ThreadsOf(p) ==
    /\ \A i, j \in DOMAIN handlers[p] : handlers[p][i] = handlers[p][j] => i = j
    /\ Waiting(p) \subseteq Heard(p, 0, "CollectiveInit") \cap Mates(p)

ThreadsMatch == \A p \in Pods : ThreadsOf(p)

\* A counter counts no pod twice, and none whose message is still to be handled.
CountsOf(p) ==
    /\ init_ctx[p] <= Cardinality(Heard(p, 0, "JoinContext") \cap Mates(p))
    /\ \A i \in DOMAIN inbox[p] : inbox[p][i].type = "JoinContext" =>
          inbox[p][i].size <= Cardinality(Heard(p, i, "JoinContext") \cap Mates(p))
    /\ cc_count[p] <= Cardinality((Heard(p, 0, "CollectiveInit") \cap Mates(p)) \ Waiting(p))
    /\ final_ctx[p] <= Cardinality(Heard(p, 0, "FinalizeContext") \cap Mates(p))
    /\ final_total[p] <= Cardinality(Heard(p, 0, "Finalize"))

CountsMatch == \A p \in Pods : CountsOf(p)

\* The types, but for the bounds of what is counted.
Loose ==
    /\ launched \in SUBSET Contexts
    /\ app \in SUBSET Pods /\ ctx \in SUBSET Pods
    /\ inbox \in [Pods -> Seq(Message)]
    /\ is_main \in [Pods -> {Unknown, "yes", "no"}] /\ managers \in SUBSET Pods
    /\ init_total \in [Pods -> 0 .. Cardinality(Pods)]
    /\ init_ctx \in [Pods -> 0 .. Cardinality(Pods)]
    /\ final_total \in [Pods -> Nat] /\ final_ctx \in [Pods -> Nat]
    /\ cc_count \in [Pods -> Nat]
    /\ cc_vars \in SUBSET Pods
    /\ cc_first \in [Pods -> {Unknown, "yes", "no"}]
    /\ cc_idp \in [Pods -> Pods \cup {None}] /\ closure \in [Pods -> Pods \cup {None}]
    /\ handlers \in [Pods -> Seq(Pods)]
    /\ pc \in [Pods -> Places] /\ asleep \in SUBSET Pods

CountInv == Loose /\ PlacesMatch /\ MailMatches /\ ThreadsMatch /\ CountsMatch

------------------------------------------------------------------------------
(* Pods, messages and sequences *)

LEMMA PodsCount ==
    /\ IsFiniteSet(Pods) /\ Cardinality(Pods) \in Nat
    /\ \A set \in SUBSET Pods : IsFiniteSet(set) /\ Cardinality(set) \in 0 .. Cardinality(Pods)
BY LifecycleAssumption, FS_CardinalityType, FS_Subset

LEMMA AppendIs ==
    ASSUME NEW elems, NEW box \in Seq(elems), NEW msg \in elems
    PROVE  /\ Append(box, msg) \in Seq(elems)
           /\ Len(box) \in Nat /\ DOMAIN box = 1 .. Len(box)
           /\ Len(Append(box, msg)) = Len(box) + 1
           /\ DOMAIN Append(box, msg) = 1 .. Len(box) + 1
           /\ \A i \in 1 .. Len(box) : Append(box, msg)[i] = box[i]
           /\ Append(box, msg)[Len(box) + 1] = msg
OBVIOUS

LEMMA TailIs ==
    ASSUME NEW elems, NEW box \in Seq(elems), box # <<>>
    PROVE  /\ Tail(box) \in Seq(elems) /\ Head(box) \in elems
           /\ Len(box) \in Nat /\ DOMAIN box = 1 .. Len(box) /\ Len(box) > 0
           /\ Head(box) = box[1]
           /\ Len(Tail(box)) = Len(box) - 1 /\ DOMAIN Tail(box) = 1 .. Len(box) - 1
           /\ \A i \in 1 .. Len(box) - 1 : Tail(box)[i] = box[i + 1]
BY HeadTailProperties

LEMMA MsgIs ==
    ASSUME NEW type \in Types, NEW p \in Pods, NEW size \in 0 .. Cardinality(Pods)
    PROVE  /\ Msg(type, p, size) \in Message
           /\ Msg(type, p, size).type = type
           /\ Msg(type, p, size).from = p
           /\ Msg(type, p, size).size = size
BY DEF Msg, Message

\* A sequence without its element i.
LEMMA RemovedIs ==
    ASSUME NEW elems, NEW seq \in Seq(elems), NEW i \in DOMAIN seq,
           NEW rest, rest = RemoveAt(seq, i)
    PROVE  /\ rest \in Seq(elems) /\ Len(seq) \in Nat
           /\ DOMAIN seq = 1 .. Len(seq) /\ DOMAIN rest = 1 .. Len(seq) - 1
           /\ \A j \in 1 .. Len(seq) - 1 : rest[j] = IF j < i THEN seq[j] ELSE seq[j + 1]
<1>1. Len(seq) \in Nat /\ DOMAIN seq = 1 .. Len(seq) /\ i \in 1 .. Len(seq)
  BY LenProperties
<1>2. PICK front, back : front = SubSeq(seq, 1, i - 1) /\ back = SubSeq(seq, i + 1, Len(seq))
  OBVIOUS
<1>3. \A k \in 1 .. Len(seq) : seq[k] \in elems
  BY <1>1, ElementOfSeq
<1>4. /\ front \in Seq(elems) /\ Len(front) = i - 1
      /\ \A k \in 1 .. i - 1 : front[k] = seq[k]
  <2>1. \A k \in 1 .. i - 1 : seq[k] \in elems
    BY <1>1, <1>3
  <2>2. /\ front \in Seq(elems) /\ Len(front) = IF 1 <= i - 1 THEN i - 1 - 1 + 1 ELSE 0
        /\ \A k \in 1 .. i - 1 - 1 + 1 : front[k] = seq[1 + k - 1]
    BY <1>1, <1>2, <2>1, SubSeqProperties
  <2> QED
    BY <1>1, <2>2
<1>5. PICK n \in Int : n = i + 1
  BY <1>1
<1>6. /\ back \in Seq(elems) /\ Len(back) = Len(seq) - i
      /\ \A k \in 1 .. Len(seq) - i : back[k] = seq[n + k - 1]
  <2>1. \A k \in n .. Len(seq) : seq[k] \in elems
    BY <1>1, <1>3, <1>5
  <2>2. back = SubSeq(seq, n, Len(seq)) /\ Len(seq) \in Int
    BY <1>1, <1>2, <1>5
  <2>3. /\ back \in Seq(elems)
        /\ Len(back) = IF n <= Len(seq) THEN Len(seq) - n + 1 ELSE 0
        /\ \A k \in 1 .. Len(seq) - n + 1 : back[k] = seq[n + k - 1]
    BY <2>1, <2>2, SubSeqProperties
  <2>4. Len(seq) - n + 1 = Len(seq) - i
    BY <1>1, <1>5
  <2> QED
    BY <1>1, <1>5, <2>3, <2>4
<1>7. /\ rest \in Seq(elems) /\ Len(rest) = Len(seq) - 1
      /\ \A j \in 1 .. Len(seq) - 1 : rest[j] = IF j <= i - 1 THEN front[j] ELSE back[j - (i - 1)]
  <2>1. rest = front \o back
    BY <1>2 DEF RemoveAt
  <2>2. /\ rest \in Seq(elems) /\ Len(rest) = Len(front) + Len(back)
        /\ \A j \in 1 .. Len(front) + Len(back) :
              rest[j] = IF j <= Len(front) THEN front[j] ELSE back[j - Len(front)]
    BY <1>4, <1>6, <2>1, ConcatProperties
  <2>3. Len(front) = i - 1 /\ Len(front) + Len(back) = Len(seq) - 1
    BY <1>1, <1>4, <1>6
  <2> QED
    BY <2>2, <2>3
<1>8. ASSUME NEW j \in 1 .. Len(seq) - 1
      PROVE  rest[j] = IF j < i THEN seq[j] ELSE seq[j + 1]
  <2> j \in Int /\ i \in Int
    BY <1>1, <1>8
  <2>1. CASE j < i
    <3>1. j \in 1 .. i - 1 /\ j <= i - 1
      BY <1>1, <2>1
    <3> QED
      BY <1>4, <1>7, <2>1, <3>1
  <2>2. CASE ~(j < i)
    <3>1. j - (i - 1) \in 1 .. Len(seq) - i /\ ~(j <= i - 1)
      BY <1>1, <2>2
    <3>2. rest[j] = seq[n + (j - (i - 1)) - 1]
      BY <1>6, <1>7, <3>1
    <3>3. n + (j - (i - 1)) - 1 = j + 1
      BY <1>1, <1>5
    <3> QED
      BY <2>2, <3>2, <3>3
  <2> QED
    BY <2>1, <2>2
<1> QED
  BY <1>1, <1>7, <1>8, LenProperties

------------------------------------------------------------------------------
(* The steps: what they send, where they go, and types *)

\* A step that sends this message to these pods.
Sends(p, type, group, size) ==
    /\ Multicast(group, Msg(type, p, size))
    /\ pc[p] \notin Since(type) /\ pc'[p] \in Since(type)
    /\ UNCHANGED <<counters, cc_count, cc_first, cc_idp, handlers>>

\* To whom which message goes.
SentTo(p, type, group, size) ==
    /\ type = "Join" => group = app' /\ app' = app \cup {p} /\ size = Cardinality(group)
    /\ type = "Directory" => group = app \ {p}
    /\ type = "JoinContext" => /\ group = ctx' \cap Mates(p) /\ ctx' = ctx \cup {p}
                              /\ size = Cardinality(group)
    /\ type \in {"CollectiveInit", "CollectiveIdp", "FinalizeContext"} => group = ctx \cap Mates(p)
    /\ type = "CollectiveIdp" => cc_first[p] = "yes"
    /\ type = "Finalize" => group = app
    /\ type = "SelfLeave" => group = {p}

\* The actions that send.
Sending(p) ==
    \/ Initialize(p) \/ CreateInitialContext(p) \/ InitializeContext(p)
    \/ InitCreateCollective(p) \/ CreateFirst(p) \/ FinalizeContext(p) \/ Finalize(p)
    \/ LeaveApplication(p)

\* The actions of the main thread that do not touch an inbox.
Quiet(p) ==
    \/ Sleep(p) \/ CreateManagers(p) \/ AwaitContext(p) \/ AwaitGathering(p) \/ NotFirst(p)
    \/ GetCreateCollectiveIdp(p) \/ Spawned(p) \/ LeaveContext(p) \/ StopSessions(p)
    \/ \E c \in Contexts : Spawn(p, c)

LEMMA NextIs ==
    ASSUME Next
    PROVE  \E p \in Pods : \/ Sending(p) \/ Quiet(p) \/ StopService(p)
                           \/ HandleMessage(p) \/ Handlers(p)
BY DEF Next, Main, StartService, CreateCollective, Stop, Sending, Quiet

LEMMA SendingIs ==
    ASSUME Loose, NEW p \in Pods, Sending(p)
    PROVE  \E type \in Types, group \in SUBSET Pods, size \in 0 .. Cardinality(Pods) :
              Sends(p, type, group, size) /\ SentTo(p, type, group, size)
<1> USE DEF Goto, Sends, SentTo, Since, Started, Alive, Managed, Listed, Joined, InContext,
        Gathering, Worked, Rested, Left, Finalized, Stopping, Places, Starting, Finishing, collective
<1>1. /\ app \cup {p} \in SUBSET Pods /\ ctx \cap Mates(p) \in SUBSET Pods
      /\ (ctx \cup {p}) \cap Mates(p) \in SUBSET Pods /\ app \ {p} \in SUBSET Pods
      /\ pc \in [Pods -> Places] /\ app \in SUBSET Pods /\ {p} \in SUBSET Pods
      /\ 0 \in 0 .. Cardinality(Pods)
  BY PodsCount DEF Loose
<1>2. \A set \in SUBSET Pods : Cardinality(set) \in 0 .. Cardinality(Pods)
  BY PodsCount
<1> DEFINE Sent(type, group, size) == Sends(p, type, group, size) /\ SentTo(p, type, group, size)
<1>3. CASE Initialize(p)
  <2>1. Sent("Join", app', Cardinality(app'))
    BY <1>1, <1>3 DEF Initialize
  <2> HIDE DEF Sent
  <2> QED
    BY <1>1, <1>2, <1>3, <2>1 DEF Initialize, Types, Sent
<1>4. CASE CreateInitialContext(p)
  <2>1. Sent("Directory", app \ {p}, 0)
    BY <1>1, <1>4 DEF CreateInitialContext
  <2> QED
    BY <1>1, <1>2, <2>1 DEF Types
<1>5. CASE InitializeContext(p)
  <2>1. Sent("JoinContext", ctx' \cap Mates(p), Cardinality(ctx' \cap Mates(p)))
    BY <1>1, <1>5 DEF InitializeContext
  <2> QED
    BY <1>1, <1>2, <1>5, <2>1 DEF InitializeContext, Types
<1>6. CASE InitCreateCollective(p)
  <2>1. Sent("CollectiveInit", ctx \cap Mates(p), 0)
    BY <1>1, <1>6 DEF InitCreateCollective
  <2> QED
    BY <1>1, <1>2, <2>1 DEF Types
<1>7. CASE CreateFirst(p)
  <2>1. Sent("CollectiveIdp", ctx \cap Mates(p), 0)
    BY <1>1, <1>7 DEF CreateFirst, Got
  <2> QED
    BY <1>1, <1>2, <2>1 DEF Types
<1>8. CASE FinalizeContext(p)
  <2>1. Sent("FinalizeContext", ctx \cap Mates(p), 0)
    BY <1>1, <1>8 DEF FinalizeContext
  <2> QED
    BY <1>1, <1>2, <2>1 DEF Types
<1>9. CASE Finalize(p)
  <2>1. Sent("Finalize", app, 0)
    BY <1>1, <1>9 DEF Finalize
  <2> QED
    BY <1>1, <1>2, <2>1 DEF Types
<1>10. CASE LeaveApplication(p)
  <2>1. Multicast({p}, Msg("SelfLeave", p, 0))
    BY <1>1, <1>10 DEF LeaveApplication, Multicast, Loose
  <2>2. Sent("SelfLeave", {p}, 0)
    BY <1>1, <1>10, <2>1 DEF LeaveApplication, Awaited
  <2> QED
    BY <1>1, <1>2, <2>2 DEF Types
<1> QED
  BY <1>3, <1>4, <1>5, <1>6, <1>7, <1>8, <1>9, <1>10 DEF Sending

\* What a service thread does with its inbox, whatever the message.
LEMMA HandledIs ==
    ASSUME Loose, NEW p \in Pods, HandleMessage(p)
    PROVE  /\ Len(inbox[p]) \in Nat /\ DOMAIN inbox[p] = 1 .. Len(inbox[p])
           /\ 1 \in DOMAIN inbox[p] /\ inbox[p][1] \in Message /\ Head(inbox[p]) = inbox[p][1]
           /\ Len(inbox'[p]) = Len(inbox[p]) - 1
           /\ DOMAIN inbox'[p] = 1 .. Len(inbox[p]) - 1
           /\ \A i \in 1 .. Len(inbox[p]) - 1 : inbox'[p][i] = inbox[p][i + 1]
           /\ inbox' \in [Pods -> Seq(Message)]
           /\ \A q \in Pods : q # p => inbox'[q] = inbox[q]
<1>1. inbox[p] \in Seq(Message) /\ inbox[p] # <<>> /\ inbox \in [Pods -> Seq(Message)]
  BY DEF Loose, HandleMessage
<1>2. inbox' = [inbox EXCEPT ![p] = Tail(inbox[p])]
  BY <1>1 DEF HandleMessage
<1>3. inbox'[p] = Tail(inbox[p])
  BY <1>1, <1>2
<1> QED
  BY <1>1, <1>2, <1>3, TailIs

\* What sending does to the inboxes.
LEMMA SentIs ==
    ASSUME Loose, NEW p \in Pods, NEW type \in Types, NEW group,
           NEW size \in 0 .. Cardinality(Pods), Sends(p, type, group, size), NEW q \in Pods
    PROVE  /\ inbox'[q] \in Seq(Message)
           /\ Len(inbox[q]) \in Nat /\ DOMAIN inbox[q] = 1 .. Len(inbox[q])
           /\ DOMAIN inbox'[q] = 1 .. Len(inbox'[q])
           /\ Len(inbox'[q]) = IF q \in group THEN Len(inbox[q]) + 1 ELSE Len(inbox[q])
           /\ \A i \in 1 .. Len(inbox[q]) : inbox'[q][i] = inbox[q][i]
           /\ q \notin group => inbox'[q] = inbox[q]
           /\ q \in group => inbox'[q][Len(inbox[q]) + 1] = Msg(type, p, size)
<1>1. Msg(type, p, size) \in Message
  BY MsgIs
<1>2. /\ inbox[q] \in Seq(Message)
      /\ inbox'[q] = IF q \in group THEN Append(inbox[q], Msg(type, p, size)) ELSE inbox[q]
  BY DEF Loose, Sends, Multicast
<1>3. CASE q \in group
  <2>1. inbox[q] \in Seq(Message) /\ inbox'[q] = Append(inbox[q], Msg(type, p, size))
    BY <1>2, <1>3
  <2> QED
    BY <1>1, <1>3, <2>1, AppendIs
<1>4. CASE q \notin group
  <2>1. inbox[q] \in Seq(Message) /\ inbox'[q] = inbox[q]
    BY <1>2, <1>4
  <2> QED
    BY <1>4, <2>1, LenProperties
<1> QED
  BY <1>3, <1>4

LEMMA SentType ==
    ASSUME Loose, NEW p \in Pods, NEW type \in Types, NEW group,
           NEW size \in 0 .. Cardinality(Pods), Sends(p, type, group, size)
    PROVE  inbox' \in [Pods -> Seq(Message)]
<1>1. \A q \in Pods : inbox'[q] \in Seq(Message)
  BY SentIs
<1> QED
  BY <1>1 DEF Sends, Multicast

\* Where a main thread goes, and what a pod dies of.
Edges ==
    {<<"off", "joining">>, <<"joining", "managed">>, <<"managed", "listed">>,
     <<"listed", "ctx_joining">>, <<"ctx_joining", "in_ctx">>, <<"in_ctx", "gathering">>,
     <<"gathering", "gathered">>, <<"gathered", "working">>, <<"gathered", "fetching">>,
     <<"fetching", "working">>, <<"working", "spawning">>, <<"spawning", "working">>,
     <<"working", "ctx_finalizing">>, <<"ctx_finalizing", "ctx_final">>,
     <<"ctx_final", "finalizing">>, <<"finalizing", "leaving">>, <<"leaving", "sessions">>,
     <<"sessions", "stopped">>, <<"joining", "dead">>}

\* Only p goes somewhere.
Goes(p) ==
    /\ \A q \in Pods : q # p => pc'[q] = pc[q]
    /\ pc'[p] = pc[p] \/ <<pc[p], pc'[p]>> \in Edges

LEMMA DeathIs ==
    ASSUME Loose, PlacesMatch, MailMatches, NEW p \in Pods, HandleMessage(p),
           p \notin managers
    PROVE  pc[p] = "joining"
<1>1. pc[p] \in Places \ Ended /\ pc[p] \notin Managed /\ pc[p] # "off"
  BY DEF Loose, HandleMessage, PlacesMatch, Placed, MailMatches
<1> QED
  BY <1>1 DEF Places, Ended, Starting, Finishing, Managed, Listed, Joined, InContext, Gathering,
              Worked, Rested, Left, Finalized, Stopping

LEMMA GoesStep ==
    ASSUME Loose, PlacesMatch, MailMatches, NEW p \in Pods,
           \/ Sending(p) \/ Quiet(p) \/ StopService(p) \/ HandleMessage(p) \/ Handlers(p)
    PROVE  Goes(p)
<1>1. pc \in [Pods -> Places]
  BY DEF Loose
<1>2. CASE Sending(p)
  BY <1>1, <1>2 DEF Sending, Goes, Edges, Goto, Got, Initialize, CreateInitialContext,
                    InitializeContext, InitCreateCollective, CreateFirst, FinalizeContext,
                    Finalize, LeaveApplication, Awaited
<1>3. CASE Quiet(p)
  BY <1>1, <1>3 DEF Quiet, Goes, Edges, Goto, Got, Sleep, CreateManagers, AwaitContext,
                    AwaitGathering, NotFirst, GetCreateCollectiveIdp, Spawned, LeaveContext,
                    StopSessions, Spawn, Awaited
<1>4. CASE StopService(p)
  BY <1>1, <1>4 DEF StopService, Goes, Edges, Goto
<1>5. CASE HandleMessage(p)
  <2>1. CASE p \notin managers
    <3>1. pc[p] = "joining" /\ (pc' = pc \/ pc' = [pc EXCEPT ![p] = "dead"])
      BY <1>5, <2>1, DeathIs DEF HandleMessage, HandleInitialize, HandleInitializeContext,
           HandleFinalizeContext, HandleFinalize, HandleDirectory, HandleTooEarly,
           HandleCreateCollectiveInit, HandleCreateCollectiveIdp, main
    <3> QED
      BY <1>1, <3>1 DEF Goes, Edges
  <2>2. CASE p \in managers
    <3>1. pc' = pc
      BY <1>5, <2>2 DEF HandleMessage, HandleInitialize, HandleInitializeContext,
           HandleFinalizeContext, HandleFinalize, HandleDirectory, HandleTooEarly,
           HandleCreateCollectiveInit, HandleCreateCollectiveIdp, main
    <3> QED
      BY <3>1 DEF Goes
  <2> QED
    BY <2>1, <2>2
<1>6. CASE Handlers(p)
  BY <1>6 DEF Handlers, HandleInitCreateCollective, Goes
<1> QED
  BY <1>2, <1>3, <1>4, <1>5, <1>6

\* What a pod has done stays done.
Grows(p) ==
    /\ pc[p] \in Started => pc'[p] \in Started
    /\ pc[p] \in Managed => pc'[p] \in Managed
    /\ pc[p] \in Listed => pc'[p] \in Listed
    /\ pc[p] \in Joined => pc'[p] \in Joined
    /\ pc[p] \in InContext => pc'[p] \in InContext
    /\ pc[p] \in Gathering => pc'[p] \in Gathering
    /\ pc[p] \in Worked => pc'[p] \in Worked
    /\ pc[p] \in Rested => pc'[p] \in Rested
    /\ pc[p] \in Left => pc'[p] \in Left
    /\ pc[p] \in Finalized => pc'[p] \in Finalized
    /\ pc[p] \in Stopping => pc'[p] \in Stopping
    /\ pc[p] # "off" => pc'[p] # "off"

LEMMA GrowsStep ==
    ASSUME Loose, NEW p \in Pods, Goes(p)
    PROVE  \A q \in Pods : Grows(q)
<1>1. Grows(p)
  <2>1. CASE pc'[p] = pc[p]
    BY <2>1 DEF Grows
  <2>2. CASE <<pc[p], pc'[p]>> \in Edges
    BY <2>2 DEF Edges, Grows, Started, Alive, Managed, Listed, Joined, InContext, Gathering,
                Worked, Rested, Left, Finalized, Stopping
  <2> QED
    BY <2>1, <2>2 DEF Goes
<1> QED
  BY <1>1 DEF Goes, Grows

LEMMA SinceGrows ==
    ASSUME Loose, NEW p \in Pods, Goes(p), NEW type \in Types, NEW q \in Pods,
           pc[q] \in Since(type), pc' \in [Pods -> Places]
    PROVE  pc'[q] \in Since(type)
<1>1. Grows(q)
  BY GrowsStep
<1> QED
  BY <1>1 DEF Grows, Since, Types

LEMMA SendingLoose ==
    ASSUME Loose, NEW p \in Pods, Sending(p)
    PROVE  Loose'
<1>1. inbox' \in [Pods -> Seq(Message)]
  BY SendingIs, SentType
<1>2. /\ launched' = launched /\ UNCHANGED <<start, counters, cc_count, cc_first, cc_idp, handlers>>
      /\ app' \in SUBSET Pods /\ ctx' \in SUBSET Pods /\ cc_vars' \in SUBSET Pods
      /\ asleep' = asleep
  BY DEF Loose, Sending, Initialize, CreateInitialContext, InitializeContext,
         InitCreateCollective, CreateFirst, FinalizeContext, Finalize, LeaveApplication, Goto,
         Got, groups, start, counters, collective
<1>3. \E place \in Places : pc' = [pc EXCEPT ![p] = place]
  BY DEF Sending, Initialize, CreateInitialContext, InitializeContext,
         InitCreateCollective, CreateFirst, FinalizeContext, Finalize, LeaveApplication, Goto,
         Got, Places, Starting, Finishing
<1>4. closure' = closure \/ closure' = [closure EXCEPT ![p] = p]
  BY DEF Sending, Initialize, CreateInitialContext, InitializeContext,
         InitCreateCollective, CreateFirst, FinalizeContext, Finalize, LeaveApplication, Goto, Got
<1>5. pc' \in [Pods -> Places] /\ closure' \in [Pods -> Pods \cup {None}]
  <2>1. /\ pc \in [Pods -> Places] /\ closure \in [Pods -> Pods \cup {None}]
        /\ cc_idp \in [Pods -> Pods \cup {None}]
    BY DEF Loose
  <2> QED
    BY <1>3, <1>4, <2>1
<1> QED
  BY <1>1, <1>2, <1>5 DEF Loose, start, counters

LEMMA QuietLoose ==
    ASSUME Loose, NEW p \in Pods, Quiet(p)
    PROVE  Loose'
<1>1. UNCHANGED <<app, inbox, is_main, counters, collective>>
  BY DEF Quiet, Sleep, CreateManagers, AwaitContext, AwaitGathering, NotFirst,
         GetCreateCollectiveIdp, Spawned, LeaveContext, StopSessions, Spawn, groups, start,
         counters, collective
<1>2. /\ launched' \in SUBSET Contexts /\ ctx' \in SUBSET Pods /\ managers' \in SUBSET Pods
      /\ asleep' \in SUBSET Pods
  BY DEF Loose, Quiet, Sleep, CreateManagers, AwaitContext, AwaitGathering, NotFirst,
         GetCreateCollectiveIdp, Spawned, LeaveContext, StopSessions, Spawn, groups, start,
         Goto, Got
<1>3. pc' = pc \/ \E place \in Places : pc' = [pc EXCEPT ![p] = place]
  BY DEF Quiet, Sleep, CreateManagers, AwaitContext, AwaitGathering, NotFirst,
         GetCreateCollectiveIdp, Spawned, LeaveContext, StopSessions, Spawn, Goto, Got,
         Places, Starting, Finishing
<1>4. closure' = closure \/ closure' = [closure EXCEPT ![p] = cc_idp[p]]
  BY DEF Quiet, Sleep, CreateManagers, AwaitContext, AwaitGathering, NotFirst,
         GetCreateCollectiveIdp, Spawned, LeaveContext, StopSessions, Spawn, Goto, Got
<1>5. pc' \in [Pods -> Places] /\ closure' \in [Pods -> Pods \cup {None}]
  <2>1. /\ pc \in [Pods -> Places] /\ closure \in [Pods -> Pods \cup {None}]
        /\ cc_idp \in [Pods -> Pods \cup {None}]
    BY DEF Loose
  <2> QED
    BY <1>3, <1>4, <2>1
<1> QED
  BY <1>1, <1>2, <1>5 DEF Loose, counters, collective

LEMMA HandleLoose ==
    ASSUME Loose, NEW p \in Pods, HandleMessage(p)
    PROVE  Loose'
<1> DEFINE msg == Head(inbox[p])
<1>1. inbox' \in [Pods -> Seq(Message)] /\ msg \in Message
  BY HandledIs
<1>2. /\ msg.from \in Pods /\ msg.size \in 0 .. Cardinality(Pods)
  BY <1>1 DEF Message
<1> HIDE DEF msg
<1> DEFINE Step == \/ HandleInitialize(p, msg) \/ HandleInitializeContext(p, msg)
                   \/ HandleFinalizeContext(p, msg) \/ HandleFinalize(p, msg)
                   \/ HandleDirectory(p, msg) \/ HandleTooEarly(p, msg)
                   \/ HandleCreateCollectiveInit(p, msg) \/ HandleCreateCollectiveIdp(p, msg)
<1>3. Step
  BY DEF HandleMessage, msg
<1>4. handlers[p] \in Seq(Pods) /\ final_total[p] + 1 \in Nat /\ final_ctx[p] + 1 \in Nat
  BY DEF Loose
<1>5. Append(handlers[p], msg.from) \in Seq(Pods)
  BY <1>2, <1>4, AppendIs
<1>6. CASE HandleInitialize(p, msg)
  BY <1>1, <1>2, <1>6 DEF HandleInitialize, Loose, groups, collective, main
<1>7. CASE HandleInitializeContext(p, msg)
  BY <1>1, <1>2, <1>7 DEF HandleInitializeContext, NotifyIf, Loose, groups, start, collective
<1>8. CASE HandleFinalizeContext(p, msg)
  BY <1>1, <1>4, <1>8 DEF HandleFinalizeContext, NotifyIf, Loose, groups, start, collective
<1>9. CASE HandleFinalize(p, msg)
  BY <1>1, <1>4, <1>9 DEF HandleFinalize, NotifyIf, Loose, groups, start, collective
<1>10. CASE HandleDirectory(p, msg)
  BY <1>1, <1>10 DEF HandleDirectory, Loose, groups, start, counters, collective, main
<1>11. CASE HandleTooEarly(p, msg)
  BY <1>1, <1>11 DEF HandleTooEarly, Loose, start, counters, collective, Places
<1>12. CASE HandleCreateCollectiveInit(p, msg)
  BY <1>1, <1>5, <1>12 DEF HandleCreateCollectiveInit, Loose, groups, start, counters, main
<1>13. CASE HandleCreateCollectiveIdp(p, msg)
  BY <1>1, <1>2, <1>13 DEF HandleCreateCollectiveIdp, NotifyIf, Loose, groups, start, counters
<1> QED
  BY <1>3, <1>6, <1>7, <1>8, <1>9, <1>10, <1>11, <1>12, <1>13

LEMMA ThreadLoose ==
    ASSUME Loose, NEW p \in Pods, Handlers(p)
    PROVE  Loose'
<1>1. PICK i \in DOMAIN handlers[p] : HandleInitCreateCollective(p, i)
  BY DEF Handlers
<1>2. handlers[p] \in Seq(Pods)
  BY DEF Loose
<1>3. RemoveAt(handlers[p], i) \in Seq(Pods)
  BY <1>2, RemovedIs
<1>4. cc_count \in [Pods -> Nat] /\ cc_count[p] + 1 \in Nat
  <2>1. cc_count \in [Pods -> Nat]
    BY DEF Loose
  <2> QED
    BY <2>1
<1>5. /\ handlers' \in [Pods -> Seq(Pods)] /\ cc_count' \in [Pods -> Nat]
      /\ cc_first' \in [Pods -> {Unknown, "yes", "no"}] /\ asleep' \in SUBSET Pods
  BY <1>1, <1>3, <1>4 DEF HandleInitCreateCollective, NotifyIf, Loose
<1> QED
  BY <1>1, <1>5 DEF HandleInitCreateCollective, Loose, groups, start, counters

LEMMA LooseStep ==
    ASSUME Loose, NEW p \in Pods,
           \/ Sending(p) \/ Quiet(p) \/ StopService(p) \/ HandleMessage(p) \/ Handlers(p)
    PROVE  Loose'
<1>1. CASE StopService(p)
  <2>1. <<>> \in Seq(Message)
    BY EmptySeq
  <2> QED
    BY <1>1, <2>1 DEF StopService, Loose, Goto, groups, start, counters, collective, Places,
                      Finishing
<1> QED
  BY <1>1, SendingLoose, QuietLoose, HandleLoose, ThreadLoose

\* When the counters are right they have their bounds.
LEMMA TypesAre ==
    ASSUME Loose, CountsMatch
    PROVE  TypeOK
<1>1. ASSUME NEW p \in Pods
      PROVE  /\ final_total[p] <= Cardinality(Pods) /\ final_ctx[p] <= Cardinality(Pods)
             /\ cc_count[p] <= Cardinality(Pods)
  <2> DEFINE early == (Heard(p, 0, "CollectiveInit") \cap Mates(p)) \ Waiting(p)
             rest  == Heard(p, 0, "FinalizeContext") \cap Mates(p)
             final == Heard(p, 0, "Finalize")
  <2>1. early \in SUBSET Pods /\ rest \in SUBSET Pods /\ final \in SUBSET Pods
    BY DEF Heard
  <2>2. cc_count[p] <= Cardinality(early) /\ final_ctx[p] <= Cardinality(rest) /\ final_total[p] <= Cardinality(final)
    BY DEF CountsMatch, CountsOf
  <2>3. /\ final_total[p] \in Nat /\ final_ctx[p] \in Nat /\ cc_count[p] \in Nat
        /\ Cardinality(Pods) \in Nat
    BY PodsCount DEF Loose
  <2> HIDE DEF early, rest, final
  <2>4. /\ Cardinality(early) \in 0 .. Cardinality(Pods) /\ Cardinality(rest) \in 0 .. Cardinality(Pods)
        /\ Cardinality(final) \in 0 .. Cardinality(Pods)
    BY <2>1, PodsCount
  <2> QED
    BY <2>2, <2>3, <2>4
<1>2. /\ final_total \in [Pods -> 0 .. Cardinality(Pods)] /\ final_ctx \in [Pods -> 0 .. Cardinality(Pods)]
      /\ cc_count \in [Pods -> 0 .. Cardinality(Pods)]
  BY <1>1, PodsCount DEF Loose
<1> QED
  BY <1>2 DEF Loose, TypeOK, Message

------------------------------------------------------------------------------
(* The groups and the places *)

LEMMA PlacedStep ==
    ASSUME Loose, PlacesMatch, MailMatches, NEW p \in Pods,
           \/ Sending(p) \/ Quiet(p) \/ StopService(p) \/ HandleMessage(p) \/ Handlers(p)
    PROVE  PlacesMatch'
<1> SUFFICES ASSUME NEW q \in Pods PROVE Placed(q)'
  BY DEF PlacesMatch
<1> USE DEF Started, Alive, Managed, Listed, Joined, InContext, Gathering, Worked, Rested, Left,
        Finalized, Stopping
<1>1. Placed(q) /\ Placed(p) /\ pc \in [Pods -> Places] /\ closure \in [Pods -> Pods \cup {None}]
  BY DEF PlacesMatch, Loose
<1>2. CASE Sending(p)
  BY <1>1, <1>2 DEF Sending, Initialize, CreateInitialContext, InitializeContext,
         InitCreateCollective, CreateFirst, FinalizeContext, Finalize, LeaveApplication,
         Goto, Got, groups, start, Placed, Awaited
<1>3. CASE Quiet(p)
  BY <1>1, <1>3 DEF Quiet, Sleep, CreateManagers, AwaitContext, AwaitGathering, NotFirst,
         GetCreateCollectiveIdp, Spawned, LeaveContext, StopSessions, Spawn, groups, start,
         Goto, Got, Placed, Awaited
<1>4. CASE StopService(p)
  BY <1>1, <1>4 DEF StopService, Goto, groups, start, Placed
<1>5. CASE HandleMessage(p)
  <2>1. CASE UNCHANGED <<groups, managers, pc, closure>>
    BY <1>1, <2>1 DEF groups, Placed
  <2>2. CASE \E msg : HandleTooEarly(p, msg)
    <3>1. pc[p] = "joining"
      BY <1>5, <2>2, DeathIs DEF HandleTooEarly
    <3> QED
      BY <1>1, <2>2, <3>1 DEF HandleTooEarly, start, Placed
  <2> QED
    BY <1>5, <2>1, <2>2 DEF HandleMessage, HandleInitialize, HandleInitializeContext,
       HandleFinalizeContext, HandleFinalize, HandleDirectory, HandleCreateCollectiveInit,
       HandleCreateCollectiveIdp, NotifyIf, start, main
<1>6. CASE Handlers(p)
  BY <1>1, <1>6 DEF Handlers, HandleInitCreateCollective, groups, start, Placed
<1> QED
  BY <1>2, <1>3, <1>4, <1>5, <1>6

------------------------------------------------------------------------------
(* What is in the inboxes *)

LEMMA LaterSent ==
    ASSUME Loose, NEW p \in Pods, NEW type \in Types, NEW group,
           NEW size \in 0 .. Cardinality(Pods), Sends(p, type, group, size),
           NEW q \in Pods, NEW t, NEW i \in Nat
    PROVE  /\ i <= Len(inbox[q]) =>
                 Later(q, i, t)' = IF q \in group /\ t = type THEN Later(q, i, t) \cup {p}
                                                              ELSE Later(q, i, t)
           /\ i = Len(inbox'[q]) => Later(q, i, t)' = {}
<1> DEFINE n == Len(inbox[q])
<1>1. /\ n \in Nat /\ DOMAIN inbox[q] = 1 .. n
      /\ DOMAIN inbox'[q] = 1 .. Len(inbox'[q])
      /\ Len(inbox'[q]) = IF q \in group THEN n + 1 ELSE n
      /\ \A j \in 1 .. n : inbox'[q][j] = inbox[q][j]
      /\ q \in group => inbox'[q][n + 1] = Msg(type, p, size)
  BY SentIs
<1>2. Msg(type, p, size).type = type /\ Msg(type, p, size).from = p
  BY MsgIs
<1> HIDE DEF n
<1>3. ASSUME i <= n, q \in group
      PROVE  Later(q, i, t)' = IF t = type THEN Later(q, i, t) \cup {p} ELSE Later(q, i, t)
  <2>1. DOMAIN inbox'[q] = 1 .. n \cup {n + 1} /\ n + 1 > i
    BY <1>1, <1>3
  <2> QED
    BY <1>1, <1>2, <1>3, <2>1 DEF Later
<1>4. ASSUME i <= n, q \notin group
      PROVE  Later(q, i, t)' = Later(q, i, t)
  BY <1>1, <1>4 DEF Later
<1>5. ASSUME i = Len(inbox'[q])
      PROVE  Later(q, i, t)' = {}
  BY <1>1, <1>5 DEF Later
<1> QED
  BY <1>3, <1>4, <1>5 DEF n

LEMMA LaterHandled ==
    ASSUME Loose, NEW p \in Pods, HandleMessage(p), NEW q \in Pods, NEW t, NEW i \in Nat
    PROVE  Later(q, i, t)' = IF q = p THEN Later(p, i + 1, t) ELSE Later(q, i, t)
<1>1. /\ Len(inbox[p]) \in Nat /\ DOMAIN inbox[p] = 1 .. Len(inbox[p])
      /\ DOMAIN inbox'[p] = 1 .. Len(inbox[p]) - 1
      /\ \A j \in 1 .. Len(inbox[p]) - 1 : inbox'[p][j] = inbox[p][j + 1]
      /\ q # p => inbox'[q] = inbox[q]
  BY HandledIs
<1>2. CASE q # p
  BY <1>1, <1>2 DEF Later
<1>3. CASE q = p
  <2>1. ASSUME NEW r \in Later(p, i, t)'
        PROVE  r \in Later(p, i + 1, t)
    <3>1. PICK j \in DOMAIN inbox'[p] : /\ j > i /\ inbox'[p][j].type = t
                                        /\ inbox'[p][j].from = r
      BY <2>1 DEF Later
    <3>2. j + 1 \in DOMAIN inbox[p] /\ j + 1 > i + 1 /\ inbox'[p][j] = inbox[p][j + 1]
      BY <1>1, <3>1
    <3> QED
      BY <2>1, <3>1, <3>2 DEF Later
  <2>2. ASSUME NEW r \in Later(p, i + 1, t)
        PROVE  r \in Later(p, i, t)'
    <3>1. PICK j \in DOMAIN inbox[p] : /\ j > i + 1 /\ inbox[p][j].type = t
                                       /\ inbox[p][j].from = r
      BY <2>2 DEF Later
    <3>2. PICK k \in DOMAIN inbox'[p] : k = j - 1
      BY <1>1, <3>1
    <3>3. k > i /\ inbox'[p][k] = inbox[p][j]
      BY <1>1, <3>1, <3>2
    <3> QED
      BY <2>2, <3>1, <3>2, <3>3 DEF Later
  <2>3. Later(p, i, t)' = Later(p, i + 1, t)
    BY <2>1, <2>2
  <2> QED
    BY <1>3, <2>3
<1> QED
  BY <1>2, <1>3

LEMMA LaterFirst ==
    ASSUME Loose, NEW p \in Pods, 1 \in DOMAIN inbox[p], NEW t
    PROVE  Later(p, 0, t) = IF inbox[p][1].type = t THEN Later(p, 1, t) \cup {inbox[p][1].from}
                                                    ELSE Later(p, 1, t)
<1>1. inbox[p] \in Seq(Message)
  BY DEF Loose
<1>2. /\ Len(inbox[p]) \in Nat /\ DOMAIN inbox[p] = 1 .. Len(inbox[p])
      /\ inbox[p][1] \in Message
  BY <1>1, LenProperties, ElementOfSeq
<1>3. inbox[p][1].from \in Pods
  BY <1>2 DEF Message
<1>4. \A j \in DOMAIN inbox[p] : j > 0 <=> j = 1 \/ j > 1
  BY <1>2
<1>5. ~(1 > 1) /\ 1 > 0
  OBVIOUS
<1>6. ASSUME NEW r \in Pods
      PROVE  r \in Later(p, 0, t) <=>
                \/ inbox[p][1].type = t /\ inbox[p][1].from = r
                \/ r \in Later(p, 1, t)
  BY <1>4, <1>5 DEF Later
<1>7. Later(p, 0, t) \subseteq Pods /\ Later(p, 1, t) \subseteq Pods
  BY DEF Later
<1> QED
  BY <1>3, <1>6, <1>7

\* Two ways to see the messages behind the first i.
LEMMA LaterIs ==
    ASSUME Loose, NEW p \in Pods, NEW i \in Nat, NEW j \in DOMAIN inbox[p], j > i
    PROVE  inbox[p][j].from \in Later(p, i, inbox[p][j].type) /\ inbox[p][j] \in Message
<1>1. inbox[p] \in Seq(Message)
  BY DEF Loose
<1>2. inbox[p][j] \in Message
  BY <1>1, ElementOfSeq, LenProperties
<1> QED
  BY <1>2 DEF Later, Message

\* The mail of a pod that is not touched.
LEMMA LaterKept ==
    ASSUME NEW q \in Pods, inbox'[q] = inbox[q], NEW i, NEW t
    PROVE  Later(q, i, t)' = Later(q, i, t)
BY DEF Later

LEMMA LaterCleared ==
    ASSUME Loose, NEW p \in Pods, StopService(p), NEW q \in Pods, NEW i, NEW t
    PROVE  /\ Later(q, i, t)' = IF q = p THEN {} ELSE Later(q, i, t)
           /\ inbox'[p] = <<>> /\ DOMAIN inbox'[p] = {}
           /\ q # p => inbox'[q] = inbox[q]
<1>1. inbox' = [inbox EXCEPT ![p] = <<>>] /\ inbox \in [Pods -> Seq(Message)]
  BY DEF StopService, Loose
<1>2. inbox'[p] = <<>> /\ (q # p => inbox'[q] = inbox[q]) /\ DOMAIN inbox'[p] = {}
  BY <1>1
<1>3. CASE q = p
  BY <1>2, <1>3 DEF Later
<1>4. CASE q # p
  BY <1>2, <1>4 DEF Later
<1> QED
  BY <1>2, <1>3, <1>4

\* Actions other than those that send, handle a message or end the service.
LEMMA Untouched ==
    ASSUME NEW p \in Pods, Quiet(p) \/ Handlers(p)
    PROVE  inbox' = inbox
BY DEF Quiet, Sleep, CreateManagers, AwaitContext, AwaitGathering, NotFirst,
       GetCreateCollectiveIdp, Spawned, LeaveContext, StopSessions, Spawn, Handlers,
       HandleInitCreateCollective

Step(p) == \/ Sending(p) \/ Quiet(p) \/ StopService(p) \/ HandleMessage(p) \/ Handlers(p)

\* The facts that the next lemmas share.
LEMMA StepIs ==
    ASSUME Loose, PlacesMatch, MailMatches, NEW p \in Pods, Step(p)
    PROVE  /\ Loose' /\ PlacesMatch' /\ Goes(p) /\ pc' \in [Pods -> Places]
           /\ \A q \in Pods : Grows(q)
           /\ \A type \in Types, q \in Pods : pc[q] \in Since(type) => pc'[q] \in Since(type)
<1>1. Loose' /\ PlacesMatch' /\ Goes(p)
  BY LooseStep, PlacedStep, GoesStep DEF Step
<1>2. pc' \in [Pods -> Places]
  BY <1>1 DEF Loose
<1> QED
  BY <1>1, <1>2, GrowsStep, SinceGrows

\* Mail that has been sent stays sent.
LEMMA FitsKept ==
    ASSUME Loose, PlacesMatch, MailMatches, NEW p \in Pods, Step(p),
           NEW q \in Pods, NEW i \in DOMAIN inbox[q], Fits(q, i),
           NEW j, inbox'[q][j] = inbox[q][i],
           NEW t, t = inbox[q][i].type, inbox[q][i].from \notin Later(q, j, t)'
    PROVE  Fits(q, j)'
<1>1. inbox[q] \in Seq(Message)
  BY DEF Loose
<1>2. inbox[q][i] \in Message
  BY <1>1, ElementOfSeq, LenProperties
<1>3. inbox[q][i].type \in Types /\ inbox[q][i].from \in Pods
  BY <1>2 DEF Message
<1>4. pc'[inbox[q][i].from] \in Since(inbox[q][i].type)
  BY <1>3, StepIs DEF Fits
<1>5. inbox'[q][j].from \notin Later(q, j, inbox[q][j].type)'
  BY DEF Later
<1> QED
  BY <1>4, <1>5 DEF Fits

LEMMA MailStep ==
    ASSUME Loose, PlacesMatch, MailMatches, NEW p \in Pods, Step(p)
    PROVE  MailMatches'
<1> SUFFICES ASSUME NEW q \in Pods
             PROVE  (pc'[q] = "off" => inbox'[q] = <<>>) /\ \A i \in DOMAIN inbox'[q] : Fits(q, i)'
  BY DEF MailMatches
<1>1. Goes(p) /\ Grows(q) /\ Loose'
  BY StepIs
<1>2. (pc[q] = "off" => inbox[q] = <<>>) /\ \A i \in DOMAIN inbox[q] : Fits(q, i)
  BY DEF MailMatches
<1>3. ASSUME inbox'[q] = inbox[q]
      PROVE  /\ pc'[q] = "off" => inbox'[q] = <<>>
             /\ \A i \in DOMAIN inbox'[q] : Fits(q, i)'
  <2>1. pc'[q] = "off" => inbox'[q] = <<>>
    BY <1>1, <1>2, <1>3 DEF Grows
  <2>2. ASSUME NEW i \in DOMAIN inbox'[q]
        PROVE  Fits(q, i)'
    <3>1. i \in DOMAIN inbox[q] /\ Fits(q, i) /\ inbox'[q][i] = inbox[q][i]
      BY <1>2, <1>3, <2>2
    <3>2. PICK t : t = inbox[q][i].type
      OBVIOUS
    <3>3. Later(q, i, t)' = Later(q, i, t)
      BY <1>3, LaterKept
    <3>4. inbox[q][i].from \notin Later(q, i, t)'
      BY <3>1, <3>2, <3>3 DEF Fits
    <3> QED
      BY <3>1, <3>2, <3>4, FitsKept
  <2> QED
    BY <2>1, <2>2
<1>4. CASE Sending(p)
  <2>1. PICK type \in Types, group \in SUBSET Pods, size \in 0 .. Cardinality(Pods) :
           Sends(p, type, group, size) /\ SentTo(p, type, group, size)
    BY <1>4, SendingIs
  <2>2. /\ Len(inbox[q]) \in Nat /\ DOMAIN inbox[q] = 1 .. Len(inbox[q])
        /\ DOMAIN inbox'[q] = 1 .. Len(inbox'[q])
        /\ Len(inbox'[q]) = IF q \in group THEN Len(inbox[q]) + 1 ELSE Len(inbox[q])
        /\ \A i \in 1 .. Len(inbox[q]) : inbox'[q][i] = inbox[q][i]
        /\ q \notin group => inbox'[q] = inbox[q]
        /\ q \in group => inbox'[q][Len(inbox[q]) + 1] = Msg(type, p, size)
    BY <2>1, SentIs
  <2>3. CASE q \notin group
    BY <1>3, <2>2, <2>3
  <2>4. CASE q \in group
    <3>1. pc'[q] # "off"
      <4>1. group \subseteq app' \cup app \cup ctx' \cup ctx \cup {p}
        BY <2>1 DEF SentTo, Types
      <4>2. Placed(q) /\ Placed(q)'
        BY StepIs DEF PlacesMatch
      <4>3. pc[p] \notin Since(type) /\ pc'[p] \in Since(type) /\ pc[q] \in Places
        BY <2>1 DEF Sends, Loose
      <4>4. q # p => pc'[q] = pc[q]
        BY <1>1 DEF Goes
      <4>5. "off" \notin Since(type)
        BY DEF Since, Types, Started, Alive, Managed, Listed, Joined, InContext, Gathering,
               Worked, Rested, Left, Finalized, Stopping
      <4>6. "off" \notin Alive \cup Joined
        BY DEF Alive, Managed, Listed, Joined, InContext, Gathering,
               Worked, Rested, Left, Finalized, Stopping
      <4> QED
        BY <2>4, <4>1, <4>2, <4>3, <4>4, <4>5, <4>6 DEF Placed
    <3>2. ASSUME NEW i \in 1 .. Len(inbox[q])
          PROVE  Fits(q, i)'
      <4>1. i \in DOMAIN inbox[q] /\ Fits(q, i) /\ inbox'[q][i] = inbox[q][i]
            /\ i \in DOMAIN inbox'[q] /\ i \in Nat /\ i <= Len(inbox[q])
        BY <1>2, <2>2, <2>4, <3>2
      <4>2. PICK t : t = inbox[q][i].type
        OBVIOUS
      <4>3. Later(q, i, t)' = IF q \in group /\ t = type THEN Later(q, i, t) \cup {p}
                                                         ELSE Later(q, i, t)
        BY <2>1, <4>1, LaterSent
      <4>4. inbox[q][i].type = type => inbox[q][i].from # p
        BY <2>1, <4>1 DEF Fits, Sends
      <4>5. inbox[q][i].from \notin Later(q, i, t)'
        BY <4>1, <4>2, <4>3, <4>4 DEF Fits
      <4> QED
        BY <4>1, <4>2, <4>5, FitsKept
    <3>3. ASSUME NEW i \in Nat, i = Len(inbox[q]) + 1
          PROVE  Fits(q, i)'
      <4>1. i = Len(inbox'[q]) /\ inbox'[q][i] = Msg(type, p, size)
        BY <2>2, <2>4, <3>3
      <4>2. Msg(type, p, size).type = type /\ Msg(type, p, size).from = p
        BY MsgIs
      <4>3. Later(q, i, type)' = {}
        BY <2>1, <4>1, LaterSent
      <4>4. pc'[p] \in Since(type) /\ (type \in OfContext => p \in Mates(q))
        BY <2>1, <2>4 DEF Sends, SentTo, OfContext, Mates
      <4>5. p \notin Later(q, i, inbox[q][i].type)'
        BY <4>1, <4>2, <4>3 DEF Later
      <4> QED
        BY <4>1, <4>2, <4>4, <4>5 DEF Fits
    <3>4. ASSUME NEW i \in DOMAIN inbox'[q]
          PROVE  Fits(q, i)'
      <4>1. i \in Nat /\ (i \in 1 .. Len(inbox[q]) \/ i = Len(inbox[q]) + 1)
        BY <2>2, <2>4, <3>4
      <4> QED
        BY <3>2, <3>3, <4>1
    <3> QED
      BY <3>1, <3>4
  <2> QED
    BY <2>3, <2>4
<1>5. CASE Quiet(p) \/ Handlers(p)
  BY <1>3, <1>5, Untouched
<1>6. CASE StopService(p)
  <2>1. inbox'[p] = <<>> /\ DOMAIN inbox'[p] = {} /\ (q # p => inbox'[q] = inbox[q])
    BY <1>6, LaterCleared
  <2>2. CASE q = p
    BY <2>1, <2>2
  <2>3. CASE q # p
    BY <1>3, <2>1, <2>3
  <2> QED
    BY <2>2, <2>3
<1>7. CASE HandleMessage(p)
  <2>1. /\ Len(inbox[p]) \in Nat /\ DOMAIN inbox[p] = 1 .. Len(inbox[p])
        /\ DOMAIN inbox'[p] = 1 .. Len(inbox[p]) - 1
        /\ \A i \in 1 .. Len(inbox[p]) - 1 : inbox'[p][i] = inbox[p][i + 1]
        /\ q # p => inbox'[q] = inbox[q]
        /\ 1 \in DOMAIN inbox[p]
    BY <1>7, HandledIs
  <2>2. CASE q = p
    <3>1. pc'[q] # "off"
      BY <1>1, <1>2, <2>1, <2>2 DEF Grows
    <3>2. ASSUME NEW i \in DOMAIN inbox'[q]
          PROVE  Fits(q, i)'
      <4>1. i + 1 \in DOMAIN inbox[q] /\ inbox'[q][i] = inbox[q][i + 1] /\ i \in Nat
        BY <2>1, <2>2, <3>2
      <4>2. Fits(q, i + 1)
        BY <1>2, <4>1
      <4>3. PICK t : t = inbox[q][i + 1].type
        OBVIOUS
      <4>4. Later(q, i, t)' = Later(q, i + 1, t)
        BY <1>7, <2>2, <4>1, LaterHandled
      <4>5. inbox[q][i + 1].from \notin Later(q, i, t)'
        BY <4>2, <4>3, <4>4 DEF Fits
      <4> QED
        BY <4>1, <4>2, <4>3, <4>5, FitsKept
    <3> QED
      BY <3>1, <3>2
  <2> QED
    BY <1>3, <2>1, <2>2
<1> QED
  BY <1>4, <1>5, <1>6, <1>7 DEF Step

------------------------------------------------------------------------------
(* What is counted *)

LEMMA SubCount ==
    ASSUME NEW less, NEW more, less \subseteq more, more \subseteq Pods
    PROVE  /\ Cardinality(less) \in Nat /\ Cardinality(more) \in Nat
           /\ Cardinality(less) <= Cardinality(more)
<1>1. IsFiniteSet(more) /\ IsFiniteSet(less)
  BY PodsCount, FS_Subset
<1> QED
  BY <1>1, FS_Subset, FS_CardinalityType

LEMMA OneMore ==
    ASSUME NEW less, NEW more, NEW q, less \cup {q} \subseteq more, more \subseteq Pods,
           q \notin less
    PROVE  Cardinality(less) \in Nat /\ Cardinality(less) + 1 <= Cardinality(more)
<1>1. IsFiniteSet(less)
  BY PodsCount, FS_Subset
<1>2. Cardinality(less \cup {q}) = Cardinality(less) + 1 /\ Cardinality(less) \in Nat
  BY <1>1, FS_AddElement, FS_CardinalityType
<1>3. Cardinality(less \cup {q}) <= Cardinality(more)
  BY SubCount
<1> QED
  BY <1>2, <1>3

\* A pod that handles no message has heard at least what it had heard.
LEMMA HeardKept ==
    ASSUME Loose, PlacesMatch, MailMatches, NEW p \in Pods, NEW q \in Pods,
           \/ Sending(p) \/ Quiet(p) \/ StopService(p) \/ Handlers(p)
           \/ HandleMessage(p) /\ q # p,
           NEW t \in Types, NEW i \in Nat, i <= Len(inbox[q])
    PROVE  Heard(q, i, t) \subseteq Heard(q, i, t)'
<1> SUFFICES ASSUME NEW r \in Heard(q, i, t) PROVE r \in Heard(q, i, t)'
  OBVIOUS
<1>1. r \in Pods /\ pc[r] \in Since(t) /\ r \notin Later(q, i, t)
  BY DEF Heard
<1>2. pc'[r] \in Since(t)
  BY <1>1, StepIs DEF Step
<1>3. r \notin Later(q, i, t)'
  <2>1. CASE Sending(p)
    <3>1. PICK type \in Types, group \in SUBSET Pods, size \in 0 .. Cardinality(Pods) :
             Sends(p, type, group, size)
      BY <2>1, SendingIs
    <3>2. Later(q, i, t)' = IF q \in group /\ t = type THEN Later(q, i, t) \cup {p}
                                                       ELSE Later(q, i, t)
      BY <3>1, LaterSent
    <3>3. t = type => r # p
      BY <1>1, <3>1 DEF Sends
    <3> QED
      BY <1>1, <3>2, <3>3
  <2>2. CASE Quiet(p) \/ Handlers(p)
    BY <1>1, <2>2, Untouched, LaterKept
  <2>3. CASE StopService(p)
    BY <1>1, <2>3, LaterCleared
  <2>4. CASE HandleMessage(p) /\ q # p
    BY <1>1, <2>4, LaterHandled
  <2> QED
    BY <2>1, <2>2, <2>3, <2>4
<1> QED
  BY <1>1, <1>2, <1>3 DEF Heard

LEMMA HeardHandled ==
    ASSUME Loose, PlacesMatch, MailMatches, NEW p \in Pods, HandleMessage(p),
           NEW t \in Types, NEW i \in Nat
    PROVE  Heard(p, i + 1, t) \subseteq Heard(p, i, t)'
<1> SUFFICES ASSUME NEW r \in Heard(p, i + 1, t) PROVE r \in Heard(p, i, t)'
  OBVIOUS
<1>1. r \in Pods /\ pc[r] \in Since(t) /\ r \notin Later(p, i + 1, t)
  BY DEF Heard
<1>2. pc'[r] \in Since(t)
  BY <1>1, StepIs DEF Step
<1>3. Later(p, i, t)' = Later(p, i + 1, t)
  BY LaterHandled
<1> QED
  BY <1>1, <1>2, <1>3 DEF Heard

\* The first message is the next to be heard, and was not heard before.
LEMMA HeardFirst ==
    ASSUME Loose, MailMatches, NEW p \in Pods, 1 \in DOMAIN inbox[p],
           NEW from, from = inbox[p][1].from, NEW t \in Types
    PROVE  /\ from \in Pods /\ inbox[p][1].type \in Types
           /\ inbox[p][1].type # t => Heard(p, 1, t) = Heard(p, 0, t)
           /\ inbox[p][1].type = t => /\ Heard(p, 1, t) = Heard(p, 0, t) \cup {from}
                                      /\ from \notin Heard(p, 0, t)
                                      /\ pc[from] \in Since(t)
<1>1. inbox[p] \in Seq(Message)
  BY DEF Loose
<1>2. inbox[p][1] \in Message
  BY <1>1, ElementOfSeq, LenProperties
<1>3. from \in Pods /\ inbox[p][1].type \in Types
  BY <1>2 DEF Message
<1>4. Later(p, 0, t) = IF inbox[p][1].type = t THEN Later(p, 1, t) \cup {from} ELSE Later(p, 1, t)
  BY LaterFirst
<1>5. Fits(p, 1)
  BY DEF MailMatches
<1>6. CASE inbox[p][1].type # t
  BY <1>3, <1>4, <1>6 DEF Heard
<1>7. CASE inbox[p][1].type = t
  <2>1. pc[from] \in Since(t) /\ from \notin Later(p, 1, t)
    BY <1>5, <1>7 DEF Fits
  <2>2. Later(p, 0, t) = Later(p, 1, t) \cup {from}
    BY <1>4, <1>7
  <2> QED
    BY <1>3, <1>7, <2>1, <2>2 DEF Heard
<1> QED
  BY <1>3, <1>6, <1>7

\* The threads of a pod for which none is started and none ends.
LEMMA ThreadsKept ==
    ASSUME NEW q \in Pods, ThreadsOf(q), handlers'[q] = handlers[q],
           Heard(q, 0, "CollectiveInit") \subseteq Heard(q, 0, "CollectiveInit")'
    PROVE  ThreadsOf(q)' /\ Waiting(q)' = Waiting(q)
<1>1. Waiting(q)' = Waiting(q)
  BY DEF Waiting
<1>2. Mates(q)' = Mates(q)
  BY DEF Mates
<1>3. \A i, j \in DOMAIN handlers'[q] : handlers'[q][i] = handlers'[q][j] => i = j
  BY DEF ThreadsOf
<1>4. Waiting(q)' \subseteq Heard(q, 0, "CollectiveInit")' \cap Mates(q)'
  BY <1>1, <1>2 DEF ThreadsOf
<1> QED
  BY <1>1, <1>3, <1>4 DEF ThreadsOf

\* A message of the collective starts a thread.
LEMMA ThreadStarts ==
    ASSUME Loose, PlacesMatch, MailMatches, ThreadsMatch, NEW p \in Pods, HandleMessage(p),
           HandleCreateCollectiveInit(p, Head(inbox[p]))
    PROVE  /\ ThreadsOf(p)'
           /\ Waiting(p)' = Waiting(p) \cup {inbox[p][1].from}
           /\ inbox[p][1].from \in Heard(p, 0, "CollectiveInit")' \cap Mates(p)
           /\ Heard(p, 0, "CollectiveInit") \subseteq Heard(p, 0, "CollectiveInit")'
           /\ inbox[p][1].from \notin Heard(p, 0, "CollectiveInit")
<1>1. PICK from : from = inbox[p][1].from
  OBVIOUS
<1>2. 1 \in DOMAIN inbox[p] /\ Head(inbox[p]) = inbox[p][1]
  BY HandledIs
<1>3. /\ inbox[p][1].type = "CollectiveInit"
      /\ handlers' = [handlers EXCEPT ![p] = Append(handlers[p], from)]
  BY <1>1, <1>2 DEF HandleCreateCollectiveInit
<1>4. /\ from \in Pods
      /\ Heard(p, 1, "CollectiveInit") = Heard(p, 0, "CollectiveInit") \cup {from}
      /\ from \notin Heard(p, 0, "CollectiveInit")
  BY <1>1, <1>2, <1>3, HeardFirst DEF Types
<1>5. Heard(p, 1, "CollectiveInit") \subseteq Heard(p, 0, "CollectiveInit")'
  BY HeardHandled DEF Types
<1>6. from \in Mates(p)
  BY <1>1, <1>2, <1>3 DEF MailMatches, Fits, OfContext
<1>7. handlers \in [Pods -> Seq(Pods)] /\ handlers[p] \in Seq(Pods)
  BY DEF Loose
<1>8. /\ Len(handlers[p]) \in Nat /\ DOMAIN handlers[p] = 1 .. Len(handlers[p])
      /\ DOMAIN handlers'[p] = 1 .. Len(handlers[p]) + 1
      /\ \A i \in 1 .. Len(handlers[p]) : handlers'[p][i] = handlers[p][i]
      /\ handlers'[p][Len(handlers[p]) + 1] = from
  BY <1>3, <1>4, <1>7, AppendIs
<1>9. Waiting(p)' = Waiting(p) \cup {from}
  <2>1. ASSUME NEW r \in Pods
        PROVE  r \in Waiting(p)' <=> r \in Waiting(p) \/ r = from
    BY <1>8 DEF Waiting
  <2> QED
    BY <1>4, <2>1 DEF Waiting
<1>10. from \notin Waiting(p) /\ Waiting(p) \subseteq Heard(p, 0, "CollectiveInit") \cap Mates(p)
  BY <1>4 DEF ThreadsMatch, ThreadsOf
<1>11. \A i, j \in DOMAIN handlers'[p] : handlers'[p][i] = handlers'[p][j] => i = j
  <2>1. \A i \in 1 .. Len(handlers[p]) : handlers[p][i] # from
    BY <1>4, <1>7, <1>8, <1>10 DEF Waiting
  <2>2. \A i, j \in 1 .. Len(handlers[p]) : handlers[p][i] = handlers[p][j] => i = j
    BY <1>8 DEF ThreadsMatch, ThreadsOf
  <2>3. \A i \in DOMAIN handlers'[p] : i \in 1 .. Len(handlers[p]) \/ i = Len(handlers[p]) + 1
    BY <1>8
  <2> QED
    BY <1>8, <2>1, <2>2, <2>3
<1>12. Mates(p)' = Mates(p)
  BY DEF Mates
<1>13. ThreadsOf(p)'
  BY <1>4, <1>5, <1>6, <1>9, <1>10, <1>11, <1>12 DEF ThreadsOf
<1> QED
  BY <1>1, <1>4, <1>5, <1>6, <1>9, <1>13

\* A thread of the collective ends.
LEMMA ThreadEnds ==
    ASSUME Loose, PlacesMatch, MailMatches, ThreadsMatch, NEW p \in Pods,
           NEW i \in DOMAIN handlers[p], HandleInitCreateCollective(p, i)
    PROVE  /\ ThreadsOf(p)'
           /\ Waiting(p)' = Waiting(p) \ {handlers[p][i]}
           /\ handlers[p][i] \in Waiting(p)
<1>1. handlers \in [Pods -> Seq(Pods)] /\ handlers[p] \in Seq(Pods)
  BY DEF Loose
<1>2. handlers'[p] = RemoveAt(handlers[p], i)
  BY <1>1 DEF HandleInitCreateCollective
<1>3. /\ Len(handlers[p]) \in Nat /\ DOMAIN handlers[p] = 1 .. Len(handlers[p])
      /\ DOMAIN handlers'[p] = 1 .. Len(handlers[p]) - 1
      /\ \A j \in 1 .. Len(handlers[p]) - 1 :
            handlers'[p][j] = IF j < i THEN handlers[p][j] ELSE handlers[p][j + 1]
  BY <1>1, <1>2, RemovedIs
<1>4. \A j \in 1 .. Len(handlers[p]) : handlers[p][j] \in Pods
  BY <1>1, <1>3, ElementOfSeq
<1>5. \A j, k \in 1 .. Len(handlers[p]) : handlers[p][j] = handlers[p][k] => j = k
  BY <1>3 DEF ThreadsMatch, ThreadsOf
<1>6. handlers[p][i] \in Waiting(p)
  BY <1>3, <1>4 DEF Waiting
<1>7. \A j, k \in DOMAIN handlers'[p] : handlers'[p][j] = handlers'[p][k] => j = k
  <2> SUFFICES ASSUME NEW j \in DOMAIN handlers'[p], NEW k \in DOMAIN handlers'[p],
                      handlers'[p][j] = handlers'[p][k]
               PROVE  j = k
    OBVIOUS
  <2>1. /\ j \in 1 .. Len(handlers[p]) - 1 /\ k \in 1 .. Len(handlers[p]) - 1
        /\ i \in 1 .. Len(handlers[p])
    BY <1>3
  <2> DEFINE m == IF j < i THEN j ELSE j + 1
             n == IF k < i THEN k ELSE k + 1
  <2>2. m \in 1 .. Len(handlers[p]) /\ n \in 1 .. Len(handlers[p])
    BY <1>3, <2>1
  <2>3. handlers'[p][j] = handlers[p][m] /\ handlers'[p][k] = handlers[p][n]
    BY <1>3, <2>1, <2>2
  <2>4. m = n
    BY <1>5, <2>2, <2>3
  <2> QED
    BY <2>1, <2>4
<1>8. ASSUME NEW r \in Pods
      PROVE  r \in Waiting(p)' <=> r \in Waiting(p) /\ r # handlers[p][i]
  <2>1. ASSUME r \in Waiting(p)'
        PROVE  r \in Waiting(p) /\ r # handlers[p][i]
    <3>1. PICK j \in 1 .. Len(handlers[p]) - 1 : handlers'[p][j] = r
      BY <1>3, <2>1 DEF Waiting
    <3>2. PICK m \in 1 .. Len(handlers[p]) : m = (IF j < i THEN j ELSE j + 1) /\ m # i
      BY <1>3, <3>1
    <3>3. handlers[p][m] = r
      BY <1>3, <3>1, <3>2
    <3> QED
      BY <1>3, <1>5, <3>2, <3>3 DEF Waiting
  <2>2. ASSUME r \in Waiting(p), r # handlers[p][i]
        PROVE  r \in Waiting(p)'
    <3>1. PICK m \in 1 .. Len(handlers[p]) : handlers[p][m] = r
      BY <1>3, <2>2 DEF Waiting
    <3>2. m # i
      BY <2>2, <3>1
    <3>3. PICK j \in 1 .. Len(handlers[p]) - 1 : m = (IF j < i THEN j ELSE j + 1)
      <4>1. CASE m < i
        <5>1. m \in 1 .. Len(handlers[p]) - 1
          BY <1>3, <4>1
        <5> QED
          BY <4>1, <5>1
      <4>2. CASE m > i
        <5>1. m - 1 \in 1 .. Len(handlers[p]) - 1 /\ ~(m - 1 < i) /\ m = (m - 1) + 1
          BY <1>3, <4>2
        <5> QED
          BY <5>1
      <4> QED
        BY <1>3, <3>2, <4>1, <4>2
    <3>4. handlers'[p][j] = r
      BY <1>3, <3>1, <3>3
    <3> QED
      BY <1>3, <3>4 DEF Waiting
  <2> QED
    BY <2>1, <2>2
<1>9. Waiting(p)' = Waiting(p) \ {handlers[p][i]}
  BY <1>8 DEF Waiting
<1>10. Waiting(p) \subseteq Heard(p, 0, "CollectiveInit") \cap Mates(p)
  BY DEF ThreadsMatch, ThreadsOf
<1>11. Heard(p, 0, "CollectiveInit") \subseteq Heard(p, 0, "CollectiveInit")'
  <2>1. Handlers(p) /\ Len(inbox[p]) \in Nat /\ 0 \in Nat
    BY LenProperties DEF Handlers, Loose
  <2> QED
    BY <2>1, HeardKept DEF Types
<1>12. Mates(p)' = Mates(p)
  BY DEF Mates
<1>13. ThreadsOf(p)'
  BY <1>7, <1>9, <1>10, <1>11, <1>12 DEF ThreadsOf
<1> QED
  BY <1>6, <1>9, <1>13

LEMMA ThreadsStep ==
    ASSUME Loose, PlacesMatch, MailMatches, ThreadsMatch, NEW p \in Pods, Step(p)
    PROVE  ThreadsMatch'
<1> SUFFICES ASSUME NEW q \in Pods PROVE ThreadsOf(q)'
  BY DEF ThreadsMatch
<1>1. ThreadsOf(q) /\ Len(inbox[q]) \in Nat /\ handlers \in [Pods -> Seq(Pods)]
  BY LenProperties DEF ThreadsMatch, Loose
<1>2. ASSUME handlers'[q] = handlers[q],
             \/ Sending(p) \/ Quiet(p) \/ StopService(p) \/ Handlers(p)
             \/ HandleMessage(p) /\ q # p
      PROVE  ThreadsOf(q)'
  <2>1. Heard(q, 0, "CollectiveInit") \subseteq Heard(q, 0, "CollectiveInit")'
    BY <1>1, <1>2, HeardKept DEF Types
  <2> QED
    BY <1>1, <1>2, <2>1, ThreadsKept
<1>3. CASE Sending(p)
  <2>1. handlers' = handlers
    BY <1>3, SendingIs DEF Sends
  <2> QED
    BY <1>2, <1>3, <2>1
<1>4. CASE Quiet(p) \/ StopService(p)
  <2>1. handlers' = handlers
    BY <1>4 DEF Quiet, Sleep, CreateManagers, AwaitContext, AwaitGathering, NotFirst,
       GetCreateCollectiveIdp, Spawned, LeaveContext, StopSessions, Spawn, StopService, collective
  <2> QED
    BY <1>2, <1>4, <2>1
<1>5. CASE Handlers(p)
  <2>1. PICK i \in DOMAIN handlers[p] : HandleInitCreateCollective(p, i)
    BY <1>5 DEF Handlers
  <2>2. CASE q = p
    BY <2>1, <2>2, ThreadEnds
  <2>3. CASE q # p
    <3>1. handlers'[q] = handlers[q]
      BY <1>1, <2>1, <2>3 DEF HandleInitCreateCollective
    <3> QED
      BY <1>2, <1>5, <3>1
  <2> QED
    BY <2>2, <2>3
<1>6. CASE HandleMessage(p)
  <2>1. CASE q # p
    <3>1. handlers'[q] = handlers[q]
      BY <1>1, <1>6, <2>1 DEF HandleMessage, HandleInitialize, HandleInitializeContext,
         HandleFinalizeContext, HandleFinalize, HandleDirectory, HandleTooEarly,
         HandleCreateCollectiveInit, HandleCreateCollectiveIdp, collective
    <3> QED
      BY <1>2, <1>6, <2>1, <3>1
  <2>2. CASE q = p /\ HandleCreateCollectiveInit(p, Head(inbox[p]))
    BY <1>6, <2>2, ThreadStarts
  <2>3. CASE q = p /\ ~HandleCreateCollectiveInit(p, Head(inbox[p]))
    <3>1. handlers' = handlers
      BY <1>6, <2>3 DEF HandleMessage, HandleInitialize, HandleInitializeContext,
         HandleFinalizeContext, HandleFinalize, HandleDirectory, HandleTooEarly,
         HandleCreateCollectiveIdp, collective
    <3>2. /\ Heard(p, 1, "CollectiveInit") \subseteq Heard(p, 0, "CollectiveInit")'
          /\ Heard(p, 0, "CollectiveInit") \subseteq Heard(p, 1, "CollectiveInit")
      <4>1. 1 \in DOMAIN inbox[p]
        BY <1>6, HandledIs
      <4>2. Heard(p, 0 + 1, "CollectiveInit") \subseteq Heard(p, 0, "CollectiveInit")'
        BY <1>6, HeardHandled DEF Types
      <4> QED
        BY <4>1, <4>2, HeardFirst DEF Types
    <3>3. Heard(p, 0, "CollectiveInit") \subseteq Heard(p, 0, "CollectiveInit")'
      BY <3>2
    <3> QED
      BY <1>1, <2>3, <3>1, <3>3, ThreadsKept
  <2> QED
    BY <2>1, <2>2, <2>3
<1> QED
  BY <1>3, <1>4, <1>5, <1>6 DEF Step

\* The counters of a pod.
SameCounters(q) ==
    /\ init_ctx'[q] = init_ctx[q] /\ cc_count'[q] = cc_count[q]
    /\ final_ctx'[q] = final_ctx[q] /\ final_total'[q] = final_total[q]

\* What is counted of the messages already handled.
CountedOf(q) ==
    /\ init_ctx[q] <= Cardinality(Heard(q, 0, "JoinContext") \cap Mates(q))
    /\ cc_count[q] <= Cardinality((Heard(q, 0, "CollectiveInit") \cap Mates(q)) \ Waiting(q))
    /\ final_ctx[q] <= Cardinality(Heard(q, 0, "FinalizeContext") \cap Mates(q))
    /\ final_total[q] <= Cardinality(Heard(q, 0, "Finalize"))

SizeOf(q, i) ==
    inbox[q][i].type = "JoinContext" =>
        inbox[q][i].size <= Cardinality(Heard(q, i, "JoinContext") \cap Mates(q))

LEMMA CountsAre ==
    ASSUME NEW q \in Pods
    PROVE  CountsOf(q) <=> CountedOf(q) /\ \A i \in DOMAIN inbox[q] : SizeOf(q, i)
BY DEF CountsOf, CountedOf, SizeOf

\* A bound grows with the set that it counts.
LEMMA BoundKept ==
    ASSUME NEW n, NEW m \in Nat, m = n, NEW less, NEW more, less \subseteq more,
           more \subseteq Pods, n <= Cardinality(less)
    PROVE  m <= Cardinality(more)
<1>1. Cardinality(less) \in Nat /\ Cardinality(more) \in Nat /\ Cardinality(less) <= Cardinality(more)
  BY SubCount
<1> QED
  BY <1>1

\* The counters of a pod that is not touched, or has heard more.
LEMMA CountedKept ==
    ASSUME Loose, NEW q \in Pods, CountedOf(q), SameCounters(q),
           Heard(q, 0, "JoinContext") \subseteq Heard(q, 0, "JoinContext")',
           Heard(q, 0, "CollectiveInit") \subseteq Heard(q, 0, "CollectiveInit")',
           Heard(q, 0, "FinalizeContext") \subseteq Heard(q, 0, "FinalizeContext")',
           Heard(q, 0, "Finalize") \subseteq Heard(q, 0, "Finalize")',
           Waiting(q)' = Waiting(q)
    PROVE  CountedOf(q)'
<1>1. Mates(q)' = Mates(q)
  BY DEF Mates
<1>2. /\ Heard(q, 0, "JoinContext")' \subseteq Pods /\ Heard(q, 0, "CollectiveInit")' \subseteq Pods
      /\ Heard(q, 0, "FinalizeContext")' \subseteq Pods /\ Heard(q, 0, "Finalize")' \subseteq Pods
  BY DEF Heard
<1>3. /\ init_ctx'[q] \in Nat /\ cc_count'[q] \in Nat /\ final_ctx'[q] \in Nat
      /\ final_total'[q] \in Nat
  BY PodsCount DEF Loose, SameCounters
<1>4. init_ctx'[q] <= Cardinality(Heard(q, 0, "JoinContext")' \cap Mates(q))
  BY <1>2, <1>3, BoundKept DEF CountedOf, SameCounters
<1>5. cc_count'[q] <= Cardinality((Heard(q, 0, "CollectiveInit")' \cap Mates(q)) \ Waiting(q))
  BY <1>2, <1>3, BoundKept DEF CountedOf, SameCounters
<1>6. final_ctx'[q] <= Cardinality(Heard(q, 0, "FinalizeContext")' \cap Mates(q))
  BY <1>2, <1>3, BoundKept DEF CountedOf, SameCounters
<1>7. final_total'[q] <= Cardinality(Heard(q, 0, "Finalize")')
  BY <1>2, <1>3, BoundKept DEF CountedOf, SameCounters
<1> QED
  BY <1>1, <1>4, <1>5, <1>6, <1>7 DEF CountedOf

LEMMA SizeKept ==
    ASSUME Loose, NEW q \in Pods, NEW i \in DOMAIN inbox[q], SizeOf(q, i),
           NEW j, inbox'[q][j] = inbox[q][i],
           Heard(q, i, "JoinContext") \subseteq Heard(q, j, "JoinContext")'
    PROVE  SizeOf(q, j)'
<1>1. inbox[q] \in Seq(Message)
  BY DEF Loose
<1>2. inbox[q][i] \in Message
  BY <1>1, ElementOfSeq, LenProperties
<1>3. inbox'[q][j].size \in Nat /\ inbox'[q][j].size = inbox[q][i].size
  BY <1>2, PodsCount DEF Message
<1>4. Mates(q)' = Mates(q) /\ Heard(q, j, "JoinContext")' \cap Mates(q) \subseteq Pods
  BY DEF Heard, Mates
<1>5. ASSUME inbox[q][i].type = "JoinContext"
      PROVE  inbox'[q][j].size <= Cardinality(Heard(q, j, "JoinContext")' \cap Mates(q))
  BY <1>3, <1>4, <1>5, BoundKept DEF SizeOf
<1> QED
  BY <1>4, <1>5 DEF SizeOf

\* The size that a new member of a context announces: its message is the last
\* in every inbox, so what the others announced does not come behind it.
LEMMA SizeSent ==
    ASSUME Loose, PlacesMatch, MailMatches, NEW p \in Pods, Sending(p),
           NEW type \in Types, NEW group \in SUBSET Pods, NEW size \in 0 .. Cardinality(Pods),
           Sends(p, type, group, size), SentTo(p, type, group, size),
           NEW q \in group, NEW i \in Nat, i = Len(inbox[q]) + 1
    PROVE  SizeOf(q, i)'
<1>1. q \in Pods /\ PlacesMatch' /\ Len(inbox'[q]) = i /\ inbox'[q][i] = Msg(type, p, size)
  BY StepIs, SentIs DEF Step
<1>2. Msg(type, p, size).type = type /\ Msg(type, p, size).size = size
  BY MsgIs
<1>3. ASSUME type = "JoinContext"
      PROVE  size <= Cardinality(Heard(q, i, "JoinContext")' \cap Mates(q))
  <2>1. /\ group = ctx' \cap Mates(p) /\ size = Cardinality(group) /\ q \in Mates(p)
    BY <1>3 DEF SentTo
  <2>2. Mates(q) = Mates(p)
    BY <2>1 DEF Mates
  <2>3. Later(q, i, "JoinContext")' = {}
    BY <1>1, LaterSent
  <2>4. \A r \in group : pc'[r] \in Since("JoinContext")
    <3>1. \A r \in group : pc'[r] \in Joined
      BY <1>1, <2>1 DEF PlacesMatch, Placed
    <3>2. Joined \subseteq Since("JoinContext")
      BY DEF Since, Places, Starting, Finishing, Joined, InContext, Gathering, Worked, Rested,
             Left, Finalized, Stopping
    <3> QED
      BY <3>1, <3>2
  <2>5. group \subseteq Heard(q, i, "JoinContext")' \cap Mates(q)
    BY <2>1, <2>2, <2>3, <2>4 DEF Heard
  <2>6. Heard(q, i, "JoinContext")' \cap Mates(q) \subseteq Pods
    BY DEF Mates
  <2> QED
    BY <2>1, <2>5, <2>6, SubCount
<1>4. Mates(q)' = Mates(q)
  BY DEF Mates
<1> QED
  BY <1>1, <1>2, <1>3, <1>4 DEF SizeOf

LEMMA SizesStep ==
    ASSUME Loose, PlacesMatch, MailMatches, CountsMatch, NEW p \in Pods, Step(p),
           NEW q \in Pods, NEW i \in DOMAIN inbox'[q]
    PROVE  SizeOf(q, i)'
<1>1. \A j \in DOMAIN inbox[q] : SizeOf(q, j)
  BY CountsAre DEF CountsMatch
<1>2. inbox[q] \in Seq(Message) /\ inbox'[q] \in Seq(Message)
  BY StepIs DEF Loose
<1>3. /\ Len(inbox[q]) \in Nat /\ DOMAIN inbox[q] = 1 .. Len(inbox[q])
      /\ Len(inbox'[q]) \in Nat /\ DOMAIN inbox'[q] = 1 .. Len(inbox'[q]) /\ i \in Nat
  BY <1>2, LenProperties
<1>4. ASSUME \/ Sending(p) \/ Quiet(p) \/ StopService(p) \/ Handlers(p)
             \/ HandleMessage(p) /\ q # p,
             i \in DOMAIN inbox[q], inbox'[q][i] = inbox[q][i]
      PROVE  SizeOf(q, i)'
  <2>1. Heard(q, i, "JoinContext") \subseteq Heard(q, i, "JoinContext")'
    BY <1>3, <1>4, HeardKept DEF Types
  <2> QED
    BY <1>1, <1>4, <2>1, SizeKept
<1>5. CASE Sending(p)
  <2>1. PICK type \in Types, group \in SUBSET Pods, size \in 0 .. Cardinality(Pods) :
           Sends(p, type, group, size) /\ SentTo(p, type, group, size)
    BY <1>5, SendingIs
  <2>2. /\ Len(inbox'[q]) = IF q \in group THEN Len(inbox[q]) + 1 ELSE Len(inbox[q])
        /\ \A j \in 1 .. Len(inbox[q]) : inbox'[q][j] = inbox[q][j]
    BY <2>1, SentIs
  <2>3. CASE i \in 1 .. Len(inbox[q])
    BY <1>3, <1>4, <1>5, <2>2, <2>3
  <2>4. CASE i = Len(inbox[q]) + 1 /\ q \in group
    BY <1>3, <1>5, <2>1, <2>4, SizeSent
  <2> QED
    BY <1>3, <2>2, <2>3, <2>4
<1>6. CASE Quiet(p) \/ Handlers(p)
  BY <1>4, <1>6, Untouched
<1>7. CASE StopService(p)
  <2>1. q # p /\ inbox'[q] = inbox[q]
    BY <1>7, LaterCleared
  <2> QED
    BY <1>4, <1>7, <2>1
<1>8. CASE HandleMessage(p)
  <2>1. CASE q # p
    <3>1. inbox'[q] = inbox[q]
      BY <1>8, <2>1, HandledIs
    <3> QED
      BY <1>4, <1>8, <2>1, <3>1
  <2>2. CASE q = p
    <3>1. i + 1 \in DOMAIN inbox[q] /\ inbox'[q][i] = inbox[q][i + 1]
      BY <1>3, <1>8, <2>2, HandledIs
    <3>2. Heard(q, i + 1, "JoinContext") \subseteq Heard(q, i, "JoinContext")'
      BY <1>3, <1>8, <2>2, HeardHandled DEF Types
    <3> QED
      BY <1>1, <3>1, <3>2, SizeKept
  <2> QED
    BY <2>1, <2>2
<1> QED
  BY <1>5, <1>6, <1>7, <1>8 DEF Step

\* A counter that has counted one more.
LEMMA BoundMore ==
    ASSUME NEW n \in Nat, NEW m, m = n + 1, NEW less, NEW more, NEW r,
           less \cup {r} \subseteq more, more \subseteq Pods, r \notin less,
           n <= Cardinality(less)
    PROVE  m <= Cardinality(more)
<1>1. Cardinality(less) \in Nat /\ Cardinality(less) + 1 <= Cardinality(more)
  BY OneMore
<1>2. Cardinality(more) \in Nat
  BY SubCount
<1> QED
  BY <1>1, <1>2

LEMMA CountedThread ==
    ASSUME Loose, PlacesMatch, MailMatches, ThreadsMatch, CountsMatch, NEW p \in Pods,
           NEW i \in DOMAIN handlers[p], HandleInitCreateCollective(p, i)
    PROVE  CountedOf(p)'
<1>1. /\ Waiting(p)' = Waiting(p) \ {handlers[p][i]}
      /\ handlers[p][i] \in Waiting(p)
  BY ThreadEnds
<1>2. CountedOf(p) /\ Waiting(p) \subseteq Heard(p, 0, "CollectiveInit") \cap Mates(p)
  BY CountsAre DEF CountsMatch, ThreadsMatch, ThreadsOf
<1>3. /\ init_ctx'[p] = init_ctx[p] /\ final_ctx'[p] = final_ctx[p]
      /\ final_total'[p] = final_total[p] /\ cc_count' = [cc_count EXCEPT ![p] = cc_count[p] + 1]
  BY DEF HandleInitCreateCollective, counters
<1>4. /\ cc_count \in [Pods -> Nat] /\ init_ctx \in [Pods -> 0 .. Cardinality(Pods)]
      /\ final_ctx \in [Pods -> Nat] /\ final_total \in [Pods -> Nat]
  BY DEF Loose
<1>5. /\ cc_count'[p] = cc_count[p] + 1 /\ cc_count[p] \in Nat /\ init_ctx'[p] \in Nat
      /\ final_ctx'[p] \in Nat /\ final_total'[p] \in Nat
  BY <1>3, <1>4, PodsCount
<1>6. \A t \in Types : Heard(p, 0, t) \subseteq Heard(p, 0, t)'
  <2>1. Handlers(p) /\ Len(inbox[p]) \in Nat /\ 0 \in Nat
    BY LenProperties DEF Handlers, Loose
  <2> QED
    BY <2>1, HeardKept
<1>7. /\ Heard(p, 0, "JoinContext") \subseteq Heard(p, 0, "JoinContext")'
      /\ Heard(p, 0, "CollectiveInit") \subseteq Heard(p, 0, "CollectiveInit")'
      /\ Heard(p, 0, "FinalizeContext") \subseteq Heard(p, 0, "FinalizeContext")'
      /\ Heard(p, 0, "Finalize") \subseteq Heard(p, 0, "Finalize")'
  BY <1>6 DEF Types
<1>8. /\ Heard(p, 0, "JoinContext")' \subseteq Pods /\ Heard(p, 0, "CollectiveInit")' \subseteq Pods
      /\ Heard(p, 0, "FinalizeContext")' \subseteq Pods /\ Heard(p, 0, "Finalize")' \subseteq Pods
  BY DEF Heard
<1>9. Mates(p)' = Mates(p)
  BY DEF Mates
<1>10. init_ctx'[p] <= Cardinality(Heard(p, 0, "JoinContext")' \cap Mates(p))
  BY <1>2, <1>3, <1>5, <1>7, <1>8, BoundKept DEF CountedOf
<1>11. final_ctx'[p] <= Cardinality(Heard(p, 0, "FinalizeContext")' \cap Mates(p))
  BY <1>2, <1>3, <1>5, <1>7, <1>8, BoundKept DEF CountedOf
<1>12. final_total'[p] <= Cardinality(Heard(p, 0, "Finalize")')
  BY <1>2, <1>3, <1>5, <1>7, <1>8, BoundKept DEF CountedOf
<1>13. cc_count'[p] <= Cardinality((Heard(p, 0, "CollectiveInit")' \cap Mates(p)) \ Waiting(p)')
  <2> DEFINE less == (Heard(p, 0, "CollectiveInit") \cap Mates(p)) \ Waiting(p)
             more == (Heard(p, 0, "CollectiveInit")' \cap Mates(p)) \ Waiting(p)'
  <2>1. less \cup {handlers[p][i]} \subseteq more /\ more \subseteq Pods /\ handlers[p][i] \notin less
    BY <1>1, <1>2, <1>7, <1>8
  <2>2. cc_count[p] <= Cardinality(less)
    BY <1>2 DEF CountedOf
  <2> HIDE DEF less, more
  <2>3. cc_count'[p] <= Cardinality(more)
    BY <1>5, <2>1, <2>2, BoundMore
  <2> QED
    BY <2>3 DEF more
<1> QED
  BY <1>9, <1>10, <1>11, <1>12, <1>13 DEF CountedOf

LEMMA CountedMessage ==
    ASSUME Loose, PlacesMatch, MailMatches, ThreadsMatch, CountsMatch, NEW p \in Pods,
           HandleMessage(p)
    PROVE  CountedOf(p)'
<1> DEFINE msg == Head(inbox[p])
<1>1. /\ 1 \in DOMAIN inbox[p] /\ msg = inbox[p][1] /\ msg \in Message
  BY HandledIs
<1>2. msg.from \in Pods /\ msg.type \in Types /\ msg.size \in Nat
  BY <1>1, PodsCount DEF Message
<1>3. CountedOf(p) /\ SizeOf(p, 1) /\ Fits(p, 1) /\ ThreadsOf(p)
  BY <1>1, CountsAre DEF CountsMatch, MailMatches, ThreadsMatch
<1>4. ASSUME NEW t \in Types
      PROVE  /\ Heard(p, 0, t) \subseteq Heard(p, 0, t)'
             /\ Heard(p, 0, t)' \subseteq Pods
             /\ msg.type = t => /\ msg.from \in Heard(p, 0, t)' /\ msg.from \notin Heard(p, 0, t)
                                /\ Heard(p, 1, t) \subseteq Heard(p, 0, t)'
  <2>1. Heard(p, 0 + 1, t) \subseteq Heard(p, 0, t)'
    BY HeardHandled
  <2>2. Heard(p, 1, t) \subseteq Heard(p, 0, t)'
    BY <2>1
  <2>3. /\ msg.type # t => Heard(p, 1, t) = Heard(p, 0, t)
        /\ msg.type = t => /\ Heard(p, 1, t) = Heard(p, 0, t) \cup {msg.from}
                           /\ msg.from \notin Heard(p, 0, t)
    BY <1>1, HeardFirst
  <2>4. Heard(p, 0, t)' \subseteq Pods
    BY DEF Heard
  <2> QED
    BY <2>2, <2>3, <2>4
<1> HIDE DEF msg
<1>5. /\ Heard(p, 0, "JoinContext") \subseteq Heard(p, 0, "JoinContext")'
      /\ Heard(p, 0, "CollectiveInit") \subseteq Heard(p, 0, "CollectiveInit")'
      /\ Heard(p, 0, "FinalizeContext") \subseteq Heard(p, 0, "FinalizeContext")'
      /\ Heard(p, 0, "Finalize") \subseteq Heard(p, 0, "Finalize")'
  BY <1>4 DEF Types
<1>6. /\ Heard(p, 0, "JoinContext")' \subseteq Pods /\ Heard(p, 0, "CollectiveInit")' \subseteq Pods
      /\ Heard(p, 0, "FinalizeContext")' \subseteq Pods /\ Heard(p, 0, "Finalize")' \subseteq Pods
  BY DEF Heard
<1>7. Mates(p)' = Mates(p)
  BY DEF Mates
<1>8. /\ cc_count \in [Pods -> Nat] /\ init_ctx \in [Pods -> 0 .. Cardinality(Pods)]
      /\ final_ctx \in [Pods -> Nat] /\ final_total \in [Pods -> Nat]
  BY DEF Loose
<1>9. /\ cc_count[p] \in Nat /\ init_ctx[p] \in Nat /\ final_ctx[p] \in Nat
      /\ final_total[p] \in Nat
  BY <1>8, PodsCount
<1>10. ASSUME handlers' = handlers
       PROVE  Waiting(p)' = Waiting(p)
  BY <1>10 DEF Waiting
<1>11. ASSUME SameCounters(p), handlers' = handlers
       PROVE  CountedOf(p)'
  BY <1>3, <1>5, <1>10, <1>11, CountedKept
<1> DEFINE ContextBound  == init_ctx'[p] <= Cardinality(Heard(p, 0, "JoinContext")' \cap Mates(p))
           CreateBound   == cc_count'[p] <= Cardinality((Heard(p, 0, "CollectiveInit")' \cap Mates(p))
                                                        \ Waiting(p)')
           RestBound     == final_ctx'[p] <= Cardinality(Heard(p, 0, "FinalizeContext")' \cap Mates(p))
           FinalizeBound == final_total'[p] <= Cardinality(Heard(p, 0, "Finalize")')
<1>12. ASSUME init_ctx'[p] = init_ctx[p]
       PROVE  ContextBound
  BY <1>3, <1>5, <1>6, <1>9, <1>12, BoundKept DEF CountedOf
<1>13. ASSUME cc_count'[p] = cc_count[p], handlers' = handlers
       PROVE  CreateBound
  BY <1>3, <1>5, <1>6, <1>9, <1>10, <1>13, BoundKept DEF CountedOf
<1>14. ASSUME final_ctx'[p] = final_ctx[p]
       PROVE  RestBound
  BY <1>3, <1>5, <1>6, <1>9, <1>14, BoundKept DEF CountedOf
<1>15. ASSUME final_total'[p] = final_total[p]
       PROVE  FinalizeBound
  BY <1>3, <1>5, <1>6, <1>9, <1>15, BoundKept DEF CountedOf
<1>16. ASSUME ContextBound, CreateBound, RestBound, FinalizeBound
       PROVE  CountedOf(p)'
  BY <1>7, <1>16 DEF CountedOf
<1> HIDE DEF ContextBound, CreateBound, RestBound, FinalizeBound
<1>17. CASE HandleInitialize(p, msg) \/ HandleDirectory(p, msg) \/ HandleTooEarly(p, msg)
            \/ HandleCreateCollectiveIdp(p, msg)
  <2>1. SameCounters(p) /\ handlers' = handlers
    BY <1>17 DEF HandleInitialize, HandleDirectory, HandleTooEarly, HandleCreateCollectiveIdp,
                 SameCounters, counters, collective
  <2> QED
    BY <1>11, <2>1
<1>18. CASE HandleInitializeContext(p, msg)
  <2>1. /\ final_ctx'[p] = final_ctx[p] /\ final_total'[p] = final_total[p]
        /\ cc_count'[p] = cc_count[p] /\ handlers' = handlers
        /\ init_ctx'[p] = msg.size /\ msg.type = "JoinContext"
    BY <1>8, <1>18 DEF HandleInitializeContext, collective
  <2>2. msg.size <= Cardinality(Heard(p, 1, "JoinContext") \cap Mates(p))
    BY <1>1, <1>3, <2>1 DEF SizeOf
  <2>3. Heard(p, 1, "JoinContext") \cap Mates(p) \subseteq Heard(p, 0, "JoinContext")' \cap Mates(p)
    BY <1>2, <1>4, <2>1
  <2>4. Heard(p, 0, "JoinContext")' \cap Mates(p) \subseteq Pods
    BY <1>6
  <2>5. ContextBound
    BY <1>2, <2>1, <2>2, <2>3, <2>4, BoundKept DEF ContextBound
  <2> QED
    BY <1>13, <1>14, <1>15, <1>16, <2>1, <2>5
<1>19. CASE HandleFinalizeContext(p, msg)
  <2>1. /\ init_ctx'[p] = init_ctx[p] /\ final_total'[p] = final_total[p]
        /\ cc_count'[p] = cc_count[p] /\ handlers' = handlers
        /\ final_ctx'[p] = final_ctx[p] + 1 /\ msg.type = "FinalizeContext"
    BY <1>8, <1>19 DEF HandleFinalizeContext, collective
  <2>2. msg.from \in Mates(p)
    BY <1>1, <1>3, <2>1 DEF Fits, OfContext
  <2> DEFINE less == Heard(p, 0, "FinalizeContext") \cap Mates(p)
             more == Heard(p, 0, "FinalizeContext")' \cap Mates(p)
  <2>3. less \cup {msg.from} \subseteq more /\ more \subseteq Pods /\ msg.from \notin less
    BY <1>2, <1>4, <1>6, <2>1, <2>2
  <2>4. final_ctx[p] <= Cardinality(less)
    BY <1>3 DEF CountedOf
  <2> HIDE DEF less, more
  <2>5. final_ctx'[p] <= Cardinality(more)
    BY <1>9, <2>1, <2>3, <2>4, BoundMore
  <2>6. RestBound
    BY <2>5 DEF RestBound, more
  <2> QED
    BY <1>12, <1>13, <1>15, <1>16, <2>1, <2>6
<1>20. CASE HandleFinalize(p, msg)
  <2>1. /\ init_ctx'[p] = init_ctx[p] /\ final_ctx'[p] = final_ctx[p]
        /\ cc_count'[p] = cc_count[p] /\ handlers' = handlers
        /\ final_total'[p] = final_total[p] + 1 /\ msg.type = "Finalize"
    BY <1>8, <1>20 DEF HandleFinalize, collective
  <2> DEFINE less == Heard(p, 0, "Finalize")
             more == Heard(p, 0, "Finalize")'
  <2>2. less \cup {msg.from} \subseteq more /\ more \subseteq Pods /\ msg.from \notin less
    BY <1>2, <1>4, <1>6, <2>1
  <2>3. final_total[p] <= Cardinality(less)
    BY <1>3 DEF CountedOf
  <2> HIDE DEF less, more
  <2>4. final_total'[p] <= Cardinality(more)
    BY <1>9, <2>1, <2>2, <2>3, BoundMore
  <2>5. FinalizeBound
    BY <2>4 DEF FinalizeBound, more
  <2> QED
    BY <1>12, <1>13, <1>14, <1>16, <2>1, <2>5
<1>21. CASE HandleCreateCollectiveInit(p, msg)
  <2>1. /\ init_ctx'[p] = init_ctx[p] /\ final_ctx'[p] = final_ctx[p]
        /\ final_total'[p] = final_total[p] /\ cc_count'[p] = cc_count[p]
    BY <1>21 DEF HandleCreateCollectiveInit, counters
  <2>2. /\ Waiting(p)' = Waiting(p) \cup {msg.from}
        /\ msg.from \notin Heard(p, 0, "CollectiveInit")
    BY <1>1, <1>21, ThreadStarts DEF msg
  <2> DEFINE less == (Heard(p, 0, "CollectiveInit") \cap Mates(p)) \ Waiting(p)
             more == (Heard(p, 0, "CollectiveInit")' \cap Mates(p)) \ Waiting(p)'
  <2>3. less \subseteq more /\ more \subseteq Pods
    BY <1>5, <1>6, <2>2
  <2>4. cc_count[p] <= Cardinality(less)
    BY <1>3 DEF CountedOf
  <2> HIDE DEF less, more
  <2>5. cc_count'[p] <= Cardinality(more)
    BY <1>9, <2>1, <2>3, <2>4, BoundKept
  <2>6. CreateBound
    BY <2>5 DEF CreateBound, more
  <2> QED
    BY <1>12, <1>14, <1>15, <1>16, <2>1, <2>6
<1> QED
  BY <1>17, <1>18, <1>19, <1>20, <1>21 DEF HandleMessage, msg

LEMMA CountsStep ==
    ASSUME Loose, PlacesMatch, MailMatches, ThreadsMatch, CountsMatch, NEW p \in Pods, Step(p)
    PROVE  CountsMatch'
<1> SUFFICES ASSUME NEW q \in Pods PROVE CountedOf(q)'
  <2>1. ASSUME NEW q \in Pods
        PROVE  CountsOf(q)' <=> CountedOf(q)' /\ \A i \in DOMAIN inbox'[q] : SizeOf(q, i)'
    BY DEF CountsOf, CountedOf, SizeOf
  <2> QED
    BY <2>1, SizesStep DEF CountsMatch
<1>1. /\ CountedOf(q) /\ Len(inbox[q]) \in Nat /\ 0 \in Nat
  BY CountsAre, LenProperties DEF CountsMatch, Loose
<1>2. ASSUME \/ Sending(p) \/ Quiet(p) \/ StopService(p) \/ Handlers(p)
             \/ HandleMessage(p) /\ q # p,
             SameCounters(q), handlers'[q] = handlers[q]
      PROVE  CountedOf(q)'
  <2>1. \A t \in Types : Heard(q, 0, t) \subseteq Heard(q, 0, t)'
    BY <1>1, <1>2, HeardKept
  <2>2. Waiting(q)' = Waiting(q)
    BY <1>2 DEF Waiting
  <2> QED
    BY <1>1, <1>2, <2>1, <2>2, CountedKept DEF Types
<1>3. /\ cc_count \in [Pods -> Nat] /\ init_ctx \in [Pods -> 0 .. Cardinality(Pods)]
      /\ final_ctx \in [Pods -> Nat] /\ final_total \in [Pods -> Nat]
      /\ handlers \in [Pods -> Seq(Pods)]
  BY DEF Loose
<1>4. CASE Sending(p) \/ Quiet(p) \/ StopService(p)
  <2>1. UNCHANGED <<counters, cc_count, handlers>>
    <3>1. CASE Sending(p)
      BY <3>1, SendingIs DEF Sends
    <3>2. CASE Quiet(p) \/ StopService(p)
      BY <3>2 DEF Quiet, Sleep, CreateManagers, AwaitContext, AwaitGathering, NotFirst,
         GetCreateCollectiveIdp, Spawned, LeaveContext, StopSessions, Spawn, StopService,
         collective
    <3> QED
      BY <1>4, <3>1, <3>2
  <2> QED
    BY <1>2, <1>4, <2>1 DEF counters, SameCounters
<1>5. CASE Handlers(p) /\ q # p
  <2>1. SameCounters(q) /\ handlers'[q] = handlers[q]
    BY <1>3, <1>5 DEF Handlers, HandleInitCreateCollective, counters, SameCounters
  <2> QED
    BY <1>2, <1>5, <2>1
<1>6. CASE Handlers(p) /\ q = p
  BY <1>6, CountedThread DEF Handlers
<1>7. CASE HandleMessage(p) /\ q # p
  <2>1. SameCounters(q) /\ handlers'[q] = handlers[q]
    BY <1>3, <1>7 DEF HandleMessage, HandleInitialize, HandleInitializeContext,
       HandleFinalizeContext, HandleFinalize, HandleDirectory, HandleTooEarly,
       HandleCreateCollectiveInit, HandleCreateCollectiveIdp, collective, counters, SameCounters
  <2> QED
    BY <1>2, <1>7, <2>1
<1>8. CASE HandleMessage(p) /\ q = p
  BY <1>8, CountedMessage
<1> QED
  BY <1>4, <1>5, <1>6, <1>7, <1>8 DEF Step

------------------------------------------------------------------------------
LEMMA CountInit ==
    Init => CountInv
<1> SUFFICES ASSUME Init PROVE CountInv
  OBVIOUS
<1>1. /\ <<>> \in Seq(Message) /\ <<>> \in Seq(Pods)
      /\ DOMAIN <<>> = {} /\ 0 \in 0 .. Cardinality(Pods) /\ 0 \in Nat /\ Cardinality(Pods) \in Nat
  BY EmptySeq, PodsCount
<1>2. Loose
  BY <1>1 DEF Init, Loose, Places
<1>3. PlacesMatch
  BY DEF Init, PlacesMatch, Placed, Started, Alive, Managed, Listed, Joined, InContext,
         Gathering, Worked, Rested, Left, Finalized, Stopping
<1>4. MailMatches
  BY <1>1 DEF Init, MailMatches
<1>5. ThreadsMatch
  BY <1>1 DEF Init, ThreadsMatch, ThreadsOf, Waiting
<1>6. CountsMatch
  <2> SUFFICES ASSUME NEW p \in Pods PROVE CountsOf(p)
    BY DEF CountsMatch
  <2>1. \A set \in SUBSET Pods : 0 <= Cardinality(set)
    BY PodsCount
  <2>2. /\ Heard(p, 0, "JoinContext") \cap Mates(p) \in SUBSET Pods
        /\ (Heard(p, 0, "CollectiveInit") \cap Mates(p)) \ Waiting(p) \in SUBSET Pods
        /\ Heard(p, 0, "FinalizeContext") \cap Mates(p) \in SUBSET Pods
        /\ Heard(p, 0, "Finalize") \in SUBSET Pods
    BY DEF Heard
  <2> QED
    BY <1>1, <2>1, <2>2 DEF Init, CountsOf
<1> QED
  BY <1>2, <1>3, <1>4, <1>5, <1>6 DEF CountInv

LEMMA CountNext ==
    CountInv /\ [Next]_vars => CountInv'
<1>1. ASSUME CountInv, Next
      PROVE  CountInv'
  <2>1. PICK p \in Pods : Step(p)
    BY <1>1, NextIs DEF Step
  <2> QED
    BY <1>1, <2>1, StepIs, MailStep, ThreadsStep, CountsStep DEF CountInv
<1>2. ASSUME CountInv, UNCHANGED vars
      PROVE  CountInv'
  <2>1. /\ Loose' <=> Loose
        /\ PlacesMatch' <=> PlacesMatch
        /\ MailMatches' <=> MailMatches
        /\ ThreadsMatch' <=> ThreadsMatch
        /\ CountsMatch' <=> CountsMatch
    BY <1>2 DEF vars, groups, start, counters, collective, main, Loose, PlacesMatch, Placed,
       MailMatches, Fits, Later, ThreadsMatch, ThreadsOf, Waiting, Heard, CountsMatch,
       CountsOf
  <2> QED
    BY <1>2, <2>1 DEF CountInv
<1> QED
  BY <1>1, <1>2

LEMMA SpecCount ==
    Spec => []CountInv
BY CountInit, CountNext, PTL DEF Spec

\* Every counter of a pod stays within the number of pods, and the tables keep
\* their types: no message is counted twice.
THEOREM TypeCorrect ==
    Spec => []TypeOK
<1>1. CountInv => TypeOK
  BY TypesAre DEF CountInv
<1> QED
  BY <1>1, SpecCount, PTL

------------------------------------------------------------------------------
(* What the pods of an application do together *)

\* A pod knows whether it is the first when its own Join has been handled.
Known(p) ==
    /\ is_main[p] # Unknown => p \in Heard(p, 0, "Join")
    /\ pc[p] \in Managed => is_main[p] # Unknown

\* A spawner works, in another context than those it launched.
Launcher(c) ==
    Spawner[c] # None => pc[Spawner[c]] \in Worked /\ Context[Spawner[c]] # c

\* It waits until the pods it started have their closure, and all pods of the
\* first context have entered before anybody spawns.
Launched(q) ==
    /\ Context[q] \in launched /\ closure[q] = None /\ Spawner[Context[q]] # None =>
          pc[Spawner[Context[q]]] = "spawning"
    /\ Spawner[Context[q]] = None /\ pc[q] = "off" => \A c \in launched : Spawner[c] = None

SpawnersWait == (\A c \in launched : Launcher(c)) /\ (\A q \in Pods : Launched(q) /\ Known(q))

\* A pod knows of at least as many pods as are in the application, but for those
\* whose Join it has still to handle.
TotalOf(p) == p \notin Later(p, 0, "Join") => Cardinality(app \ Later(p, 0, "Join")) <= init_total[p]

Announces(p, i) ==
    inbox[p][i].type = "Join" => Cardinality(app \ Later(p, i, "Join")) <= inbox[p][i].size

TotalsMatch == \A p \in app : TotalOf(p) /\ \A i \in DOMAIN inbox[p] : Announces(p, i)

\* Whose Finalize comes after q's Join: q's own and that of q's spawner.
Closes(r, q) == r = q \/ r = Spawner[Context[q]]

\* The order of the messages: Join before the Finalize of the pod and of its
\* spawner, a spawner's Join before those of the pods it started, and a Join
\* before what makes a pod see its context complete.
Ordered(p, i) ==
    /\ inbox[p][i].type = "Finalize" =>
          \A q \in Later(p, i, "Join") : ~Closes(inbox[p][i].from, q)
    /\ inbox[p][i].type = "Join" =>
          Spawner[Context[inbox[p][i].from]] \notin Later(p, i, "Join")
    /\ /\ inbox[p][i].type = "Join" /\ inbox[p][i].from \in Mates(p)
       /\ pc[p] \in Joined /\ pc[inbox[p][i].from] \in Joined
       => Later(p, i, "JoinContext") # {}

\* Of a pod whose Join is still to be handled, so is what comes after it.
Pending(p, q) ==
    /\ Spawner[Context[q]] = None => Spawner[Context[p]] = None
    /\ p \in app => \A r \in Pods :
          Closes(r, q) /\ pc[r] \in Finalized => r \in Later(p, 0, "Finalize")

InboxOrdered ==
    \A p \in Pods : /\ \A i \in DOMAIN inbox[p] : Ordered(p, i)
                    /\ \A q \in Later(p, 0, "Join") : Pending(p, q)

\* How far the pods of a context may be apart.
TogetherOf(p) ==
    /\ pc[p] \in InContext =>
          /\ \A q \in Mates(p) : pc[q] \in Joined
          /\ Later(p, 0, "JoinContext") = {} /\ Npods(p) <= init_ctx[p]
    /\ pc[p] \in Left => \A q \in Mates(p) : pc[q] \in Rested

Together == \A p \in Pods : TogetherOf(p)

\* Where a pod may be when one has left the application.
Gone(q) == \/ pc[q] \in Finalized \cup {"dead"}
           \/ pc[q] = "off" /\ Context[q] \notin launched

Over == (\E p \in Pods : pc[p] \in Stopping) => \A q \in Pods : Gone(q)

\* The first of a context, to whose message every pod counts first.
FirstInbox(p, f) ==
    \E i \in DOMAIN inbox[p] :
        /\ inbox[p][i].type = "CollectiveInit" /\ inbox[p][i].from = f
        /\ \A j \in DOMAIN inbox[p] : j < i => inbox[p][j].type # "CollectiveInit"

FirstPending(p, f) ==
    /\ handlers[p] # <<>> => handlers[p][1] = f
    /\ handlers[p] = <<>> => FirstInbox(p, f)

FirstAt(p, f) ==
    /\ cc_count[p] = 0 => FirstPending(p, f)
    /\ cc_first[p] = "yes" => p = f

IsFirst(f) == \A p \in Mates(f) : FirstAt(p, f)

OneFirst ==
    \A p \in Pods : pc[p] \in Gathering => \E f \in Mates(p) : IsFirst(f)

Collected(p) ==
    /\ cc_first[p] # Unknown => p \in Heard(p, 0, "CollectiveInit") \ Waiting(p)
    /\ pc[p] \in {"gathered", "fetching"} \cup Worked => cc_count[p] > 0

\* A closure, or its idp on the way, is that of a pod of the context that was first.
Creator(p, c) == c # None => c \in Mates(p) /\ cc_first[c] = "yes"

ClosureOf(p) ==
    /\ Creator(p, closure[p]) /\ Creator(p, cc_idp[p])
    /\ \A i \in DOMAIN inbox[p] : inbox[p][i].type = "CollectiveIdp" => cc_first[inbox[p][i].from] = "yes"

ClosuresMatch == \A p \in Pods : Collected(p) /\ ClosureOf(p)

SessionInv ==
    /\ CountInv /\ SpawnersWait /\ TotalsMatch /\ InboxOrdered /\ Together /\ Over
    /\ ClosuresMatch
    /\ InOrder => OneFirst

------------------------------------------------------------------------------
(* Inboxes in a step *)

\* A message that p sends in a step.
New(p, t) == pc[p] \notin Since(t) /\ pc'[p] \in Since(t)

\* The message at i was at j before.
Passed(p, q, i, j) ==
    /\ i \in Nat /\ j \in DOMAIN inbox[q] /\ inbox'[q][i] = inbox[q][j]
    /\ inbox[q][j] \in Message
    /\ j = i \/ (HandleMessage(p) /\ q = p)
    /\ \A t \in Types : /\ \A r \in Later(q, i, t)' : r \in Later(q, j, t) \/ (r = p /\ New(p, t))
                        /\ Later(q, j, t) \subseteq Later(q, i, t)'

\* The message at i was sent in this step.
Fresh(p, q, i) ==
    \E type \in Types, group \in SUBSET Pods, size \in 0 .. Cardinality(Pods) :
        /\ Sends(p, type, group, size) /\ SentTo(p, type, group, size) /\ q \in group
        /\ i \in Nat /\ inbox'[q][i] = Msg(type, p, size)
        /\ \A t \in Types : Later(q, i, t)' = {}

LEMMA LaterStep ==
    ASSUME Loose, PlacesMatch, MailMatches, NEW p \in Pods, NEW q \in Pods,
           \/ Sending(p) \/ Quiet(p) \/ Handlers(p)
           \/ (StopService(p) \/ HandleMessage(p)) /\ q # p,
           NEW t \in Types, NEW i \in Nat, i <= Len(inbox[q])
    PROVE  /\ Later(q, i, t) \subseteq Later(q, i, t)'
           /\ \A r \in Later(q, i, t)' : r \in Later(q, i, t) \/ (r = p /\ New(p, t))
<1>1. CASE Sending(p)
  <2>1. PICK type \in Types, group \in SUBSET Pods, size \in 0 .. Cardinality(Pods) :
           Sends(p, type, group, size)
    BY <1>1, SendingIs
  <2>2. Later(q, i, t)' = IF q \in group /\ t = type THEN Later(q, i, t) \cup {p}
                                                     ELSE Later(q, i, t)
    BY <2>1, LaterSent
  <2>3. t = type => New(p, t)
    BY <2>1 DEF Sends, New
  <2> QED
    BY <2>2, <2>3
<1>2. CASE Quiet(p) \/ Handlers(p)
  BY <1>2, Untouched, LaterKept
<1>3. CASE StopService(p) /\ q # p
  BY <1>3, LaterCleared
<1>4. CASE HandleMessage(p) /\ q # p
  BY <1>4, LaterHandled
<1> QED
  BY <1>1, <1>2, <1>3, <1>4

\* What a pod has to handle at the end of a step.
LEMMA PendingStep ==
    ASSUME Loose, PlacesMatch, MailMatches, NEW p \in Pods, Step(p), NEW q \in Pods,
           NEW t \in Types, NEW r \in Later(q, 0, t)'
    PROVE  r \in Later(q, 0, t) \/ (r = p /\ New(p, t))
<1>1. CASE \/ Sending(p) \/ Quiet(p) \/ Handlers(p)
           \/ (StopService(p) \/ HandleMessage(p)) /\ q # p
  <2>1. Len(inbox[q]) \in Nat /\ 0 \in Nat
    BY LenProperties DEF Loose
  <2> QED
    BY <1>1, <2>1, LaterStep
<1>2. CASE StopService(p) /\ q = p
  BY <1>2, LaterCleared
<1>3. CASE HandleMessage(p) /\ q = p
  <2>1. Later(p, 0, t)' = Later(p, 0 + 1, t) /\ 1 \in DOMAIN inbox[p]
    BY <1>3, LaterHandled, HandledIs
  <2>2. Later(p, 1, t) \subseteq Later(p, 0, t)
    BY <2>1, LaterFirst
  <2> QED
    BY <1>3, <2>1, <2>2
<1> QED
  BY <1>1, <1>2, <1>3 DEF Step

LEMMA PassedSame ==
    ASSUME Loose, PlacesMatch, MailMatches, NEW p \in Pods, NEW q \in Pods,
           \/ Sending(p) \/ Quiet(p) \/ Handlers(p)
           \/ (StopService(p) \/ HandleMessage(p)) /\ q # p,
           NEW i \in DOMAIN inbox[q], inbox'[q][i] = inbox[q][i]
    PROVE  Passed(p, q, i, i)
<1>1. inbox[q] \in Seq(Message)
  BY DEF Loose
<1>2. i \in Nat /\ i <= Len(inbox[q]) /\ inbox[q][i] \in Message
  BY <1>1, ElementOfSeq, LenProperties
<1> QED
  BY <1>2, LaterStep DEF Passed

LEMMA PassedNext ==
    ASSUME Loose, PlacesMatch, MailMatches, NEW p \in Pods, HandleMessage(p),
           NEW i \in DOMAIN inbox'[p], NEW j, j = i + 1
    PROVE  Passed(p, p, i, j)
<1>1. inbox[p] \in Seq(Message)
  BY DEF Loose
<1>2. i \in Nat /\ j \in DOMAIN inbox[p] /\ inbox'[p][i] = inbox[p][j]
  <2>1. /\ Len(inbox[p]) \in Nat /\ DOMAIN inbox[p] = 1 .. Len(inbox[p])
        /\ DOMAIN inbox'[p] = 1 .. Len(inbox[p]) - 1
        /\ \A k \in 1 .. Len(inbox[p]) - 1 : inbox'[p][k] = inbox[p][k + 1]
    BY HandledIs
  <2>2. PICK n \in Nat : n = Len(inbox[p])
    BY <2>1
  <2>3. i \in 1 .. n - 1 /\ inbox'[p][i] = inbox[p][i + 1]
    BY <2>1, <2>2
  <2>4. i \in Nat /\ j \in 1 .. n
    BY <2>3
  <2> QED
    BY <2>1, <2>2, <2>3, <2>4
<1>3. inbox[p][j] \in Message
  BY <1>1, <1>2, ElementOfSeq, LenProperties
<1>4. \A t \in Types : Later(p, i, t)' = Later(p, j, t)
  BY <1>2, LaterHandled
<1> QED
  BY <1>2, <1>3, <1>4 DEF Passed

LEMMA InboxStep ==
    ASSUME Loose, PlacesMatch, MailMatches, NEW p \in Pods, Step(p), NEW q \in Pods,
           NEW i \in DOMAIN inbox'[q]
    PROVE  (\E j \in DOMAIN inbox[q] : Passed(p, q, i, j)) \/ Fresh(p, q, i)
<1>1. CASE Sending(p)
  <2>1. PICK type \in Types, group \in SUBSET Pods, size \in 0 .. Cardinality(Pods) :
           Sends(p, type, group, size) /\ SentTo(p, type, group, size)
    BY <1>1, SendingIs
  <2>2. /\ Len(inbox[q]) \in Nat /\ DOMAIN inbox[q] = 1 .. Len(inbox[q])
        /\ DOMAIN inbox'[q] = 1 .. Len(inbox'[q])
        /\ Len(inbox'[q]) = IF q \in group THEN Len(inbox[q]) + 1 ELSE Len(inbox[q])
        /\ \A j \in 1 .. Len(inbox[q]) : inbox'[q][j] = inbox[q][j]
        /\ q \in group => inbox'[q][Len(inbox[q]) + 1] = Msg(type, p, size)
    BY <2>1, SentIs
  <2>3. CASE i \in 1 .. Len(inbox[q])
    <3>1. i \in DOMAIN inbox[q] /\ inbox'[q][i] = inbox[q][i]
      BY <2>2, <2>3
    <3> QED
      BY <1>1, <3>1, PassedSame
  <2>4. CASE q \in group /\ i = Len(inbox[q]) + 1
    <3>1. i \in Nat /\ i = Len(inbox'[q]) /\ inbox'[q][i] = Msg(type, p, size)
      BY <2>2, <2>4
    <3>2. \A t \in Types : Later(q, i, t)' = {}
      BY <2>1, <3>1, LaterSent
    <3> QED
      BY <2>1, <2>4, <3>1, <3>2 DEF Fresh
  <2> QED
    BY <2>2, <2>3, <2>4
<1>2. CASE \/ Quiet(p) \/ Handlers(p)
           \/ (StopService(p) \/ HandleMessage(p)) /\ q # p
  <2>1. inbox'[q] = inbox[q]
    BY <1>2, Untouched, LaterCleared, HandledIs
  <2> QED
    BY <1>2, <2>1, PassedSame
<1>3. CASE StopService(p) /\ q = p
  BY <1>3, LaterCleared
<1>4. CASE HandleMessage(p) /\ q = p
  <2>1. PICK j : j = i + 1
    OBVIOUS
  <2>2. Passed(p, p, i, j)
    BY <1>4, <2>1, PassedNext
  <2> QED
    BY <1>4, <2>2 DEF Passed
<1> QED
  BY <1>1, <1>2, <1>3, <1>4 DEF Step

\* What the new message is.
LEMMA FreshIs ==
    ASSUME Loose, NEW p \in Pods, NEW q \in Pods, NEW i, Fresh(p, q, i)
    PROVE  \E type \in Types, group \in SUBSET Pods, size \in 0 .. Cardinality(Pods) :
              /\ SentTo(p, type, group, size) /\ q \in group /\ New(p, type)
              /\ inbox'[q][i].type = type /\ inbox'[q][i].from = p /\ inbox'[q][i].size = size
              /\ \A t \in Types : Later(q, i, t)' = {}
BY MsgIs DEF Fresh, Sends, New

------------------------------------------------------------------------------
(* Which action takes a pod where *)

From(p, here, there) == pc[p] = here /\ pc'[p] = there

Moves(p) ==
    \/ Initialize(p) /\ From(p, "off", "joining")
    \/ CreateManagers(p) /\ From(p, "joining", "managed")
    \/ CreateInitialContext(p) /\ From(p, "managed", "listed")
    \/ InitializeContext(p) /\ From(p, "listed", "ctx_joining")
    \/ AwaitContext(p) /\ From(p, "ctx_joining", "in_ctx")
    \/ InitCreateCollective(p) /\ From(p, "in_ctx", "gathering")
    \/ AwaitGathering(p) /\ From(p, "gathering", "gathered")
    \/ NotFirst(p) /\ From(p, "gathered", "fetching")
    \/ CreateFirst(p) /\ From(p, "gathered", "working")
    \/ GetCreateCollectiveIdp(p) /\ From(p, "fetching", "working")
    \/ (\E c \in Contexts : Spawn(p, c)) /\ From(p, "working", "spawning")
    \/ Spawned(p) /\ From(p, "spawning", "working")
    \/ FinalizeContext(p) /\ From(p, "working", "ctx_finalizing")
    \/ LeaveContext(p) /\ From(p, "ctx_finalizing", "ctx_final")
    \/ Finalize(p) /\ From(p, "ctx_final", "finalizing")
    \/ LeaveApplication(p) /\ From(p, "finalizing", "leaving")
    \/ StopSessions(p) /\ From(p, "leaving", "sessions")
    \/ StopService(p) /\ From(p, "sessions", "stopped")
    \/ HandleMessage(p) /\ From(p, "joining", "dead")

LEMMA MovesIs ==
    ASSUME Loose, PlacesMatch, MailMatches, NEW p \in Pods, Step(p)
    PROVE  (pc' = pc \/ Moves(p)) /\ \A q \in Pods : q # p => pc'[q] = pc[q]
<1>1. pc \in [Pods -> Places]
  BY DEF Loose
<1>2. \A q \in Pods : q # p => pc'[q] = pc[q]
  BY StepIs DEF Goes
<1>3. CASE Sending(p)
  BY <1>1, <1>2, <1>3 DEF Sending, Moves, From, Goto, Got, Initialize, CreateInitialContext,
                    InitializeContext, InitCreateCollective, CreateFirst, FinalizeContext,
                    Finalize, LeaveApplication, Awaited
<1>4. CASE Quiet(p)
  BY <1>1, <1>2, <1>4 DEF Quiet, Moves, From, Goto, Got, Sleep, CreateManagers, AwaitContext,
                    AwaitGathering, NotFirst, GetCreateCollectiveIdp, Spawned, LeaveContext,
                    StopSessions, Spawn, Awaited
<1>5. CASE StopService(p)
  BY <1>1, <1>2, <1>5 DEF StopService, Moves, From, Goto
<1>6. CASE HandleMessage(p)
  <2>1. \/ pc' = pc
        \/ pc' = [pc EXCEPT ![p] = "dead"] /\ p \notin managers
    BY <1>6 DEF HandleMessage, HandleInitialize, HandleInitializeContext,
           HandleFinalizeContext, HandleFinalize, HandleDirectory, HandleTooEarly,
           HandleCreateCollectiveInit, HandleCreateCollectiveIdp, main
  <2>2. CASE p \notin managers
    <3>1. pc[p] = "joining"
      BY <1>6, <2>2, DeathIs
    <3> QED
      BY <1>1, <1>6, <2>1, <3>1 DEF Moves, From
  <2> QED
    BY <1>2, <2>1, <2>2
<1>7. CASE Handlers(p)
  BY <1>7 DEF Handlers, HandleInitCreateCollective
<1> QED
  BY <1>2, <1>3, <1>4, <1>5, <1>6, <1>7 DEF Step

\* The thresholds of a life.
LEMMA Crossings ==
    ASSUME Loose, PlacesMatch, MailMatches, NEW p \in Pods, Step(p), NEW q \in Pods
    PROVE  /\ pc[q] \notin Started /\ pc'[q] \in Started => q = p /\ Initialize(p) /\ From(p, "off", "joining")
           /\ pc[q] \notin Managed /\ pc'[q] \in Managed => q = p /\ CreateManagers(p)
           /\ pc[q] \notin Joined /\ pc'[q] \in Joined => q = p /\ InitializeContext(p)
           /\ pc[q] \notin InContext /\ pc'[q] \in InContext => q = p /\ AwaitContext(p)
           /\ pc[q] \notin Gathering /\ pc'[q] \in Gathering => q = p /\ InitCreateCollective(p)
           /\ pc[q] \notin Worked /\ pc'[q] \in Worked =>
                 q = p /\ (CreateFirst(p) \/ GetCreateCollectiveIdp(p))
           /\ pc[q] \notin Rested /\ pc'[q] \in Rested => q = p /\ FinalizeContext(p)
           /\ pc[q] \notin Left /\ pc'[q] \in Left => q = p /\ LeaveContext(p)
           /\ pc[q] \notin Finalized /\ pc'[q] \in Finalized => q = p /\ Finalize(p)
           /\ pc[q] \notin Stopping /\ pc'[q] \in Stopping => q = p /\ LeaveApplication(p)
<1>1. pc' = pc \/ Moves(p)
  BY MovesIs
<1>2. q # p => pc'[q] = pc[q]
  BY MovesIs
<1>3. CASE pc'[q] = pc[q]
  BY <1>3
<1>4. CASE q = p /\ Moves(p)
  BY <1>4 DEF Moves, From, Started, Alive, Managed, Listed, Joined, InContext, Gathering,
              Worked, Rested, Left, Finalized, Stopping
<1> QED
  BY <1>1, <1>2, <1>3, <1>4

\* Places one behind the other.
LEMMA PlacesAre ==
    /\ Stopping \subseteq Finalized /\ Finalized \subseteq Left /\ Left \subseteq Rested
    /\ Rested \subseteq Worked /\ Worked \subseteq Gathering /\ Gathering \subseteq InContext
    /\ InContext \subseteq Joined /\ Joined \subseteq Listed /\ Listed \subseteq Managed
    /\ Managed \subseteq Alive /\ Alive \subseteq Started /\ Started \subseteq Places
    /\ Places = Started \cup {"off"} /\ "off" \notin Started /\ "dead" \notin Alive
    /\ Started = Alive \cup {"dead"} /\ "spawning" \in Worked \ Rested
BY DEF Places, Starting, Finishing, Started, Alive, Managed, Listed, Joined, InContext,
       Gathering, Worked, Rested, Left, Finalized, Stopping

LEMMA SinceIs ==
    /\ Since("Join") = Started /\ Since("JoinContext") = Joined
    /\ Since("CollectiveInit") = Gathering /\ Since("CollectiveIdp") = Worked
    /\ Since("FinalizeContext") = Rested /\ Since("Finalize") = Finalized
BY PlacesAre DEF Since

------------------------------------------------------------------------------
(* A context enters and rests together *)

LEMMA FullSet ==
    ASSUME NEW less, NEW more, less \subseteq more, more \subseteq Pods,
           NEW n \in Nat, Cardinality(more) <= n, n <= Cardinality(less)
    PROVE  less = more
<1>1. IsFiniteSet(more) /\ IsFiniteSet(less)
  BY PodsCount, FS_Subset
<1>2. Cardinality(less) \in Nat /\ Cardinality(more) \in Nat /\ Cardinality(less) <= Cardinality(more)
  BY SubCount
<1>3. Cardinality(less) = Cardinality(more)
  BY <1>2
<1> QED
  BY <1>1, <1>3, FS_Subset

LEMMA NumbersAre ==
    ASSUME Loose, NEW p \in Pods
    PROVE  /\ init_ctx[p] \in Nat /\ init_total[p] \in Nat /\ final_ctx[p] \in Nat
           /\ final_total[p] \in Nat /\ cc_count[p] \in Nat
<1>1. /\ init_ctx \in [Pods -> 0 .. Cardinality(Pods)] /\ init_total \in [Pods -> 0 .. Cardinality(Pods)]
      /\ final_ctx \in [Pods -> Nat] /\ final_total \in [Pods -> Nat] /\ cc_count \in [Pods -> Nat]
  BY DEF Loose
<1> QED
  BY <1>1, PodsCount

\* When all mates are counted, all have joined and no message of theirs is left.
LEMMA AllJoined ==
    ASSUME CountInv, NEW p \in Pods, Npods(p) <= init_ctx[p]
    PROVE  (\A q \in Mates(p) : pc[q] \in Joined) /\ Later(p, 0, "JoinContext") = {}
<1>1. init_ctx[p] \in Nat /\ init_ctx[p] <= Cardinality(Heard(p, 0, "JoinContext") \cap Mates(p))
  BY NumbersAre DEF CountInv, CountsMatch, CountsOf
<1>2. Mates(p) \subseteq Pods
  BY DEF Mates
<1>3. Heard(p, 0, "JoinContext") \cap Mates(p) = Mates(p)
  BY <1>1, <1>2, FullSet DEF Npods
<1>4. \A q \in Mates(p) : pc[q] \in Joined /\ q \notin Later(p, 0, "JoinContext")
  BY <1>3, SinceIs DEF Heard
<1>5. ASSUME NEW q \in Later(p, 0, "JoinContext")
      PROVE  FALSE
  <2>1. PICK j \in DOMAIN inbox[p] : inbox[p][j].type = "JoinContext" /\ inbox[p][j].from = q
    BY <1>5 DEF Later
  <2>2. q \in Mates(p)
    BY <2>1 DEF CountInv, MailMatches, Fits, OfContext
  <2> QED
    BY <1>4, <1>5, <2>2
<1> QED
  BY <1>4, <1>5

LEMMA AllRested ==
    ASSUME CountInv, NEW p \in Pods, Npods(p) <= init_ctx[p], init_ctx[p] <= final_ctx[p]
    PROVE  \A q \in Mates(p) : pc[q] \in Rested
<1>1. /\ final_ctx[p] \in Nat /\ init_ctx[p] \in Nat
      /\ final_ctx[p] <= Cardinality(Heard(p, 0, "FinalizeContext") \cap Mates(p))
  BY NumbersAre DEF CountInv, CountsMatch, CountsOf
<1>2. Mates(p) \subseteq Pods
  BY DEF Mates
<1>3. Cardinality(Mates(p)) <= final_ctx[p]
  <2>1. Cardinality(Mates(p)) \in Nat
    BY <1>2, SubCount
  <2> QED
    BY <1>1, <2>1 DEF Npods
<1>4. Heard(p, 0, "FinalizeContext") \cap Mates(p) = Mates(p)
  BY <1>1, <1>2, <1>3, FullSet
<1> QED
  BY <1>4, SinceIs DEF Heard

LEMMA TogetherStep ==
    ASSUME CountInv, Together, NEW p \in Pods, Step(p)
    PROVE  Together'
<1> SUFFICES ASSUME NEW q \in Pods PROVE TogetherOf(q)'
  BY DEF Together
<1>1. Loose /\ PlacesMatch /\ MailMatches /\ TogetherOf(q) /\ Mates(q)' = Mates(q) /\ Npods(q)' = Npods(q)
  BY DEF CountInv, Together, Mates, Npods
<1>2. \A r \in Mates(q) : r \in Pods /\ Grows(r)
  BY <1>1, StepIs DEF Mates
<1>3. ASSUME pc[q] \in InContext \/ (AwaitContext(p) /\ q = p)
      PROVE  /\ \A r \in Mates(q) : pc[r] \in Joined
             /\ Later(q, 0, "JoinContext") = {} /\ Npods(q) <= init_ctx[q]
  <2>1. CASE pc[q] \in InContext
    BY <1>1, <2>1 DEF TogetherOf
  <2>2. CASE AwaitContext(p) /\ q = p
    <3>1. pc[p] = "ctx_joining" /\ Ready(p)
      BY <2>2 DEF AwaitContext, Awaited
    <3>2. Npods(p) <= init_ctx[p]
      BY <3>1 DEF Ready
    <3> QED
      BY <2>2, <3>2, AllJoined
  <2> QED
    BY <1>3, <2>1, <2>2
<1>4. ASSUME pc'[q] \in InContext
      PROVE  /\ \A r \in Mates(q) : pc'[r] \in Joined
             /\ Later(q, 0, "JoinContext")' = {} /\ Npods(q) <= init_ctx'[q]
  <2>1. /\ \A r \in Mates(q) : pc[r] \in Joined
        /\ Later(q, 0, "JoinContext") = {} /\ Npods(q) <= init_ctx[q]
    BY <1>1, <1>3, <1>4, Crossings
  <2>2. \A r \in Mates(q) : pc'[r] \in Joined
    BY <1>2, <2>1 DEF Grows
  <2>3. ASSUME NEW r \in Later(q, 0, "JoinContext")'
        PROVE  FALSE
    <3>1. r = p /\ New(p, "JoinContext")
      BY <1>1, <2>1, <2>3, PendingStep DEF Types
    <3>2. pc[p] \notin Joined
      BY <3>1, SinceIs DEF New
    <3>3. MailMatches' /\ Loose'
      BY <1>1, MailStep, StepIs
    <3>4. PICK j \in DOMAIN inbox'[q] : inbox'[q][j].type = "JoinContext" /\ inbox'[q][j].from = r
      BY <2>3 DEF Later
    <3>5. r \in Mates(q)
      BY <1>1, <3>3, <3>4 DEF MailMatches, Fits, OfContext
    <3> QED
      BY <2>1, <3>1, <3>2, <3>5
  <2>4. init_ctx'[q] = init_ctx[q]
    <3>1. CASE HandleMessage(p)
      <4>1. q = p => inbox[p][1].type # "JoinContext"
        BY <1>1, <2>1, <3>1, HandledIs, LaterFirst
      <4>2. \/ init_ctx' = init_ctx
            \/ q # p /\ \E size : init_ctx' = [init_ctx EXCEPT ![p] = size]
        BY <1>1, <3>1, <4>1, HandledIs DEF HandleMessage, HandleInitialize, HandleInitializeContext,
           HandleFinalizeContext, HandleFinalize, HandleDirectory, HandleTooEarly,
           HandleCreateCollectiveInit, HandleCreateCollectiveIdp, counters
      <4> QED
        BY <1>1, <4>2 DEF Loose
    <3>2. CASE Sending(p)
      BY <1>1, <3>2, SendingIs DEF Sends, counters
    <3>3. CASE Quiet(p) \/ StopService(p) \/ Handlers(p)
      BY <3>3 DEF Quiet, Sleep, CreateManagers, AwaitContext, AwaitGathering, NotFirst,
         GetCreateCollectiveIdp, Spawned, LeaveContext, StopSessions, Spawn, StopService,
         Handlers, HandleInitCreateCollective, counters
    <3> QED
      BY <3>1, <3>2, <3>3 DEF Step
  <2> QED
    BY <2>1, <2>2, <2>3, <2>4
<1>5. ASSUME pc'[q] \in Left
      PROVE  \A r \in Mates(q) : pc'[r] \in Rested
  <2>1. CASE pc[q] \in Left
    BY <1>1, <1>2, <2>1 DEF TogetherOf, Grows
  <2>2. CASE pc[q] \notin Left
    <3>1. q = p /\ LeaveContext(p)
      BY <1>1, <1>5, <2>2, Crossings
    <3>2. pc[p] = "ctx_finalizing" /\ Ready(p)
      BY <3>1 DEF LeaveContext, Awaited
    <3>3. init_ctx[p] <= final_ctx[p]
      BY <3>2 DEF Ready
    <3>4. Npods(p) <= init_ctx[p]
      BY <1>1, <3>1, <3>2 DEF TogetherOf, InContext, Gathering, Worked, Rested
    <3>5. \A r \in Mates(q) : pc[r] \in Rested
      BY <3>1, <3>3, <3>4, AllRested
    <3> QED
      BY <1>2, <3>5 DEF Grows
  <2> QED
    BY <2>1, <2>2
<1> QED
  BY <1>1, <1>4, <1>5 DEF TogetherOf

------------------------------------------------------------------------------
(* Spawners wait, and pods know whether they are the first *)

LEMMA ContextsAre ==
    /\ Spawner \in [Contexts -> Pods \cup {None}] /\ Context \in [Pods -> Contexts]
    /\ \A q \in Pods : /\ Context[q] \in Contexts
                       /\ Spawner[Context[q]] \in Pods \cup {None}
                       /\ q \in Mates(q) /\ Mates(q) \subseteq Pods
    /\ \A c, d \in Contexts : Spawner[c] = None /\ Spawner[d] = None => c = d
    /\ None \notin Pods
BY LifecycleAssumption DEF Mates

LEMMA LaunchedIs ==
    ASSUME Loose, NEW p \in Pods, Step(p)
    PROVE  launched' = launched \/ \E c \in Contexts : Spawn(p, c) /\ launched' = launched \cup {c}
<1>1. CASE Sending(p)
  BY <1>1 DEF Sending, Initialize, CreateInitialContext, InitializeContext,
         InitCreateCollective, CreateFirst, FinalizeContext, Finalize, LeaveApplication, groups
<1>2. CASE Quiet(p)
  BY <1>2 DEF Quiet, Sleep, CreateManagers, AwaitContext, AwaitGathering, NotFirst,
         GetCreateCollectiveIdp, Spawned, LeaveContext, StopSessions, Spawn, groups
<1>3. CASE StopService(p) \/ Handlers(p)
  BY <1>3 DEF StopService, Handlers, HandleInitCreateCollective, groups
<1>4. CASE HandleMessage(p)
  BY <1>4 DEF HandleMessage, HandleInitialize, HandleInitializeContext,
           HandleFinalizeContext, HandleFinalize, HandleDirectory, HandleTooEarly,
           HandleCreateCollectiveInit, HandleCreateCollectiveIdp, groups
<1> QED
  BY <1>1, <1>2, <1>3, <1>4 DEF Step

LEMMA ClosureIs ==
    ASSUME Loose, NEW p \in Pods, Step(p)
    PROVE  \/ closure' = closure
           \/ CreateFirst(p) /\ closure' = [closure EXCEPT ![p] = p]
           \/ /\ GetCreateCollectiveIdp(p) /\ cc_idp[p] # None
              /\ closure' = [closure EXCEPT ![p] = cc_idp[p]]
<1>1. CASE Sending(p)
  BY <1>1 DEF Sending, Initialize, CreateInitialContext, InitializeContext,
         InitCreateCollective, CreateFirst, FinalizeContext, Finalize, LeaveApplication, Goto, Got
<1>2. CASE GetCreateCollectiveIdp(p)
  BY <1>2 DEF GetCreateCollectiveIdp, Got, Awaited, Ready
<1>3. CASE Quiet(p) /\ ~GetCreateCollectiveIdp(p)
  BY <1>3 DEF Quiet, Sleep, CreateManagers, AwaitContext, AwaitGathering, NotFirst,
         Spawned, LeaveContext, StopSessions, Spawn, Goto
<1>4. CASE StopService(p) \/ Handlers(p)
  BY <1>4 DEF StopService, Handlers, HandleInitCreateCollective, Goto
<1>5. CASE HandleMessage(p)
  BY <1>5 DEF HandleMessage, HandleInitialize, HandleInitializeContext,
           HandleFinalizeContext, HandleFinalize, HandleDirectory, HandleTooEarly,
           HandleCreateCollectiveInit, HandleCreateCollectiveIdp, main
<1> QED
  BY <1>1, <1>2, <1>3, <1>4, <1>5 DEF Step

LEMMA MainIs ==
    ASSUME Loose, NEW p \in Pods, Step(p)
    PROVE  \/ is_main' = is_main
           \/ /\ HandleMessage(p) /\ inbox[p][1].type = "Join" /\ inbox[p][1].from = p
              /\ \E is \in {"yes", "no"} : is_main' = [is_main EXCEPT ![p] = is]
<1>1. CASE Sending(p)
  BY <1>1 DEF Sending, Initialize, CreateInitialContext, InitializeContext,
         InitCreateCollective, CreateFirst, FinalizeContext, Finalize, LeaveApplication, start
<1>2. CASE Quiet(p)
  BY <1>2 DEF Quiet, Sleep, CreateManagers, AwaitContext, AwaitGathering, NotFirst,
         GetCreateCollectiveIdp, Spawned, LeaveContext, StopSessions, Spawn, start
<1>3. CASE StopService(p) \/ Handlers(p)
  BY <1>3 DEF StopService, Handlers, HandleInitCreateCollective, start
<1>4. CASE HandleMessage(p)
  <2>1. Head(inbox[p]) = inbox[p][1]
    BY <1>4, HandledIs
  <2>2. CASE HandleInitialize(p, inbox[p][1])
    BY <1>4, <2>2 DEF HandleInitialize
  <2> QED
    BY <1>4, <2>1, <2>2 DEF HandleMessage, HandleInitializeContext,
           HandleFinalizeContext, HandleFinalize, HandleDirectory, HandleTooEarly,
           HandleCreateCollectiveInit, HandleCreateCollectiveIdp, start
<1> QED
  BY <1>1, <1>2, <1>3, <1>4 DEF Step

LEMMA SpawnersStep ==
    ASSUME CountInv, Together, SpawnersWait, NEW p \in Pods, Step(p)
    PROVE  SpawnersWait'
<1>1. Loose /\ PlacesMatch /\ MailMatches
  BY DEF CountInv
<1>2. Placed(p) /\ TogetherOf(p)
  BY DEF CountInv, PlacesMatch, Together
<1>3. ASSUME NEW c \in launched' PROVE Launcher(c)'
  <2>1. c \in Contexts
    BY <1>1, <1>3, StepIs DEF Loose
  <2>2. CASE c \in launched
    <3>1. Launcher(c) /\ Spawner[c] \in Pods \cup {None}
      BY <2>1, <2>2, ContextsAre DEF SpawnersWait
    <3>2. ASSUME Spawner[c] # None
          PROVE  pc'[Spawner[c]] \in Worked /\ Context[Spawner[c]] # c
      <4>1. Grows(Spawner[c])
        BY <1>1, <3>1, <3>2, StepIs
      <4> QED
        BY <3>1, <3>2, <4>1 DEF Launcher, Grows
    <3> QED
      BY <3>2 DEF Launcher
  <2>3. CASE c \notin launched
    <3>1. Spawn(p, c)
      BY <1>1, <1>3, <2>3, LaunchedIs
    <3>2. Spawner[c] = p /\ pc[p] = "working" /\ Context[p] \in launched
      BY <1>2, <3>1 DEF Spawn, Placed
    <3>3. pc'[p] \in Worked
      <4>1. Grows(p)
        BY <1>1, StepIs
      <4> QED
        BY <3>2, <4>1 DEF Grows, Worked
    <3> QED
      BY <2>3, <3>2, <3>3 DEF Launcher
  <2> QED
    BY <2>2, <2>3
<1>4. ASSUME NEW q \in Pods PROVE Launched(q)'
  <2>1. Launched(q) /\ Grows(q) /\ Spawner[Context[q]] \in Pods \cup {None} /\ Context[q] \in Contexts
    BY <1>1, StepIs, ContextsAre DEF SpawnersWait
  <2>2. ASSUME Context[q] \in launched', closure'[q] = None, Spawner[Context[q]] # None
        PROVE  pc'[Spawner[Context[q]]] = "spawning"
    <3>1. closure[q] = None
      <4>1. closure \in [Pods -> Pods \cup {None}] /\ None \notin Pods
        BY <1>1, ContextsAre DEF Loose
      <4> QED
        BY <1>1, <2>2, <4>1, ClosureIs
    <3>2. CASE Context[q] \in launched
      <4>1. pc[Spawner[Context[q]]] = "spawning"
        BY <2>1, <2>2, <3>1, <3>2 DEF Launched
      <4>2. CASE Spawner[Context[q]] # p
        BY <1>1, <2>1, <2>2, <4>1, <4>2, MovesIs
      <4>3. CASE Spawner[Context[q]] = p
        <5>1. ~Spawned(p)
          BY <3>1, <3>2, <4>3 DEF Spawned
        <5>2. pc' = pc \/ Moves(p)
          BY <1>1, MovesIs
        <5> QED
          BY <4>1, <4>3, <5>1, <5>2 DEF Moves, From
      <4> QED
        BY <4>2, <4>3
    <3>3. CASE Context[q] \notin launched
      <4>1. Spawn(p, Context[q])
        BY <1>1, <2>2, <3>3, LaunchedIs
      <4>2. pc \in [Pods -> Places]
        BY <1>1 DEF Loose
      <4> QED
        BY <4>1, <4>2 DEF Spawn, Goto
    <3> QED
      BY <3>2, <3>3
  <2>3. ASSUME Spawner[Context[q]] = None, pc'[q] = "off", NEW c \in launched'
        PROVE  Spawner[c] = None
    <3>1. pc[q] = "off" /\ \A d \in launched : Spawner[d] = None
      BY <2>1, <2>3 DEF Grows, Launched
    <3>2. ASSUME Spawn(p, c)
          PROVE  FALSE
      <4>1. pc[p] = "working" /\ Context[p] \in launched
        BY <1>2, <3>2 DEF Spawn, Placed
      <4>2. Context[p] = Context[q]
        BY <2>1, <2>3, <3>1, <4>1, ContextsAre
      <4>3. q \in Mates(p) /\ pc[p] \in InContext
        BY <4>1, <4>2, PlacesAre DEF Mates, Worked
      <4> QED
        BY <1>2, <3>1, <4>3, PlacesAre DEF TogetherOf
    <3> QED
      BY <1>1, <2>3, <3>1, <3>2, LaunchedIs
  <2> QED
    BY <2>2, <2>3 DEF Launched
<1>5. ASSUME NEW q \in Pods PROVE Known(q)'
  <2>1. Known(q) /\ Grows(q) /\ is_main \in [Pods -> {Unknown, "yes", "no"}]
    BY <1>1, StepIs DEF SpawnersWait, Loose
  <2>2. is_main[q] # Unknown => is_main'[q] # Unknown
    BY <1>1, <2>1, MainIs DEF Unknown
  <2>3. ASSUME is_main'[q] # Unknown
        PROVE  q \in Heard(q, 0, "Join")'
    <3>1. CASE is_main[q] # Unknown
      <4>1. pc[q] \in Started /\ q \notin Later(q, 0, "Join")
        BY <2>1, <3>1, SinceIs DEF Known, Heard
      <4>2. q \notin Later(q, 0, "Join")'
        <5>1. "Join" \in Types
          BY DEF Types
        <5>2. ASSUME q \in Later(q, 0, "Join")'
              PROVE  q = p /\ New(p, "Join")
          BY <1>1, <4>1, <5>1, <5>2, PendingStep
        <5>3. New(p, "Join") => pc[p] \notin Started
          BY SinceIs DEF New
        <5> QED
          BY <4>1, <5>2, <5>3
      <4> QED
        BY <2>1, <4>1, <4>2, SinceIs DEF Grows, Heard
    <3>2. CASE is_main[q] = Unknown
      <4>1. q = p /\ HandleMessage(p) /\ inbox[p][1].type = "Join" /\ inbox[p][1].from = p
        BY <1>1, <2>1, <2>3, <3>2, MainIs
      <4>2. 1 \in DOMAIN inbox[p]
        BY <1>1, <4>1, HandledIs
      <4>3. pc[p] \in Started /\ p \notin Later(p, 1, "Join")
        BY <4>1, <4>2, SinceIs DEF CountInv, MailMatches, Fits
      <4>4. Later(p, 0, "Join")' = Later(p, 0 + 1, "Join")
        BY <1>1, <4>1, LaterHandled
      <4> QED
        BY <2>1, <4>1, <4>3, <4>4, SinceIs DEF Grows, Heard
    <3> QED
      BY <3>1, <3>2
  <2>4. ASSUME pc'[q] \in Managed
        PROVE  is_main'[q] # Unknown
    <3>1. CASE pc[q] \in Managed
      BY <2>1, <2>2, <3>1 DEF Known
    <3>2. CASE pc[q] \notin Managed
      <4>1. q = p /\ CreateManagers(p)
        BY <1>1, <2>4, <3>2, Crossings
      <4> QED
        BY <2>2, <4>1 DEF CreateManagers
    <3> QED
      BY <3>1, <3>2
  <2> QED
    BY <2>3, <2>4 DEF Known
<1> QED
  BY <1>3, <1>4, <1>5 DEF SpawnersWait

------------------------------------------------------------------------------
(* Pods know of all that are in the application *)

LEMMA SendsJoin ==
    ASSUME Loose, NEW p \in Pods, Initialize(p), NEW group, group = app'
    PROVE  Sends(p, "Join", group, Cardinality(group)) /\ group = app \cup {p} /\ group \subseteq Pods
<1>1. pc \in [Pods -> Places] /\ app \subseteq Pods
  BY DEF Loose
<1> QED
  BY <1>1 DEF Initialize, Goto, Sends, Since, Started, Alive, Managed, Listed, Joined, InContext,
     Gathering, Worked, Rested, Left, Finalized, Stopping, Places, Starting, collective

LEMMA SendsJoinContext ==
    ASSUME Loose, NEW p \in Pods, InitializeContext(p), NEW group, group = ctx' \cap Mates(p)
    PROVE  Sends(p, "JoinContext", group, Cardinality(group)) /\ ctx' = ctx \cup {p} /\ group \subseteq Pods
<1>1. pc \in [Pods -> Places] /\ ctx \subseteq Pods
  BY DEF Loose
<1> QED
  BY <1>1 DEF InitializeContext, Goto, Sends, Since, Started, Alive, Managed, Listed, Joined, InContext,
     Gathering, Worked, Rested, Left, Finalized, Stopping, Places, Starting, collective, Mates

LEMMA SendsFinalize ==
    ASSUME Loose, NEW p \in Pods, Finalize(p)
    PROVE  Sends(p, "Finalize", app, 0) /\ app \subseteq Pods
<1>1. pc \in [Pods -> Places] /\ app \subseteq Pods
  BY DEF Loose
<1> QED
  BY <1>1 DEF Finalize, Goto, Sends, Since, Started, Alive, Managed, Listed, Joined, InContext,
     Gathering, Worked, Rested, Left, Finalized, Stopping, Places, Finishing, collective

\* What is sent is in the inbox of those it was sent to, behind what was there.
LEMMA Delivered ==
    ASSUME Loose, NEW p \in Pods, NEW type \in Types, NEW group, group \subseteq Pods,
           NEW size \in 0 .. Cardinality(Pods), Sends(p, type, group, size), NEW q \in group,
           NEW i \in Nat, i <= Len(inbox[q])
    PROVE  p \in Later(q, i, type)'
<1>1. Later(q, i, type)' = Later(q, i, type) \cup {p}
  BY LaterSent
<1> QED
  BY <1>1

LEMMA NotBoth ==
    ASSUME Loose, NEW p \in Pods, Sending(p), HandleMessage(p)
    PROVE  FALSE
<1>1. PICK type \in Types, group \in SUBSET Pods, size \in 0 .. Cardinality(Pods) :
         Sends(p, type, group, size)
  BY SendingIs
<1>2. Len(inbox[p]) \in Nat /\ (Len(inbox'[p]) = Len(inbox[p]) + 1 \/ Len(inbox'[p]) = Len(inbox[p]))
  BY <1>1, SentIs
<1>3. Len(inbox'[p]) = Len(inbox[p]) - 1
  BY HandledIs
<1> QED
  BY <1>2, <1>3

LEMMA AppIs ==
    ASSUME Loose, NEW p \in Pods, Step(p)
    PROVE  app' \subseteq app \/ (Initialize(p) /\ app' = app \cup {p})
<1>1. CASE Sending(p)
  BY <1>1 DEF Sending, Initialize, CreateInitialContext, InitializeContext,
         InitCreateCollective, CreateFirst, FinalizeContext, Finalize, LeaveApplication, groups
<1>2. CASE Quiet(p)
  BY <1>2 DEF Quiet, Sleep, CreateManagers, AwaitContext, AwaitGathering, NotFirst,
         GetCreateCollectiveIdp, Spawned, LeaveContext, StopSessions, Spawn, groups
<1>3. CASE StopService(p) \/ Handlers(p)
  BY <1>3 DEF StopService, Handlers, HandleInitCreateCollective, groups
<1>4. CASE HandleMessage(p)
  BY <1>4 DEF HandleMessage, HandleInitialize, HandleInitializeContext,
           HandleFinalizeContext, HandleFinalize, HandleDirectory, HandleTooEarly,
           HandleCreateCollectiveInit, HandleCreateCollectiveIdp, groups
<1> QED
  BY <1>1, <1>2, <1>3, <1>4 DEF Step

LEMMA TotalIs ==
    ASSUME Loose, NEW p \in Pods, Step(p)
    PROVE  \/ init_total' = init_total /\ ~(HandleMessage(p) /\ inbox[p][1].type = "Join")
           \/ /\ HandleMessage(p) /\ inbox[p][1].type = "Join"
              /\ init_total' = [init_total EXCEPT ![p] = inbox[p][1].size]
<1>1. CASE Sending(p)
  <2>1. ~HandleMessage(p)
    BY <1>1, NotBoth
  <2> QED
    BY <1>1, <2>1, SendingIs DEF Sends, counters
<1>2. CASE HandleMessage(p)
  <2>1. Head(inbox[p]) = inbox[p][1]
    BY <1>2, HandledIs
  <2> QED
    BY <1>2, <2>1 DEF HandleMessage, HandleInitialize, HandleInitializeContext,
           HandleFinalizeContext, HandleFinalize, HandleDirectory, HandleTooEarly,
           HandleCreateCollectiveInit, HandleCreateCollectiveIdp, counters
<1>3. CASE (Quiet(p) \/ StopService(p) \/ Handlers(p)) /\ ~HandleMessage(p)
  BY <1>3 DEF Quiet, Sleep, CreateManagers, AwaitContext, AwaitGathering, NotFirst,
         GetCreateCollectiveIdp, Spawned, LeaveContext, StopSessions, Spawn, StopService,
         Handlers, HandleInitCreateCollective, counters
<1> QED
  BY <1>1, <1>2, <1>3 DEF Step

\* Who is in the application after a step was in it, or has just joined.
LEMMA Members ==
    ASSUME Loose, PlacesMatch, MailMatches, NEW p \in Pods, Step(p), NEW q \in app'
    PROVE  /\ q \in Pods /\ (~StopService(p) \/ q # p)
           /\ q \in app \/ (q = p /\ Initialize(p) /\ inbox[q] = <<>> /\ DOMAIN inbox[q] = {})
<1>1. q \in Pods
  BY StepIs DEF Loose
<1>2. q = p => ~StopService(p)
  <2>1. ASSUME q = p, StopService(p)
        PROVE  FALSE
    <3>1. pc[p] \in Stopping /\ app' = app
      BY <2>1 DEF StopService, Stopping, groups
    <3> QED
      BY <2>1, <3>1 DEF PlacesMatch, Placed
  <2> QED
    BY <2>1
<1>3. ASSUME q \notin app
      PROVE  q = p /\ Initialize(p) /\ inbox[q] = <<>> /\ DOMAIN inbox[q] = {}
  <2>1. q = p /\ Initialize(p)
    BY <1>3, AppIs
  <2>2. inbox[q] = <<>>
    BY <2>1 DEF Initialize, MailMatches
  <2> QED
    BY <2>1, <2>2
<1> QED
  BY <1>1, <1>2, <1>3

LEMMA FewerPending ==
    ASSUME Loose, PlacesMatch, MailMatches, NEW p \in Pods, Step(p), NEW q \in app', q \in app,
           NEW i \in Nat, NEW old, old \subseteq Later(q, i, "Join")',
           Initialize(p) => i <= Len(inbox[q])
    PROVE  app' \ Later(q, i, "Join")' \subseteq app \ old
<1>1. CASE app' \subseteq app
  BY <1>1
<1>2. CASE Initialize(p) /\ app' = app \cup {p}
  <2>1. PICK group : group = app'
    OBVIOUS
  <2>2. Sends(p, "Join", group, Cardinality(group)) /\ group \subseteq Pods
    BY <1>2, <2>1, SendsJoin
  <2>3. p \in Later(q, i, "Join")'
    BY <1>2, <2>1, <2>2, Delivered, PodsCount DEF Types
  <2> QED
    BY <1>2, <2>3
<1> QED
  BY <1>1, <1>2, AppIs

LEMMA TotalStep ==
    ASSUME CountInv, TotalsMatch, NEW p \in Pods, Step(p), NEW q \in app'
    PROVE  TotalOf(q)'
<1>1. Loose /\ PlacesMatch /\ MailMatches /\ "Join" \in Types
  BY DEF CountInv, Types
<1>2. /\ q \in Pods /\ (~StopService(p) \/ q # p)
      /\ q \in app \/ (q = p /\ Initialize(p) /\ inbox[q] = <<>> /\ DOMAIN inbox[q] = {})
  BY <1>1, Members
<1>3. Len(inbox[q]) \in Nat /\ 0 \in Nat /\ init_total \in [Pods -> 0 .. Cardinality(Pods)]
  BY <1>1, <1>2, LenProperties DEF Loose
<1>4. CASE q \notin app
  <2>1. PICK group : group = app'
    OBVIOUS
  <2>2. Sends(p, "Join", group, Cardinality(group)) /\ group \subseteq Pods /\ q = p
    BY <1>1, <1>2, <1>4, <2>1, SendsJoin
  <2>3. p \in Later(q, 0, "Join")'
    BY <1>1, <1>2, <1>3, <1>4, <2>1, <2>2, Delivered, PodsCount
  <2> QED
    BY <2>2, <2>3 DEF TotalOf
<1>5. CASE q \in app /\ HandleMessage(p) /\ q = p /\ inbox[p][1].type = "Join"
  <2>1. 1 \in DOMAIN inbox[p] /\ inbox[p][1] \in Message
    BY <1>1, <1>5, HandledIs
  <2>2. Later(p, 0, "Join")' = Later(p, 0 + 1, "Join")
    BY <1>1, <1>5, LaterHandled
  <2>3. Later(p, 1, "Join") \subseteq Later(p, 0, "Join")'
    BY <2>2
  <2>4. app' \ Later(p, 0, "Join")' \subseteq app \ Later(p, 1, "Join")
    BY <1>1, <1>3, <1>5, <2>3, FewerPending
  <2>5. init_total'[p] = inbox[p][1].size
    BY <1>1, <1>3, <1>5, TotalIs
  <2>6. Cardinality(app \ Later(p, 1, "Join")) <= inbox[p][1].size
    BY <1>5, <2>1 DEF TotalsMatch, Announces
  <2>7. app \ Later(p, 1, "Join") \subseteq Pods
    BY <1>1 DEF Loose
  <2>8. inbox[p][1].size \in Nat
    BY <2>1, PodsCount DEF Message
  <2>9. Cardinality(app' \ Later(p, 0, "Join")') <= Cardinality(app \ Later(p, 1, "Join"))
        /\ Cardinality(app' \ Later(p, 0, "Join")') \in Nat /\ Cardinality(app \ Later(p, 1, "Join")) \in Nat
    BY <2>4, <2>7, SubCount
  <2>10. Cardinality(app' \ Later(p, 0, "Join")') <= init_total'[p]
    BY <2>5, <2>6, <2>8, <2>9
  <2> QED
    BY <1>5, <2>10 DEF TotalOf
<1>6. CASE q \in app /\ ~(HandleMessage(p) /\ q = p /\ inbox[p][1].type = "Join")
  <2>1. Later(q, 0, "Join") \subseteq Later(q, 0, "Join")'
    <3>1. CASE HandleMessage(p) /\ q = p
      <4>1. Later(p, 0, "Join")' = Later(p, 0 + 1, "Join") /\ 1 \in DOMAIN inbox[p]
        BY <1>1, <3>1, LaterHandled, HandledIs
      <4>2. Later(p, 0, "Join") = Later(p, 1, "Join")
        BY <1>1, <1>6, <3>1, <4>1, LaterFirst
      <4> QED
        BY <3>1, <4>1, <4>2
    <3>2. CASE ~(HandleMessage(p) /\ q = p)
      BY <1>1, <1>2, <1>3, <3>2, LaterStep DEF Step
    <3> QED
      BY <3>1, <3>2
  <2>2. app' \ Later(q, 0, "Join")' \subseteq app \ Later(q, 0, "Join")
    BY <1>1, <1>3, <1>6, <2>1, FewerPending
  <2>3. init_total'[q] = init_total[q]
    BY <1>1, <1>2, <1>3, <1>6, TotalIs
  <2>4. app \ Later(q, 0, "Join") \subseteq Pods
    BY <1>1 DEF Loose
  <2>5. /\ Cardinality(app' \ Later(q, 0, "Join")') <= Cardinality(app \ Later(q, 0, "Join"))
        /\ Cardinality(app' \ Later(q, 0, "Join")') \in Nat /\ Cardinality(app \ Later(q, 0, "Join")) \in Nat
    BY <2>2, <2>4, SubCount
  <2>6. init_total[q] \in Nat
    BY <1>1, <1>2, NumbersAre
  <2>7. TotalOf(q)
    BY <1>6 DEF TotalsMatch
  <2>8. ASSUME q \notin Later(q, 0, "Join")'
        PROVE  Cardinality(app' \ Later(q, 0, "Join")') <= init_total'[q]
    <3>1. Cardinality(app \ Later(q, 0, "Join")) <= init_total[q]
      BY <2>1, <2>7, <2>8 DEF TotalOf
    <3> QED
      BY <2>3, <2>5, <2>6, <3>1
  <2> QED
    BY <2>8 DEF TotalOf
<1> QED
  BY <1>4, <1>5, <1>6

LEMMA AnnouncesStep ==
    ASSUME CountInv, TotalsMatch, NEW p \in Pods, Step(p), NEW q \in app',
           NEW i \in DOMAIN inbox'[q]
    PROVE  Announces(q, i)'
<1>1. Loose /\ PlacesMatch /\ MailMatches /\ "Join" \in Types
  BY DEF CountInv, Types
<1>2. /\ q \in Pods /\ (~StopService(p) \/ q # p)
      /\ q \in app \/ (q = p /\ Initialize(p) /\ inbox[q] = <<>> /\ DOMAIN inbox[q] = {})
  BY <1>1, Members
<1>3. Len(inbox[q]) \in Nat /\ DOMAIN inbox[q] = 1 .. Len(inbox[q])
  <2>1. inbox[q] \in Seq(Message)
    BY <1>1, <1>2 DEF Loose
  <2> QED
    BY <2>1, LenProperties
<1>4. ASSUME NEW j \in DOMAIN inbox[q], Passed(p, q, i, j)
      PROVE  Announces(q, i)'
  <2>1. /\ i \in Nat /\ inbox'[q][i] = inbox[q][j] /\ Later(q, j, "Join") \subseteq Later(q, i, "Join")'
        /\ j = i \/ HandleMessage(p)
        /\ inbox[q][j] \in Message
    BY <1>1, <1>4 DEF Passed
  <2>2. q \in app
    BY <1>2
  <2>3. Initialize(p) => i <= Len(inbox[q])
    BY <1>1, <1>3, <2>1, NotBoth DEF Sending
  <2>4. app' \ Later(q, i, "Join")' \subseteq app \ Later(q, j, "Join")
    BY <1>1, <2>1, <2>2, <2>3, FewerPending
  <2>5. app \ Later(q, j, "Join") \subseteq Pods
    BY <1>1 DEF Loose
  <2>6. /\ Cardinality(app' \ Later(q, i, "Join")') <= Cardinality(app \ Later(q, j, "Join"))
        /\ Cardinality(app' \ Later(q, i, "Join")') \in Nat /\ Cardinality(app \ Later(q, j, "Join")) \in Nat
    BY <2>4, <2>5, SubCount
  <2>7. Announces(q, j) /\ inbox[q][j].size \in Nat
    BY <2>1, <2>2, PodsCount DEF TotalsMatch, Message
  <2>8. ASSUME inbox[q][j].type = "Join"
        PROVE  Cardinality(app' \ Later(q, i, "Join")') <= inbox[q][j].size
    BY <2>6, <2>7, <2>8 DEF Announces
  <2> QED
    BY <2>1, <2>8 DEF Announces
<1>5. CASE Fresh(p, q, i)
  <2>1. PICK type \in Types, group \in SUBSET Pods, size \in 0 .. Cardinality(Pods) :
           /\ SentTo(p, type, group, size)
           /\ inbox'[q][i].type = type /\ inbox'[q][i].size = size
           /\ \A t \in Types : Later(q, i, t)' = {}
    <3>1. q \in Pods
      BY <1>2
    <3> QED
      BY <1>1, <1>5, <3>1, FreshIs
  <2>2. ASSUME type = "Join"
        PROVE  Cardinality(app' \ Later(q, i, "Join")') <= size
    <3>1. app' \ Later(q, i, "Join")' = group /\ size = Cardinality(group)
      BY <1>1, <2>1, <2>2 DEF SentTo
    <3>2. size \in Nat
      BY PodsCount
    <3> QED
      BY <3>1, <3>2
  <2> QED
    BY <2>1, <2>2 DEF Announces
<1> QED
  BY <1>1, <1>2, <1>4, <1>5, InboxStep

LEMMA TotalsStep ==
    ASSUME CountInv, TotalsMatch, NEW p \in Pods, Step(p)
    PROVE  TotalsMatch'
BY TotalStep, AnnouncesStep DEF TotalsMatch

------------------------------------------------------------------------------
(* The order of the messages *)

\* A pod that starts: its spawner waits for it.
LEMMA Starter ==
    ASSUME CountInv, SpawnersWait, NEW p \in Pods, Step(p), New(p, "Join"),
           NEW r \in Pods, Closes(r, p)
    PROVE  pc[r] \notin Finalized /\ pc'[r] \notin Finalized
<1>1. Loose /\ PlacesMatch /\ MailMatches
  BY DEF CountInv
<1>2. pc[p] \notin Started /\ pc'[p] \in Started
  BY SinceIs DEF New
<1>3. Initialize(p) /\ pc[p] = "off" /\ pc'[p] = "joining"
  BY <1>1, <1>2, Crossings DEF From
<1>4. CASE r = p
  BY <1>3, <1>4 DEF Finalized, Stopping
<1>5. CASE r # p
  <2>1. Context[p] \in launched /\ closure[p] = None
    <3>1. Placed(p)
      BY <1>1 DEF PlacesMatch
    <3> QED
      BY <1>2, <1>3, <3>1, PlacesAre DEF Initialize, Placed
  <2>2. r = Spawner[Context[p]] /\ r # None
    BY <1>5, ContextsAre DEF Closes
  <2>3. pc[r] = "spawning" /\ pc'[r] = pc[r]
    BY <1>1, <1>5, <2>1, <2>2, MovesIs DEF SpawnersWait, Launched
  <2> QED
    BY <2>3 DEF Finalized, Stopping
<1> QED
  BY <1>4, <1>5

LEMMA PassedOrdered ==
    ASSUME CountInv, SpawnersWait, Together, NEW p \in Pods, Step(p), NEW q \in Pods,
           NEW i, NEW j \in DOMAIN inbox[q], Passed(p, q, i, j), Ordered(q, j)
    PROVE  Ordered(q, i)'
<1> DEFINE f == inbox[q][j].from
<1>1. Loose /\ PlacesMatch /\ MailMatches /\ {"Join", "JoinContext", "Finalize"} \subseteq Types
  BY DEF CountInv, Types
<1>2. /\ i \in Nat /\ inbox'[q][i] = inbox[q][j] /\ f \in Pods
      /\ j = i \/ HandleMessage(p)
      /\ \A t \in Types : /\ \A r \in Later(q, i, t)' : r \in Later(q, j, t) \/ (r = p /\ New(p, t))
                          /\ Later(q, j, t) \subseteq Later(q, i, t)'
  BY DEF Passed, Message
<1>3. pc[f] \in Since(inbox[q][j].type)
  BY <1>1 DEF MailMatches, Fits
<1>4. ASSUME inbox[q][j].type = "Finalize", NEW r \in Later(q, i, "Join")'
      PROVE  ~Closes(f, r)
  <2>1. CASE r \in Later(q, j, "Join")
    BY <1>4, <2>1 DEF Ordered
  <2>2. CASE r = p /\ New(p, "Join")
    <3>1. pc[f] \in Finalized
      BY <1>3, <1>4, SinceIs
    <3> QED
      BY <1>2, <2>2, <3>1, Starter
  <2> QED
    BY <1>1, <1>2, <1>4, <2>1, <2>2
<1>5. ASSUME inbox[q][j].type = "Join", Spawner[Context[f]] \in Later(q, i, "Join")'
      PROVE  FALSE
  <2>1. Spawner[Context[f]] = p /\ New(p, "Join")
    BY <1>1, <1>2, <1>5 DEF Ordered
  <2>2. pc[p] \notin Started /\ pc[f] \in Started
    BY <1>3, <1>5, <2>1, SinceIs DEF New
  <2>3. Context[f] \in launched
    BY <1>1, <1>2, <2>2, PlacesAre DEF PlacesMatch, Placed
  <2>4. pc[p] \in Worked
    BY <2>1, <2>3, ContextsAre DEF SpawnersWait, Launcher
  <2> QED
    BY <2>2, <2>4, PlacesAre
<1>6. ASSUME inbox[q][j].type = "Join", f \in Mates(q), pc'[q] \in Joined, pc'[f] \in Joined
      PROVE  Later(q, i, "JoinContext")' # {}
  <2>1. CASE pc[q] \in Joined /\ pc[f] \in Joined
    <3>1. Later(q, j, "JoinContext") # {}
      BY <1>6, <2>1 DEF Ordered
    <3> QED
      BY <1>1, <1>2, <3>1
  <2>2. CASE ~(pc[q] \in Joined /\ pc[f] \in Joined)
    <3>1. InitializeContext(p) /\ p \in {q, f} /\ pc[p] \notin Joined
      BY <1>1, <1>2, <1>6, <2>2, Crossings
    <3>2. i \in DOMAIN inbox[q]
      BY <1>1, <1>2, <3>1, NotBoth DEF Sending
    <3>3. i <= Len(inbox[q])
      BY <1>1, <1>2, <3>2, LenProperties DEF Loose
    <3>4. PICK group : group = ctx' \cap Mates(p)
      OBVIOUS
    <3>5. /\ Sends(p, "JoinContext", group, Cardinality(group)) /\ group \subseteq Pods
          /\ ctx' = ctx \cup {p}
      BY <1>1, <3>1, <3>4, SendsJoinContext
    <3>6. q \in Mates(p)
      BY <1>6, <3>1 DEF Mates
    <3>7. q \in ctx'
      <4>1. CASE q = p
        BY <3>5, <4>1
      <4>2. CASE q # p
        <5>1. f = p /\ pc[q] \in Joined
          BY <1>1, <1>6, <3>1, <4>2, MovesIs
        <5>2. pc[q] \notin Left
          BY <1>6, <3>1, <5>1, PlacesAre DEF Together, TogetherOf
        <5>3. Placed(q)
          BY <1>1 DEF PlacesMatch
        <5> QED
          BY <3>5, <5>1, <5>2, <5>3 DEF Placed
      <4> QED
        BY <4>1, <4>2
    <3>8. Cardinality(group) \in 0 .. Cardinality(Pods) /\ q \in group
      BY <3>4, <3>5, <3>6, <3>7, PodsCount
    <3> QED
      BY <1>1, <1>2, <3>3, <3>5, <3>8, Delivered
  <2> QED
    BY <2>1, <2>2
<1>7. Mates(q)' = Mates(q)
  BY DEF Mates
<1> QED
  BY <1>2, <1>4, <1>5, <1>6, <1>7 DEF Ordered

LEMMA FreshOrdered ==
    ASSUME CountInv, NEW p \in Pods, Step(p), NEW q \in Pods, NEW i, Fresh(p, q, i)
    PROVE  Ordered(q, i)'
<1>1. Loose /\ PlacesMatch /\ MailMatches /\ {"Join", "JoinContext", "Finalize"} \subseteq Types
  BY DEF CountInv, Types
<1>2. PICK type \in Types :
         /\ New(p, type) /\ inbox'[q][i].type = type /\ inbox'[q][i].from = p
         /\ \A t \in Types : Later(q, i, t)' = {}
  BY <1>1, FreshIs
<1>3. type = "Join" => pc'[p] \notin Joined
  <2>1. ASSUME type = "Join"
        PROVE  pc'[p] \notin Joined
    <3>1. pc[p] \notin Started /\ pc'[p] \in Started
      BY <1>2, <2>1, SinceIs DEF New
    <3>2. pc'[p] = "joining"
      BY <1>1, <3>1, Crossings DEF From
    <3> QED
      BY <3>2 DEF Joined, InContext, Gathering, Worked, Rested, Left, Finalized, Stopping
  <2> QED
    BY <2>1
<1> QED
  BY <1>1, <1>2, <1>3 DEF Ordered

\* The Join of r is still to be handled by q after the step.
LEMMA PendingKept ==
    ASSUME CountInv, SpawnersWait, Together, InboxOrdered, NEW p \in Pods, Step(p), NEW q \in Pods,
           NEW r \in Later(q, 0, "Join")'
    PROVE  Pending(q, r)'
<1>1. Loose /\ PlacesMatch /\ MailMatches /\ {"Join", "JoinContext", "Finalize"} \subseteq Types
  BY DEF CountInv, Types
<1>2. r \in Pods /\ (r \in Later(q, 0, "Join") \/ (r = p /\ New(p, "Join")))
  BY <1>1, PendingStep DEF Later
<1>3. ASSUME Spawner[Context[r]] = None
      PROVE  Spawner[Context[q]] = None
  <2>1. CASE r \in Later(q, 0, "Join")
    BY <1>3, <2>1 DEF InboxOrdered, Pending
  <2>2. CASE r = p /\ New(p, "Join") /\ q # p
    <3>1. pc[p] \notin Started
      BY <2>2, SinceIs DEF New
    <3>2. pc[p] = "off"
      BY <1>1, <3>1, PlacesAre DEF Loose
    <3>3. MailMatches' /\ pc'[q] = pc[q]
      BY <1>1, <2>2, MailStep, MovesIs
    <3>4. pc[q] # "off"
      <4>1. \E i \in DOMAIN inbox'[q] : TRUE
        BY DEF Later
      <4> QED
        BY <3>3, <4>1 DEF MailMatches
    <3>5. Context[q] \in launched
      BY <1>1, <3>4 DEF PlacesMatch, Placed
    <3> QED
      BY <1>3, <2>2, <3>2, <3>5 DEF SpawnersWait, Launched
  <2>3. CASE r = p /\ q = p
    BY <1>3, <2>3
  <2> QED
    BY <1>2, <2>1, <2>2, <2>3
<1>4. ASSUME q \in app', NEW s \in Pods, Closes(s, r), pc'[s] \in Finalized
      PROVE  s \in Later(q, 0, "Finalize")'
  <2>1. ~(r = p /\ New(p, "Join"))
    BY <1>4, Starter
  <2>2. r \in Later(q, 0, "Join")
    BY <1>2, <2>1
  <2>3. q \in app /\ (~StopService(p) \/ q # p)
    <3>1. inbox[q] = <<>> => Later(q, 0, "Join") = {}
      BY DEF Later
    <3> QED
      BY <1>1, <1>4, <2>2, <3>1, Members
  <2>4. Len(inbox[q]) \in Nat /\ 0 \in Nat /\ 0 <= Len(inbox[q])
    BY <1>1, LenProperties DEF Loose
  <2>5. CASE pc[s] \in Finalized
    <3>1. s \in Later(q, 0, "Finalize")
      BY <1>4, <2>2, <2>3, <2>5 DEF InboxOrdered, Pending
    <3>2. CASE HandleMessage(p) /\ q = p
      <4>1. 1 \in DOMAIN inbox[p] /\ Later(p, 0, "Join")' = Later(p, 0 + 1, "Join")
            /\ Later(p, 0, "Finalize")' = Later(p, 0 + 1, "Finalize")
        BY <1>1, <3>2, HandledIs, LaterHandled
      <4>2. s \in Later(p, 1, "Finalize")
            \/ (inbox[p][1].type = "Finalize" /\ inbox[p][1].from = s)
        BY <1>1, <3>1, <3>2, <4>1, LaterFirst
      <4>3. ~(inbox[p][1].type = "Finalize" /\ inbox[p][1].from = s)
        <5>1. Ordered(p, 1) /\ r \in Later(p, 1, "Join")
          BY <3>2, <4>1 DEF InboxOrdered
        <5> QED
          BY <1>4, <5>1 DEF Ordered
      <4> QED
        BY <3>2, <4>1, <4>2, <4>3
    <3>3. CASE ~(HandleMessage(p) /\ q = p)
      BY <1>1, <2>3, <2>4, <3>1, <3>3, LaterStep DEF Step
    <3> QED
      BY <3>2, <3>3
  <2>6. CASE pc[s] \notin Finalized
    <3>1. s = p /\ Finalize(p)
      BY <1>1, <1>4, <2>6, Crossings
    <3>2. Sends(p, "Finalize", app, 0) /\ app \subseteq Pods
      BY <1>1, <3>1, SendsFinalize
    <3> QED
      BY <1>1, <2>3, <2>4, <3>1, <3>2, Delivered, PodsCount
  <2> QED
    BY <2>5, <2>6
<1> QED
  BY <1>3, <1>4 DEF Pending

LEMMA OrderStep ==
    ASSUME CountInv, SpawnersWait, Together, InboxOrdered, NEW p \in Pods, Step(p)
    PROVE  InboxOrdered'
<1>1. Loose /\ PlacesMatch /\ MailMatches
  BY DEF CountInv
<1>2. ASSUME NEW q \in Pods, NEW i \in DOMAIN inbox'[q]
      PROVE  Ordered(q, i)'
  <2>1. ASSUME NEW j \in DOMAIN inbox[q], Passed(p, q, i, j)
        PROVE  Ordered(q, i)'
    <3>1. Ordered(q, j)
      BY DEF InboxOrdered
    <3> QED
      BY <2>1, <3>1, PassedOrdered
  <2>2. (\E j \in DOMAIN inbox[q] : Passed(p, q, i, j)) \/ Fresh(p, q, i)
    BY <1>1, InboxStep
  <2> QED
    BY <2>1, <2>2, FreshOrdered
<1> QED
  BY <1>2, PendingKept DEF InboxOrdered

------------------------------------------------------------------------------
(* Nobody leaves the application too early *)

\* A set of natural numbers has a least one.
LEMMA LeastOfNaturals ==
    ASSUME NEW set, set \subseteq Nat, set # {}
    PROVE  \E least \in set : \A k \in set : least <= k
<1> DEFINE below == OpToRel(<, Nat)
<1>1. IsWellFoundedOn(below, Nat)
  BY NatLessThanWellFounded
<1>2. \A i, j \in Nat : <<i, j>> \in below <=> i < j
  BY DEF OpToRel
<1> HIDE DEF below
<1>3. PICK least \in set : \A k \in set : ~(<<k, least>> \in below)
  BY <1>1, WFMin
<1>4. ASSUME NEW k \in set PROVE least <= k
  <2>1. k \in Nat /\ least \in Nat /\ ~(<<k, least>> \in below)
    BY <1>3
  <2>2. ~(k < least)
    BY <1>2, <2>1
  <2> QED
    BY <2>1, <2>2
<1> QED
  BY <1>4

\* The first Join that is still to be handled.
LEMMA FirstJoin ==
    ASSUME Loose, NEW p \in Pods, Later(p, 0, "Join") # {}
    PROVE  \E i \in DOMAIN inbox[p] :
              /\ inbox[p][i].type = "Join" /\ i \in Nat /\ inbox[p][i].from \in Pods
              /\ inbox[p][i].from \in Later(p, 0, "Join")
              /\ \A q \in Later(p, 0, "Join") : q = inbox[p][i].from \/ q \in Later(p, i, "Join")
<1> DEFINE joins == {i \in DOMAIN inbox[p] : inbox[p][i].type = "Join"}
<1>1. inbox[p] \in Seq(Message)
  BY DEF Loose
<1>2. /\ DOMAIN inbox[p] = 1 .. Len(inbox[p]) /\ Len(inbox[p]) \in Nat
      /\ \A i \in DOMAIN inbox[p] : inbox[p][i] \in Message
  BY <1>1, LenProperties, ElementOfSeq
<1>3. joins \subseteq Nat /\ joins # {}
  BY <1>2 DEF Later
<1>4. PICK i \in joins : \A k \in joins : i <= k
  BY <1>3, LeastOfNaturals
<1>5. /\ i \in DOMAIN inbox[p] /\ i \in Nat /\ i > 0 /\ inbox[p][i].type = "Join"
      /\ inbox[p][i].from \in Pods
  BY <1>2 DEF Message
<1>6. inbox[p][i].from \in Later(p, 0, "Join")
  BY <1>5 DEF Later
<1>7. ASSUME NEW q \in Later(p, 0, "Join")
      PROVE  q = inbox[p][i].from \/ q \in Later(p, i, "Join")
  <2>1. PICK k \in DOMAIN inbox[p] : inbox[p][k].type = "Join" /\ inbox[p][k].from = q
    BY <1>7 DEF Later
  <2>2. k \in Nat /\ i <= k
    BY <1>2, <1>4, <2>1
  <2>3. q \in Pods
    BY <1>7 DEF Later
  <2> QED
    BY <1>5, <2>1, <2>2, <2>3 DEF Later
<1> QED
  BY <1>5, <1>6, <1>7

\* When a pod has heard of as many Finalize as it knows members, all that are in
\* the application but those whose Join is still on its way have sent theirs.
LEMMA AllHeard ==
    ASSUME CountInv, SpawnersWait, TotalsMatch, InboxOrdered, NEW p \in Pods,
           pc[p] = "finalizing", init_total[p] <= final_total[p],
           \A q \in Pods : pc[q] \notin Stopping
    PROVE  Heard(p, 0, "Finalize") = app \ Later(p, 0, "Join")
<1>1. Loose /\ PlacesMatch /\ app \subseteq Pods
  BY DEF CountInv, Loose
<1>2. pc[p] \in Finalized /\ pc[p] \in Alive
  BY PlacesAre DEF Finalized
<1>3. p \in app
  BY <1>1, <1>2 DEF PlacesMatch, Placed
<1>4. p \notin Later(p, 0, "Join")
  <2>1. is_main[p] # Unknown
    BY <1>2, PlacesAre DEF SpawnersWait, Known
  <2> QED
    BY <2>1 DEF SpawnersWait, Known, Heard
<1>5. Heard(p, 0, "Finalize") \subseteq app \ Later(p, 0, "Join")
  <2> SUFFICES ASSUME NEW r \in Heard(p, 0, "Finalize")
               PROVE  r \in app \ Later(p, 0, "Join")
    OBVIOUS
  <2>1. r \in Pods /\ pc[r] \in Finalized /\ r \notin Later(p, 0, "Finalize")
    BY SinceIs DEF Heard
  <2>2. r \in app
    BY <1>1, <2>1, PlacesAre DEF PlacesMatch, Placed
  <2>3. r \notin Later(p, 0, "Join")
    BY <1>3, <2>1 DEF InboxOrdered, Pending, Closes
  <2> QED
    BY <2>2, <2>3
<1>6. Cardinality(app \ Later(p, 0, "Join")) <= init_total[p]
  BY <1>3, <1>4 DEF TotalsMatch, TotalOf
<1>7. final_total[p] <= Cardinality(Heard(p, 0, "Finalize"))
  BY DEF CountInv, CountsMatch, CountsOf
<1>8. init_total[p] \in Nat /\ final_total[p] \in Nat
  BY <1>1, NumbersAre
<1>9. Cardinality(Heard(p, 0, "Finalize")) \in Nat
  <2>1. Heard(p, 0, "Finalize") \subseteq Pods
    BY DEF Heard
  <2> QED
    BY <2>1, SubCount
<1>10. init_total[p] <= Cardinality(Heard(p, 0, "Finalize"))
  BY <1>7, <1>8, <1>9
<1>11. app \ Later(p, 0, "Join") \subseteq Pods
  BY <1>1
<1> QED
  BY <1>5, <1>6, <1>8, <1>10, <1>11, FullSet

\* Then no Join is on its way.
LEMMA NoneJoins ==
    ASSUME CountInv, SpawnersWait, TotalsMatch, InboxOrdered, Together, NEW p \in Pods,
           pc[p] = "finalizing", init_total[p] <= final_total[p],
           \A q \in Pods : pc[q] \notin Stopping
    PROVE  Later(p, 0, "Join") = {}
<1> SUFFICES ASSUME Later(p, 0, "Join") # {} PROVE FALSE
  OBVIOUS
<1>1. Loose /\ PlacesMatch /\ MailMatches
  BY DEF CountInv
<1>2. pc[p] \in Finalized /\ pc[p] \in Alive /\ pc[p] \in Left /\ pc[p] \in InContext /\ pc[p] \in Joined
  BY PlacesAre DEF Finalized
<1>3. p \in app /\ TogetherOf(p)
  BY <1>1, <1>2 DEF PlacesMatch, Placed, Together
<1>4. Heard(p, 0, "Finalize") = app \ Later(p, 0, "Join")
  BY AllHeard
<1>5. PICK i \in DOMAIN inbox[p] :
         /\ inbox[p][i].type = "Join" /\ i \in Nat /\ inbox[p][i].from \in Pods
         /\ inbox[p][i].from \in Later(p, 0, "Join")
         /\ \A q \in Later(p, 0, "Join") : q = inbox[p][i].from \/ q \in Later(p, i, "Join")
  BY <1>1, FirstJoin
<1>6. PICK f \in Pods : f = inbox[p][i].from
  BY <1>5
<1>7. f \in Later(p, 0, "Join") /\ pc[f] \in Started /\ Pending(p, f) /\ Ordered(p, i)
  <2>1. Fits(p, i)
    BY <1>1 DEF MailMatches
  <2> QED
    BY <1>5, <1>6, <2>1, SinceIs DEF Fits, InboxOrdered
<1>8. Context[f] \in launched
  BY <1>1, <1>7, PlacesAre DEF PlacesMatch, Placed
<1>9. CASE Spawner[Context[f]] = None
  <2>1. Spawner[Context[p]] = None
    BY <1>7, <1>9 DEF Pending
  <2>2. f \in Mates(p)
    BY <1>9, <2>1, ContextsAre DEF Mates
  <2>3. pc[f] \in Joined /\ Later(p, 0, "JoinContext") = {}
    BY <1>2, <1>3, <2>2 DEF TogetherOf
  <2>4. Later(p, i, "JoinContext") # {}
    BY <1>2, <1>5, <1>6, <1>7, <2>2, <2>3 DEF Ordered
  <2>5. Later(p, i, "JoinContext") \subseteq Later(p, 0, "JoinContext")
    <3>1. inbox[p] \in Seq(Message)
      BY <1>1 DEF Loose
    <3>2. \A j \in DOMAIN inbox[p] : j \in Nat /\ j > 0
      BY <3>1, LenProperties
    <3> QED
      BY <3>2 DEF Later
  <2> QED
    BY <2>3, <2>4, <2>5
<1>10. CASE Spawner[Context[f]] # None
  <2>1. PICK s \in Pods : s = Spawner[Context[f]]
    BY <1>10, ContextsAre
  <2>2. pc[s] \in Worked /\ s # f
    BY <1>8, <1>10, <2>1 DEF SpawnersWait, Launcher
  <2>3. s \in app
    BY <1>1, <2>2, PlacesAre DEF PlacesMatch, Placed
  <2>4. s \notin Later(p, 0, "Join")
    BY <1>5, <1>6, <1>7, <2>1, <2>2 DEF Ordered
  <2>5. pc[s] \in Finalized /\ s \notin Later(p, 0, "Finalize")
    BY <1>4, <2>3, <2>4, SinceIs DEF Heard
  <2> QED
    BY <1>3, <1>7, <2>1, <2>5 DEF Pending, Closes
<1> QED
  BY <1>9, <1>10

LEMMA LastLeaves ==
    ASSUME CountInv, SpawnersWait, TotalsMatch, InboxOrdered, Together, NEW p \in Pods,
           pc[p] = "finalizing", init_total[p] <= final_total[p],
           \A q \in Pods : pc[q] \notin Stopping
    PROVE  \A q \in Pods : Gone(q)
<1>1. Loose /\ PlacesMatch /\ MailMatches /\ pc \in [Pods -> Places]
  BY DEF CountInv, Loose
<1>2. ASSUME NEW q \in Pods, pc[q] \in Alive
      PROVE  pc[q] \in Finalized
  <2>1. q \in app
    BY <1>1, <1>2 DEF PlacesMatch, Placed
  <2>2. q \in Heard(p, 0, "Finalize")
    BY <2>1, AllHeard, NoneJoins
  <2> QED
    BY <2>2, SinceIs DEF Heard
<1>3. ASSUME NEW q \in Pods, pc[q] = "off", Context[q] \in launched
      PROVE  FALSE
  <2>1. Launched(q) /\ closure[q] = None
    BY <1>1, <1>3, PlacesAre DEF SpawnersWait, PlacesMatch, Placed
  <2>2. CASE Spawner[Context[q]] = None
    <3>1. pc[p] \in InContext /\ pc[p] # "off"
      BY PlacesAre DEF Finalized
    <3>2. Context[p] \in launched
      BY <1>1, <3>1 DEF PlacesMatch, Placed
    <3>3. Spawner[Context[p]] = None
      BY <1>3, <2>1, <2>2, <3>2 DEF Launched
    <3>4. q \in Mates(p)
      BY <2>2, <3>3, ContextsAre DEF Mates
    <3>5. pc[q] \in Joined
      BY <3>1, <3>4 DEF Together, TogetherOf
    <3> QED
      BY <1>3, <3>5, PlacesAre
  <2>3. CASE Spawner[Context[q]] # None
    <3>1. PICK s \in Pods : s = Spawner[Context[q]]
      BY <2>3, ContextsAre
    <3>2. pc[s] = "spawning"
      BY <1>3, <2>1, <2>3, <3>1 DEF Launched
    <3>3. pc[s] \in Alive /\ pc[s] \notin Finalized
      BY <3>2, PlacesAre
    <3> QED
      BY <1>2, <3>3
  <2> QED
    BY <2>2, <2>3
<1> QED
  BY <1>1, <1>2, <1>3, PlacesAre DEF Gone

LEMMA OverStep ==
    ASSUME CountInv, SpawnersWait, TotalsMatch, InboxOrdered, Together, Over,
           NEW p \in Pods, Step(p)
    PROVE  Over'
<1>1. Loose /\ PlacesMatch /\ MailMatches
  BY DEF CountInv
<1> SUFFICES ASSUME NEW x \in Pods, pc'[x] \in Stopping, NEW q \in Pods
             PROVE  Gone(q)'
  BY DEF Over
<1>2. \A r \in Pods : Gone(r)
  <2>1. CASE \E r \in Pods : pc[r] \in Stopping
    BY <2>1 DEF Over
  <2>2. CASE \A r \in Pods : pc[r] \notin Stopping
    <3>1. x = p /\ LeaveApplication(p)
      BY <1>1, <2>2, Crossings
    <3>2. pc[p] = "finalizing" /\ Ready(p)
      BY <3>1 DEF LeaveApplication, Awaited
    <3>3. init_total[p] <= final_total[p]
      BY <3>2 DEF Ready
    <3> QED
      BY <2>2, <3>2, <3>3, LastLeaves
  <2> QED
    BY <2>1, <2>2
<1>3. Gone(q) /\ Gone(p) /\ Grows(q)
  BY <1>1, <1>2, StepIs
<1>4. CASE pc[q] \in Finalized
  BY <1>3, <1>4 DEF Grows, Gone
<1>5. CASE pc[q] = "dead"
  <2>1. pc'[q] = "dead"
    <3>1. (pc' = pc \/ Moves(p)) /\ (q # p => pc'[q] = pc[q])
      BY <1>1, MovesIs
    <3> QED
      BY <1>5, <3>1 DEF Moves, From
  <2> QED
    BY <2>1 DEF Gone
<1>6. CASE pc[q] = "off" /\ Context[q] \notin launched
  <2>1. Context[q] \notin launched'
    <3>1. ~(\E c \in Contexts : Spawn(p, c))
      BY <1>3, PlacesAre DEF Spawn, Gone, Worked, Finalized, Stopping
    <3> QED
      BY <1>1, <1>6, <3>1, LaunchedIs
  <2>2. pc'[q] = "off"
    <3>1. ~(Initialize(p) /\ q = p)
      BY <1>6 DEF Initialize
    <3>2. (pc' = pc \/ Moves(p)) /\ (q # p => pc'[q] = pc[q])
      BY <1>1, MovesIs
    <3> QED
      BY <1>6, <3>1, <3>2 DEF Moves, From
  <2> QED
    BY <2>1, <2>2 DEF Gone
<1> QED
  BY <1>3, <1>4, <1>5, <1>6 DEF Gone

------------------------------------------------------------------------------
(* The closure is that of the first member *)

\* What a step does to the tables of the collective.
LEMMA CollectiveIs ==
    ASSUME Loose, NEW p \in Pods, Step(p)
    PROVE  \/ UNCHANGED <<cc_count, cc_first>>
           \/ \E i \in DOMAIN handlers[p] :
                 /\ HandleInitCreateCollective(p, i)
                 /\ cc_count' = [cc_count EXCEPT ![p] = cc_count[p] + 1]
                 /\ cc_first' = IF handlers[p][i] = p
                       THEN [cc_first EXCEPT ![p] = IF cc_count'[p] = 1 THEN "yes" ELSE "no"]
                       ELSE cc_first
<1>1. CASE Sending(p)
  BY <1>1, SendingIs DEF Sends
<1>2. CASE Quiet(p) \/ StopService(p)
  BY <1>2 DEF Quiet, Sleep, CreateManagers, AwaitContext, AwaitGathering, NotFirst,
         GetCreateCollectiveIdp, Spawned, LeaveContext, StopSessions, Spawn, StopService, collective
<1>3. CASE Handlers(p)
  BY <1>3 DEF Handlers, HandleInitCreateCollective
<1>4. CASE HandleMessage(p)
  BY <1>4 DEF HandleMessage, HandleInitialize, HandleInitializeContext,
           HandleFinalizeContext, HandleFinalize, HandleDirectory, HandleTooEarly,
           HandleCreateCollectiveInit, HandleCreateCollectiveIdp, collective
<1> QED
  BY <1>1, <1>2, <1>3, <1>4 DEF Step

LEMMA IdpIs ==
    ASSUME Loose, NEW p \in Pods, Step(p)
    PROVE  \/ cc_idp' = cc_idp
           \/ /\ HandleMessage(p) /\ inbox[p][1].type = "CollectiveIdp"
              /\ cc_idp' = [cc_idp EXCEPT ![p] = inbox[p][1].from]
<1>1. CASE Sending(p)
  BY <1>1, SendingIs DEF Sends
<1>2. CASE Quiet(p) \/ StopService(p) \/ Handlers(p)
  BY <1>2 DEF Quiet, Sleep, CreateManagers, AwaitContext, AwaitGathering, NotFirst,
         GetCreateCollectiveIdp, Spawned, LeaveContext, StopSessions, Spawn, StopService, collective,
         Handlers, HandleInitCreateCollective
<1>3. CASE HandleMessage(p)
  <2>1. Head(inbox[p]) = inbox[p][1]
    BY <1>3, HandledIs
  <2> QED
    BY <1>3, <2>1 DEF HandleMessage, HandleInitialize, HandleInitializeContext,
           HandleFinalizeContext, HandleFinalize, HandleDirectory, HandleTooEarly,
           HandleCreateCollectiveInit, HandleCreateCollectiveIdp, collective
<1> QED
  BY <1>1, <1>2, <1>3 DEF Step

LEMMA ThreadsAre ==
    ASSUME Loose, NEW p \in Pods, Step(p), NEW q \in Pods
    PROVE  \/ handlers'[q] = handlers[q]
           \/ /\ q = p /\ HandleMessage(p) /\ HandleCreateCollectiveInit(p, Head(inbox[p]))
              /\ inbox[p][1].type = "CollectiveInit"
              /\ handlers'[p] = Append(handlers[p], inbox[p][1].from)
           \/ q = p /\ \E i \in DOMAIN handlers[p] : HandleInitCreateCollective(p, i)
<1>1. handlers \in [Pods -> Seq(Pods)]
  BY DEF Loose
<1>2. CASE Sending(p)
  BY <1>2, SendingIs DEF Sends
<1>3. CASE Quiet(p) \/ StopService(p)
  BY <1>3 DEF Quiet, Sleep, CreateManagers, AwaitContext, AwaitGathering, NotFirst,
         GetCreateCollectiveIdp, Spawned, LeaveContext, StopSessions, Spawn, StopService, collective
<1>4. CASE Handlers(p)
  BY <1>1, <1>4 DEF Handlers, HandleInitCreateCollective
<1>5. CASE HandleMessage(p)
  <2>1. Head(inbox[p]) = inbox[p][1]
    BY <1>5, HandledIs
  <2>2. CASE HandleCreateCollectiveInit(p, Head(inbox[p]))
    BY <1>1, <1>5, <2>1, <2>2 DEF HandleCreateCollectiveInit
  <2>3. CASE ~HandleCreateCollectiveInit(p, Head(inbox[p]))
    BY <1>5, <2>3 DEF HandleMessage, HandleInitialize, HandleInitializeContext,
           HandleFinalizeContext, HandleFinalize, HandleDirectory, HandleTooEarly,
           HandleCreateCollectiveIdp, collective
  <2> QED
    BY <2>2, <2>3
<1> QED
  BY <1>2, <1>3, <1>4, <1>5 DEF Step

\* A pod that was counted is not waited for again.
LEMMA WaitingStep ==
    ASSUME CountInv, NEW p \in Pods, Step(p), NEW q \in Pods, NEW r \in Waiting(q)'
    PROVE  r \in Waiting(q) \/ r \notin Heard(q, 0, "CollectiveInit")
<1>1. Loose /\ PlacesMatch /\ MailMatches /\ ThreadsMatch
  BY DEF CountInv
<1>2. CASE handlers'[q] = handlers[q]
  BY <1>2 DEF Waiting
<1>3. CASE q = p /\ HandleMessage(p) /\ HandleCreateCollectiveInit(p, Head(inbox[p]))
  BY <1>1, <1>3, ThreadStarts
<1>4. CASE q = p /\ \E i \in DOMAIN handlers[p] : HandleInitCreateCollective(p, i)
  BY <1>1, <1>4, ThreadEnds
<1> QED
  BY <1>1, <1>2, <1>3, <1>4, ThreadsAre

\* Who was the first stays the first.
LEMMA FirstStays ==
    ASSUME CountInv, ClosuresMatch, NEW p \in Pods, Step(p), NEW c \in Pods,
           cc_first[c] # Unknown
    PROVE  cc_first'[c] = cc_first[c]
<1>1. Loose /\ PlacesMatch /\ MailMatches /\ ThreadsMatch /\ Collected(c)
  BY DEF CountInv, ClosuresMatch
<1>2. cc_first \in [Pods -> {Unknown, "yes", "no"}]
  BY <1>1 DEF Loose
<1>3. c \notin Waiting(c)
  BY <1>1 DEF Collected
<1>4. ASSUME NEW i \in DOMAIN handlers[p], HandleInitCreateCollective(p, i), handlers[p][i] = p
      PROVE  p # c
  BY <1>1, <1>3, <1>4, ThreadEnds
<1> QED
  BY <1>1, <1>2, <1>4, CollectiveIs

LEMMA CollectedStep ==
    ASSUME CountInv, ClosuresMatch, NEW p \in Pods, Step(p), NEW q \in Pods
    PROVE  Collected(q)'
<1>1. Loose /\ PlacesMatch /\ MailMatches /\ ThreadsMatch /\ Collected(q) /\ "CollectiveInit" \in Types
  BY DEF CountInv, ClosuresMatch, Types
<1>2. ASSUME cc_first'[q] # Unknown
      PROVE  q \in Heard(q, 0, "CollectiveInit")' \ Waiting(q)'
  <2>1. CASE cc_first[q] # Unknown
    <3>1. q \in Heard(q, 0, "CollectiveInit") /\ q \notin Waiting(q)
      BY <1>1, <2>1 DEF Collected
    <3>2. q \notin Waiting(q)'
      BY <3>1, WaitingStep
    <3>3. pc[q] \in Gathering /\ q \notin Later(q, 0, "CollectiveInit") /\ Grows(q)
      BY <1>1, <3>1, SinceIs, StepIs DEF Heard
    <3>4. q \notin Later(q, 0, "CollectiveInit")'
      <4>1. ~(q = p /\ New(p, "CollectiveInit"))
        BY <3>3, SinceIs DEF New
      <4> QED
        BY <1>1, <3>3, <4>1, PendingStep
    <3> QED
      BY <3>2, <3>3, <3>4, SinceIs DEF Grows, Heard
  <2>2. CASE cc_first[q] = Unknown
    <3>1. cc_first \in [Pods -> {Unknown, "yes", "no"}]
      BY <1>1 DEF Loose
    <3>2. PICK i \in DOMAIN handlers[p] :
             HandleInitCreateCollective(p, i) /\ q = p /\ handlers[p][i] = p
      BY <1>1, <1>2, <2>2, <3>1, CollectiveIs
    <3>3. Waiting(p)' = Waiting(p) \ {p} /\ p \in Waiting(p)
      BY <1>1, <3>2, ThreadEnds
    <3>4. p \in Heard(p, 0, "CollectiveInit")
      BY <1>1, <3>3 DEF ThreadsMatch, ThreadsOf
    <3>5. Handlers(p) /\ Len(inbox[p]) \in Nat /\ 0 \in Nat /\ 0 <= Len(inbox[p])
      BY <1>1, <3>2, LenProperties DEF Handlers, Loose
    <3>6. p \in Heard(p, 0, "CollectiveInit")'
      BY <1>1, <3>4, <3>5, HeardKept
    <3> QED
      BY <3>2, <3>3, <3>6
  <2> QED
    BY <2>1, <2>2
<1>3. cc_count[q] \in Nat /\ cc_count'[q] \in Nat /\ cc_count[q] <= cc_count'[q]
  <2>1. cc_count \in [Pods -> Nat]
    BY <1>1 DEF Loose
  <2>2. cc_count' = cc_count \/ cc_count' = [cc_count EXCEPT ![p] = cc_count[p] + 1]
    BY <1>1, CollectiveIs
  <2> QED
    BY <2>1, <2>2
<1>4. ASSUME pc'[q] \in {"gathered", "fetching"} \cup Worked
      PROVE  cc_count'[q] > 0
  <2>1. CASE pc[q] \in {"gathered", "fetching"} \cup Worked
    BY <1>1, <1>3, <2>1 DEF Collected
  <2>2. CASE pc[q] \notin {"gathered", "fetching"} \cup Worked
    <3>1. q = p /\ AwaitGathering(p)
      <4>1. (pc' = pc \/ Moves(p)) /\ (q # p => pc'[q] = pc[q])
        BY <1>1, MovesIs
      <4> QED
        BY <1>4, <2>2, <4>1 DEF Moves, From, Worked, Rested, Left, Finalized, Stopping
    <3>2. pc[p] = "gathering" /\ Ready(p)
      BY <3>1 DEF AwaitGathering, Awaited
    <3>3. cc_count[p] = Npods(p)
      BY <3>2 DEF Ready
    <3>4. Npods(p) # 0
      <4>1. p \in Mates(p) /\ Mates(p) \subseteq Pods
        BY ContextsAre
      <4>2. IsFiniteSet(Mates(p))
        BY <4>1, PodsCount
      <4> QED
        BY <4>1, <4>2, FS_EmptySet DEF Npods
    <3> QED
      BY <1>3, <3>1, <3>3, <3>4
  <2> QED
    BY <2>1, <2>2
<1> QED
  BY <1>2, <1>4 DEF Collected

LEMMA ClosureStep ==
    ASSUME CountInv, ClosuresMatch, NEW p \in Pods, Step(p), NEW q \in Pods
    PROVE  ClosureOf(q)'
<1>1. Loose /\ PlacesMatch /\ MailMatches /\ ClosureOf(q) /\ ClosureOf(p)
  BY DEF CountInv, ClosuresMatch
<1>2. /\ closure \in [Pods -> Pods \cup {None}] /\ cc_idp \in [Pods -> Pods \cup {None}]
  BY <1>1 DEF Loose
<1>3. ASSUME NEW c \in Pods, cc_first[c] = "yes"
      PROVE  cc_first'[c] = "yes"
  BY <1>3, FirstStays DEF Unknown
<1>4. /\ Mates(q) \subseteq Pods /\ Mates(p) \subseteq Pods /\ p \in Mates(p)
      /\ Mates(q)' = Mates(q)
  BY ContextsAre DEF Mates
<1>5. ASSUME NEW c, Creator(q, c)
      PROVE  c # None => c \in Mates(q)' /\ cc_first'[c] = "yes"
  BY <1>3, <1>4, <1>5 DEF Creator
<1>6. PICK c : c = closure'[q]
  OBVIOUS
<1>7. Creator(q, c)
  <2>1. CASE closure'[q] = closure[q]
    BY <1>1, <1>6, <2>1 DEF ClosureOf
  <2>2. CASE q = p /\ CreateFirst(p) /\ closure'[q] = p
    BY <1>4, <1>6, <2>2 DEF CreateFirst, Creator
  <2>3. CASE q = p /\ closure'[q] = cc_idp[p]
    BY <1>1, <1>6, <2>3 DEF ClosureOf
  <2> QED
    BY <1>1, <1>2, <2>1, <2>2, <2>3, ClosureIs
<1>8. PICK d : d = cc_idp'[q]
  OBVIOUS
<1>9. Creator(q, d)
  <2>1. CASE cc_idp'[q] = cc_idp[q]
    BY <1>1, <1>8, <2>1 DEF ClosureOf
  <2>2. CASE /\ q = p /\ HandleMessage(p) /\ inbox[p][1].type = "CollectiveIdp"
             /\ cc_idp'[q] = inbox[p][1].from
    <3>1. 1 \in DOMAIN inbox[p]
      BY <1>1, <2>2, HandledIs
    <3>2. inbox[p][1].from \in Mates(p)
      BY <1>1, <2>2, <3>1 DEF MailMatches, Fits, OfContext
    <3>3. cc_first[inbox[p][1].from] = "yes"
      BY <1>1, <2>2, <3>1 DEF ClosureOf
    <3> QED
      BY <1>8, <2>2, <3>2, <3>3 DEF Creator
  <2> QED
    BY <1>1, <1>2, <2>1, <2>2, IdpIs
<1>10. ASSUME NEW i \in DOMAIN inbox'[q], inbox'[q][i].type = "CollectiveIdp"
       PROVE  cc_first'[inbox'[q][i].from] = "yes"
  <2>1. ASSUME NEW j \in DOMAIN inbox[q], Passed(p, q, i, j)
        PROVE  cc_first'[inbox'[q][i].from] = "yes"
    <3>1. inbox'[q][i] = inbox[q][j] /\ inbox[q][j].from \in Pods
      BY <2>1 DEF Passed, Message
    <3>2. cc_first[inbox[q][j].from] = "yes"
      BY <1>1, <1>10, <3>1 DEF ClosureOf
    <3> QED
      BY <1>3, <3>1, <3>2
  <2>2. CASE Fresh(p, q, i)
    <3>1. cc_first[p] = "yes" /\ inbox'[q][i].from = p
      BY <1>1, <1>10, <2>2, FreshIs DEF SentTo
    <3> QED
      BY <1>3, <3>1
  <2> QED
    BY <1>1, <2>1, <2>2, InboxStep
<1> QED
  BY <1>5, <1>6, <1>7, <1>8, <1>9, <1>10 DEF ClosureOf, Creator

LEMMA ClosuresStep ==
    ASSUME CountInv, ClosuresMatch, NEW p \in Pods, Step(p)
    PROVE  ClosuresMatch'
BY CollectedStep, ClosureStep DEF ClosuresMatch

LEMMA SendsCollective ==
    ASSUME Loose, NEW p \in Pods, InitCreateCollective(p), NEW group, group = ctx \cap Mates(p)
    PROVE  Sends(p, "CollectiveInit", group, 0) /\ group \subseteq Pods /\ cc_first' = cc_first
<1>1. pc \in [Pods -> Places] /\ ctx \subseteq Pods
  BY DEF Loose
<1> QED
  BY <1>1 DEF InitCreateCollective, Goto, Sends, Since, Started, Alive, Managed, Listed, Joined, InContext,
     Gathering, Worked, Rested, Left, Finalized, Stopping, Places, Starting, Mates

\* The first message of the collective in an inbox stays the first.
LEMMA FirstInboxKept ==
    ASSUME Loose, NEW p \in Pods, Step(p), NEW r \in Pods, NEW f, FirstInbox(r, f),
           ~(StopService(p) /\ r = p),
           ~(HandleMessage(p) /\ r = p /\ inbox[p][1].type = "CollectiveInit")
    PROVE  FirstInbox(r, f)'
<1>1. inbox[r] \in Seq(Message) /\ inbox'[r] \in Seq(Message)
  BY LooseStep DEF Loose, Step
<1>2. /\ DOMAIN inbox[r] = 1 .. Len(inbox[r]) /\ Len(inbox[r]) \in Nat
      /\ DOMAIN inbox'[r] = 1 .. Len(inbox'[r]) /\ Len(inbox'[r]) \in Nat
  BY <1>1, LenProperties
<1>3. PICK i \in DOMAIN inbox[r] :
         /\ inbox[r][i].type = "CollectiveInit" /\ inbox[r][i].from = f
         /\ \A j \in DOMAIN inbox[r] : j < i => inbox[r][j].type # "CollectiveInit"
  BY DEF FirstInbox
<1>4. ASSUME Len(inbox[r]) <= Len(inbox'[r]),
             \A j \in 1 .. Len(inbox[r]) : inbox'[r][j] = inbox[r][j]
      PROVE  FirstInbox(r, f)'
  <2>1. i \in DOMAIN inbox'[r] /\ inbox'[r][i] = inbox[r][i]
    BY <1>2, <1>3, <1>4
  <2>2. ASSUME NEW j \in DOMAIN inbox'[r], j < i
        PROVE  inbox'[r][j].type # "CollectiveInit"
    <3>1. j \in DOMAIN inbox[r] /\ inbox'[r][j] = inbox[r][j]
      BY <1>2, <1>3, <1>4, <2>2
    <3> QED
      BY <1>3, <2>2, <3>1
  <2> QED
    BY <1>3, <2>1, <2>2 DEF FirstInbox
<1>5. CASE Sending(p)
  <2>1. PICK type \in Types, group \in SUBSET Pods, size \in 0 .. Cardinality(Pods) :
           Sends(p, type, group, size)
    BY <1>5, SendingIs
  <2>2. /\ Len(inbox'[r]) = IF r \in group THEN Len(inbox[r]) + 1 ELSE Len(inbox[r])
        /\ \A j \in 1 .. Len(inbox[r]) : inbox'[r][j] = inbox[r][j]
    BY <2>1, SentIs
  <2>3. Len(inbox[r]) <= Len(inbox'[r])
    BY <1>2, <2>2
  <2> QED
    BY <1>4, <2>2, <2>3
<1>6. CASE \/ Quiet(p) \/ Handlers(p)
           \/ (StopService(p) \/ HandleMessage(p)) /\ r # p
  <2>1. inbox'[r] = inbox[r]
    BY <1>6, Untouched, LaterCleared, HandledIs
  <2> QED
    BY <1>2, <1>4, <2>1
<1>7. CASE HandleMessage(p) /\ r = p
  <2>1. /\ DOMAIN inbox'[p] = 1 .. Len(inbox[p]) - 1
        /\ \A j \in 1 .. Len(inbox[p]) - 1 : inbox'[p][j] = inbox[p][j + 1]
    BY <1>7, HandledIs
  <2>2. i # 1
    BY <1>3, <1>7
  <2>3. PICK k \in DOMAIN inbox'[p] : k = i - 1 /\ inbox'[p][k] = inbox[p][i]
    <3>1. i - 1 \in 1 .. Len(inbox[p]) - 1 /\ (i - 1) + 1 = i
      BY <1>2, <1>3, <1>7, <2>2
    <3> QED
      BY <2>1, <3>1
  <2>4. ASSUME NEW j \in DOMAIN inbox'[p], j < k
        PROVE  inbox'[p][j].type # "CollectiveInit"
    <3>1. j + 1 \in DOMAIN inbox[p] /\ j + 1 < i /\ inbox'[p][j] = inbox[p][j + 1]
      <4>1. j \in 1 .. Len(inbox[p]) - 1 /\ i \in 1 .. Len(inbox[p]) /\ j < i - 1
        BY <1>2, <1>3, <1>7, <2>1, <2>3, <2>4
      <4>2. inbox'[p][j] = inbox[p][j + 1]
        BY <2>1, <4>1
      <4> QED
        BY <1>2, <1>7, <4>1, <4>2
    <3> QED
      BY <1>3, <1>7, <3>1
  <2> QED
    BY <1>3, <1>7, <2>3, <2>4 DEF FirstInbox
<1> QED
  BY <1>5, <1>6, <1>7 DEF Step

LEMMA FirstKept ==
    ASSUME InOrder, CountInv, ClosuresMatch, NEW p \in Pods, Step(p), NEW r \in Pods,
           NEW f \in Pods, FirstAt(r, f)
    PROVE  FirstAt(r, f)'
<1>1. Loose /\ PlacesMatch /\ MailMatches /\ ThreadsMatch /\ Collected(r)
  BY DEF CountInv, ClosuresMatch
<1>2. /\ cc_count \in [Pods -> Nat] /\ cc_first \in [Pods -> {Unknown, "yes", "no"}]
      /\ handlers \in [Pods -> Seq(Pods)] /\ handlers[r] \in Seq(Pods)
  BY <1>1 DEF Loose
<1>3. ASSUME cc_count'[r] = 0
      PROVE  FirstPending(r, f)'
  <2>1. cc_count[r] = 0 /\ ~(r = p /\ \E i \in DOMAIN handlers[p] : HandleInitCreateCollective(p, i))
    <3>1. cc_count' = cc_count \/ cc_count' = [cc_count EXCEPT ![p] = cc_count[p] + 1]
      BY <1>1, CollectiveIs
    <3>2. (\E i \in DOMAIN handlers[p] : HandleInitCreateCollective(p, i)) =>
             cc_count' = [cc_count EXCEPT ![p] = cc_count[p] + 1]
      BY DEF HandleInitCreateCollective
    <3> QED
      BY <1>2, <1>3, <3>1, <3>2
  <2>2. FirstPending(r, f)
    BY <2>1 DEF FirstAt
  <2>3. ~(StopService(p) /\ r = p)
    <3>1. "sessions" \in Worked
      BY DEF Worked, Rested, Left, Finalized, Stopping
    <3>2. StopService(p) /\ r = p => cc_count[r] > 0
      BY <1>1, <3>1 DEF StopService, Collected
    <3> QED
      BY <2>1, <3>2
  <2>4. CASE handlers'[r] = handlers[r] /\ ~(HandleMessage(p) /\ r = p /\ inbox[p][1].type = "CollectiveInit")
    <3>1. FirstInbox(r, f) => FirstInbox(r, f)'
      BY <1>1, <2>3, <2>4, FirstInboxKept
    <3> QED
      BY <2>2, <2>4, <3>1 DEF FirstPending
  <2>5. CASE /\ r = p /\ HandleMessage(p) /\ inbox[p][1].type = "CollectiveInit"
             /\ handlers'[p] = Append(handlers[p], inbox[p][1].from)
    <3>1. inbox[p][1].from \in Pods /\ 1 \in DOMAIN inbox[p]
      BY <1>1, <2>5, HandledIs DEF Message
    <3>2. /\ Len(handlers[p]) \in Nat /\ DOMAIN handlers[p] = 1 .. Len(handlers[p])
          /\ handlers[p] # <<>> => handlers'[p][1] = handlers[p][1]
          /\ handlers[p] = <<>> => handlers'[p][1] = inbox[p][1].from
          /\ handlers'[p] # <<>>
      <4>1. PICK from \in Pods : from = inbox[p][1].from
        BY <3>1
      <4>2. handlers[p] \in Seq(Pods) /\ handlers'[p] = Append(handlers[p], from)
        BY <1>2, <2>5, <4>1
      <4>3. /\ Len(handlers[p]) \in Nat /\ DOMAIN handlers[p] = 1 .. Len(handlers[p])
            /\ \A i \in 1 .. Len(handlers[p]) : handlers'[p][i] = handlers[p][i]
            /\ handlers'[p][Len(handlers[p]) + 1] = from
            /\ DOMAIN handlers'[p] = 1 .. Len(handlers[p]) + 1
        BY <4>2, AppendIs
      <4>4. handlers[p] = <<>> => Len(handlers[p]) = 0
        OBVIOUS
      <4>5. handlers[p] # <<>> => 1 \in 1 .. Len(handlers[p])
        BY <4>2, <4>3, EmptySeq
      <4>6. handlers'[p] # <<>>
        <5>1. 1 \in DOMAIN handlers'[p]
          BY <4>3
        <5> QED
          BY <5>1
      <4> QED
        BY <4>1, <4>3, <4>4, <4>5, <4>6
    <3>3. ASSUME handlers[p] = <<>>
          PROVE  inbox[p][1].from = f
      <4>1. PICK i \in DOMAIN inbox[p] :
               /\ inbox[p][i].from = f
               /\ \A j \in DOMAIN inbox[p] : j < i => inbox[p][j].type # "CollectiveInit"
        BY <2>2, <2>5, <3>3 DEF FirstPending, FirstInbox
      <4>2. i = 1
        <5>1. DOMAIN inbox[p] = 1 .. Len(inbox[p]) /\ Len(inbox[p]) \in Nat
          BY <1>1, <2>5, HandledIs
        <5>2. ~(1 < i)
          BY <2>5, <3>1, <4>1
        <5> QED
          BY <4>1, <5>1, <5>2
      <4> QED
        BY <4>1, <4>2
    <3>4. handlers'[p][1] = f
      BY <2>2, <2>5, <3>2, <3>3 DEF FirstPending
    <3> QED
      BY <2>5, <3>2, <3>4 DEF FirstPending
  <2>6. ~(HandleMessage(p) /\ r = p /\ inbox[p][1].type = "CollectiveInit")
        \/ handlers'[p] = Append(handlers[p], inbox[p][1].from)
    <3>1. CASE HandleMessage(p) /\ inbox[p][1].type = "CollectiveInit"
      <4>1. HandleCreateCollectiveInit(p, inbox[p][1])
        <5>1. Head(inbox[p]) = inbox[p][1]
          BY <1>1, <3>1, HandledIs
        <5> QED
          BY <3>1, <5>1 DEF HandleMessage, HandleInitialize, HandleInitializeContext,
             HandleFinalizeContext, HandleFinalize, HandleDirectory, HandleTooEarly,
             HandleCreateCollectiveIdp
      <4> QED
        BY <1>2, <4>1 DEF HandleCreateCollectiveInit
    <3> QED
      BY <3>1
  <2> QED
    BY <1>1, <2>1, <2>4, <2>5, <2>6, ThreadsAre
<1>4. ASSUME cc_first'[r] = "yes"
      PROVE  r = f
  <2>1. CASE cc_first[r] = "yes"
    BY <2>1 DEF FirstAt
  <2>2. CASE cc_first[r] # "yes"
    <3>1. PICK i \in DOMAIN handlers[p] :
             /\ HandleInitCreateCollective(p, i) /\ r = p /\ handlers[p][i] = p
             /\ cc_count'[p] = 1 /\ cc_count' = [cc_count EXCEPT ![p] = cc_count[p] + 1]
      BY <1>1, <1>2, <1>4, <2>2, CollectiveIs
    <3>2. i = 1 /\ cc_count[p] = 0
      <4>1. cc_count[p] \in Nat /\ cc_count'[p] = cc_count[p] + 1
        BY <1>2, <3>1
      <4> QED
        BY <3>1, <4>1 DEF HandleInitCreateCollective
    <3>3. handlers[p] # <<>>
      BY <3>1
    <3> QED
      BY <3>1, <3>2, <3>3 DEF FirstAt, FirstPending
  <2> QED
    BY <2>1, <2>2
<1> QED
  BY <1>3, <1>4 DEF FirstAt

LEMMA FirstStarts ==
    ASSUME CountInv, Together, ClosuresMatch, NEW p \in Pods, InitCreateCollective(p),
           \A q \in Mates(p) : pc[q] \notin Gathering, NEW r \in Mates(p)
    PROVE  FirstAt(r, p)'
<1>1. Loose /\ PlacesMatch /\ MailMatches /\ r \in Pods /\ Step(p) /\ Mates(r) = Mates(p)
  BY DEF CountInv, Step, Sending, Mates
<1>2. Placed(r) /\ TogetherOf(p) /\ TogetherOf(r) /\ ThreadsOf(r) /\ Collected(r)
  BY <1>1 DEF CountInv, PlacesMatch, Together, ThreadsMatch, ClosuresMatch
<1>3. PICK group : group = ctx \cap Mates(p)
  OBVIOUS
<1>4. /\ Sends(p, "CollectiveInit", group, 0) /\ group \in SUBSET Pods /\ cc_first' = cc_first
      /\ 0 \in 0 .. Cardinality(Pods) /\ "CollectiveInit" \in Types
  BY <1>1, <1>3, SendsCollective, PodsCount DEF Types
<1>5. r \in group
  <2>1. pc[p] = "in_ctx"
    BY DEF InitCreateCollective
  <2>2. pc[p] \in InContext /\ pc[p] \notin Rested
    BY <2>1 DEF InContext, Rested, Left, Finalized, Stopping
  <2>3. pc[r] \in Joined
    BY <1>2, <2>2 DEF TogetherOf
  <2>4. p \in Mates(r)
    BY <1>1, ContextsAre
  <2>5. pc[r] \notin Left
    BY <1>2, <2>2, <2>4 DEF TogetherOf
  <2> QED
    BY <1>2, <1>3, <2>3, <2>5 DEF Placed
<1>6. cc_first'[r] # "yes"
  <2>1. cc_first[r] = "yes" => pc[r] \in Gathering
    BY <1>2, SinceIs DEF Collected, Heard, Unknown
  <2> QED
    BY <1>4, <2>1
<1>7. handlers'[r] = <<>>
  <2>1. handlers'[r] = handlers[r] /\ handlers[r] \in Seq(Pods)
    BY <1>1, <1>4 DEF Sends, Loose
  <2>2. ASSUME handlers[r] # <<>>
        PROVE  FALSE
    <3>1. 1 \in DOMAIN handlers[r] /\ handlers[r][1] \in Pods
      <4>1. Len(handlers[r]) \in Nat /\ DOMAIN handlers[r] = 1 .. Len(handlers[r]) /\ Len(handlers[r]) # 0
        BY <2>1, <2>2, LenProperties, EmptySeq
      <4> QED
        BY <2>1, <4>1, ElementOfSeq
    <3>2. handlers[r][1] \in Waiting(r)
      BY <3>1 DEF Waiting
    <3>3. handlers[r][1] \in Mates(r) /\ pc[handlers[r][1]] \in Gathering
      BY <1>2, <3>2, SinceIs DEF ThreadsOf, Heard
    <3> QED
      BY <1>1, <3>3
  <2> QED
    BY <2>1, <2>2
<1>8. FirstInbox(r, p)'
  <2>1. PICK i \in Nat : i = Len(inbox[r]) + 1
    BY <1>1, <1>4, SentIs
  <2>2. /\ Len(inbox[r]) \in Nat /\ DOMAIN inbox[r] = 1 .. Len(inbox[r])
        /\ DOMAIN inbox'[r] = 1 .. i
        /\ \A j \in 1 .. Len(inbox[r]) : inbox'[r][j] = inbox[r][j]
        /\ inbox'[r][i] = Msg("CollectiveInit", p, 0)
    BY <1>1, <1>4, <1>5, <2>1, SentIs
  <2>3. inbox'[r][i].type = "CollectiveInit" /\ inbox'[r][i].from = p
    BY <1>4, <2>2, MsgIs
  <2>4. ASSUME NEW j \in DOMAIN inbox'[r], j < i
        PROVE  inbox'[r][j].type # "CollectiveInit"
    <3>1. j \in DOMAIN inbox[r] /\ inbox'[r][j] = inbox[r][j]
      BY <2>1, <2>2, <2>4
    <3>2. Fits(r, j)
      BY <1>1, <3>1 DEF MailMatches
    <3>3. inbox[r][j].type = "CollectiveInit" =>
             inbox[r][j].from \in Mates(r) /\ pc[inbox[r][j].from] \in Gathering
      BY <3>2, SinceIs DEF Fits, OfContext
    <3> QED
      BY <1>1, <3>1, <3>3
  <2>5. i \in DOMAIN inbox'[r]
    BY <2>1, <2>2
  <2> QED
    BY <2>3, <2>4, <2>5 DEF FirstInbox
<1> QED
  BY <1>6, <1>7, <1>8 DEF FirstAt, FirstPending

LEMMA OneFirstStep ==
    ASSUME InOrder, CountInv, Together, ClosuresMatch, OneFirst, NEW p \in Pods, Step(p)
    PROVE  OneFirst'
<1> SUFFICES ASSUME NEW q \in Pods, pc'[q] \in Gathering
             PROVE  \E f \in Mates(q) : \A r \in Mates(f) : FirstAt(r, f)'
  BY DEF OneFirst, IsFirst, Mates
<1>1. Loose /\ PlacesMatch /\ MailMatches
  BY DEF CountInv
<1>2. ASSUME NEW r \in Mates(q), pc[r] \in Gathering
      PROVE  \E f \in Mates(q) : \A s \in Mates(f) : FirstAt(s, f)'
  <2>1. PICK f \in Mates(r) : IsFirst(f)
    BY <1>2, ContextsAre DEF OneFirst
  <2>2. f \in Mates(q) /\ f \in Pods
    BY <1>2, <2>1 DEF Mates
  <2>3. ASSUME NEW s \in Mates(f)
        PROVE  FirstAt(s, f)'
    <3>1. s \in Pods /\ FirstAt(s, f)
      BY <2>1, <2>3 DEF IsFirst, Mates
    <3> QED
      BY <2>2, <3>1, FirstKept
  <2> QED
    BY <2>2, <2>3
<1>3. CASE \A r \in Mates(q) : pc[r] \notin Gathering
  <2>1. q \in Mates(q)
    BY ContextsAre
  <2>2. q = p /\ InitCreateCollective(p)
    BY <1>1, <1>3, <2>1, Crossings
  <2> QED
    BY <1>3, <2>1, <2>2, FirstStarts
<1> QED
  BY <1>2, <1>3

------------------------------------------------------------------------------
(* The whole invariant *)

LEMMA SessionInit ==
    Init => SessionInv
<1> SUFFICES ASSUME Init PROVE SessionInv
  OBVIOUS
<1>1. CountInv
  BY CountInit
<1>2. /\ \A p \in Pods : pc[p] = "off" /\ inbox[p] = <<>> /\ closure[p] = None /\ cc_idp[p] = None
                         /\ is_main[p] = Unknown /\ cc_first[p] = Unknown
      /\ app = {} /\ launched = {c \in Contexts : Spawner[c] = None}
      /\ \A p \in Pods : DOMAIN inbox[p] = {}
  BY DEF Init
<1>3. \A p \in Pods : pc[p] \notin Started /\ pc[p] \notin {"gathered", "fetching"}
  BY <1>2, PlacesAre
<1>4. SpawnersWait
  <2>1. \A c \in launched : Launcher(c)
    BY <1>2 DEF Launcher
  <2>2. \A q \in Pods : Launched(q)
    BY <1>2, ContextsAre DEF Launched
  <2>3. \A q \in Pods : Known(q)
    BY <1>2, <1>3, PlacesAre DEF Known
  <2> QED
    BY <2>1, <2>2, <2>3 DEF SpawnersWait
<1>5. TotalsMatch
  BY <1>2 DEF TotalsMatch
<1>6. InboxOrdered
  BY <1>2 DEF InboxOrdered, Later
<1>7. Together
  BY <1>3, PlacesAre DEF Together, TogetherOf
<1>8. Over
  BY <1>3, PlacesAre DEF Over
<1>9. ClosuresMatch
  BY <1>2, <1>3, PlacesAre DEF ClosuresMatch, Collected, ClosureOf, Creator
<1>10. OneFirst
  BY <1>3, PlacesAre DEF OneFirst
<1> QED
  BY <1>1, <1>4, <1>5, <1>6, <1>7, <1>8, <1>9, <1>10 DEF SessionInv

LEMMA SessionNext ==
    SessionInv /\ [Next]_vars => SessionInv'
<1>1. ASSUME SessionInv, Next
      PROVE  SessionInv'
  <2>1. PICK p \in Pods : Step(p)
    BY <1>1, NextIs DEF Step
  <2>2. CountInv'
    BY <1>1, CountNext DEF SessionInv
  <2> QED
    BY <1>1, <2>1, <2>2, SpawnersStep, TotalsStep, OrderStep, TogetherStep, OverStep,
       ClosuresStep, OneFirstStep DEF SessionInv
<1>2. ASSUME SessionInv, UNCHANGED vars
      PROVE  SessionInv'
  <2>1. CountInv'
    BY <1>2, CountNext DEF SessionInv
  <2>2. /\ SpawnersWait' <=> SpawnersWait
        /\ TotalsMatch' <=> TotalsMatch
        /\ InboxOrdered' <=> InboxOrdered
        /\ Together' <=> Together
        /\ Over' <=> Over
        /\ ClosuresMatch' <=> ClosuresMatch
        /\ OneFirst' <=> OneFirst
    BY <1>2 DEF vars, groups, start, counters, collective, main, SpawnersWait, Launcher, Launched,
       Known, TotalsMatch, TotalOf, Announces, InboxOrdered, Ordered, Pending, Together, TogetherOf,
       Over, Gone, ClosuresMatch, Collected, ClosureOf, Creator, OneFirst, IsFirst, FirstAt,
       FirstPending, FirstInbox, Later, Heard, Waiting
  <2> QED
    BY <1>2, <2>1, <2>2 DEF SessionInv
<1> QED
  BY <1>1, <1>2

LEMMA SpecSession ==
    Spec => []SessionInv
BY SessionInit, SessionNext, PTL DEF Spec

\* In whatever order the threads of a collective run: a pod is in its context
\* only when all its mates have joined, it goes on from its end only when all
\* have come to it, and when one has left the application every other has
\* finished as well, died while it started, or is of a context that nobody can
\* start any more.
THEOREM NoneStopsEarly ==
    Spec => [](Together /\ Over)
<1>1. SessionInv => Together /\ Over
  BY DEF SessionInv
<1> QED
  BY <1>1, SpecSession, PTL

------------------------------------------------------------------------------
(* The refinement *)

LEMMA StageIs ==
    ASSUME NEW p \in Pods
    PROVE  /\ pc[p] = "off" => Stage(p) = "out"
           /\ pc[p] \in Starting => Stage(p) = "in"
           /\ pc[p] \in {"working", "spawning"} => Stage(p) = "working"
           /\ pc[p] = "ctx_finalizing" => Stage(p) = "resting"
           /\ pc[p] \in {"ctx_final", "finalizing"} => Stage(p) = "rested"
           /\ pc[p] \in Stopping => Stage(p) = "stopped"
           /\ pc[p] = "dead" => Stage(p) = "dead"
BY DEF Stage, Starting, Stopping

LEMMA StageNext ==
    ASSUME NEW p \in Pods
    PROVE  /\ pc'[p] = pc[p] => Stage(p)' = Stage(p)
           /\ pc'[p] \in Starting => Stage(p)' = "in"
           /\ pc'[p] \in {"working", "spawning"} => Stage(p)' = "working"
           /\ pc'[p] = "ctx_finalizing" => Stage(p)' = "resting"
           /\ pc'[p] \in {"ctx_final", "finalizing"} => Stage(p)' = "rested"
           /\ pc'[p] \in Stopping => Stage(p)' = "stopped"
           /\ pc'[p] = "dead" => Stage(p)' = "dead"
BY DEF Stage, Starting, Stopping

Staged == [p \in Pods |-> Stage(p)]

LEMMA StagedGoes ==
    ASSUME NEW p \in Pods, \A q \in Pods : q # p => pc'[q] = pc[q], NEW s, Stage(p)' = s
    PROVE  Staged' = [Staged EXCEPT ![p] = s]
<1>1. \A q \in Pods : q # p => Stage(q)' = Stage(q)
  BY StageNext
<1> QED
  BY <1>1 DEF Staged

LEMMA StagedStays ==
    ASSUME \A q \in Pods : Stage(q)' = Stage(q)
    PROVE  Staged' = Staged
BY DEF Staged

\* The moves that a context does not see.
Inner(p) ==
    \/ pc'[p] = pc[p]
    \/ pc[p] \in Starting /\ pc'[p] \in Starting
    \/ pc[p] \in {"working", "spawning"} /\ pc'[p] \in {"working", "spawning"}
    \/ pc[p] \in {"ctx_final", "finalizing"} /\ pc'[p] \in {"ctx_final", "finalizing"}
    \/ pc[p] \in Stopping /\ pc'[p] \in Stopping

LEMMA StepsAre ==
    ASSUME CountInv, NEW p \in Pods, Step(p)
    PROVE  /\ \/ Inner(p)
              \/ Initialize(p) /\ From(p, "off", "joining")
              \/ CreateFirst(p) /\ From(p, "gathered", "working")
              \/ GetCreateCollectiveIdp(p) /\ From(p, "fetching", "working")
              \/ FinalizeContext(p) /\ From(p, "working", "ctx_finalizing")
              \/ LeaveContext(p) /\ From(p, "ctx_finalizing", "ctx_final")
              \/ LeaveApplication(p) /\ From(p, "finalizing", "leaving")
              \/ HandleMessage(p) /\ From(p, "joining", "dead")
           /\ \A q \in Pods : q # p => pc'[q] = pc[q]
<1>1. (pc' = pc \/ Moves(p)) /\ \A q \in Pods : q # p => pc'[q] = pc[q]
  BY MovesIs DEF CountInv
<1> QED
  BY <1>1 DEF Moves, Inner, From, Starting, Stopping

LEMMA InnerStays ==
    ASSUME NEW p \in Pods, Inner(p), \A q \in Pods : q # p => pc'[q] = pc[q]
    PROVE  Staged' = Staged
<1>1. Stage(p)' = Stage(p)
  BY StageIs, StageNext DEF Inner
<1>2. \A q \in Pods : Stage(q)' = Stage(q)
  BY <1>1, StageNext
<1> QED
  BY <1>2, StagedStays

\* The closure changes with the steps that the abstract specification has for it.
LEMMA ClosureStays ==
    ASSUME CountInv, NEW p \in Pods, Step(p), ~CreateFirst(p), ~GetCreateCollectiveIdp(p)
    PROVE  closure' = closure
BY ClosureIs DEF CountInv

LEMMA ClosureInner ==
    ASSUME CountInv, NEW p \in Pods, Step(p), Inner(p)
    PROVE  closure' = closure
<1>1. ~CreateFirst(p) /\ ~GetCreateCollectiveIdp(p)
  <2>1. CreateFirst(p) \/ GetCreateCollectiveIdp(p) =>
           pc[p] \in {"gathered", "fetching"} /\ pc' = [pc EXCEPT ![p] = "working"]
    BY DEF CreateFirst, GetCreateCollectiveIdp, Awaited, Got
  <2>2. pc \in [Pods -> Places]
    BY DEF CountInv, Loose
  <2> QED
    BY <2>1, <2>2 DEF Inner, Starting, Stopping
<1> QED
  BY <1>1, ClosureStays

LEMMA EnterStep ==
    ASSUME SessionInv, NEW p \in Pods, Step(p), Initialize(p), From(p, "off", "joining"),
           \A q \in Pods : q # p => pc'[q] = pc[q]
    PROVE  S!Enter(p)
<1>1. CountInv /\ Placed(p) /\ Launched(p)
  BY DEF SessionInv, CountInv, PlacesMatch, SpawnersWait
<1>2. Stage(p) = "out" /\ Staged' = [Staged EXCEPT ![p] = "in"]
  <2>1. Stage(p) = "out" /\ Stage(p)' = "in"
    BY StageIs, StageNext DEF From, Starting
  <2> QED
    BY <2>1, StagedGoes
<1>3. closure' = closure
  BY DEF Initialize, Goto
<1>4. Spawner[Context[p]] # None =>
         Spawner[Context[p]] \in Pods /\ Stage(Spawner[Context[p]]) = "working"
  <2>1. Context[p] \in launched
    BY DEF Initialize
  <2>2. closure[p] = None
    BY <1>1, PlacesAre DEF Placed, From
  <2>3. Spawner[Context[p]] # None =>
           Spawner[Context[p]] \in Pods /\ pc[Spawner[Context[p]]] = "spawning"
    BY <1>1, <2>1, <2>2, ContextsAre DEF Launched
  <2> QED
    BY <2>3, StageIs
<1> QED
  BY <1>2, <1>3, <1>4 DEF S!Enter, S!Goto, Staged

\* A pod whose closure is known now works in one that its mates share.
LEMMA WorkStep ==
    ASSUME SessionInv, InOrder, NEW p \in Pods, pc[p] \in Starting, pc[p] \in Gathering,
           pc'[p] = "working", \A q \in Pods : q # p => pc'[q] = pc[q],
           NEW c \in Pods, Creator(p, c), closure' = [closure EXCEPT ![p] = c]
    PROVE  S!Work(p)
<1>1. Together /\ ClosuresMatch /\ OneFirst /\ PlacesMatch
  BY DEF SessionInv, CountInv
<1>2. Stage(p) = "in" /\ Staged' = [Staged EXCEPT ![p] = "working"]
  <2>1. Stage(p) = "in" /\ Stage(p)' = "working"
    BY StageIs, StageNext
  <2> QED
    BY <2>1, StagedGoes
<1>3. \A q \in Mates(p) : q \in Pods /\ Stage(q) # "out"
  <2>1. \A q \in Mates(p) : q \in Pods /\ pc[q] \in Joined
    BY <1>1, PlacesAre DEF Together, TogetherOf, Mates
  <2>2. \A q \in Pods : pc[q] # "off" => Stage(q) # "out"
    BY DEF Stage
  <2> QED
    BY <2>1, <2>2, PlacesAre
<1>4. c \in Mates(p) /\ cc_first[c] = "yes" /\ c # None
  BY ContextsAre DEF Creator
<1>5. ASSUME NEW q \in Mates(p)
      PROVE  closure[q] \in {None, c}
  <2>1. PICK f \in Mates(p) : IsFirst(f)
    BY <1>1 DEF OneFirst
  <2>2. ASSUME NEW d \in Mates(p), cc_first[d] = "yes"
        PROVE  d = f
    BY <2>1, <2>2 DEF IsFirst, FirstAt, Mates
  <2>3. Creator(q, closure[q]) /\ Mates(q) = Mates(p)
    BY <1>1 DEF ClosuresMatch, ClosureOf, Mates
  <2> QED
    BY <1>4, <2>2, <2>3 DEF Creator
<1> QED
  BY <1>2, <1>3, <1>4, <1>5 DEF S!Work, S!Goto, S!Mates, Mates, Staged

LEMMA RestStep ==
    ASSUME SessionInv, NEW p \in Pods, Step(p), FinalizeContext(p),
           From(p, "working", "ctx_finalizing"), \A q \in Pods : q # p => pc'[q] = pc[q]
    PROVE  S!Rest(p)
<1>1. Stage(p) = "working" /\ Stage(p)' = "resting"
  BY StageIs, StageNext DEF From
<1>2. Staged' = [Staged EXCEPT ![p] = "resting"]
  BY <1>1, StagedGoes
<1>3. closure' = closure
  BY DEF FinalizeContext, Goto
<1> QED
  BY <1>1, <1>2, <1>3 DEF S!Rest, S!Goto, Staged

LEMMA RestTogetherStep ==
    ASSUME SessionInv, NEW p \in Pods, Step(p), LeaveContext(p),
           From(p, "ctx_finalizing", "ctx_final"), \A q \in Pods : q # p => pc'[q] = pc[q]
    PROVE  S!RestTogether(p)
<1>1. CountInv /\ Together /\ TogetherOf(p)
  BY DEF SessionInv, Together
<1>2. Stage(p) = "resting" /\ Stage(p)' = "rested"
  BY StageIs, StageNext DEF From
<1>3. Staged' = [Staged EXCEPT ![p] = "rested"]
  BY <1>2, StagedGoes
<1>4. closure' = closure
  BY DEF LeaveContext, Goto
<1>5. \A q \in Mates(p) : pc[q] \in Rested
  <2>1. init_ctx[p] <= final_ctx[p]
    BY DEF LeaveContext, Awaited, Ready
  <2>2. Npods(p) <= init_ctx[p]
    BY <1>1 DEF TogetherOf, From, InContext, Gathering, Worked, Rested
  <2> QED
    BY <1>1, <2>1, <2>2, AllRested
<1>6. \A q \in Mates(p) : q \in Pods /\ Stage(q) \notin {"out", "in", "working"}
  <2>1. \A q \in Pods : pc[q] \in Rested => Stage(q) \in {"resting", "rested", "stopped"}
    BY StageIs DEF Rested, Left, Finalized
  <2> QED
    BY <1>5, <2>1 DEF Mates
<1> QED
  BY <1>2, <1>3, <1>4, <1>6 DEF S!RestTogether, S!Goto, S!Mates, Mates, Staged

LEMMA StopStep ==
    ASSUME SessionInv, NEW p \in Pods, Step(p), LeaveApplication(p),
           From(p, "finalizing", "leaving"), \A q \in Pods : q # p => pc'[q] = pc[q]
    PROVE  S!Stop(p)
<1>1. Stage(p) = "rested" /\ Stage(p)' = "stopped"
  BY StageIs, StageNext DEF From, Stopping
<1>2. Staged' = [Staged EXCEPT ![p] = "stopped"]
  BY <1>1, StagedGoes
<1>3. closure' = closure
  BY DEF LeaveApplication, Goto
<1>4. \A q \in Pods : Gone(q)
  <2>1. CASE \E q \in Pods : pc[q] \in Stopping
    BY <2>1 DEF SessionInv, Over
  <2>2. CASE \A q \in Pods : pc[q] \notin Stopping
    <3>1. pc[p] = "finalizing" /\ init_total[p] <= final_total[p]
      BY DEF LeaveApplication, Awaited, Ready
    <3> QED
      BY <2>2, <3>1, LastLeaves DEF SessionInv
  <2> QED
    BY <2>1, <2>2
<1>5. \A q \in Pods : Stage(q) \notin {"in", "working", "resting"}
  BY <1>4, StageIs DEF Gone, Finalized
<1> QED
  BY <1>1, <1>2, <1>3, <1>5 DEF S!Stop, S!Goto, Staged

LEMMA DieStep ==
    ASSUME SessionInv, NEW p \in Pods, Step(p), From(p, "joining", "dead"),
           \A q \in Pods : q # p => pc'[q] = pc[q]
    PROVE  S!Die(p)
<1>1. Stage(p) = "in" /\ Stage(p)' = "dead"
  BY StageIs, StageNext DEF From, Starting
<1>2. Staged' = [Staged EXCEPT ![p] = "dead"]
  BY <1>1, StagedGoes
<1>3. closure' = closure
  <2>1. ~CreateFirst(p) /\ ~GetCreateCollectiveIdp(p)
    BY DEF CreateFirst, GetCreateCollectiveIdp, Awaited, From
  <2> QED
    BY <2>1, ClosureStays DEF SessionInv
<1> QED
  BY <1>1, <1>2, <1>3 DEF S!Die, S!Goto, Staged

LEMMA SessionStarts ==
    Init => S!Init
<1> SUFFICES ASSUME Init PROVE S!Init
  OBVIOUS
<1>1. \A p \in Pods : Stage(p) = "out"
  BY StageIs DEF Init
<1>2. closure = [p \in Pods |-> None]
  BY DEF Init
<1> QED
  BY <1>1, <1>2 DEF S!Init

\* A step of a pod is one of the session, or none that the session sees.
LEMMA SessionGoes ==
    InOrder /\ SessionInv /\ [Next]_vars => [S!Next]_<<Staged, closure>>
<1>1. ASSUME InOrder, SessionInv, Next
      PROVE  S!Next \/ (Staged' = Staged /\ closure' = closure)
  <2>1. PICK p \in Pods : Step(p)
    BY <1>1, NextIs DEF Step
  <2>2. CountInv /\ Loose /\ ClosuresMatch
    BY <1>1 DEF SessionInv, CountInv
  <2>3. \A q \in Pods : q # p => pc'[q] = pc[q]
    BY <2>1, <2>2, StepsAre
  <2>4. CASE Inner(p)
    BY <2>1, <2>2, <2>3, <2>4, InnerStays, ClosureInner
  <2>5. CASE Initialize(p) /\ From(p, "off", "joining")
    BY <1>1, <2>1, <2>3, <2>5, EnterStep DEF S!Next
  <2>6. CASE CreateFirst(p) /\ From(p, "gathered", "working")
    <3>1. cc_first[p] = "yes" /\ closure' = [closure EXCEPT ![p] = p] /\ pc[p] = "gathered"
      BY <2>6 DEF CreateFirst, Got
    <3>2. Creator(p, p)
      BY <3>1, ContextsAre DEF Creator
    <3>3. pc[p] \in Starting /\ pc[p] \in Gathering /\ pc'[p] = "working"
      BY <2>6 DEF From, Starting, Gathering
    <3> QED
      BY <1>1, <2>3, <3>1, <3>2, <3>3, WorkStep DEF S!Next
  <2>7. CASE GetCreateCollectiveIdp(p) /\ From(p, "fetching", "working")
    <3>1. /\ pc[p] = "fetching" /\ cc_idp[p] # None
          /\ closure' = [closure EXCEPT ![p] = cc_idp[p]]
      BY <2>7 DEF GetCreateCollectiveIdp, Awaited, Ready, Got
    <3>2. Creator(p, cc_idp[p])
      BY <2>2 DEF ClosuresMatch, ClosureOf
    <3>3. cc_idp[p] \in Pods
      BY <3>1, <3>2 DEF Creator, Mates
    <3>4. pc[p] \in Starting /\ pc[p] \in Gathering /\ pc'[p] = "working"
      BY <2>7 DEF From, Starting, Gathering
    <3> QED
      BY <1>1, <2>3, <3>1, <3>2, <3>3, <3>4, WorkStep DEF S!Next
  <2>8. CASE FinalizeContext(p) /\ From(p, "working", "ctx_finalizing")
    BY <1>1, <2>1, <2>3, <2>8, RestStep DEF S!Next
  <2>9. CASE LeaveContext(p) /\ From(p, "ctx_finalizing", "ctx_final")
    BY <1>1, <2>1, <2>3, <2>9, RestTogetherStep DEF S!Next
  <2>10. CASE LeaveApplication(p) /\ From(p, "finalizing", "leaving")
    BY <1>1, <2>1, <2>3, <2>10, StopStep DEF S!Next
  <2>11. CASE HandleMessage(p) /\ From(p, "joining", "dead")
    BY <1>1, <2>1, <2>3, <2>11, DieStep DEF S!Next
  <2> QED
    BY <2>1, <2>2, <2>4, <2>5, <2>6, <2>7, <2>8, <2>9, <2>10, <2>11, StepsAre
<1>2. ASSUME UNCHANGED vars
      PROVE  Staged' = Staged /\ closure' = closure
  BY <1>2 DEF vars, main, Staged, Stage
<1> QED
  BY <1>1, <1>2

\* When the detached threads of a collective run in the order of their messages,
\* starting and stopping is the session: a context enters before anybody works,
\* its pods work in one closure and rest together, and nobody stops while a pod
\* that entered has not rested with its context.
THEOREM SessionRefined ==
    InOrder /\ Spec => ImplementsSession
<1> SUFFICES ASSUME InOrder PROVE Spec => ImplementsSession
  OBVIOUS
<1>1. SessionInv /\ [Next]_vars => [S!Next]_<<Staged, closure>>
  BY SessionGoes
<1>2. SessionInv /\ [Next]_vars => [S!Next]_<<[p \in Pods |-> Stage(p)], closure>>
  BY <1>1 DEF Staged
<1> QED
  BY <1>2, SessionStarts, SpecSession, PTL DEF Spec, ImplementsSession, S!Spec
==============================================================================

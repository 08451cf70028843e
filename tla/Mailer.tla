------------------------------- MODULE Mailer -------------------------------
(***************************************************************************)
(* The Mailer of a pod (libcor/src/cor/services/mailer.cpp): threads that  *)
(* send, the service thread that writes to Spread and reads from it, the   *)
(* mailboxes of the pod's resources and the threads that receive.          *)
(*                                                                         *)
(* A step is what a thread does under one lock (the monitor of _out_queue  *)
(* or _mtx), or one access to what no lock protects: _outgoing_groups and  *)
(* _outgoing_msg, which HandleWrite reads while SendMessage may write      *)
(* them, and the event _evwrite.                                           *)
(*                                                                         *)
(* External: Spread delivers a message, in the order of the sends, to the  *)
(* group members of that moment, and one with no group to nobody; libevent *)
(* runs HandleWrite while _evwrite is added (the socket can always be      *)
(* written), and event_del waits for a callback that runs.                 *)
(*                                                                         *)
(* An operator named <Definition>_<fault> is a faulty variant of the       *)
(* definition below it; the specification does not use it.                 *)
(***************************************************************************)
EXTENDS Naturals, Sequences, FiniteSets

CONSTANTS Senders,    \* agents whose threads call SendMessage
          Boxes,      \* resources of the pod that have a mailbox
          Receivers,  \* threads that call ReceiveMessage
          Box,        \* Box[r]: the mailbox r receives from
          Wants,      \* Wants[r]: the senders r receives from
          Empty,      \* the cleared _outgoing_msg
          NoGroup,    \* the cleared _outgoing_groups
          MaxSent     \* bound: MaxSent[s] messages are sent by s

Message == UNION {[from : {s}, to : Boxes, num : 1 .. MaxSent[s]] : s \in Senders}

ASSUME MailerAssumption ==
    /\ Empty \notin Message /\ NoGroup \notin Boxes
    /\ Box \in [Receivers -> Boxes]
    /\ Wants \in [Receivers -> SUBSET Senders]
    /\ MaxSent \in [Senders -> Nat]

VARIABLES
    pc,       \* where SendMessage is in each sender
    nsent,    \* messages sent by each sender
    ongoing,  \* Out::ongoingWrite
    queue,    \* Out::q
    groups,   \* _outgoing_groups
    body,     \* _outgoing_msg
    armed,    \* is _evwrite added to the event base?
    svc,      \* where the service thread is
    held,     \* the body that HandleWrite put in _out_smsg
    wire,     \* what Spread has delivered to the pod and HandleRead has not read
    creating, \* where CreateMailbox is for each mailbox
    made,     \* the keys of _mailboxes
    mail,     \* _mailboxes
    asleep    \* receivers in a wait on _rwq[idp] that were not notified

out   == <<ongoing, queue, groups, body>>
inbox == <<creating, made, mail, asleep>>
vars  == <<pc, nsent, out, armed, svc, held, wire, inbox>>

Alive == svc # "aborted"

TypeOK ==
    /\ pc \in [Senders -> {"free", "ending", "starting"}]
    /\ nsent \in [Senders -> Nat]
    /\ ongoing \in BOOLEAN
    /\ queue \in Seq(Message)
    /\ \/ groups = NoGroup /\ body = Empty
       \/ body \in Message /\ groups = body.to
    /\ armed \in BOOLEAN
    /\ svc \in {"loop", "writing", "sent", "popped", "ended", "aborted"}
    /\ held \in Message \cup {Empty}
    /\ wire \in Seq([group : Boxes, body : Message \cup {Empty}])
    /\ creating \in [Boxes -> {"no", "joined", "done"}]
    /\ made \in SUBSET Boxes
    /\ mail \in [Boxes -> Seq(Message)]
    /\ asleep \in SUBSET Receivers

------------------------------------------------------------------------------
(* SendMessage *)

\* The monitor's part: leave the message to HandleWrite or make it the outgoing one.
Submit(s, b) ==
    LET m == [from |-> s, to |-> b, num |-> nsent[s] + 1] IN
    /\ Alive /\ pc[s] = "free" /\ nsent[s] < MaxSent[s]
    /\ nsent' = [nsent EXCEPT ![s] = @ + 1]
    /\ IF ongoing
       THEN /\ queue' = Append(queue, m)
            /\ UNCHANGED <<pc, ongoing, groups, body>>
       ELSE /\ ongoing' = TRUE /\ groups' = b /\ body' = m
            /\ pc' = [pc EXCEPT ![s] = "ending"]
            /\ UNCHANGED queue
    /\ UNCHANGED <<armed, svc, held, wire, inbox>>

\* _evwrite->end()
EndWrite(s) ==
    /\ pc[s] = "ending" /\ svc = "loop"
    /\ armed' = FALSE
    /\ pc' = [pc EXCEPT ![s] = "starting"]
    /\ UNCHANGED <<nsent, out, svc, held, wire, inbox>>

\* _evwrite->start()
StartWrite(s) ==
    /\ Alive /\ pc[s] = "starting"
    /\ armed' = TRUE
    /\ pc' = [pc EXCEPT ![s] = "free"]
    /\ UNCHANGED <<nsent, out, svc, held, wire, inbox>>

------------------------------------------------------------------------------
(* HandleWrite, in the service thread *)

BuildMessage ==
    /\ svc = "loop" /\ armed
    /\ svc' = "writing"
    /\ held' = body
    /\ UNCHANGED <<pc, nsent, out, armed, wire, inbox>>

Joined(b) == creating[b] # "no"

\* Reads the groups and sends.
Send ==
    /\ svc = "writing"
    /\ svc' = "sent"
    /\ wire' = IF groups # NoGroup /\ Joined(groups)
               THEN Append(wire, [group |-> groups, body |-> held]) ELSE wire
    /\ UNCHANGED <<pc, nsent, out, armed, held, inbox>>

NextOutgoing_keepsGroups ==
    IF queue # <<>>
    THEN /\ body' = Head(queue) /\ groups' = Head(queue).to
         /\ queue' = Tail(queue)
         /\ UNCHANGED ongoing
    ELSE ongoing' = FALSE /\ body' = Empty /\ UNCHANGED <<queue, groups>>

\* The monitor's part of HandleWrite.
NextOutgoing ==
    IF queue # <<>>
    THEN /\ body' = Head(queue) /\ groups' = Head(queue).to
         /\ queue' = Tail(queue)
         /\ UNCHANGED ongoing
    ELSE ongoing' = FALSE /\ groups' = NoGroup /\ body' = Empty /\ UNCHANGED queue

Pop ==
    /\ svc = "sent"
    /\ svc' = "popped"
    /\ held' = Empty
    /\ NextOutgoing
    /\ UNCHANGED <<pc, nsent, armed, wire, inbox>>

\* _evwrite->end()
Disarm ==
    /\ svc = "popped"
    /\ svc' = "ended"
    /\ armed' = FALSE
    /\ UNCHANGED <<pc, nsent, out, held, wire, inbox>>

Rearm_never ==
    /\ svc = "ended"
    /\ svc' = "loop"
    /\ UNCHANGED <<pc, nsent, out, armed, held, wire, inbox>>

\* _evwrite->start() if _outgoing_msg is not empty by now.
Rearm ==
    /\ svc = "ended"
    /\ svc' = "loop"
    /\ armed' = (armed \/ body # Empty)
    /\ UNCHANGED <<pc, nsent, out, held, wire, inbox>>

------------------------------------------------------------------------------
(* HandleRead, in the service thread *)

Waiting(b) == {r \in asleep : Box[r] = b}

Notify_one(b) ==
    IF Waiting(b) = {} THEN UNCHANGED asleep
    ELSE \E r \in Waiting(b) : asleep' = asleep \ {r}

Notify(b) == asleep' = asleep \ Waiting(b)

\* A body with nothing in it makes the archive throw, and nothing catches it.
HandleRead ==
    LET b == Head(wire).group IN
    /\ svc = "loop" /\ wire # <<>>
    /\ wire' = Tail(wire)
    /\ IF Head(wire).body = Empty
       THEN svc' = "aborted" /\ UNCHANGED <<made, mail, asleep>>
       ELSE /\ made' = made \cup {b}
            /\ mail' = [mail EXCEPT ![b] = Append(@, Head(wire).body)]
            /\ Notify(b)
            /\ UNCHANGED svc
    /\ UNCHANGED <<pc, nsent, out, armed, held, creating>>

------------------------------------------------------------------------------
(* The pod's resources *)

\* CreateMailbox joins the group ...
Join(b) ==
    /\ Alive /\ creating[b] = "no"
    /\ creating' = [creating EXCEPT ![b] = "joined"]
    /\ UNCHANGED <<pc, nsent, out, armed, svc, held, wire, made, mail, asleep>>

Insert_overwriting(b) == mail' = [mail EXCEPT ![b] = <<>>] /\ made' = made \cup {b}

\* map::emplace keeps the value of a key that is there.
Insert(b) ==
    /\ mail' = IF b \in made THEN mail ELSE [mail EXCEPT ![b] = <<>>]
    /\ made' = made \cup {b}

\* ... and inserts the mailbox, which HandleRead may have made.
CreateMailbox(b) ==
    /\ Alive /\ creating[b] = "joined"
    /\ creating' = [creating EXCEPT ![b] = "done"]
    /\ Insert(b)
    /\ UNCHANGED <<pc, nsent, out, armed, svc, held, wire, asleep>>

Wanted(r) == {i \in DOMAIN mail[Box[r]] : mail[Box[r]][i].from \in Wants[r]}

\* ReceiveMessage, from its start or from a wakeup: take the first message
\* that the thread wants, or wait.
ReceiveMessage(r) ==
    /\ Alive /\ creating[Box[r]] = "done" /\ r \notin asleep
    /\ IF Wanted(r) = {}
       THEN asleep' = asleep \cup {r} /\ UNCHANGED mail
       ELSE /\ \E i \in Wanted(r) :
                  /\ \A j \in Wanted(r) : i <= j
                  /\ mail' = [mail EXCEPT ![Box[r]] = SubSeq(@, 1, i - 1) \o SubSeq(@, i + 1, Len(@))]
            /\ UNCHANGED asleep
    /\ UNCHANGED <<pc, nsent, out, armed, svc, held, wire, creating, made>>

SpuriousWakeup(r) ==
    /\ Alive /\ r \in asleep
    /\ asleep' = asleep \ {r}
    /\ UNCHANGED <<pc, nsent, out, armed, svc, held, wire, creating, made, mail>>

------------------------------------------------------------------------------
Init ==
    /\ pc = [s \in Senders |-> "free"] /\ nsent = [s \in Senders |-> 0]
    /\ ongoing = FALSE /\ queue = <<>> /\ groups = NoGroup /\ body = Empty
    /\ armed = FALSE /\ svc = "loop" /\ held = Empty /\ wire = <<>>
    /\ creating = [b \in Boxes |-> "no"] /\ made = {} /\ mail = [b \in Boxes |-> <<>>]
    /\ asleep = {}

Next ==
    \/ \E s \in Senders : EndWrite(s) \/ StartWrite(s) \/ \E b \in Boxes : Submit(s, b)
    \/ BuildMessage \/ Send \/ Pop \/ Disarm \/ Rearm \/ HandleRead
    \/ \E b \in Boxes : Join(b) \/ CreateMailbox(b)
    \/ \E r \in Receivers : ReceiveMessage(r) \/ SpuriousWakeup(r)

Spec == Init /\ [][Next]_vars

\* Threads run; an event that stays ready is served among the others.
FairSpec ==
    /\ Spec
    /\ \A s \in Senders : WF_vars(StartWrite(s)) /\ SF_vars(EndWrite(s))
    /\ SF_vars(BuildMessage) /\ SF_vars(HandleRead)
    /\ WF_vars(Send \/ Pop \/ Disarm \/ Rearm)
------------------------------------------------------------------------------
\* No receiver sleeps on a message it wants: HandleRead wakes every thread
\* that waits for the mailbox, whatever sender each of them waits for.
NoneOversleeps == \A r \in asleep : Wanted(r) = {}

\* The k-th place of a set, and what is at the places in their order: what
\* SelectSeq computes recursively, in a form that can be proved about.
Place(places, k) == CHOOSE i \in places : Cardinality({j \in places : j <= i}) = k

Selected(ms, places) == [k \in 1 .. Cardinality(places) |-> ms[Place(places, k)]]

PlacesOf(ms, s, b) == {i \in DOMAIN ms : ms[i] # Empty /\ ms[i].from = s /\ ms[i].to = b}

Between(ms, s, b) == Selected(ms, PlacesOf(ms, s, b))

\* The outgoing message, once it is not on the wire any more.
Unsent == IF body = Empty \/ (svc = "sent" /\ held = body) THEN <<>> ELSE <<body>>

Bodies == [i \in DOMAIN wire |-> wire[i].body]

\* What each agent has sent to each other that is not on the wire yet, and what
\* is, up to the mailbox.
Posted == [s \in Senders |-> [b \in Boxes |-> Between(Unsent \o queue, s, b)]]

Arrived == [s \in Senders |-> [b \in Boxes |-> Between(mail[b] \o Bodies, s, b)]]

\* The mailer is lossy mail: whatever its threads and the service thread do to
\* the unlocked outgoing message, none is sent twice or overtakes an older one
\* of its sender, and one that was delivered waits in the mailbox for a receiver.
M == INSTANCE Mail WITH Messages <- Message, posted <- Posted, arrived <- Arrived

ImplementsMail == M!Spec

\* Writes go on: no interleaving of the two uses of _evwrite leaves messages
\* behind with the event deleted.
WritesEnd == ongoing ~> (~ongoing \/ ~Alive)

Elements(ms) == {ms[i] : i \in DOMAIN ms}

Kept == Elements(Unsent \o queue \o Bodies) \ {Empty}

InMail == UNION {Elements(mail[b]) : b \in Boxes}

\* A message to a mailbox that exists gets there: it leaves the hands of the
\* mailer only for the mailbox. The tests count on one Receive for each Send
\* (tests/vecsum.cpp:46-53, 68-78).
NoneLost ==
    [][\A m \in Kept :
          m \notin Kept' => m \in InMail' \/ ~Joined(m.to)]_vars
==============================================================================

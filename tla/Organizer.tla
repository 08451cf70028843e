------------------------------- MODULE Organizer -------------------------------
(***************************************************************************)
(* An organizer: the table of the members of a domain or a group           *)
(* (dynamic_organizer.cpp) or of a closure (static_organizer.cpp), which   *)
(* every pod reads and writes in its own replica of the resource.  Join    *)
(* and Leave change the table between AcquireWrite and ReleaseWrite, the   *)
(* queries read it between AcquireRead and ReleaseRead, and each of them   *)
(* may throw in between, with the access it acquired.  In a closure, Join  *)
(* then waits until all the members have joined, and the member of rank 0  *)
(* sends a message to the parent of the closure.                           *)
(*                                                                         *)
(* The organizer stands on two other components, of which the module uses  *)
(* what their own modules show: the write token moves as in WriteToken and *)
(* brings the current table with it; ReleaseWrite invalidates the replicas *)
(* of the others, a reader of an invalid replica asks the holder of the    *)
(* token, and a holder answers when it does not write                      *)
(* (ConsistencyObject); nobody leaves the creation of a static group       *)
(* before every member is in it (StaticGroup, Barrier).                    *)
(*                                                                         *)
(* The controller starts a detached thread for each message, so those of a *)
(* pod may take effect in any order: that is InOrder = FALSE, where a      *)
(* request for an update may also be answered by two holders.  InOrder =   *)
(* TRUE restricts the code to the schedules where the threads do not       *)
(* overtake each other, as in the run of ConsistencyObject that shows      *)
(* HolderIsCurrent and ValidReplicaIsCurrent; the properties below hold    *)
(* there, and fail in the others.                                          *)
(*                                                                         *)
(* Every pod has one agent, the only thread of the pod that uses the       *)
(* organizer, and pod p stands for its agent's idp and, as a name, for     *)
(* that idp in decimal.                                                    *)
(*                                                                         *)
(* An operator named <Definition>_<fault> is a faulty variant of the       *)
(* definition below it; the specification does not use it.                 *)
(***************************************************************************)
EXTENDS Naturals, Sequences, FiniteSets, SequencesExt

CONSTANTS Pods,
          Owner,     \* the pod that created the organizer
          Names,     \* names that agents join with
          Unnamed,   \* the empty name
          Calls,     \* what the agent of each pod may call
          MaxCalls,  \* bound: how often each agent uses the organizer
          InOrder    \* do handler threads run in delivery order?

Updates == [op : {"Join"}, name : Names \cup {Unnamed}] \cup [op : {"Leave"}]
Queries == [op : {"List"}]
               \cup [op : {"Find"}, by : {"idp"}, key : Pods]
               \cup [op : {"Find"}, by : {"idm"}, key : Nat]
               \cup [op : {"Find"}, by : {"name"}, key : Names \cup Pods]

ASSUME OrganizerAssumption ==
    /\ \A p \in Pods : \A c \in Calls[p] : c \in Updates \cup Queries
    /\ IsFiniteSet(Pods)
    /\ Owner \in Pods
    /\ Unnamed \notin Names \cup Pods
    /\ MaxCalls \in Nat
    /\ InOrder \in BOOLEAN

VARIABLES
    static,   \* is it a StaticOrganizer, with _total_members the number of pods?
    holders,  \* the pod with the token, none while it travels
    busy,     \* pods between AcquireWrite and ReleaseWrite
    replica,  \* _members and _next_idm in the replica of each pod
    valid,    \* pods whose replica is valid
    asked,    \* pods whose request for an update is not answered yet
    inbox,    \* messages delivered to each pod and not handled
    entered,  \* the agents whose StaticGroupCreate each pod has counted
    call,     \* the call each agent is in
    pc,       \* where it is in that call
    calls,    \* how many calls it has made
    rank,     \* idm in its last Join
    parent    \* messages sent to the parent of the closure, which has one

token   == <<holders, busy>>
copies  == <<replica, valid, asked>>
agents  == <<call, pc, calls, rank>>
vars    == <<static, token, copies, inbox, entered, agents, parent>>

Empty == [members |-> {}, next |-> 0]

Member == [idp : Pods, idm : Nat, name : Names \cup Pods]
Table  == [members : SUBSET Member, next : Nat]

NoCall == [op |-> "None"]

Message == [type : {"Token", "Update", "Invalidate", "Create"}, from : Pods, table : Table]

Places == {"ready", "acquiring", "writing", "wrote", "released", "joining",
           "asking", "reading", "threw"}

TypeOK ==
    /\ static \in BOOLEAN
    /\ holders \in SUBSET Pods /\ busy \in SUBSET Pods
    /\ \A p \in Pods : replica[p].next \in Nat /\ replica[p].members \subseteq Member
    /\ valid \in SUBSET Pods /\ asked \in SUBSET Pods
    /\ \A p \in Pods : \A i \in DOMAIN inbox[p] :
          inbox[p][i].type \in {"Token", "Update", "Invalidate", "Create"}
    /\ entered \in [Pods -> SUBSET Pods]
    /\ \A p \in Pods : call[p] \in Calls[p] \cup {NoCall}
    /\ pc \in [Pods -> Places]
    /\ calls \in [Pods -> 0 .. MaxCalls]
    /\ rank \in [Pods -> Nat]
    /\ parent \in Nat

------------------------------------------------------------------------------
(* The consistency of the replicas *)

WT == INSTANCE WriteToken WITH Threads <- Pods, Home <- [p \in Pods |-> p]

Msg(type, p, table) == [type |-> type, from |-> p, table |-> table]

Send(q, msg) == inbox' = [inbox EXCEPT ![q] = Append(@, msg)]

\* The holder gives the token, and its table, to a pod that waits for it; one
\* that waited for it itself writes first.
Give(p, q) ==
    /\ p \in holders /\ pc[p] # "acquiring"
    /\ q # p /\ pc[q] = "acquiring"
    /\ WT!Give
    /\ Send(q, Msg("Token", p, replica[p]))
    /\ UNCHANGED <<static, copies, entered, agents, parent>>

AcquireTokenUpdate(p, msg) ==
    /\ msg.type = "Token"
    /\ WT!Take(p)
    /\ replica' = [replica EXCEPT ![p] = msg.table]
    /\ valid' = valid \cup {p}
    /\ UNCHANGED <<asked, entered>>

\* A request that overtakes the token, or that the token overtakes, may be
\* answered again, by the next holder.
ReplyUpdate(p, q) ==
    /\ p \in valid \cap (holders \ busy) /\ pc[p] # "acquiring"
    /\ q \in asked /\ q # p
    /\ asked' \in {asked, asked \ {q}}
    /\ InOrder => asked' = asked \ {q}
    /\ Send(q, Msg("Update", p, replica[p]))
    /\ UNCHANGED <<static, token, replica, valid, entered, agents, parent>>

Update(p, msg) ==
    /\ msg.type = "Update"
    /\ replica' = [replica EXCEPT ![p] = msg.table]
    /\ valid' = valid \cup {p}
    /\ UNCHANGED <<token, asked, entered>>

Invalidate(p, msg) ==
    /\ msg.type = "Invalidate"
    /\ valid' = valid \ {p}
    /\ UNCHANGED <<token, replica, asked, entered>>

HandleCreateStaticGroup(p, msg) ==
    /\ msg.type = "Create"
    /\ entered' = [entered EXCEPT ![p] = @ \cup {msg.from}]
    /\ UNCHANGED <<token, copies>>

\* The handler thread of one of the messages at p, the oldest one in order.
Handle(p) ==
    \E i \in DOMAIN inbox[p] :
        /\ InOrder => i = 1
        /\ inbox' = [inbox EXCEPT ![p] = RemoveAt(@, i)]
        /\ LET msg == inbox[p][i] IN
              \/ AcquireTokenUpdate(p, msg) \/ Update(p, msg)
              \/ Invalidate(p, msg) \/ HandleCreateStaticGroup(p, msg)
        /\ UNCHANGED <<static, agents, parent>>

------------------------------------------------------------------------------
(* Calls *)

Ended == {"ready", "threw"}

\* The call's arguments and idm are local variables, gone when it ends.
Goto(p, place) ==
    /\ pc' = [pc EXCEPT ![p] = place]
    /\ call' = IF place \in Ended THEN [call EXCEPT ![p] = NoCall] ELSE call
    /\ rank' = IF place \in Ended THEN [rank EXCEPT ![p] = 0] ELSE rank
    /\ UNCHANGED calls

Start_unbounded(p, c, place) ==
    /\ pc[p] = "ready" /\ calls[p] <= MaxCalls
    /\ call' = [call EXCEPT ![p] = c]
    /\ calls' = [calls EXCEPT ![p] = @ + 1]
    /\ pc' = [pc EXCEPT ![p] = place]
    /\ UNCHANGED rank

Start(p, c, place) ==
    /\ pc[p] = "ready" /\ calls[p] < MaxCalls
    /\ call' = [call EXCEPT ![p] = c]
    /\ calls' = [calls EXCEPT ![p] = @ + 1]
    /\ pc' = [pc EXCEPT ![p] = place]
    /\ UNCHANGED rank

\* Join and Leave, up to the wait in AcquireWrite.  The agents of a closure
\* join it first, and once, as the count of its static group expects.
CallUpdate(p, c) ==
    /\ c.op \in {"Join", "Leave"}
    /\ static /\ c.op = "Join" => calls[p] = 0
    /\ Start(p, c, "acquiring")
    /\ UNCHANGED <<static, token, copies, inbox, entered, parent>>

\* A pod that gets the token gets a valid replica with it: the wait for
\* _validity is left out, which only InOrder = FALSE could tell.
AcquireWrite(p) ==
    /\ pc[p] = "acquiring"
    /\ WT!StartWriting(p)
    /\ Goto(p, "writing")
    /\ UNCHANGED <<static, copies, inbox, entered, parent>>

Refused_byIdp(table, p, name) == \E m \in table.members : m.idp = p

\* Does Join throw?  A member's name is never empty.
Refused(table, p, name) == \E m \in table.members : m.idp = p \/ m.name = name

Joined(table, p, name) ==
    [members |-> table.members \cup
        {[idp |-> p, idm |-> table.next, name |-> IF name = Unnamed THEN p ELSE name]},
     next |-> table.next + 1]

Join(p) ==
    /\ pc[p] = "writing" /\ call[p].op = "Join"
    /\ ~Refused(replica[p], p, call[p].name)
    /\ replica' = [replica EXCEPT ![p] = Joined(@, p, call[p].name)]
    /\ rank' = [rank EXCEPT ![p] = replica[p].next]
    /\ pc' = [pc EXCEPT ![p] = "wrote"]
    /\ UNCHANGED <<static, token, valid, asked, inbox, entered, call, calls, parent>>

\* It throws with the write access, which nobody releases then.
RefuseJoin(p) ==
    /\ pc[p] = "writing" /\ call[p].op = "Join"
    /\ Refused(replica[p], p, call[p].name)
    /\ Goto(p, "threw")
    /\ UNCHANGED <<static, token, copies, inbox, entered, parent>>

Leave_early(p) ==
    /\ pc[p] = "writing" /\ call[p].op = "Leave"
    /\ replica' = [replica EXCEPT ![p].members = {m \in @ : m.idp # p}]
    /\ Goto(p, IF \E m \in replica[p].members : m.idp = p THEN "wrote" ELSE "ready")
    /\ UNCHANGED <<static, token, valid, asked, inbox, entered, parent>>

Leave(p) ==
    /\ pc[p] = "writing" /\ call[p].op = "Leave"
    /\ replica' = [replica EXCEPT ![p].members = {m \in @ : m.idp # p}]
    /\ Goto(p, "wrote")
    /\ UNCHANGED <<static, token, valid, asked, inbox, entered, parent>>

ReleaseWrite_silent(p) ==
    /\ pc[p] = "wrote"
    /\ WT!StopWriting(p)
    /\ Goto(p, IF static /\ call[p].op = "Join" THEN "released" ELSE "ready")
    /\ UNCHANGED <<static, copies, inbox, entered, parent>>

ReleaseWrite(p) ==
    /\ pc[p] = "wrote"
    /\ WT!StopWriting(p)
    /\ inbox' = [q \in Pods |-> IF q = p THEN inbox[q]
                                ELSE Append(inbox[q], Msg("Invalidate", p, Empty))]
    /\ Goto(p, IF static /\ call[p].op = "Join" THEN "released" ELSE "ready")
    /\ UNCHANGED <<static, copies, entered, parent>>

CreateStaticGroup(p) ==
    /\ pc[p] = "released"
    /\ inbox' = [q \in Pods |-> Append(inbox[q], Msg("Create", p, Empty))]
    /\ Goto(p, "joining")
    /\ UNCHANGED <<static, token, copies, entered, parent>>

\* The end of a StaticOrganizer's Join.
AllJoined(p) ==
    /\ pc[p] = "joining" /\ entered[p] = Pods
    /\ parent' = IF rank[p] = 0 THEN parent + 1 ELSE parent
    /\ Goto(p, "ready")
    /\ UNCHANGED <<static, token, copies, inbox, entered>>

\* A query, up to the wait in AcquireRead.
CallQuery(p, c) ==
    /\ c.op \in {"List", "Find"}
    /\ Start(p, c, IF p \in valid THEN "reading" ELSE "asking")
    /\ asked' = IF p \in valid THEN asked ELSE asked \cup {p}
    /\ UNCHANGED <<static, token, replica, valid, inbox, entered, parent>>

AwaitUpdate(p) ==
    /\ pc[p] = "asking" /\ p \in valid
    /\ Goto(p, "reading")
    /\ UNCHANGED <<static, token, copies, inbox, entered, parent>>

Found(table, c) == c.op = "Find" => \E m \in table.members : m[c.by] = c.key

\* GetTotalMembers, GetMemberList, GetIdp and GetIdm: a query that finds
\* nothing throws before ReleaseRead.
Get(p) ==
    /\ pc[p] = "reading"
    /\ Goto(p, IF Found(replica[p], call[p]) THEN "ready" ELSE "threw")
    /\ UNCHANGED <<static, token, copies, inbox, entered, parent>>

------------------------------------------------------------------------------
Init ==
    /\ static \in BOOLEAN
    /\ WT!Init
    /\ replica = [p \in Pods |-> Empty]
    /\ valid = {Owner}
    /\ asked = {}
    /\ inbox = [p \in Pods |-> <<>>]
    /\ entered = [p \in Pods |-> {}]
    /\ call = [p \in Pods |-> NoCall]
    /\ pc = [p \in Pods |-> "ready"]
    /\ calls = [p \in Pods |-> 0]
    /\ rank = [p \in Pods |-> 0]
    /\ parent = 0

Call(p) == \E c \in Calls[p] : CallUpdate(p, c) \/ CallQuery(p, c)

\* What an agent does in a call, once it need not wait.
Proceed(p) ==
    \/ AcquireWrite(p) \/ Join(p) \/ RefuseJoin(p) \/ Leave(p) \/ ReleaseWrite(p)
    \/ CreateStaticGroup(p) \/ AllJoined(p)
    \/ AwaitUpdate(p) \/ Get(p)

\* What the handler threads of a pod do.
Serve(p) == Handle(p) \/ \E q \in Pods : Give(p, q) \/ ReplyUpdate(p, q)

Next == \E p \in Pods : Call(p) \/ Proceed(p) \/ Serve(p)

Spec == Init /\ [][Next]_vars

\* Threads run; an agent may stop calling.  A request for the token is granted
\* in turn: calls are bounded, so others overtake it finitely often.
FairSpec == Spec /\ \A p \in Pods : WF_vars(Proceed(p)) /\ WF_vars(Serve(p))
------------------------------------------------------------------------------
TokenMessages(p) == {i \in DOMAIN inbox[p] : inbox[p][i].type = "Token"}

\* The table that counts: the holder's or, while the token travels, its own.
Current ==
    IF holders # {} THEN replica[CHOOSE p \in Pods : p \in holders]
    ELSE LET p == CHOOSE q \in Pods : TokenMessages(q) # {}
         IN  inbox[p][CHOOSE i \in DOMAIN inbox[p] : inbox[p][i].type = "Token"].table

M == INSTANCE Membership WITH
       Idps <- Pods, members <- Current.members, next <- Current.next, told <- parent

\* In order, the replicas of an organizer, written in turns by the pods that get
\* the token, behave as one table: no Join is lost or overwritten, no rank is
\* given twice, no name is taken twice by those that ask for it, and the parent
\* of a closure hears of it once, when all have joined.
ImplementsMembership == M!Spec

\* In order, from when Join of a closure may return in a pod, whatever the pod
\* reads has every member's join in it: the invalidation of an older replica
\* comes before the last member's message that lets Join return.  A thread for
\* that message that overtakes the one for the invalidation breaks it.
ClosureComplete ==
    \A p \in valid :
        static /\ entered[p] = Pods => replica[p].next = Cardinality(Pods)

\* In order, an agent that wants to join or leave gets write access, unless another
\* threw while it had it.
WriteAccessComes ==
    \A p \in Pods :
        pc[p] = "acquiring" ~> pc[p] # "acquiring" \/ \E q \in busy : pc[q] = "threw"
==============================================================================

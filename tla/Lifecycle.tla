------------------------------- MODULE Lifecycle -------------------------------
(***************************************************************************)
(* The life of the pods of an application (cor.cpp, pod.cpp, and the       *)
(* controller of each pod, controller.cpp), as the launcher runs it        *)
(* (corx.cpp): Initialize, the collective creation of the closure of the   *)
(* pod's context, the work of an agent, which may spawn another context,   *)
(* and Finalize.                                                           *)
(*                                                                         *)
(* A step is what a main thread does up to its next wait or send, or what  *)
(* the service thread does with one message.  Messages and memberships are *)
(* delivered by Spread in one total order; inbox[p] is what the service    *)
(* thread of p has to read yet.  The handlers run in the service thread,   *)
(* but for CreateCollectiveInit, which starts a detached thread for each.  *)
(* InOrder = FALSE is the code; InOrder = TRUE restricts it to schedules   *)
(* in which those threads do not overtake each other.                      *)
(*                                                                         *)
(* Taken from other modules: a pod that is not the first gets its replica  *)
(* of MetaDomain once that exists (ResourceManager); Spawn is told when    *)
(* all agents of the new context are in their closure (Organizer).  Of the *)
(* other messages one kind is modelled, because it meets pods that start:  *)
(* the announcement of MetaDomain and the searches for it.                 *)
(*                                                                         *)
(* Not modelled: a wait without a condition that wakes up spuriously, and  *)
(* pods that die for other reasons than the one modelled.                  *)
(*                                                                         *)
(* An operator named <Definition>_<fault> is a faulty variant of the       *)
(* definition below it; the specification does not use it.                 *)
(***************************************************************************)
EXTENDS Naturals, Sequences, FiniteSets, SequencesExt

CONSTANTS Pods,
          Context,  \* _context of each pod
          Spawner,  \* the pod that spawns a context, None for the first one
          None,
          InOrder   \* do the threads of CreateCollectiveInit run in order?

Contexts == DOMAIN Spawner

\* One launch starts the application: the pods of a second one would count
\* pods that stop without them (see the README).
ASSUME LifecycleAssumption ==
    /\ IsFiniteSet(Pods)
    /\ None \notin Pods
    /\ Spawner \in [Contexts -> Pods \cup {None}]
    /\ Context \in [Pods -> Contexts]
    /\ \E c \in Contexts : \A d \in Contexts : Spawner[d] = None <=> d = c
    /\ InOrder \in BOOLEAN

VARIABLES
    launched,     \* contexts whose pods were started
    app,          \* pods in the application's group
    ctx,          \* pods in the group of their context
    inbox,        \* messages for the service thread of each pod
    is_main,      \* _psync: is the pod the first one?
    managers,     \* pods that have their page and resource managers
    init_total,   \* _init_total_npods
    final_total,  \* _final_total_npods
    init_ctx,     \* _init_ctx_npods
    final_ctx,    \* _final_ctx_npods
    cc_vars,      \* pods that have the entry of their context in _cc_vars
    cc_count,     \* _cc_vars[context].first
    cc_first,     \* _cc_first: the promise of the main thread
    cc_idp,       \* _cc_idp[context]: the closure, named after its creator
    handlers,     \* threads of HandleInitCreateCollective: by whose message
    pc,           \* where the main thread is
    asleep,       \* main threads in a wait that were not notified
    closure       \* the closure that the main thread got

groups     == <<launched, app, ctx>>
counters   == <<init_total, final_total, init_ctx, final_ctx>>
start      == <<is_main, managers>>
collective == <<cc_vars, cc_count, cc_first, cc_idp, handlers>>
main       == <<pc, asleep, closure>>
vars       == <<groups, inbox, start, counters, collective, main>>

Mates(p) == {q \in Pods : Context[q] = Context[p]}

\* _npods of a pod, and total_members of its closure.
Npods(p) == Cardinality(Mates(p))

Starting  == {"joining", "managed", "listed", "ctx_joining", "in_ctx", "gathering",
              "gathered", "fetching"}
Finishing == {"ctx_finalizing", "ctx_final", "finalizing", "leaving", "sessions", "stopped"}
Places    == {"off", "working", "spawning", "dead"} \cup Starting \cup Finishing

Ended     == {"stopped", "dead"}

Types == {"Join", "Directory", "JoinContext", "CollectiveInit", "CollectiveIdp",
          "FinalizeContext", "Finalize", "SelfLeave"}

Unknown == "unknown"

TypeOK ==
    /\ launched \in SUBSET Contexts
    /\ app \in SUBSET Pods /\ ctx \in SUBSET Pods
    /\ inbox \in [Pods -> Seq([type : Types, from : Pods, size : 0 .. Cardinality(Pods)])]
    /\ is_main \in [Pods -> {Unknown, "yes", "no"}] /\ managers \in SUBSET Pods
    /\ \A n \in {init_total, final_total, init_ctx, final_ctx, cc_count} :
          n \in [Pods -> 0 .. Cardinality(Pods)]
    /\ cc_vars \in SUBSET Pods
    /\ cc_first \in [Pods -> {Unknown, "yes", "no"}]
    /\ cc_idp \in [Pods -> Pods \cup {None}] /\ closure \in [Pods -> Pods \cup {None}]
    /\ handlers \in [Pods -> Seq(Pods)]
    /\ pc \in [Pods -> Places] /\ asleep \in SUBSET Pods

------------------------------------------------------------------------------
(* Messages, and waits on a condition variable *)

Msg(type, p, size) == [type |-> type, from |-> p, size |-> size]

Multicast(group, msg) ==
    inbox' = [p \in Pods |-> IF p \in group THEN Append(inbox[p], msg) ELSE inbox[p]]

Goto(p, place) == pc' = [pc EXCEPT ![p] = place] /\ UNCHANGED <<asleep, closure>>

\* What the main thread waits for, in each of its waits on _cv and _cc_cv.
Ready(p) ==
    CASE pc[p] = "ctx_joining"    -> init_ctx[p] >= Npods(p)
      [] pc[p] = "gathering"      -> cc_count[p] = Npods(p)
      [] pc[p] = "fetching"       -> cc_idp[p] # None
      [] pc[p] = "ctx_finalizing" -> final_ctx[p] >= init_ctx[p]
      [] pc[p] = "finalizing"     -> final_total[p] >= init_total[p]
      [] OTHER                    -> TRUE

Sleep(p) ==
    /\ ~Ready(p) /\ p \notin asleep
    /\ asleep' = asleep \cup {p}
    /\ UNCHANGED <<groups, inbox, start, counters, collective, pc, closure>>

Awaited(p, place) == pc[p] = place /\ Ready(p) /\ p \notin asleep

NotifyIf(p, cond) == asleep' = IF cond THEN asleep \ {p} ELSE asleep

------------------------------------------------------------------------------
(* The main thread starts *)

Initialize(p) ==
    /\ pc[p] = "off" /\ Context[p] \in launched
    /\ app' = app \cup {p}
    /\ Multicast(app', Msg("Join", p, Cardinality(app')))
    /\ Goto(p, "joining")
    /\ UNCHANGED <<launched, ctx, start, counters, collective>>

CreateManagers(p) ==
    /\ pc[p] = "joining" /\ is_main[p] # Unknown
    /\ managers' = managers \cup {p}
    /\ Goto(p, "managed")
    /\ UNCHANGED <<groups, inbox, is_main, counters, collective>>

\* The first pod announces MetaDomain, another one asks who has it.
CreateInitialContext(p) ==
    /\ pc[p] = "managed"
    /\ Multicast(app \ {p}, Msg("Directory", p, 0))
    /\ Goto(p, "listed")
    /\ UNCHANGED <<groups, start, counters, collective>>

HasMetaDomain(p) == is_main[p] = "yes" /\ pc[p] \notin {"joining", "managed"}

InitializeContext(p) ==
    /\ pc[p] = "listed"
    /\ \E q \in Pods : HasMetaDomain(q)
    /\ ctx' = ctx \cup {p}
    /\ Multicast(ctx' \cap Mates(p), Msg("JoinContext", p, Cardinality(ctx' \cap Mates(p))))
    /\ Goto(p, "ctx_joining")
    /\ UNCHANGED <<launched, app, start, counters, collective>>

AwaitContext(p) ==
    /\ Awaited(p, "ctx_joining")
    /\ Goto(p, "in_ctx")
    /\ UNCHANGED <<groups, inbox, start, counters, collective>>

InitCreateCollective(p) ==
    /\ pc[p] = "in_ctx"
    /\ cc_vars' = cc_vars \cup {p}
    /\ Multicast(ctx \cap Mates(p), Msg("CollectiveInit", p, 0))
    /\ Goto(p, "gathering")
    /\ UNCHANGED <<groups, start, counters, cc_count, cc_first, cc_idp, handlers>>

AwaitGathering(p) ==
    /\ Awaited(p, "gathering")
    /\ Goto(p, "gathered")
    /\ UNCHANGED <<groups, inbox, start, counters, collective>>

Got(p, c) ==
    /\ closure' = [closure EXCEPT ![p] = c]
    /\ pc' = [pc EXCEPT ![p] = "working"]
    /\ UNCHANGED asleep

\* CreateCollective of the member that is first: it creates the closure.
CreateFirst(p) ==
    /\ pc[p] = "gathered" /\ cc_first[p] = "yes"
    /\ Multicast(ctx \cap Mates(p), Msg("CollectiveIdp", p, 0))
    /\ Got(p, p)
    /\ UNCHANGED <<groups, start, counters, collective>>

NotFirst(p) ==
    /\ pc[p] = "gathered" /\ cc_first[p] = "no"
    /\ Goto(p, "fetching")
    /\ UNCHANGED <<groups, inbox, start, counters, collective>>

GetCreateCollectiveIdp(p) ==
    /\ Awaited(p, "fetching")
    /\ Got(p, cc_idp[p])
    /\ UNCHANGED <<groups, inbox, start, counters, collective>>

------------------------------------------------------------------------------
(* It works, maybe spawns another context, and stops *)

Spawn(p, c) ==
    /\ pc[p] = "working" /\ Spawner[c] = p /\ c \notin launched
    /\ launched' = launched \cup {c}
    /\ Goto(p, "spawning")
    /\ UNCHANGED <<app, ctx, inbox, start, counters, collective>>

Spawned(p) ==
    /\ pc[p] = "spawning"
    /\ \A q \in Pods : Spawner[Context[q]] = p /\ Context[q] \in launched =>
          closure[q] # None
    /\ Goto(p, "working")
    /\ UNCHANGED <<groups, inbox, start, counters, collective>>

FinalizeContext_toAll(p) ==
    /\ pc[p] = "working"
    /\ Multicast(ctx, Msg("FinalizeContext", p, 0))
    /\ Goto(p, "ctx_finalizing")
    /\ UNCHANGED <<groups, start, counters, collective>>

FinalizeContext(p) ==
    /\ pc[p] = "working"
    /\ Multicast(ctx \cap Mates(p), Msg("FinalizeContext", p, 0))
    /\ Goto(p, "ctx_finalizing")
    /\ UNCHANGED <<groups, start, counters, collective>>

LeaveContext(p) ==
    /\ Awaited(p, "ctx_finalizing")
    /\ ctx' = ctx \ {p}
    /\ Goto(p, "ctx_final")
    /\ UNCHANGED <<launched, app, inbox, start, counters, collective>>

Finalize(p) ==
    /\ pc[p] = "ctx_final"
    /\ Multicast(app, Msg("Finalize", p, 0))
    /\ Goto(p, "finalizing")
    /\ UNCHANGED <<groups, start, counters, collective>>

LeaveApplication(p) ==
    /\ Awaited(p, "finalizing")
    /\ app' = app \ {p}
    /\ inbox' = [inbox EXCEPT ![p] = Append(@, Msg("SelfLeave", p, 0))]
    /\ Goto(p, "leaving")
    /\ UNCHANGED <<launched, ctx, start, counters, collective>>

\* SessionManager::StopService: the processes it spawned have ended.
StopSessions(p) ==
    /\ pc[p] = "leaving"
    /\ \A q \in Pods : Spawner[Context[q]] = p /\ Context[q] \in launched =>
          pc[q] \in Ended
    /\ Goto(p, "sessions")
    /\ UNCHANGED <<groups, inbox, start, counters, collective>>

\* The service thread reads the pod's leave, ends, and is joined.
StopService(p) ==
    /\ pc[p] = "sessions" /\ inbox[p] # <<>> /\ Head(inbox[p]).type = "SelfLeave"
    /\ inbox' = [inbox EXCEPT ![p] = <<>>]
    /\ Goto(p, "stopped")
    /\ UNCHANGED <<groups, start, counters, collective>>

------------------------------------------------------------------------------
(* The service thread *)

HandleInitialize_adding(p, msg) ==
    /\ msg.type = "Join"
    /\ is_main' = IF msg.from = p
                  THEN [is_main EXCEPT ![p] = IF msg.size = 1 THEN "yes" ELSE "no"]
                  ELSE is_main
    /\ init_total' = [init_total EXCEPT ![p] = @ + msg.size]
    /\ UNCHANGED <<groups, managers, final_total, init_ctx, final_ctx, collective, main>>

HandleInitialize(p, msg) ==
    /\ msg.type = "Join"
    /\ is_main' = IF msg.from = p
                  THEN [is_main EXCEPT ![p] = IF msg.size = 1 THEN "yes" ELSE "no"]
                  ELSE is_main
    /\ init_total' = [init_total EXCEPT ![p] = msg.size]
    /\ UNCHANGED <<groups, managers, final_total, init_ctx, final_ctx, collective, main>>

HandleInitializeContext(p, msg) ==
    /\ msg.type = "JoinContext"
    /\ init_ctx' = [init_ctx EXCEPT ![p] = msg.size]
    /\ NotifyIf(p, msg.size = Npods(p))
    /\ UNCHANGED <<groups, start, init_total, final_total, final_ctx, collective, pc, closure>>

HandleFinalizeContext(p, msg) ==
    /\ msg.type = "FinalizeContext"
    /\ final_ctx' = [final_ctx EXCEPT ![p] = @ + 1]
    /\ NotifyIf(p, final_ctx'[p] = init_ctx[p])
    /\ UNCHANGED <<groups, start, init_total, final_total, init_ctx, collective, pc, closure>>

HandleFinalize(p, msg) ==
    /\ msg.type = "Finalize"
    /\ final_total' = [final_total EXCEPT ![p] = @ + 1]
    /\ NotifyIf(p, final_total'[p] = init_total[p])
    /\ UNCHANGED <<groups, start, init_total, init_ctx, final_ctx, collective, pc, closure>>

\* A thread is started that calls the resource manager.
HandleDirectory(p, msg) ==
    /\ msg.type = "Directory" /\ p \in managers
    /\ UNCHANGED <<groups, start, counters, collective, main>>

\* There is no resource manager yet: the process dies, and Spread takes it out
\* of the groups.
HandleTooEarly(p, msg) ==
    /\ msg.type = "Directory" /\ p \notin managers
    /\ app' = app \ {p}
    /\ pc' = [pc EXCEPT ![p] = "dead"]
    /\ UNCHANGED <<launched, ctx, start, counters, collective, asleep, closure>>

HandleCreateCollectiveInit(p, msg) ==
    /\ msg.type = "CollectiveInit"
    /\ handlers' = [handlers EXCEPT ![p] = Append(@, msg.from)]
    /\ UNCHANGED <<groups, start, counters, cc_vars, cc_count, cc_first, cc_idp, main>>

HandleCreateCollectiveIdp(p, msg) ==
    /\ msg.type = "CollectiveIdp"
    /\ cc_idp' = [cc_idp EXCEPT ![p] = msg.from]
    /\ NotifyIf(p, TRUE)
    /\ UNCHANGED <<groups, start, counters, cc_vars, cc_count, cc_first, handlers, pc, closure>>

HandleMessage(p) ==
    /\ inbox[p] # <<>> /\ pc[p] \notin Ended
    /\ inbox' = [inbox EXCEPT ![p] = Tail(@)]
    /\ LET msg == Head(inbox[p]) IN
          \/ HandleInitialize(p, msg) \/ HandleInitializeContext(p, msg)
          \/ HandleFinalizeContext(p, msg) \/ HandleFinalize(p, msg)
          \/ HandleDirectory(p, msg) \/ HandleTooEarly(p, msg)
          \/ HandleCreateCollectiveInit(p, msg) \/ HandleCreateCollectiveIdp(p, msg)

\* The detached thread for q's CreateCollectiveInit, once the context has its
\* entry in _cc_vars.
HandleInitCreateCollective(p, i) ==
    /\ i \in DOMAIN handlers[p] /\ (InOrder => i = 1)
    /\ p \in cc_vars
    /\ handlers' = [handlers EXCEPT ![p] = RemoveAt(@, i)]
    /\ cc_count' = [cc_count EXCEPT ![p] = @ + 1]
    /\ cc_first' = IF handlers[p][i] = p
                   THEN [cc_first EXCEPT ![p] = IF cc_count'[p] = 1 THEN "yes" ELSE "no"]
                   ELSE cc_first
    /\ NotifyIf(p, cc_count'[p] = Npods(p))
    /\ UNCHANGED <<groups, inbox, start, counters, cc_vars, cc_idp, pc, closure>>

------------------------------------------------------------------------------
Init ==
    /\ launched = {c \in Contexts : Spawner[c] = None}
    /\ app = {} /\ ctx = {}
    /\ inbox = [p \in Pods |-> <<>>]
    /\ is_main = [p \in Pods |-> Unknown]
    /\ managers = {}
    /\ init_total = [p \in Pods |-> 0] /\ final_total = [p \in Pods |-> 0]
    /\ init_ctx = [p \in Pods |-> 0] /\ final_ctx = [p \in Pods |-> 0]
    /\ cc_vars = {}
    /\ cc_count = [p \in Pods |-> 0]
    /\ cc_first = [p \in Pods |-> Unknown]
    /\ cc_idp = [p \in Pods |-> None]
    /\ handlers = [p \in Pods |-> <<>>]
    /\ pc = [p \in Pods |-> "off"]
    /\ asleep = {}
    /\ closure = [p \in Pods |-> None]

StartService(p) ==
    \/ Initialize(p) \/ CreateManagers(p) \/ CreateInitialContext(p)
    \/ InitializeContext(p) \/ AwaitContext(p)

CreateCollective(p) ==
    \/ InitCreateCollective(p) \/ AwaitGathering(p)
    \/ CreateFirst(p) \/ NotFirst(p) \/ GetCreateCollectiveIdp(p)

Stop(p) ==
    \/ FinalizeContext(p) \/ LeaveContext(p) \/ Finalize(p) \/ LeaveApplication(p)
    \/ StopSessions(p) \/ StopService(p)

Main(p) ==
    \/ Sleep(p) \/ StartService(p) \/ CreateCollective(p) \/ Spawned(p) \/ Stop(p)

Handlers(p) == \E i \in DOMAIN handlers[p] : HandleInitCreateCollective(p, i)

Next == \E p \in Pods :
            \/ Main(p) \/ HandleMessage(p) \/ Handlers(p)
            \/ \E c \in Contexts : Spawn(p, c)

Spec == Init /\ [][Next]_vars

\* Threads run, and a program ends; it need not spawn.
FairSpec ==
    /\ Spec
    /\ \A p \in Pods : WF_vars(Main(p)) /\ WF_vars(HandleMessage(p)) /\ WF_vars(Handlers(p))
------------------------------------------------------------------------------
Stage(p) ==
    CASE pc[p] = "off"                          -> "out"
      [] pc[p] \in Starting                     -> "in"
      [] pc[p] \in {"working", "spawning"}      -> "working"
      [] pc[p] = "ctx_finalizing"               -> "resting"
      [] pc[p] \in {"ctx_final", "finalizing"}  -> "rested"
      [] pc[p] \in {"leaving", "sessions", "stopped"} -> "stopped"
      [] OTHER                                  -> "dead"

S == INSTANCE Session WITH stage <- [p \in Pods |-> Stage(p)]

\* A context starts together, works in one closure and finishes together, and
\* no pod leaves the application while another one that joined it has not sent
\* its Finalize, pods of spawned contexts included. It needs InOrder: if the
\* threads of the collective overtake one another, several pods may find
\* themselves first and work in closures of their own.
ImplementsSession == S!Spec

\* Every pod that was started stops, unless one died because a message met it
\* before its managers. A program that spawns contexts and returns, like that
\* of tests/test_spawn.cpp, expects it of Finalize; the code does not keep it.
AllStop == <>[](\A p \in Pods : Context[p] \in launched => pc[p] = "stopped")
               \/ <>(\E p \in Pods : pc[p] = "dead")
==============================================================================

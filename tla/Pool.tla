-------------------------------- MODULE Pool --------------------------------
(***************************************************************************)
(* The pool of agents of units/pool.cpp: agents that meet at a barrier,    *)
(* run the task that was dispatched and meet again, and the program that   *)
(* dispatches tasks, waits for the pool to be idle and deletes it.         *)
(*                                                                         *)
(* A step is what a thread does under one lock (the barrier's _mtx or the  *)
(* pool's), or one step outside of them: _fct is called without a lock.    *)
(* One thread uses the pool, as in every program of the repository; it may *)
(* dispatch again without waiting, but waits before it deletes the pool.   *)
(*                                                                         *)
(* An operator named <Definition>_<fault> is a faulty variant of the       *)
(* definition below it; the specification does not use it.                 *)
(***************************************************************************)
EXTENDS Integers, FiniteSets

CONSTANTS Agents,   \* the pool's agents (_num_agents of them)
          MaxTasks  \* bound: tasks the program dispatches

ASSUME PoolAssumption == IsFiniteSet(Agents) /\ Agents # {} /\ MaxTasks \in Nat

VARIABLES
    counter,  \* Barrier::_counter
    status,   \* Barrier::_status
    is_idle,  \* Barrier::_is_idle
    fct,      \* _fct: the number of the task it stands for, 0 before the first
    shut,     \* _shut
    at,       \* where each agent is
    lstatus,  \* Barrier::Wait's lstatus of each agent
    asleep,   \* agents in the wait on _qtask that were not notified
    user,     \* where the program is
    dozing,   \* is it in the wait on _qidle and not notified?
    round,    \* tasks dispatched: ReleaseThreads called for them
    ran       \* history: how often each agent has run each task

barrier == <<counter, status, is_idle>>
pool    == <<fct, shut>>
agents  == <<at, lstatus, asleep>>
program == <<user, dozing, round>>
vars    == <<barrier, pool, agents, program, ran>>

AgentPlaces == {"arriving", "parked", "released", "calling", "gone"}
UserPlaces  == {"free", "dispatching", "setting", "releasing", "waiting", "idle",
                "closing", "joining", "opening", "reaping", "gone"}

TypeOK ==
    /\ counter \in 0 .. Cardinality(Agents) - 1
    /\ status \in BOOLEAN /\ is_idle \in BOOLEAN /\ shut \in BOOLEAN
    /\ fct \in 0 .. MaxTasks
    /\ at \in [Agents -> AgentPlaces]
    /\ lstatus \in [Agents -> BOOLEAN]
    /\ asleep \in SUBSET Agents
    /\ user \in UserPlaces /\ dozing \in BOOLEAN
    /\ round \in 0 .. MaxTasks
    /\ ran \in [Agents -> [0 .. MaxTasks -> Nat]]

------------------------------------------------------------------------------
(* Agents *)

Count_withoutReset ==
    /\ counter' = counter + 1
    /\ IF counter + 1 = Cardinality(Agents)
       THEN is_idle' = TRUE /\ dozing' = FALSE
       ELSE UNCHANGED <<is_idle, dozing>>

\* The agent that completes the barrier makes the pool idle and says so.
Count ==
    IF counter + 1 = Cardinality(Agents)
    THEN counter' = 0 /\ is_idle' = TRUE /\ dozing' = FALSE
    ELSE counter' = counter + 1 /\ UNCHANGED <<is_idle, dozing>>

\* Barrier::Wait up to its wait on _qtask.
Arrive(a) ==
    /\ at[a] = "arriving"
    /\ at' = [at EXCEPT ![a] = "parked"]
    /\ lstatus' = [lstatus EXCEPT ![a] = status]
    /\ asleep' = asleep \cup {a}
    /\ Count
    /\ UNCHANGED <<status, pool, user, round, ran>>

SpuriousWakeup(a) ==
    /\ a \in asleep
    /\ asleep' = asleep \ {a}
    /\ UNCHANGED <<barrier, pool, at, lstatus, program, ran>>

Unpark_once(a) ==
    /\ at[a] = "parked" /\ a \notin asleep
    /\ at' = [at EXCEPT ![a] = "released"]
    /\ UNCHANGED <<barrier, pool, lstatus, asleep, program, ran>>

\* The loop around Barrier::Wait's wait.
Unpark(a) ==
    /\ at[a] = "parked" /\ a \notin asleep
    /\ IF lstatus[a] = status
       THEN asleep' = asleep \cup {a} /\ UNCHANGED at
       ELSE at' = [at EXCEPT ![a] = "released"] /\ UNCHANGED asleep
    /\ UNCHANGED <<barrier, pool, lstatus, program, ran>>

\* PeerAgent reads _shut.
ReadShut(a) ==
    /\ at[a] = "released"
    /\ at' = [at EXCEPT ![a] = IF shut THEN "gone" ELSE "calling"]
    /\ UNCHANGED <<barrier, pool, lstatus, asleep, program, ran>>

\* PeerAgent calls _fct, whatever it is by now.
RunTask(a) ==
    /\ at[a] = "calling"
    /\ at' = [at EXCEPT ![a] = "arriving"]
    /\ ran' = [ran EXCEPT ![a][fct] = @ + 1]
    /\ UNCHANGED <<barrier, pool, lstatus, asleep, program>>

------------------------------------------------------------------------------
(* The program *)

Move(from, to) == user = from /\ user' = to

StartDispatch ==
    /\ round < MaxTasks
    /\ user \in {"free", "idle"} /\ user' = "dispatching"
    /\ UNCHANGED <<barrier, pool, agents, dozing, round, ran>>

StartWait ==
    /\ Move("free", "waiting")
    /\ UNCHANGED <<barrier, pool, agents, dozing, round, ran>>

\* Where Barrier::WaitForIdle returns to: Dispatch, WaitForIdle, JoinAgents.
Return ==
    \/ Move("dispatching", "setting")
    \/ Move("waiting", "idle")
    \/ Move("joining", "opening")

\* Barrier::WaitForIdle, from its start or from a wakeup of its wait on _qidle.
AwaitIdle ==
    /\ user \in {"dispatching", "waiting", "joining"} /\ ~dozing
    /\ IF is_idle
       THEN Return /\ UNCHANGED dozing
       ELSE dozing' = TRUE /\ UNCHANGED user
    /\ UNCHANGED <<barrier, pool, agents, round, ran>>

\* Dispatch sets _fct and _arg.
SetTask ==
    /\ Move("setting", "releasing")
    /\ fct' = round + 1
    /\ UNCHANGED <<barrier, shut, agents, dozing, round, ran>>

Wake_one == IF asleep = {} THEN UNCHANGED asleep
            ELSE \E a \in asleep : asleep' = asleep \ {a}

Wake == asleep' = {}

Reopen == status' = ~status /\ is_idle' = FALSE /\ UNCHANGED counter

\* Barrier::ReleaseThreads, from Dispatch and from JoinAgents.
ReleaseThreads ==
    /\ \/ Move("releasing", "free") /\ round' = round + 1
       \/ Move("opening", "reaping") /\ UNCHANGED round
    /\ Reopen
    /\ Wake
    /\ UNCHANGED <<pool, at, lstatus, dozing, ran>>

\* delete: JoinAgents sets _shut before it waits for idle.
Delete ==
    /\ user = "idle" \/ (user = "free" /\ round = 0)
    /\ user' = "joining"
    /\ shut' = TRUE
    /\ UNCHANGED <<barrier, fct, agents, dozing, round, ran>>

\* JoinAgents has waited for every agent.
Reaped ==
    /\ Move("reaping", "gone")
    /\ \A a \in Agents : at[a] = "gone"
    /\ UNCHANGED <<barrier, pool, agents, dozing, round, ran>>

------------------------------------------------------------------------------
Init ==
    /\ counter = 0 /\ status = TRUE /\ is_idle = FALSE
    /\ fct = 0 /\ shut = FALSE
    /\ at = [a \in Agents |-> "arriving"]
    /\ lstatus = [a \in Agents |-> FALSE]
    /\ asleep = {}
    /\ user = "free" /\ dozing = FALSE
    /\ round = 0
    /\ ran = [a \in Agents |-> [k \in 0 .. MaxTasks |-> 0]]

Agent(a) == Arrive(a) \/ Unpark(a) \/ ReadShut(a) \/ RunTask(a)

\* What the program does once it has called Dispatch, WaitForIdle or delete.
User == AwaitIdle \/ SetTask \/ ReleaseThreads \/ Reaped

Next ==
    \/ \E a \in Agents : Agent(a) \/ SpuriousWakeup(a)
    \/ User \/ StartDispatch \/ StartWait \/ Delete

Spec == Init /\ [][Next]_vars

\* Every agent's thread runs and tasks end; a call of the program goes on.
FairSpec == Spec /\ WF_vars(User) /\ \A a \in Agents : WF_vars(Agent(a))
------------------------------------------------------------------------------
\* Agent a has run the first n tasks, each once, and nothing else.
HasRun(a, n) == \A k \in 0 .. MaxTasks : ran[a][k] = IF k \in 1 .. n THEN 1 ELSE 0

\* WaitForIdle and Dispatch go on only when every agent has run every task once
\* and waits at the barrier again; no agent is still on its way in or out.
IdleMeansDone ==
    is_idle => \A a \in Agents :
                  HasRun(a, round) /\ at[a] = "parked" /\ lstatus[a] = status

\* The pool is a fork-join pool: no agent misses a task, runs one twice or runs
\* the next one early, although agents leave the barrier at their own pace
\* and read _fct without a lock.
FJ == INSTANCE ForkJoin

ImplementsForkJoin == FJ!Spec

\* A call of Dispatch or WaitForIdle returns, and so does delete, whose agents
\* all leave their loops.
CallsReturn ==
    /\ user \in {"dispatching", "waiting"} ~> user \in {"free", "idle"}
    /\ user = "joining" ~> user = "gone"
==============================================================================

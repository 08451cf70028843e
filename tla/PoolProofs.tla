------------------------------ MODULE PoolProofs ------------------------------
(***************************************************************************)
(* A pool is a fork-join pool, and whoever finds it idle finds every agent *)
(* done, whatever the number of agents and of tasks.                       *)
(***************************************************************************)
EXTENDS Pool, FiniteSetTheorems, TLAPS

\* The agents that have reached the barrier and were not let out again.
Inside == {a \in Agents : at[a] = "parked" /\ lstatus[a] = status}

\* An agent that ReleaseThreads has let out and that has not run the task yet.
LetOut(a) ==
    at[a] \in {"released", "calling"} \/ (at[a] = "parked" /\ lstatus[a] # status)

\* The barrier counts the agents in it, until all are.
CountMatches == counter = IF is_idle THEN 0 ELSE Cardinality(Inside)

\* Who was let out has still to run the last task, unless it is to leave;
\* everybody else has run it.
TasksMatch ==
    \A a \in Agents : IF LetOut(a) /\ ~shut THEN round > 0 /\ HasRun(a, round - 1)
                                          ELSE HasRun(a, round)

\* What a place of the program says about the pool.
ProgramMatches ==
    /\ fct = IF user = "releasing" THEN round + 1 ELSE round
    /\ user \in {"idle", "setting", "releasing", "opening"} => is_idle
    /\ user \in {"dispatching", "setting", "releasing"} => round < MaxTasks
    /\ shut <=> user \in {"joining", "opening", "reaping", "gone"}
    /\ shut => \A a \in Agents : at[a] # "calling"

\* The inductive invariant.
Inv == TypeOK /\ CountMatches /\ IdleMeansDone /\ TasksMatch /\ ProgramMatches

LEMMA AgentsCount == Cardinality(Agents) \in Nat /\ Cardinality(Agents) >= 1
BY PoolAssumption, FS_CardinalityType, FS_EmptySet

LEMMA InsideCount == Cardinality(Inside) \in Nat
BY PoolAssumption, FS_CardinalityType, FS_Subset DEF Inside

LEMMA InitInv == Init => Inv
<1> SUFFICES ASSUME Init PROVE Inv
  OBVIOUS
<1>1. TypeOK
  <2>1. counter \in 0 .. Cardinality(Agents) - 1 /\ 0 \in 0 .. MaxTasks
    BY PoolAssumption, AgentsCount DEF Init
  <2>2. /\ fct \in 0 .. MaxTasks /\ round \in 0 .. MaxTasks
        /\ ran \in [Agents -> [0 .. MaxTasks -> Nat]]
    BY <2>1 DEF Init
  <2>3. at \in [Agents -> AgentPlaces] /\ lstatus \in [Agents -> BOOLEAN]
    BY DEF Init, AgentPlaces
  <2> QED
    BY <2>1, <2>2, <2>3, Zenon DEF Init, TypeOK, UserPlaces
<1>2. CountMatches
  <2>1. Inside = {}
    BY DEF Init, Inside
  <2> QED
    BY <2>1, FS_EmptySet DEF Init, CountMatches
<1>3. IdleMeansDone /\ TasksMatch /\ ProgramMatches
  BY DEF Init, IdleMeansDone, TasksMatch, HasRun, ProgramMatches, LetOut
<1> QED
  BY <1>1, <1>2, <1>3 DEF Inv

\* The agent that arrives is one more in the barrier; the last one fills it.
LEMMA ArriveStep ==
    ASSUME Inv, NEW a \in Agents, Arrive(a)
    PROVE  Inv'
<1>1. ~is_idle /\ a \notin Inside
  BY DEF Inv, Arrive, IdleMeansDone, Inside
<1>2. Inside' = Inside \cup {a}
  BY DEF Inv, TypeOK, Arrive, Inside
<1>3. Cardinality(Inside') = counter + 1
  <2>1. IsFiniteSet(Inside)
    BY PoolAssumption, FS_Subset DEF Inside
  <2> QED
    BY <1>1, <1>2, <2>1, FS_AddElement DEF Inv, CountMatches
<1>4. counter + 1 = Cardinality(Agents) => Inside' = Agents
  <2>1. Inside' \in SUBSET Agents
    BY DEF Inside
  <2> QED
    BY <1>3, <2>1, PoolAssumption, FS_Subset
<1>5. TypeOK'
  <2>1. counter' \in 0 .. Cardinality(Agents) - 1
    BY AgentsCount DEF Inv, TypeOK, Arrive, Count
  <2>2. is_idle' \in BOOLEAN /\ dozing' \in BOOLEAN
    BY DEF Inv, TypeOK, Arrive, Count
  <2> QED
    BY <2>1, <2>2 DEF Inv, TypeOK, Arrive, AgentPlaces, pool
<1>6. CountMatches'
  BY <1>1, <1>3 DEF Inv, CountMatches, Arrive, Count
<1>7. TasksMatch'
  BY DEF Inv, TypeOK, TasksMatch, HasRun, LetOut, Arrive, pool
<1>8. IdleMeansDone'
  <2>1. is_idle' => Inside' = Agents
    BY <1>1, <1>4 DEF Arrive, Count
  <2>2. is_idle' => \A b \in Agents : at'[b] = "parked" /\ lstatus'[b] = status'
    BY <2>1 DEF Inside
  <2> QED
    BY <1>7, <2>2 DEF TasksMatch, LetOut, IdleMeansDone
<1>9. ProgramMatches'
  BY <1>1 DEF Inv, TypeOK, ProgramMatches, Arrive, Count, pool
<1> QED
  BY <1>5, <1>6, <1>7, <1>8, <1>9 DEF Inv

\* Steps that leave the barrier's members and the tasks as they are.
LEMMA BarrierSame ==
    ASSUME Inv, UNCHANGED <<barrier, at, lstatus, shut, round, ran>>
    PROVE  CountMatches' /\ IdleMeansDone' /\ TasksMatch'
<1>1. Inside' = Inside
  BY DEF Inside, barrier
<1> QED
  BY <1>1 DEF Inv, CountMatches, IdleMeansDone, TasksMatch, HasRun, LetOut, barrier

\* An agent that is not in the barrier moves, and does not enter it.
LEMMA InsideSame ==
    ASSUME Inv, NEW a \in Agents, a \notin Inside,
           NEW place \in AgentPlaces \ {"parked"},
           at' = [at EXCEPT ![a] = place], UNCHANGED <<barrier, lstatus>>
    PROVE  ~is_idle /\ CountMatches' /\ IdleMeansDone'
<1>1. ~is_idle
  BY DEF Inv, IdleMeansDone, Inside
<1>2. Inside' = Inside
  BY DEF Inv, TypeOK, Inside, barrier
<1> QED
  BY <1>1, <1>2 DEF Inv, CountMatches, IdleMeansDone, barrier

LEMMA AgentStep ==
    ASSUME Inv, NEW a \in Agents, Agent(a) \/ SpuriousWakeup(a)
    PROVE  Inv'
<1>1. CASE Arrive(a)
  BY <1>1, ArriveStep
<1>2. CASE Unpark(a)
  <2>1. TypeOK'
    BY <1>2 DEF Inv, TypeOK, Unpark, AgentPlaces, barrier, pool, program
  <2>2. CASE lstatus[a] = status
    <3>1. UNCHANGED <<barrier, at, lstatus, pool, user, round, ran>>
      BY <1>2, <2>2 DEF Unpark, program
    <3>2. CountMatches' /\ IdleMeansDone' /\ TasksMatch'
      BY <3>1, BarrierSame DEF pool
    <3>3. ProgramMatches'
      BY <3>1 DEF Inv, ProgramMatches, barrier, pool
    <3> QED
      BY <2>1, <3>2, <3>3 DEF Inv
  <2>3. CASE lstatus[a] # status
    <3>1. /\ at[a] = "parked" /\ a \notin Inside
          /\ at' = [at EXCEPT ![a] = "released"]
          /\ UNCHANGED <<barrier, lstatus, pool, user, round, ran>>
      BY <1>2, <2>3 DEF Unpark, Inside, program
    <3>2. CountMatches' /\ IdleMeansDone'
      BY <3>1, InsideSame DEF AgentPlaces
    <3>3. TasksMatch'
      BY <2>3, <3>1 DEF Inv, TypeOK, TasksMatch, HasRun, LetOut, barrier, pool
    <3>4. ProgramMatches'
      BY <3>1 DEF Inv, TypeOK, ProgramMatches, barrier, pool
    <3> QED
      BY <2>1, <3>2, <3>3, <3>4 DEF Inv
  <2> QED
    BY <2>2, <2>3
<1>3. CASE ReadShut(a)
  <2>1. TypeOK'
    BY <1>3 DEF Inv, TypeOK, ReadShut, AgentPlaces, barrier, pool, program
  <2>2. PICK place \in {"gone", "calling"} :
            /\ at' = [at EXCEPT ![a] = place] /\ place = (IF shut THEN "gone" ELSE "calling")
            /\ at[a] = "released" /\ a \notin Inside
            /\ UNCHANGED <<barrier, lstatus, pool, user, round, ran>>
    BY <1>3 DEF ReadShut, Inside, program
  <2>3. CountMatches' /\ IdleMeansDone'
    BY <2>2, InsideSame DEF AgentPlaces
  <2>4. TasksMatch'
    BY <2>2 DEF Inv, TypeOK, TasksMatch, HasRun, LetOut, barrier, pool
  <2>5. ProgramMatches'
    BY <2>2 DEF Inv, TypeOK, ProgramMatches, barrier, pool
  <2> QED
    BY <2>1, <2>3, <2>4, <2>5 DEF Inv
<1>4. CASE RunTask(a)
  <2>1. TypeOK'
    <3>1. ran' \in [Agents -> [0 .. MaxTasks -> Nat]]
      BY <1>4, PoolAssumption DEF Inv, TypeOK, RunTask
    <3> QED
      BY <1>4, <3>1 DEF Inv, TypeOK, RunTask, AgentPlaces, barrier, pool, program
  <2>2. /\ at[a] = "calling" /\ a \notin Inside
        /\ at' = [at EXCEPT ![a] = "arriving"]
        /\ ran' = [ran EXCEPT ![a] = [ran[a] EXCEPT ![fct] = ran[a][fct] + 1]]
        /\ UNCHANGED <<barrier, lstatus, pool, user, round>>
    BY <1>4 DEF RunTask, Inside, program
  <2>3. ~is_idle /\ CountMatches' /\ IdleMeansDone'
    <3>1. ~is_idle
      BY <2>2 DEF Inv, IdleMeansDone
    <3>2. Inside' = Inside
      BY <2>2 DEF Inv, TypeOK, Inside, barrier
    <3> QED
      BY <2>2, <3>1, <3>2 DEF Inv, CountMatches, IdleMeansDone, barrier
  <2>4. ~shut /\ fct = round
    BY <2>2, <2>3 DEF Inv, ProgramMatches
  <2>5. TasksMatch'
    <3>1. /\ round \in 0 .. MaxTasks /\ MaxTasks \in Nat /\ ran \in [Agents -> [0 .. MaxTasks -> Nat]]
          /\ at \in [Agents -> AgentPlaces]
      BY PoolAssumption DEF Inv, TypeOK
    <3>2. round > 0 /\ \A k \in 0 .. MaxTasks : ran[a][k] = IF k \in 1 .. round - 1 THEN 1 ELSE 0
      BY <2>2, <2>4 DEF Inv, TasksMatch, HasRun, LetOut
    <3>3. ran'[a] = [ran[a] EXCEPT ![round] = ran[a][round] + 1]
      BY <2>2, <2>4, <3>1
    <3>4. \A k \in 0 .. MaxTasks : ran'[a][k] = IF k \in 1 .. round THEN 1 ELSE 0
      BY <3>1, <3>2, <3>3
    <3>5. \A b \in Agents : b # a => ran'[b] = ran[b] /\ (LetOut(b)' <=> LetOut(b))
      BY <2>2, <3>1 DEF LetOut, barrier
    <3>6. ~LetOut(a)' /\ round' = round /\ shut' = shut
      BY <2>2, <3>1 DEF LetOut, pool
    <3>7. SUFFICES ASSUME NEW b \in Agents
                   PROVE  IF LetOut(b)' /\ ~shut' THEN round' > 0 /\ HasRun(b, round - 1)'
                                                  ELSE HasRun(b, round)'
      BY DEF TasksMatch, HasRun
    <3>8. CASE b = a
      BY <3>4, <3>6, <3>8 DEF HasRun
    <3>9. CASE b # a
      BY <3>5, <3>6, <3>9 DEF Inv, TasksMatch, HasRun
    <3> QED
      BY <3>8, <3>9
  <2>6. ProgramMatches'
    BY <2>2 DEF Inv, TypeOK, ProgramMatches, barrier, pool
  <2> QED
    BY <2>1, <2>3, <2>5, <2>6 DEF Inv
<1>5. CASE SpuriousWakeup(a)
  <2>1. UNCHANGED <<barrier, at, lstatus, pool, user, round, ran>>
    BY <1>5 DEF SpuriousWakeup, program
  <2>2. TypeOK'
    BY <1>5 DEF Inv, TypeOK, SpuriousWakeup, barrier, pool, program
  <2>3. CountMatches' /\ IdleMeansDone' /\ TasksMatch'
    BY <2>1, BarrierSame DEF pool
  <2>4. ProgramMatches'
    BY <2>1 DEF Inv, ProgramMatches, barrier, pool
  <2> QED
    BY <2>2, <2>3, <2>4 DEF Inv
<1> QED
  BY <1>1, <1>2, <1>3, <1>4, <1>5 DEF Agent

\* The barrier is opened when all agents are in it: it lets all of them out.
LEMMA ReleaseStep ==
    ASSUME Inv, ReleaseThreads
    PROVE  Inv'
<1>1. /\ user \in {"releasing", "opening"} /\ is_idle
      /\ status' = ~status /\ ~is_idle' /\ counter' = counter
      /\ UNCHANGED <<pool, at, lstatus, ran>>
  BY DEF Inv, ProgramMatches, ReleaseThreads, Move, Reopen
<1>2. \A a \in Agents : /\ at'[a] = "parked" /\ lstatus'[a] # status'
                        /\ \A k \in 0 .. MaxTasks : ran'[a][k] = IF k \in 1 .. round THEN 1 ELSE 0
  BY <1>1 DEF Inv, TypeOK, IdleMeansDone, HasRun
<1>3. TypeOK'
  BY <1>1 DEF Inv, TypeOK, ProgramMatches, ReleaseThreads, Move, Wake, Reopen, UserPlaces, pool
<1>4. CountMatches'
  <2>1. Inside' = {}
    BY <1>2 DEF Inside
  <2> QED
    BY <1>1, <2>1, FS_EmptySet DEF Inv, CountMatches
<1>5. TasksMatch'
  <2>1. round \in Nat /\ \A a \in Agents : LetOut(a)'
    BY <1>2 DEF Inv, TypeOK, LetOut
  <2>2. CASE user = "releasing" /\ round' = round + 1
    <3>1. \A a \in Agents : HasRun(a, round - 1)'
      BY <1>2, <2>1, <2>2 DEF HasRun
    <3> QED
      BY <2>1, <2>2, <3>1, <1>1 DEF Inv, ProgramMatches, TasksMatch, pool
  <2>3. CASE user = "opening" /\ round' = round
    <3>1. shut' /\ \A a \in Agents : HasRun(a, round)'
      BY <1>1, <1>2, <2>3 DEF Inv, ProgramMatches, HasRun, pool
    <3> QED
      BY <3>1 DEF TasksMatch
  <2> QED
    BY <2>2, <2>3 DEF ReleaseThreads, Move
<1>6. IdleMeansDone'
  BY <1>1 DEF IdleMeansDone
<1>7. ProgramMatches'
  BY <1>2 DEF Inv, TypeOK, ProgramMatches, ReleaseThreads, Move, Reopen, pool
<1> QED
  BY <1>3, <1>4, <1>5, <1>6, <1>7 DEF Inv

\* delete comes when the pool is idle or before its first task: no agent is
\* between the barrier and the task.
LEMMA DeleteStep ==
    ASSUME Inv, Delete
    PROVE  Inv'
<1>1. \A a \in Agents : ~LetOut(a) /\ HasRun(a, round)
  <2>1. CASE user = "idle"
    BY <2>1 DEF Inv, ProgramMatches, IdleMeansDone, LetOut
  <2>2. CASE round = 0
    BY <2>2 DEF Inv, TypeOK, ProgramMatches, TasksMatch, Delete
  <2> QED
    BY <2>1, <2>2 DEF Delete
<1>2. Inside' = Inside
  BY DEF Inside, Delete, barrier, agents
<1>3. TypeOK'
  BY DEF Inv, TypeOK, Delete, UserPlaces, barrier, agents
<1>4. CountMatches' /\ IdleMeansDone'
  BY <1>2 DEF Inv, CountMatches, IdleMeansDone, HasRun, Delete, barrier, agents
<1>5. TasksMatch'
  BY <1>1 DEF TasksMatch, HasRun, LetOut, Delete, barrier, agents
<1>6. ProgramMatches'
  BY <1>1 DEF Inv, ProgramMatches, LetOut, Delete, barrier, agents
<1> QED
  BY <1>3, <1>4, <1>5, <1>6 DEF Inv

LEMMA ProgramStep ==
    ASSUME Inv, User \/ StartDispatch \/ StartWait \/ Delete
    PROVE  Inv'
<1>1. CASE ReleaseThreads
  BY <1>1, ReleaseStep
<1>2. CASE Delete
  BY <1>2, DeleteStep
<1>3. CASE AwaitIdle \/ SetTask \/ Reaped \/ StartDispatch \/ StartWait
  <2>1. UNCHANGED <<barrier, at, lstatus, shut, round, ran>>
    BY <1>3 DEF AwaitIdle, SetTask, Reaped, StartDispatch, StartWait, pool, agents
  <2>2. CountMatches' /\ IdleMeansDone' /\ TasksMatch'
    BY <2>1, BarrierSame
  <2>3. TypeOK' /\ ProgramMatches'
    <3>1. CASE AwaitIdle
      BY <3>1 DEF Inv, TypeOK, ProgramMatches, AwaitIdle, Return, Move, UserPlaces,
                  barrier, pool, agents
    <3>2. CASE SetTask
      BY <3>2, PoolAssumption DEF Inv, TypeOK, ProgramMatches, SetTask, Move, UserPlaces,
                                  barrier, agents
    <3>3. CASE Reaped
      BY <3>3 DEF Inv, TypeOK, ProgramMatches, Reaped, Move, UserPlaces, barrier, pool, agents
    <3>4. CASE StartDispatch
      BY <3>4 DEF Inv, TypeOK, ProgramMatches, StartDispatch, UserPlaces, barrier, pool, agents
    <3>5. CASE StartWait
      BY <3>5 DEF Inv, TypeOK, ProgramMatches, StartWait, Move, UserPlaces, barrier, pool, agents
    <3> QED
      BY <1>3, <3>1, <3>2, <3>3, <3>4, <3>5
  <2> QED
    BY <2>2, <2>3 DEF Inv
<1> QED
  BY <1>1, <1>2, <1>3 DEF User

LEMMA InvStep == Inv /\ [Next]_vars => Inv'
<1> SUFFICES ASSUME Inv, [Next]_vars PROVE Inv'
  OBVIOUS
<1>1. CASE \E a \in Agents : Agent(a) \/ SpuriousWakeup(a)
  BY <1>1, AgentStep
<1>2. CASE User \/ StartDispatch \/ StartWait \/ Delete
  BY <1>2, ProgramStep
<1>3. CASE UNCHANGED vars
  <2>1. UNCHANGED <<barrier, at, lstatus, shut, round, ran>>
    BY <1>3 DEF vars, pool, agents, program
  <2>2. CountMatches' /\ IdleMeansDone' /\ TasksMatch'
    BY <2>1, BarrierSame
  <2>3. TypeOK'
    BY <1>3 DEF Inv, TypeOK, vars, barrier, pool, agents, program
  <2>4. ProgramMatches'
    BY <1>3 DEF Inv, ProgramMatches, vars, barrier, pool, agents, program
  <2> QED
    BY <2>2, <2>3, <2>4 DEF Inv
<1> QED
  BY <1>1, <1>2, <1>3 DEF Next

\* The variables keep their types; the counter never reaches the number of agents.
THEOREM TypeCorrect == Spec => []TypeOK
<1>1. Inv => TypeOK
  BY DEF Inv
<1> QED
  BY InitInv, InvStep, <1>1, PTL DEF Spec

\* WaitForIdle and Dispatch go on, and delete lets the agents go, only when
\* every agent has run the last task and is in the barrier again.
THEOREM IdleIsDone == Spec => []IdleMeansDone
<1>1. Inv => IdleMeansDone
  BY DEF Inv
<1> QED
  BY InitInv, InvStep, <1>1, PTL DEF Spec

\* An agent that runs a task runs the last one dispatched, which it has not run.
LEMMA FinishMaps ==
    ASSUME Inv, NEW a \in Agents, RunTask(a)
    PROVE  FJ!Finish(a)
<1>1. /\ at[a] = "calling" /\ round' = round
      /\ ran' = [ran EXCEPT ![a] = [ran[a] EXCEPT ![fct] = ran[a][fct] + 1]]
  BY DEF RunTask, program
<1>2. ~shut /\ user # "releasing"
  BY <1>1 DEF Inv, ProgramMatches, IdleMeansDone
<1>3. /\ fct = round /\ round \in 0 .. MaxTasks /\ MaxTasks \in Nat
      /\ ran \in [Agents -> [0 .. MaxTasks -> Nat]]
  BY <1>2, PoolAssumption DEF Inv, TypeOK, ProgramMatches
<1>4. round # 0 /\ ran[a][round] = 0
  BY <1>1, <1>2, <1>3 DEF Inv, TasksMatch, HasRun, LetOut
<1>5. ran' = [ran EXCEPT ![a] = [ran[a] EXCEPT ![round] = 1]]
  BY <1>1, <1>3, <1>4
<1> QED
  BY <1>1, <1>4, <1>5 DEF FJ!Finish

\* A task is dispatched when every agent has run the one before it.
LEMMA ForkMaps ==
    ASSUME Inv, ReleaseThreads, round' = round + 1
    PROVE  FJ!Fork
<1>1. user = "releasing" /\ UNCHANGED ran
  BY DEF Inv, TypeOK, ReleaseThreads, Move
<1>2. is_idle /\ round < MaxTasks
  BY <1>1 DEF Inv, ProgramMatches
<1>3. round # 0 => \A a \in Agents : ran[a][round] = 1
  BY <1>2 DEF Inv, TypeOK, IdleMeansDone, HasRun
<1> QED
  BY <1>1, <1>2, <1>3 DEF FJ!Fork

LEMMA StepMaps == Inv /\ [Next]_vars => [FJ!Next]_<<round, ran>>
<1> SUFFICES ASSUME Inv, [Next]_vars PROVE [FJ!Next]_<<round, ran>>
  OBVIOUS
<1>1. CASE \E a \in Agents : RunTask(a)
  BY <1>1, FinishMaps DEF FJ!Next
<1>2. CASE ReleaseThreads
  <2>1. CASE round' = round
    BY <1>2, <2>1 DEF ReleaseThreads
  <2>2. CASE round' = round + 1
    BY <1>2, <2>2, ForkMaps DEF FJ!Next
  <2> QED
    BY <1>2, <2>1, <2>2 DEF ReleaseThreads
<1>3. CASE UNCHANGED <<round, ran>>
  BY <1>3
<1> QED
  BY <1>1, <1>2, <1>3 DEF Next, Agent, User, Arrive, Unpark, ReadShut, SpuriousWakeup,
       AwaitIdle, SetTask, Reaped, StartDispatch, StartWait, Delete, vars, program

\* The pool implements the abstract fork-join pool: every agent runs every task
\* exactly once, although agents leave the barrier at their own pace.
THEOREM PoolForksAndJoins == Spec => ImplementsForkJoin
<1>1. Init => FJ!Init
  BY DEF Init, FJ!Init
<1> QED
  BY InitInv, InvStep, StepMaps, <1>1, PTL DEF Spec, ImplementsForkJoin, FJ!Spec
===============================================================================

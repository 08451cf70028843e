------------------------------- MODULE ForkJoin -------------------------------
(***************************************************************************)
(* What a pool of agents promises to the program that dispatches tasks to  *)
(* it: every agent runs every task once, in the order of dispatch, and a   *)
(* task is dispatched only when every agent has finished the one before    *)
(* it.  The runs are counted, so that a task that is run again, too early  *)
(* or before there is any is not a step of this module.                    *)
(***************************************************************************)
EXTENDS Naturals

CONSTANTS Agents, MaxTasks

VARIABLES round,  \* tasks dispatched so far
          ran     \* how often each agent has run each task

Init ==
    /\ round = 0
    /\ ran = [a \in Agents |-> [k \in 0 .. MaxTasks |-> 0]]

Fork ==
    /\ round < MaxTasks
    /\ round # 0 => \A a \in Agents : ran[a][round] = 1
    /\ round' = round + 1
    /\ UNCHANGED ran

Finish(a) ==
    /\ round # 0 /\ ran[a][round] = 0
    /\ ran' = [ran EXCEPT ![a][round] = 1]
    /\ UNCHANGED round

Next == Fork \/ \E a \in Agents : Finish(a)

Spec == Init /\ [][Next]_<<round, ran>>
==============================================================================

-------------------------------- MODULE Session --------------------------------
(***************************************************************************)
(* What starting and stopping promises to the pods of an application.  A   *)
(* context is the pods that one launch started.  Nobody works before the   *)
(* whole context has entered; all of a context work in one closure; the    *)
(* context rests together; and nobody stops while a pod that entered has   *)
(* not rested with its context.  A pod may die while it starts.            *)
(***************************************************************************)
CONSTANTS Pods, Context, Spawner, None

VARIABLES stage,   \* how far each pod is
          closure  \* the closure that each pod works in, named after its creator

Stages == {"out", "in", "working", "resting", "rested", "stopped", "dead"}

Mates(p) == {q \in Pods : Context[q] = Context[p]}

Goto(p, s) == stage' = [stage EXCEPT ![p] = s]

Init == stage = [p \in Pods |-> "out"] /\ closure = [p \in Pods |-> None]

Enter(p) ==
    /\ stage[p] = "out"
    /\ Spawner[Context[p]] # None => stage[Spawner[Context[p]]] = "working"
    /\ Goto(p, "in")
    /\ UNCHANGED closure

Work(p) ==
    /\ stage[p] = "in"
    /\ \A q \in Mates(p) : stage[q] # "out"
    /\ \E c \in Mates(p) :
          /\ \A q \in Mates(p) : closure[q] \in {None, c}
          /\ closure' = [closure EXCEPT ![p] = c]
    /\ Goto(p, "working")

Rest(p) == stage[p] = "working" /\ Goto(p, "resting") /\ UNCHANGED closure

RestTogether(p) ==
    /\ stage[p] = "resting"
    /\ \A q \in Mates(p) : stage[q] \notin {"out", "in", "working"}
    /\ Goto(p, "rested")
    /\ UNCHANGED closure

Stop(p) ==
    /\ stage[p] = "rested"
    /\ \A q \in Pods : stage[q] \notin {"in", "working", "resting"}
    /\ Goto(p, "stopped")
    /\ UNCHANGED closure

Die(p) == stage[p] = "in" /\ Goto(p, "dead") /\ UNCHANGED closure

Next == \E p \in Pods :
            Enter(p) \/ Work(p) \/ Rest(p) \/ RestTogether(p) \/ Stop(p) \/ Die(p)

Spec == Init /\ [][Next]_<<stage, closure>>
==============================================================================

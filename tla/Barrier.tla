------------------------------- MODULE Barrier -------------------------------
(***************************************************************************)
(* What a static group promises to its members: nobody leaves an operation *)
(* of the group before every member has entered it.                        *)
(***************************************************************************)
EXTENDS Naturals

CONSTANT Members

VARIABLES entered,  \* entered[m]: operations of the group that m has entered
          left      \* left[m]: those it has left

Init == entered = [m \in Members |-> 0] /\ left = [m \in Members |-> 0]

Enter(m) ==
    /\ entered[m] = left[m]
    /\ entered' = [entered EXCEPT ![m] = @ + 1]
    /\ UNCHANGED left

Leave(m) ==
    /\ left[m] < entered[m]
    /\ \A n \in Members : entered[n] >= entered[m]
    /\ left' = [left EXCEPT ![m] = entered[m]]
    /\ UNCHANGED entered

Next == \E m \in Members : Enter(m) \/ Leave(m)

Spec == Init /\ [][Next]_<<entered, left>>
==============================================================================

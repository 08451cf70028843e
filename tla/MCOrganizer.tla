----------------------------- MODULE MCOrganizer -----------------------------
EXTENDS Organizer

CONSTANTS p1, p2, p3, a

MCNames == {a}

MCCalls ==
    [p \in Pods |->
        CASE p = p1 -> {[op |-> "Join", name |-> a], [op |-> "Leave"]}
          [] p = p2 -> {[op |-> "Join", name |-> a], [op |-> "Join", name |-> Unnamed]}
          [] p = p3 -> {[op |-> "Join", name |-> Unnamed],
                        [op |-> "Find", by |-> "idm", key |-> 1]}]
==============================================================================

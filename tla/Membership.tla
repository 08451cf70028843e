------------------------------ MODULE Membership ------------------------------
(***************************************************************************)
(* What an organizer promises, wherever its replicas are: one table of     *)
(* members, in which every member has a rank (idm_t) that nobody has had   *)
(* before and nobody gets after it, and a name; no member asks for a name  *)
(* that is taken.  Of a closure, all of whose members join it once, its    *)
(* parent is told once, when all have joined.                              *)
(***************************************************************************)
EXTENDS Naturals, FiniteSets

CONSTANTS Idps, Names, Unnamed

VARIABLES members,  \* the members: their idp, their rank and their name
          next,     \* the rank of the next one
          told      \* how often the parent was told

Init == members = {} /\ next = 0 /\ told = 0

Join(idp, name) ==
    /\ \A m \in members : m.idp # idp /\ m.name # name
    /\ members' = members \cup
          {[idp |-> idp, idm |-> next, name |-> IF name = Unnamed THEN idp ELSE name]}
    /\ next' = next + 1
    /\ UNCHANGED told

Leave(idp) ==
    /\ members' = {m \in members : m.idp # idp}
    /\ UNCHANGED <<next, told>>

Tell ==
    /\ told = 0 /\ next = Cardinality(Idps)
    /\ told' = 1
    /\ UNCHANGED <<members, next>>

Next ==
    \/ \E idp \in Idps : Leave(idp) \/ \E name \in Names \cup {Unnamed} : Join(idp, name)
    \/ Tell

Spec == Init /\ [][Next]_<<members, next, told>>
==============================================================================

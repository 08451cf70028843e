------------------------------ MODULE WriteToken ------------------------------
(***************************************************************************)
(* What the consistency objects of a resource promise about writing it,    *)
(* whatever happens to their messages: there is one token, at one pod or   *)
(* on its way to one, and a thread writes only while the token is at its   *)
(* own pod; the token does not leave a pod that writes.                    *)
(***************************************************************************)
CONSTANTS Pods, Threads, Home, Owner

VARIABLES holders,  \* {p} while p has the token, {} while it travels
          busy      \* the threads that write

Init == holders = {Owner} /\ busy = {}

Give ==
    /\ holders # {}
    /\ \A t \in busy : Home[t] \notin holders
    /\ holders' = {}
    /\ UNCHANGED busy

Take(p) ==
    /\ holders = {}
    /\ holders' = {p}
    /\ UNCHANGED busy

StartWriting(t) ==
    /\ t \notin busy
    /\ Home[t] \in holders
    /\ busy' = busy \cup {t}
    /\ UNCHANGED holders

StopWriting(t) ==
    /\ t \in busy
    /\ busy' = busy \ {t}
    /\ UNCHANGED holders

Next ==
    \/ Give
    \/ \E p \in Pods : Take(p)
    \/ \E t \in Threads : StartWriting(t) \/ StopWriting(t)

Spec == Init /\ [][Next]_<<holders, busy>>
==============================================================================

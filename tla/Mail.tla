-------------------------------- MODULE Mail --------------------------------
(***************************************************************************)
(* What the mailers promise about the messages of one agent to another: a  *)
(* posted message may be lost before it arrives, but what arrives was      *)
(* posted, arrives once and in the order in which it was posted; what has  *)
(* arrived stays until it is received, oldest first.                       *)
(***************************************************************************)
EXTENDS Naturals, Sequences

CONSTANTS Senders, Boxes, Messages

VARIABLES posted,  \* posted[s][b]: messages of s to b on their way
          arrived  \* arrived[s][b]: messages of s that b has to receive

Nothing == [s \in Senders |-> [b \in Boxes |-> <<>>]]

Init == posted = Nothing /\ arrived = Nothing

Post(s, b) ==
    /\ \E m \in Messages : posted' = [posted EXCEPT ![s][b] = Append(@, m)]
    /\ UNCHANGED arrived

Lose(s, b) ==
    /\ \E i \in DOMAIN posted[s][b] :
          posted' = [posted EXCEPT ![s][b] = SubSeq(@, 1, i - 1) \o SubSeq(@, i + 1, Len(@))]
    /\ UNCHANGED arrived

Arrive(s, b) ==
    /\ posted[s][b] # <<>>
    /\ posted' = [posted EXCEPT ![s][b] = Tail(@)]
    /\ arrived' = [arrived EXCEPT ![s][b] = Append(@, Head(posted[s][b]))]

Receive(s, b) ==
    /\ arrived[s][b] # <<>>
    /\ arrived' = [arrived EXCEPT ![s][b] = Tail(@)]
    /\ UNCHANGED posted

Next == \E s \in Senders, b \in Boxes :
            Post(s, b) \/ Lose(s, b) \/ Arrive(s, b) \/ Receive(s, b)

Spec == Init /\ [][Next]_<<posted, arrived>>
==============================================================================

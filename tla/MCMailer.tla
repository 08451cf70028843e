------------------------------ MODULE MCMailer ------------------------------
EXTENDS Mailer

CONSTANTS s1, s2, b1, b2, r1, r2

MCMaxSent == [s \in {s1, s2} |-> IF s = s1 THEN 2 ELSE 1]

\* r1 takes what comes (ReceiveMessage(idp)); r2 waits for s1.
MCBox   == [r \in {r1, r2} |-> b1]
MCWants == [r \in {r1, r2} |-> IF r = r1 THEN {s1, s2} ELSE {s1}]
==============================================================================

----------------------------- MODULE MCLifecycle -----------------------------
EXTENDS Lifecycle, TLC

CONSTANTS a1, a2, b1, c1

\* A context of two pods, one of which may spawn a context.
MCContext == (a1 :> "A") @@ (a2 :> "A") @@ (b1 :> "B")

MCSpawner == [A |-> None, B |-> a1]

\* tests/test_spawn.cpp:16-19: a pod that may spawn two contexts of one pod.
TwoSpawnsContext == (a1 :> "A") @@ (b1 :> "B") @@ (c1 :> "C")

TwoSpawnsSpawner == [A |-> None, B |-> a1, C |-> a1]
==============================================================================

------------------------- MODULE MCResourceManager -------------------------
EXTENDS ResourceManager, TLC

CONSTANTS a, b, a1, a2, b1, b2, x

MCHome == (a1 :> a) @@ (a2 :> a) @@ (b1 :> b) @@ (b2 :> b)

Call(op, r) == [op |-> op, rsc |-> r]

\* Pod b starts while a searches x; two threads of b refer to x.
MCProgram ==
    (a1 :> <<Call("allocate", Meta), Call("allocate", x)>>)
    @@ (a2 :> <<Call("search", x)>>)
    @@ (b1 :> <<Call("replica", Meta), Call("reference", x), Call("predecessor", x)>>)
    @@ (b2 :> <<Call("reference", x)>>)
=============================================================================

---------------------------- MODULE MCPageManager ----------------------------
EXTENDS PageManager, TLC

CONSTANTS m, b, c, m1, b1, b2, c1

\* The main pod has one thread, b two and c one.
MCHome == (m1 :> m) @@ (b1 :> b) @@ (b2 :> b) @@ (c1 :> c)

\* With pages of two ids: the main pod needs a second page, the others need
\* all of their first one.
OnePageEach == (m1 :> 3) @@ (b1 :> 1) @@ (b2 :> 1) @@ (c1 :> 2)

\* Pod c needs a second page.
TwoPages == (m1 :> 1) @@ (b1 :> 1) @@ (b2 :> 1) @@ (c1 :> 3)
==============================================================================

--------------------------- MODULE MCConsistency ---------------------------
(* Small instances of ConsistencyObject: three pods, a the owner, and the   *)
(* threads named after the pod they run in.                                 *)
EXTENDS ConsistencyObject, TLC

CONSTANTS a, b, c, a1, b1, b2, c1

HomeTwoPods   == (a1 :> a) @@ (b1 :> b) @@ (b2 :> b)
HomeThreePods == (b1 :> b) @@ (c1 :> c)
HomeSamePod   == (b1 :> b) @@ (b2 :> b)
=============================================================================

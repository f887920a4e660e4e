---------------------------- MODULE MCRoutePlan ----------------------------
(* A small graph for RoutePlan: the trade is from a to b, s is a seed hub,  *)
(* x and y are ordinary mints, and d is a dead end.                         *)
EXTENDS RoutePlan, TLC

CONSTANTS a, b, s, x, y, d, ad, ax, ay, as, xs, sy, yb, sb

Quotes ==
    [p \in Pools |->
        (ad :> a @@ ax :> a @@ ay :> y @@ as :> s @@ xs :> s @@ sy :> s
            @@ yb :> y @@ sb :> s)[p]]

Bases ==
    [p \in Pools |->
        (ad :> d @@ ax :> x @@ ay :> a @@ as :> a @@ xs :> x @@ sy :> y
            @@ yb :> b @@ sb :> b)[p]]

Depths ==
    [p \in Pools |->
        (ax :> 2 @@ yb :> NoFinancials @@ [q \in Pools |-> 1])[p]]

AToB == {<<a, b>>}
=============================================================================

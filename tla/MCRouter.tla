------------------------------ MODULE MCRouter ------------------------------
(* A small market for Router: from a to b directly, through the seed hub s  *)
(* (two pools on each leg), and through the ordinary mint x; s and x are     *)
(* joined for routes of three hops.                                         *)
EXTENDS Router, ConstantProduct, TLC

CONSTANTS a, b, s, x, ab, as1, as2, sb1, sb2, ax, xb, sx

QuoteOf == ab :> a @@ as1 :> s @@ as2 :> s @@ sb1 :> s @@ sb2 :> s @@ ax :> a @@ xb :> x @@ sx :> s
BaseOf == ab :> b @@ as1 :> a @@ as2 :> a @@ sb1 :> b @@ sb2 :> b @@ ax :> x @@ xb :> b @@ sx :> x
Quotes == [p \in Pools |-> QuoteOf[p]]
Bases == [p \in Pools |-> BaseOf[p]]

\* as1 is the deepest pool of its pair by the cache file.
Depths == [p \in Pools |-> IF p \in {as1, sb1} THEN 2 ELSE 1]

Built(ps) ==
    [k \in 1 .. 2 * Len(ps) |->
        LET p == ps[(k + 1) \div 2]
        IN  [mint |-> IF k % 2 = 1 THEN Quotes[p] ELSE Bases[p],
             other |-> IF k % 2 = 1 THEN Bases[p] ELSE Quotes[p],
             pool |-> p]]

Markets == {Built(<<ab, as1, as2, sb1, sb2, ax, xb, sx>>)}

Low == 200
High == 4000

AllAccounts == [data : BOOLEAN, quote : {0, Low, High}, base : {Low, High}]

Balanced == [data |-> TRUE, quote |-> Low, base |-> Low]

Deep == [data |-> TRUE, quote |-> High, base |-> High]

\* Neither the account nor the quote vault is stored yet.
Unknown == [data |-> FALSE, quote |-> 0, base |-> Low]

\* as1 may be unknown, and as2 mispriced: it gives too much s for a.
Starts ==
    {[p \in Pools |->
        CASE p = as1 -> acc1
          [] p = as2 -> acc2
          [] p \in {ab, sb1} -> Balanced
          [] OTHER -> Deep] :
        acc1 \in {Balanced, Unknown}, acc2 \in {Balanced, [Balanced EXCEPT !.quote = High]}}

AllFlags == {Pools, Pools \ {as1}, Pools \ {sx}}

MarketOutput(p, from, n, account) ==
    AmmV4Output(from = Quotes[p], n, account, Balanced, 30)

AToB == {<<a, b>>, <<a, a>>}
=============================================================================

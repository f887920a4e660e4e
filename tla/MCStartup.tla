----------------------------- MODULE MCStartup -----------------------------
(* Two Raydium CLMM pools of which one is among the richest, a Meteora DAMM *)
(* V1 pool and a bonding curve: what a phase of the cold start takes from   *)
(* an earlier one, a DEX that is loaded in part, and a curve in the cache.  *)
EXTENDS Startup, TLC

CONSTANTS c1, c2, d1, x1

MCDex == (c1 :> "Raydium CLMM") @@ (c2 :> "Raydium CLMM")
         @@ (d1 :> "Meteora DAMM V1") @@ (x1 :> "Pumpfun BC")
MCWealth == (c1 :> 1) @@ (c2 :> 2)
=============================================================================

------------------------------- MODULE Quotes -------------------------------
(***************************************************************************)
(* One quote after another, of whichever market was asked: a walk over     *)
(* tick arrays (TickWalk), a walk over bin arrays (BinWalk), or a curve    *)
(* (Curves).  calculate_output_live_ex is a method of the market, so the   *)
(* three share no state, and what was not asked stays where it started.    *)
(***************************************************************************)
EXTENDS TickWalk, BinWalk, Curves

VARIABLE asked

quotes_vars == <<asked, tick_vars, bin_vars, curve_vars>>

\* Where what was not asked stands.
APool == CHOOSE p \in Pools : TRUE
AStore == CHOOSE s \in StoredArrays : TRUE
APair == CHOOSE p \in Pairs : TRUE
ABinStore == CHOOSE s \in BinStores : TRUE
AMarket == CHOOSE m \in Markets : TRUE

TickParked ==
    pool = APool /\ zero_for_one = TRUE /\ amount_in = Max(Amounts) /\ stored = AStore /\ TickInit

BinParked ==
    pair = APair /\ swap_for_y = TRUE /\ bin_amount = Max(BinAmounts) /\ bin_store = ABinStore /\ BinInit

CurveParked == market = AMarket /\ CurveInit

QuotesInit ==
    \/ asked = "ticks" /\ TickInit /\ BinParked /\ CurveParked
    \/ asked = "bins" /\ BinInit /\ TickParked /\ CurveParked
    \/ asked = "curve" /\ CurveInit /\ TickParked /\ BinParked

AskTicks == asked = "ticks" /\ TickNext /\ UNCHANGED <<asked, bin_vars, curve_vars>>
AskBins == asked = "bins" /\ BinNext /\ UNCHANGED <<asked, tick_vars, curve_vars>>
AskCurve == asked = "curve" /\ CurveNext /\ UNCHANGED <<asked, tick_vars, bin_vars>>

QuotesNext == AskTicks \/ AskBins \/ AskCurve

QuotesSpec == QuotesInit /\ [][QuotesNext]_quotes_vars

-----------------------------------------------------------------------------

\* A quote is never better than the price it starts from: the tick walk of
\* Raydium CLMM, the bin walk of Meteora DLMM and the single-price quotes (see
\* the three modules).
QuotesAreFair == WorseThanSpot /\ WorseThanActiveBin /\ WorseThanRawPrice
=============================================================================

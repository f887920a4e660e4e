------------------------------ MODULE MCQuotes ------------------------------
(* Small pools, pairs and markets for Quotes. *)
EXTENDS Quotes, TLC

(* Tick pools: arrays of two ticks of spacing 2, prices that grow by about a *)
(* tenth per tick, Q = 64.                                                   *)
LowestTick == -8
LowestBin == -7

Prices == [t \in LowestTick .. 8 |->
    <<30, 33, 36, 40, 44, 48, 53, 58, 64, 70, 77, 85, 94, 103, 113, 125, 137>>[t + 9]]

\* Positions of liquidity l in [low, high)
Active(positions) ==
    [t \in -9 .. 8 |-> SumFunction([p \in {q \in positions : q[1] <= t /\ t < q[2]} |-> p[3]])]

Marks(positions) == {p[1] : p \in positions} \cup {p[2] : p \in positions}

Profile(positions, extra) ==
    [ticks |-> Marks(positions), active |-> Active(positions),
     bitmap |-> ({ArrayOf(t) : t \in Marks(positions)} \cup extra) \cap InPool,
     extension |-> {ArrayOf(t) : t \in Marks(positions)} \ InPool]

Profiles ==
    {Profile({<<-6, 6, 9>>, <<-2, 2, 30>>}, {}),      \* overlapping
     Profile({<<-6, -2, 20>>, <<2, 6, 20>>}, {0}),    \* a gap, and a bit of an empty array
     Profile({<<-8, 0, 15>>, <<0, 4, 15>>}, {}),      \* a tick with no net change
     Profile({<<-4, 2, 25>>}, {1}),
     Profile({<<-8, 6, 25>>}, {0})}                   \* the first array ahead is empty

\* A state of a pool: its tick, and a price in that tick or at its top, which
\* is where crossing downwards leaves it.
PoolAt(profile, t, at, cached_tick) ==
    [ticks |-> profile.ticks, active |-> profile.active, bitmap |-> profile.bitmap,
     extension |-> profile.extension, tick |-> t, price |-> at,
     cached |-> [tick |-> cached_tick, bitmap |-> profile.bitmap, extension |-> profile.extension]]

SomePools ==
    UNION {{PoolAt(profile, t, Prices[t], 0), PoolAt(profile, t, Prices[t + 1], 0)} :
            profile \in Profiles, t \in -7 .. 5}

SomeStored == {{-2, -1, 0, 1}, {-2, 0, 1}, {-1}}

(* Bin pairs: arrays of three bins, a price that grows from bin to bin. *)
BinPrices == [b \in LowestBin .. 7 |-> <<34, 38, 41, 44, 48, 53, 58, 64, 70, 77, 85, 94, 103, 113, 125>>[b + 8]]

Bin(x, y, processed, open, ask) ==
    [x |-> x, y |-> y, processed |-> processed, open |-> open, ask |-> ask]

\* y up to the active bin, x from it on, and limit orders on either side
Filled(active, holes) ==
    [b \in -7 .. 7 |->
        IF b \in holes THEN Bin(0, 0, 0, 0, FALSE)
        ELSE Bin(IF b >= active THEN 5 + (b % 3) ELSE 0, IF b <= active THEN 7 - (b % 3) ELSE 0,
                 b % 2, (b % 3), b > active)]

Pair(active, holes, orders, only_y, control) ==
    [active_id |-> active, bins |-> Filled(active, holes),
     bitmap |-> {BinArrayOf(b) : b \in -7 .. 7 \ holes} \cap (-2 .. 1),
     limit_orders |-> orders, collect_only_y |-> only_y,
     base_fee |-> 2, variable_fee_control |-> control, bin_step |-> 1, max_volatility |-> 30,
     volatility_reference |-> 5, index_reference |-> active - 1, slot |-> 50, disabled |-> FALSE]

SomePairs ==
    {Pair(active, holes, orders, only_y, control) :
        active \in {-3, 0, 1, 2}, holes \in {{}, {-3, -2, -1}, {1, 3, 4, 5}},
        orders \in BOOLEAN, only_y \in BOOLEAN, control \in {0, 5}}

EveryArray == [a \in -3 .. 2 |-> 50]

SomeBinStores ==
    {EveryArray, [a \in {-1, 0} |-> 0], [a \in -2 .. 1 |-> 40 - a], <<>>}

(* Markets with a curve. *)
Vault(n) == [total |-> n, locked |-> n \div 10, degradation |-> 1, last_report |-> 0,
             supply |-> n - 7, lp |-> n \div 2, liquid |-> n \div 2]

Damm(amp, flipped, depeg) ==
    [venue |-> "Meteora DAMM V1", enabled |-> TRUE, amp |-> amp, flipped |-> flipped, now |-> 4,
     a |-> Vault(103), b |-> Vault(57), trade_fee |-> [numerator |-> 1, denominator |-> 50],
     protocol_fee |-> [numerator |-> 1, denominator |-> 5], multiplier_a |-> 1,
     multiplier_b |-> 2, depeg |-> depeg, virtual_price |-> 3, outside |-> 100]

Dbc(mode, in_quote) ==
    [venue |-> "Meteora DBC", migrated |-> FALSE, migration_price |-> 160,
     migration_threshold |-> 300, start_price |-> 64, sqrt_price |-> 64,
     quote_reserve |-> 0, base_reserve |-> 400,
     curve |-> <<[price |-> 96, liquidity |-> 25600], [price |-> 128, liquidity |-> 14400],
                 [price |-> 192, liquidity |-> 38400]>>,
     fee_in_quote |-> in_quote, current_point |-> 9, activation_point |-> 3,
     fee |-> [mode |-> mode, cliff |-> 40, frequency |-> 2, periods |-> 2,
              reduction |-> IF mode = "linear" THEN 15 ELSE 2500],
     volatility |-> 2, bin_step |-> 1, variable_fee_control |-> 30, outside |-> 0]

Spot(venue, flipped, decimals_a) ==
    [venue |-> venue, flipped |-> flipped, price |-> [b |-> 3, a |-> 2],
     decimals_a |-> decimals_a, decimals_b |-> 0, a |-> 150, b |-> 250,
     fee_bps |-> 25, outside |-> 300]

SomeMarkets ==
    {[venue |-> "Raydium AMM V4", quote |-> 300, base |-> 500, fee_bps |-> 25, outside |-> 300],
     [venue |-> "Pumpfun AMM", virtual_sol |-> 30, virtual_token |-> 3000, outside |-> 300],
     [venue |-> "Bonk", migrated |-> FALSE, virtual_base |-> 1000, virtual_quote |-> 300,
      real_base |-> 0, real_quote |-> 0, outside |-> 0]} \cup
    {[venue |-> "Pumpfun BC", complete |-> FALSE, creator |-> creator, virtual_sol |-> 300,
      virtual_token |-> 1000, real_sol |-> 0, real_token |-> 700, outside |-> 0] :
        creator \in BOOLEAN} \cup
    {[venue |-> "Meteora DAMM V1 offline", amp |-> amp, flipped |-> flipped, a |-> 150,
      b |-> 300, fee_bps |-> 25, outside |-> 300] : amp \in {0, 200}, flipped \in BOOLEAN} \cup
    {Damm(amp, flipped, depeg) : amp \in {0, 5}, flipped \in BOOLEAN, depeg \in BOOLEAN} \cup
    {Dbc(mode, in_quote) : mode \in {"linear", "exponential", "limiter"}, in_quote \in BOOLEAN} \cup
    {Spot(venue, flipped, 0) : venue \in SpotVenues, flipped \in BOOLEAN} \cup
    {Spot("Meteora DAMM V2", flipped, 1) : flipped \in BOOLEAN}
=============================================================================

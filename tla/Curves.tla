------------------------------- MODULE Curves -------------------------------
(***************************************************************************)
(* Quotes that need no walk over tick or bin arrays: the bonding curves    *)
(* (pumpfun-amm, bonk, meteora-dbc), the constant-product pools, the exact *)
(* quote of Meteora DAMM V1 over dynamic vaults (meteora-damm/quote.rs),   *)
(* and the single-price approximations of the concentrated pools.          *)
(*                                                                         *)
(* An operator per venue gives, for a market and a trade, the quoted       *)
(* output and what the market is after the program has executed the trade. *)
(* The second half is external: what each program books, as far as the     *)
(* quote reads it back.  A trader then trades at the quoted outputs.       *)
(* No quote, an error and a zero output are all 0, as for the router.      *)
(***************************************************************************)
EXTENDS ConstantProduct, Rounding, Sequences, FiniteSetsExt, Functions

CONSTANTS
    CurveQ,           \* 2^64 of the dynamic bonding curve
    DbcFeeUnit,       \* FEE_DENOMINATOR
    DbcMaxFee,        \* MAX_FEE_NUMERATOR
    DbcVolatilityUnit,  \* 100_000_000_000
    DegradationUnit,  \* LOCKED_PROFIT_DEGRADATION_DENOMINATOR
    DepegPrecision,   \* DEPEG_PRECISION
    NewtonRounds,     \* the 256 rounds of compute_d and compute_y
    Markets,          \* bound: markets traded
    TradeAmounts, MaxTrades   \* bounds on the trading

VARIABLES
    market,      \* the market's account, with .venue and what is .outside of it
    net_quote, net_base,   \* what the trader is up or down
    trades

curve_vars == <<market, net_quote, net_base, trades>>

NoQuote(m) == [out |-> 0, market |-> m]

Quoted(out, m) == [out |-> out, market |-> m]

-----------------------------------------------------------------------------
(* Constant product and bonding curves.                                    *)

\* Raydium AMM V4, and a constant-product DAMM pool without vault accounts
PoolQuote(m, buy, amount) ==
    LET out == AmmV4Output(buy, amount, [data |-> TRUE, quote |-> m.quote, base |-> m.base], m, m.fee_bps)
    IN  Quoted(out, IF buy THEN [m EXCEPT !.quote = @ + amount, !.base = @ - out]
                    ELSE [m EXCEPT !.base = @ + amount, !.quote = @ - out])

\* calculate_bonding_curve_output of a PumpSwap pool: the curve is the one the
\* pool was loaded with, whatever the live accounts say.
PumpSwapQuote(m, buy, amount) ==
    LET net == (amount * 9900) \div 10000
        k == m.virtual_sol * m.virtual_token
        out == IF buy THEN m.virtual_token - k \div (m.virtual_sol + net)
               ELSE m.virtual_sol - k \div (m.virtual_token + net)
    IN  IF k = 0 THEN NoQuote(m) ELSE Quoted(out, m)

\* bc_total_fee_bps: PUMPFUN_BC_FEE_BASIS_POINTS, PUMPFUN_BC_CREATOR_FEE
BcFee(m) == 95 + (IF m.creator THEN 30 ELSE 0)

\* bc_buy_tokens_out, bc_sell_sol_out with bc_compute_fee
BondingCurveQuote(m, buy, amount) ==
    LET input == (amount * 10000) \div (BcFee(m) + 10000)
        tokens == Min({(input * m.virtual_token) \div (m.virtual_sol + input), m.real_token})
        cost == (amount * m.virtual_sol) \div (m.virtual_token + amount)
        moved(sol, token) ==
            [m EXCEPT !.virtual_sol = @ + sol, !.real_sol = @ + sol,
                      !.virtual_token = @ + token, !.real_token = @ + token]
    IN  IF m.complete \/ m.virtual_token = 0 THEN NoQuote(m)
        ELSE IF buy THEN Quoted(tokens, moved(input, -tokens))
        ELSE Quoted(cost - CeilDiv(cost * BcFee(m), 10000), moved(-cost, amount))

\* total_fee of LaunchLab: PROTOCOL_FEE_RATE, PLATFORM_FEE_RATE, each floored
BonkFee(amount) == (amount * 25) \div 10000 + (amount * 100) \div 10000

\* buy_base_out, sell_quote_out; the division of a sale has no result when
\* nothing is sold to an empty curve.
BonkQuote(m, buy, amount) ==
    LET quote_reserve == m.virtual_quote + m.real_quote
        base_reserve == m.virtual_base - m.real_base
        net == amount - BonkFee(amount)
        bought == (net * base_reserve) \div (quote_reserve + net)
        gross == (amount * quote_reserve) \div (base_reserve + amount)
        moved(in_quote, out_base) ==
            [m EXCEPT !.real_quote = @ + in_quote, !.real_base = @ + out_base]
    IN  IF m.migrated \/ base_reserve + (IF buy THEN 0 ELSE amount) = 0 THEN NoQuote(m)
        ELSE IF buy THEN Quoted(bought, moved(net, bought))
        ELSE Quoted(gross - BonkFee(gross), moved(-gross, -amount))

-----------------------------------------------------------------------------
(* Meteora DBC: a ladder of segments, each with an upper price and a       *)
(* liquidity; buying climbs it, selling descends.                          *)

\* delta_base, delta_quote
DeltaBase(lower, upper, l, up) ==
    LET product == l * (upper - lower)
    IN  IF up THEN CeilDiv(product, lower * upper) ELSE product \div (lower * upper)
DeltaQuote(lower, upper, l, up) ==
    LET product == l * (upper - lower)
    IN  IF up THEN CeilDiv(product, CurveQ * CurveQ) ELSE product \div (CurveQ * CurveQ)

\* One segment of quote_to_base, up to the smaller of its price and the
\* migration price
ClimbSegment(m, at, segment) ==
    LET to == Min({m.migration_price, segment.price})
        max_in == DeltaQuote(at.price, to, segment.liquidity, TRUE)
        next == IF at.left < max_in
                THEN at.price + (at.left * CurveQ * CurveQ) \div segment.liquidity
                ELSE to
    IN  IF segment.liquidity = 0 \/ to <= at.price THEN at
        ELSE [price |-> next, left |-> Max({0, at.left - max_in}),
              out |-> at.out + DeltaBase(at.price, next, segment.liquidity, FALSE)]

\* One stretch of base_to_quote, down to a price; the last one, with no
\* segment below, ends at the start price whatever is left.
DescendTo(at, to, l, last) ==
    LET max_in == DeltaBase(to, at.price, l, TRUE)
        by_input == CeilDiv(at.price * l, l + at.left * at.price)
        next == IF last THEN Max({to, by_input}) ELSE IF at.left < max_in THEN by_input ELSE to
    IN  IF to >= at.price \/ at.left = 0 THEN at
        ELSE [price |-> next, left |-> Max({0, at.left - max_in}),
              out |-> at.out + DeltaQuote(next, at.price, l, FALSE)]

\* quote_to_base: the segments from the lowest on
Climb(m, amount) ==
    LET at[i \in 0 .. Len(m.curve)] ==
            IF i = 0 THEN [price |-> m.sqrt_price, left |-> amount, out |-> 0]
            ELSE ClimbSegment(m, at[i - 1], m.curve[i])
    IN  at[Len(m.curve)]

\* Mutant of Stretch: a stretch is descended with the liquidity of the segment
\* it ends in.
StretchBelow(m, i) == [to |-> m.curve[Len(m.curve) - i].price, l |-> m.curve[Len(m.curve) - i].liquidity]

\* The i-th stretch from the top, down to the price of the segment below
Stretch(m, i) ==
    [to |-> m.curve[Len(m.curve) - i].price, l |-> m.curve[Len(m.curve) - i + 1].liquidity]

\* base_to_quote: the stretches from the highest on, then the one to the start
Descend(m, amount) ==
    LET at[i \in 0 .. Len(m.curve) - 1] ==
            IF i = 0 THEN [price |-> m.sqrt_price, left |-> amount, out |-> 0]
            ELSE DescendTo(at[i - 1], Stretch(m, i).to, Stretch(m, i).l, FALSE)
    IN  DescendTo(at[Len(m.curve) - 1], m.start_price, m.curve[1].liquidity, TRUE)

\* pow_q64: the factor of each binary digit is the square of the one before,
\* rounded down.
PowQ(b, e) ==
    LET factor[n \in 0 .. e] ==
            IF n = 0 THEN b ELSE (factor[n - 1] * factor[n - 1]) \div CurveQ
        power[n \in 0 .. e] ==
            IF n = 0 THEN CurveQ
            ELSE IF (e \div 2^(n - 1)) % 2 = 1 THEN (power[n - 1] * factor[n - 1]) \div CurveQ
            ELSE power[n - 1]
    IN  power[e]

\* base_fee_numerator with get_fee_in_period: the scheduler's fee after the
\* periods that passed before the pool was loaded; an unknown point, and the
\* rate limiter, take the cliff.
DbcBaseFee(m) ==
    LET f == m.fee
        period == Min({(m.current_point - m.activation_point) \div f.frequency, f.periods})
        kept == Max({0, CurveQ - (f.reduction * CurveQ) \div 10000})
    IN  IF f.frequency = 0 \/ m.current_point = 0 \/ m.current_point < m.activation_point THEN f.cliff
        ELSE CASE f.mode = "linear" -> Max({0, f.cliff - f.reduction * period})
               [] f.mode = "exponential" -> (PowQ(kept, period) * f.cliff) \div CurveQ
               [] OTHER -> f.cliff

\* total_fee_numerator with variable_fee_numerator
DbcFee(m) ==
    LET moved == m.volatility * m.bin_step
    IN  Min({DbcMaxFee,
             DbcBaseFee(m) + CeilDiv(moved * moved * m.variable_fee_control, DbcVolatilityUnit)})

\* fee_on_amount
DbcFeeOn(m, amount) == CeilDiv(amount * DbcFee(m), DbcFeeUnit)

\* is_tradeable, quote_exact_in
DbcQuote(m, buy, amount) ==
    LET net == IF buy /\ m.fee_in_quote THEN amount - DbcFeeOn(m, amount) ELSE amount
        walk == IF buy THEN Climb(m, net) ELSE Descend(m, net)
        out == IF buy /\ m.fee_in_quote THEN walk.out ELSE walk.out - DbcFeeOn(m, walk.out)
    IN  IF m.migrated \/ m.quote_reserve >= m.migration_threshold THEN NoQuote(m)
        ELSE Quoted(out,
                [m EXCEPT !.sqrt_price = walk.price,
                          !.quote_reserve = @ + (IF buy THEN net ELSE -walk.out),
                          !.base_reserve = @ + (IF buy THEN -walk.out ELSE net)])

-----------------------------------------------------------------------------
(* Meteora DAMM V1: a pool owns shares of two vaults.  amp is 0 for the    *)
(* constant-product curve.                                                 *)

\* calculate_locked_profit, get_unlocked_amount
Unlocked(m, vault) ==
    LET ratio == (m.now - vault.last_report) * vault.degradation
    IN  vault.total - (IF ratio > DegradationUnit THEN 0
                       ELSE (vault.locked * (DegradationUnit - ratio)) \div DegradationUnit)

\* get_amount_by_share, get_unmint_amount
ByShare(m, vault, share) == (share * Unlocked(m, vault)) \div vault.supply
Unmint(m, vault, amount) == (amount * vault.supply) \div Unlocked(m, vault)

\* calculate_fee: at least 1
DammFee(amount, fee) ==
    IF fee.numerator = 0 \/ amount = 0 THEN 0
    ELSE Max({1, (amount * fee.numerator) \div fee.denominator})

\* constant_product_swap_exact; a divisor or a quotient of 0 is refused
SwapExact(amount, source, destination) ==
    IF source + amount = 0 \/ source * destination < source + amount THEN 0
    ELSE destination - CeilDiv(source * destination, source + amount)

\* The Newton loops: until two rounds differ by at most 1, or a step has no
\* result, which is -1.
Converge(step(_), first) ==
    LET round[n \in 0 .. NewtonRounds] ==
            IF n = 0 THEN [at |-> first, done |-> FALSE]
            ELSE LET was == round[n - 1]
                     next == step(was.at)
                 IN  IF was.done THEN was
                     ELSE [at |-> next, done |-> next = -1 \/ next - was.at \in -1 .. 1]
    IN  round[NewtonRounds].at

\* compute_d with compute_next_d
NextD(ann, a, b, d) ==
    LET product == (((d * d) \div (2 * a)) * d) \div (2 * b)
    IN  (d * (2 * product + ann * (a + b))) \div ((ann - 1) * d + 3 * product)

StableD(ann, a, b) == Converge(LAMBDA d : NextD(ann, a, b, d), a + b)

\* compute_y
NextY(ann, x, d, y) ==
    LET c == (((d * d) \div (2 * x)) * d) \div (2 * ann)
        divisor == 2 * y + d \div ann + x - d
    IN  IF divisor <= 0 THEN -1 ELSE (y * y + c) \div divisor

StableY(ann, x, d) == Converge(LAMBDA y : NextY(ann, x, d, y), d)

\* stable_swap_exact; with nothing on one side there is no d, or nothing left.
StableSwap(amp, amount, source, destination) ==
    LET y == StableY(2 * amp, source + amount, StableD(2 * amp, source, destination))
    IN  IF source = 0 \/ destination = 0 \/ y = -1 THEN 0 ELSE destination - y - 1

\* StableScaler: what a unit of a side counts in the curve
Scale(m, is_a) ==
    IF is_a THEN m.multiplier_a * (IF m.depeg THEN DepegPrecision ELSE 1)
    ELSE m.multiplier_b * (IF m.depeg THEN m.virtual_price ELSE 1)

\* constant_product_swap_exact or stable_swap_exact, by the pool's curve; the
\* sides of a stable one are scaled.
CurveSwap(amp, amount, source, destination, up_in, up_out) ==
    IF amp = 0 THEN SwapExact(amount, source, destination)
    ELSE StableSwap(amp, amount * up_in, source * up_in, destination * up_out) \div up_out

\* A vault after a deposit, after a withdrawal
PaidIn(vault, amount, minted) ==
    [vault EXCEPT !.total = @ + amount, !.liquid = @ + amount, !.supply = @ + minted, !.lp = @ + minted]
PaidOut(vault, amount, burnt) ==
    [vault EXCEPT !.total = @ - amount, !.liquid = @ - amount, !.supply = @ - burnt, !.lp = @ - burnt]

\* What the pool's shares of a vault are worth
Reserve(m, vault) == ByShare(m, vault, vault.lp)

\* A vault that counts for something, in shares
Shared(m, vault) == m.now >= vault.last_report /\ vault.supply # 0 /\ Unlocked(m, vault) > 0

\* quote_exact_in, from one vault to the other: the fees, the deposit with its
\* shares rounded down, the swap on the pool's shares of both vaults, the
\* withdrawal and the reserve that must be there to pay it.
VaultQuote(m, in_vault, out_vault, up_in, up_out, amount) ==
    LET fee == DammFee(amount, m.trade_fee)
        protocol_fee == DammFee(fee, m.protocol_fee)
        deposit == amount - protocol_fee
        after_in == PaidIn(in_vault, deposit, Unmint(m, in_vault, deposit))
        net == Reserve(m, after_in) - Reserve(m, in_vault) - (fee - protocol_fee)
        swapped == CurveSwap(m.amp, net, Reserve(m, in_vault), Reserve(m, out_vault), up_in, up_out)
        burnt == Unmint(m, out_vault, swapped)
        paid == ByShare(m, out_vault, burnt)
    IN  IF /\ m.enabled /\ Shared(m, in_vault) /\ Shared(m, out_vault)
           /\ net >= 0 /\ swapped > 0 /\ paid < out_vault.liquid
        THEN [out |-> paid, in_vault |-> after_in, out_vault |-> PaidOut(out_vault, paid, burnt)]
        ELSE [out |-> 0, in_vault |-> in_vault, out_vault |-> out_vault]

DammQuote(m, buy, amount) ==
    LET a_in == VaultQuote(m, m.a, m.b, Scale(m, TRUE), Scale(m, FALSE), amount)
        b_in == VaultQuote(m, m.b, m.a, Scale(m, FALSE), Scale(m, TRUE), amount)
    IN  IF buy = m.flipped
        THEN Quoted(a_in.out, [m EXCEPT !.a = a_in.in_vault, !.b = a_in.out_vault])
        ELSE Quoted(b_in.out, [m EXCEPT !.b = b_in.in_vault, !.a = b_in.out_vault])

\* calculate_damm_output, calculate_output_live: without the vault accounts, a
\* constant product of the vault balances, raised by up to a tenth for a
\* stable curve and capped
DammOffline(m, buy, amount) ==
    LET in_is_a == buy = m.flipped
        reserve_in == IF in_is_a THEN m.a ELSE m.b
        reserve_out == IF in_is_a THEN m.b ELSE m.a
        product == ConstantProductSwap(reserve_in, reserve_out, amount, m.fee_bps)
        out == IF m.amp = 0 THEN product
               ELSE Min({(product * (10000 + Min({m.amp, 1000}))) \div 10000, reserve_out})
    IN  Quoted(out, IF in_is_a THEN [m EXCEPT !.a = @ + amount, !.b = @ - out]
                    ELSE [m EXCEPT !.b = @ + amount, !.a = @ - out])

-----------------------------------------------------------------------------
(* The single-price quotes: Raydium CLMM and Orca Whirlpool without stored *)
(* arrays, Meteora DLMM likewise, and Meteora DAMM V2 always.  The price is *)
(* a fraction, token b per token a in raw units.                            *)

\* metadata: token a is the quote of an unflipped CLMM or Whirlpool pool, and
\* of a flipped pool of Meteora
QuoteIsA(m) == IF m.venue \in {"Raydium CLMM", "Orca Whirlpool"} THEN ~m.flipped ELSE m.flipped

\* Mutant of PhysicalBuy: a flipped pool is not turned around.
PhysicalBuyUnflipped(m, buy) == buy

\* physical_direction, effective_direction
PhysicalBuy(m, buy) == buy # m.flipped

\* How many raw units make one token.
Unit(decimals) == 10^decimals

\* The price the output is computed with: DAMM V2 adjusts it for decimals.
SpotPrice(m) ==
    IF m.venue = "Meteora DAMM V2"
    THEN [b |-> m.price.b * Unit(m.decimals_a), a |-> m.price.a * Unit(m.decimals_b)]
    ELSE m.price

\* At a price p of a in b, from one side to the other, capped at the balance
\* of the side that pays
SinglePrice(m, buy, amount, a_to_b, p) ==
    LET net == (amount * (10000 - m.fee_bps)) \div 10000
        out == IF a_to_b THEN Min({(net * p.b) \div p.a, m.b})
               ELSE Min({(net * p.a) \div p.b, m.a})
    IN  Quoted(out, IF QuoteIsA(m) = buy THEN [m EXCEPT !.a = @ + amount, !.b = @ - out]
                    ELSE [m EXCEPT !.b = @ + amount, !.a = @ - out])

\* RaydiumClmmMarket::calculate_clmm_output
ClmmSpotQuote(m, buy, amount) == SinglePrice(m, buy, amount, PhysicalBuy(m, buy), m.price)

\* OrcaWhirlpoolMarket::approximate_output
WhirlpoolSpotQuote(m, buy, amount) == SinglePrice(m, buy, amount, PhysicalBuy(m, buy), m.price)

\* MeteoraDlmmMarket::calculate_dlmm_output
DlmmSpotQuote(m, buy, amount) == SinglePrice(m, buy, amount, ~PhysicalBuy(m, buy), m.price)

\* MeteoraDAMMV2Market::calculate_v2_output
DammV2SpotQuote(m, buy, amount) == SinglePrice(m, buy, amount, ~PhysicalBuy(m, buy), SpotPrice(m))

SpotVenues == {"Raydium CLMM", "Orca Whirlpool", "Meteora DLMM", "Meteora DAMM V2"}

CurveVenues ==
    SpotVenues \cup {"Raydium AMM V4", "Pumpfun AMM", "Pumpfun BC", "Bonk", "Meteora DBC",
                     "Meteora DAMM V1", "Meteora DAMM V1 offline"}

\* A pool with a price, a fee and two balances
SpotMarket(m) ==
    /\ {"a", "b", "price", "fee_bps", "flipped", "decimals_a", "decimals_b"} \subseteq DOMAIN m
    /\ m.a \in Nat /\ m.b \in Nat
    /\ m.price.a \in Nat \ {0} /\ m.price.b \in Nat \ {0}
    /\ m.fee_bps \in Nat /\ m.fee_bps <= 10000 /\ m.flipped \in BOOLEAN
    /\ Unit(m.decimals_a) \in Nat \ {0} /\ Unit(m.decimals_b) \in Nat \ {0}

-----------------------------------------------------------------------------
(* The markets.  What is traded was traded before: each is a market as its   *)
(* program keeps it, with some coins outside.                                *)

\* Two balances and a fee
PoolMarket(m) ==
    /\ {"quote", "base", "fee_bps"} \subseteq DOMAIN m /\ m.quote \in Nat /\ m.base \in Nat
    /\ m.fee_bps \in Nat /\ m.fee_bps <= 10000

OfflineMarket(m) ==
    /\ {"a", "b", "fee_bps", "amp", "flipped"} \subseteq DOMAIN m /\ m.a \in Nat /\ m.b \in Nat
    /\ m.fee_bps \in Nat /\ m.fee_bps <= 10000 /\ m.amp \in Nat /\ m.flipped \in BOOLEAN

PumpSwapMarket(m) == m.virtual_sol \in Nat /\ m.virtual_token \in Nat

\* A bonding curve with coins outside: were they all sold back, the real SOL
\* would pay for them.
BondingCurveMarket(m, outside) ==
    /\ {"virtual_sol", "real_sol", "virtual_token", "real_token", "complete"} \subseteq DOMAIN m
    /\ m.virtual_sol \in Nat \ {0} /\ m.virtual_token \in Nat /\ m.real_token \in Nat
    /\ m.real_sol \in Nat /\ m.real_sol <= m.virtual_sol /\ m.complete \in BOOLEAN
    /\ (m.virtual_sol - m.real_sol) * (m.virtual_token + outside) <= m.virtual_sol * m.virtual_token

BonkMarket(m, outside) ==
    /\ {"virtual_quote", "real_quote", "virtual_base", "real_base", "migrated"} \subseteq DOMAIN m
    /\ m.migrated \in BOOLEAN
    /\ m.virtual_quote \in Nat \ {0} /\ m.real_quote \in Nat
    /\ m.virtual_base \in Nat /\ m.real_base \in Int /\ m.real_base <= m.virtual_base
    /\ m.virtual_quote * (m.virtual_base - m.real_base + outside)
         <= (m.virtual_quote + m.real_quote) * (m.virtual_base - m.real_base)

\* The prices between the segments, up to the migration; what of segment i lies
\* below a price
Rung(m, i) == IF i = 0 THEN m.start_price ELSE Min({m.migration_price, m.curve[i].price})
Reached(m, i, p) == Max({Rung(m, i - 1), Min({Rung(m, i), p})})

\* What climbing to the price has cost, times CurveQ squared; what there is to
\* be sold between the price and the migration
Climbed(m) ==
    SumFunction([i \in 1 .. Len(m.curve) |->
        m.curve[i].liquidity * (Reached(m, i, m.sqrt_price) - Rung(m, i - 1))])
ForSale(m) ==
    SumFunction([i \in 1 .. Len(m.curve) |->
        DeltaBase(Reached(m, i, m.sqrt_price), Rung(m, i), m.curve[i].liquidity, TRUE)])

\* A ladder of rising prices; the reserves are those of its price.
DbcMarket(m) ==
    /\ {"sqrt_price", "quote_reserve", "base_reserve", "curve", "start_price", "migration_price",
        "fee", "current_point", "activation_point", "volatility", "bin_step",
        "variable_fee_control", "fee_in_quote"} \subseteq DOMAIN m
    /\ m.curve \in Seq([price : Nat \ {0}, liquidity : Nat \ {0}]) /\ m.curve # <<>>
    /\ \A i, j \in 1 .. Len(m.curve) : i <= j => m.curve[i].price <= m.curve[j].price
    /\ m.start_price \in Nat \ {0} /\ m.migration_price \in Nat
    /\ m.start_price <= m.migration_price /\ m.start_price <= m.curve[1].price
    /\ m.sqrt_price \in m.start_price .. Rung(m, Len(m.curve))
    /\ m.quote_reserve \in Nat /\ Climbed(m) <= CurveQ * CurveQ * m.quote_reserve
    /\ m.base_reserve \in Nat /\ ForSale(m) <= m.base_reserve
    /\ {m.fee.cliff, m.fee.reduction, m.fee.frequency, m.fee.periods} \subseteq Nat
    /\ {m.current_point, m.activation_point, m.volatility, m.bin_step,
        m.variable_fee_control} \subseteq Nat
    /\ m.fee_in_quote \in BOOLEAN

\* A side of a DAMM V1 pool: a vault of which it holds shares, not all of them
\* perhaps
VaultSide ==
    {v \in [total : Nat, locked : Nat, degradation : Nat, last_report : Nat,
            supply : Nat, lp : Nat, liquid : Nat] : v.lp <= v.supply}

Rates == {r \in [numerator : Nat, denominator : Nat \ {0}] : r.numerator <= r.denominator}

DammMarket(m) ==
    /\ {"a", "b", "trade_fee", "protocol_fee", "now", "amp", "multiplier_a", "multiplier_b",
        "virtual_price", "enabled", "flipped", "depeg"} \subseteq DOMAIN m
    /\ m.a \in VaultSide /\ m.b \in VaultSide
    /\ m.trade_fee \in Rates /\ m.protocol_fee \in Rates /\ m.now \in Nat /\ m.amp \in Nat
    /\ {m.multiplier_a, m.multiplier_b, m.virtual_price} \subseteq Nat \ {0}
    /\ {m.enabled, m.flipped, m.depeg} \subseteq BOOLEAN

\* A market that has outside coins
SoundMarket(m, outside) ==
    /\ m.venue \in SpotVenues => SpotMarket(m)
    /\ m.venue = "Raydium AMM V4" => PoolMarket(m)
    /\ m.venue = "Pumpfun AMM" => PumpSwapMarket(m)
    /\ m.venue = "Pumpfun BC" => BondingCurveMarket(m, outside)
    /\ m.venue = "Bonk" => BonkMarket(m, outside)
    /\ m.venue = "Meteora DBC" => DbcMarket(m)
    /\ m.venue = "Meteora DAMM V1" => DammMarket(m)
    /\ m.venue = "Meteora DAMM V1 offline" => OfflineMarket(m)

ASSUME MarketAssumption ==
    /\ TradeAmounts \subseteq Nat
    /\ \A m \in Markets : /\ {"venue", "outside"} \subseteq DOMAIN m
                          /\ m.venue \in CurveVenues /\ m.outside \in Nat
                          /\ SoundMarket(m, m.outside)

ASSUME UnitAssumption ==
    /\ {CurveQ, DbcFeeUnit, DbcVolatilityUnit, DegradationUnit, DepegPrecision} \subseteq Nat \ {0}
    /\ DbcMaxFee \in Nat /\ DbcMaxFee <= DbcFeeUnit /\ NewtonRounds \in Nat

-----------------------------------------------------------------------------

\* calculate_output_live of whichever market it is
MarketQuote(m, buy, amount) ==
    CASE m.venue = "Raydium AMM V4" -> PoolQuote(m, buy, amount)
      [] m.venue = "Pumpfun AMM" -> PumpSwapQuote(m, buy, amount)
      [] m.venue = "Pumpfun BC" -> BondingCurveQuote(m, buy, amount)
      [] m.venue = "Bonk" -> BonkQuote(m, buy, amount)
      [] m.venue = "Meteora DBC" -> DbcQuote(m, buy, amount)
      [] m.venue = "Meteora DAMM V1" -> DammQuote(m, buy, amount)
      [] m.venue = "Meteora DAMM V1 offline" -> DammOffline(m, buy, amount)
      [] m.venue = "Raydium CLMM" -> ClmmSpotQuote(m, buy, amount)
      [] m.venue = "Orca Whirlpool" -> WhirlpoolSpotQuote(m, buy, amount)
      [] m.venue = "Meteora DLMM" -> DlmmSpotQuote(m, buy, amount)
      [] m.venue = "Meteora DAMM V2" -> DammV2SpotQuote(m, buy, amount)

CurveInit == market \in Markets /\ net_quote = 0 /\ net_base = 0 /\ trades = 0

\* Buy: quote to base
Buy(amount) ==
    /\ trades < MaxTrades
    /\ LET q == MarketQuote(market, TRUE, amount)
       IN  /\ q.out > 0
           /\ market' = q.market
           /\ net_quote' = net_quote - amount /\ net_base' = net_base + q.out
    /\ trades' = trades + 1

\* Sell: base to quote, of what is outside the market
Sell(amount) ==
    /\ trades < MaxTrades /\ amount <= market.outside + net_base
    /\ LET q == MarketQuote(market, FALSE, amount)
       IN  /\ q.out > 0
           /\ market' = q.market
           /\ net_base' = net_base - amount /\ net_quote' = net_quote + q.out
    /\ trades' = trades + 1

\* The amounts tried, and the exact holding: a round trip
SellHolding == net_base > 0 /\ Sell(net_base)

CurveNext ==
    \/ \E amount \in TradeAmounts : Buy(amount) \/ Sell(amount)
    \/ SellHolding

CurveSpec == CurveInit /\ [][CurveNext]_curve_vars

-----------------------------------------------------------------------------

\* No sequence of trades at the quoted outputs makes something from nothing:
\* fees, roundings, the ladder of segments and the share arithmetic never add
\* up in the trader's favour.  Two quotes are known to: PumpSwap's curve rounds
\* what remains down and so gives up to a unit away per trade (lib.rs:97, 103),
\* and the raised stable approximation of DAMM V1 (lib.rs:111) is no price.
NoFreeLunch ==
    LET given == IF market.venue = "Pumpfun AMM" THEN trades ELSE 0
    IN  (/\ market.venue = "Meteora DAMM V1 offline" => market.amp = 0
         /\ net_quote >= given /\ net_base >= given) => net_quote = given /\ net_base = given

\* What a quote may not exceed, where the quote itself or the curve behind it
\* sees to that: the reserves of a constant-product pool, the real SOL and the
\* real tokens of a bonding curve, LaunchLab's real quote, the reserves of a
\* dynamic bonding curve, the liquid tokens of DAMM V1's vaults, the balances
\* a single-price quote is capped by.  Two sides are not here, since nothing in
\* the code keeps a quote within them: LaunchLab's base tokens, where the quote
\* divides the virtual reserve and never reads total_base_sell (bonk lib.rs:111,
\* 119), and both sides of a PumpSwap pool, whose quote never reads the real
\* reserves the pool was decoded with (pumpfun-amm lib.rs:95, 144).
Holding(m) ==
    CASE m.venue = "Raydium AMM V4" -> {m.quote, m.base}
      [] m.venue = "Pumpfun BC" -> {m.real_sol, m.real_token}
      [] m.venue = "Bonk" -> {m.real_quote}
      [] m.venue = "Meteora DBC" -> {m.quote_reserve, m.base_reserve}
      [] m.venue = "Meteora DAMM V1" -> {m.a.liquid, m.b.liquid}
      [] m.venue \in SpotVenues \cup {"Meteora DAMM V1 offline"} -> {m.a, m.b}

HeldVenues == CurveVenues \ {"Pumpfun AMM"}

\* Other than at PumpSwap, no sequence of trades at the quoted outputs takes
\* out more than Holding names: the lamports a bonding curve or LaunchLab
\* quotes from its virtual reserve were paid in before, a ladder's segments
\* cover what is quoted across them, and a flipped pool pays from the side it
\* is capped by.
OutputIsHeld ==
    market.venue \in HeldVenues => \A held \in Holding(market) : held >= 0

\* What the trader of a single-price pool is up, at the raw price.
ValueGained(m) ==
    IF QuoteIsA(m) THEN net_quote * m.price.b + net_base * m.price.a
    ELSE net_base * m.price.b + net_quote * m.price.a

\* A single-price quote is no better than the raw price, in either direction
\* and flipped or not, but for a DAMM V2 pool whose tokens differ in decimals:
\* it adjusts the price for them although amounts are raw (lib.rs:442, 539).
WorseThanRawPrice ==
    (/\ market.venue \in SpotVenues
     /\ market.venue = "Meteora DAMM V2" => market.decimals_a = market.decimals_b)
        => ValueGained(market) <= 0
=============================================================================

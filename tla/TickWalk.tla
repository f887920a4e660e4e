------------------------------ MODULE TickWalk ------------------------------
(***************************************************************************)
(* The exact quote of a Raydium CLMM pool: quote_exact_in of               *)
(* crates/raydium-clmm/src/quote.rs as calculate_output_live_ex calls it,  *)
(* and the tick arrays that the quote, the cold start and the swap         *)
(* instruction each derive for themselves (tick_arrays.rs, orca-whirlpool).*)
(*                                                                         *)
(* A pool is seen as the program keeps it: initialised ticks, the          *)
(* liquidity active in [t, t + 1) for every tick t, a price, and a bitmap  *)
(* of the arrays that hold an initialised tick.  liquidity_net of a tick   *)
(* is the difference of the active liquidity on its two sides.  Tick       *)
(* arrays are numbered by start index / ticks_in_array.  Prices are small  *)
(* integers with Q for 2^64; amounts that overflow 64 bits are left out.   *)
(***************************************************************************)
EXTENDS Rounding, FiniteSets, FiniteSetsExt

CONSTANTS
    MinTick, MaxTick,    \* MIN_TICK, MAX_TICK
    TickSpacing, TickArraySize,
    Price,               \* get_sqrt_price_at_tick
    Q,                   \* 2^64
    FeeRate, FeeDenominator,
    BitmapRadius,        \* 512: the pool's own bitmap covers -512 .. 511
    ExtensionRadius,     \* 7680: with the bitmap extension account
    MaxArrays,           \* MAX_ARRAYS
    NumRemaining,        \* NUM_REMAINING_TICK_ARRAYS
    Pools,               \* bound: pools quoted
    Amounts,             \* bound: amounts quoted
    StoredArrays         \* bound: the arrays that are in the account store

Ticks == MinTick .. MaxTick
TicksInArray == TickSpacing * TickArraySize

\* array_start_index, get_tick_array_start_index, tick_array_start_index
ArrayOf(t) == t \div TicksInArray

InPool == -BitmapRadius .. BitmapRadius - 1

\* What the program keeps true of a pool: the price lies between the limits of
\* a swap and in its tick, or at the top of it, where crossing the next tick
\* downwards leaves it; between two initialised ticks the active liquidity does
\* not change; the bitmap has the array of every initialised tick.
WellFormed(p) ==
    /\ p.ticks \subseteq {t \in Ticks : t % TickSpacing = 0}
    /\ p.active \in [MinTick - 1 .. MaxTick -> Nat]
    /\ p.tick \in Ticks /\ p.price \in Price[MinTick] + 1 .. Price[MaxTick] - 1
    /\ Price[p.tick] <= p.price /\ (p.tick < MaxTick => p.price <= Price[p.tick + 1])
    /\ \A s, t \in MinTick - 1 .. MaxTick :
         (s <= t /\ \A u \in p.ticks : ~(s < u /\ u <= t)) => p.active[s] = p.active[t]
    /\ \A t \in p.ticks : ArrayOf(t) \in InPool => ArrayOf(t) \in p.bitmap
    /\ p.bitmap \subseteq InPool
    /\ p.extension \subseteq (-ExtensionRadius .. ExtensionRadius - 1) \ InPool

ASSUME TickAssumption ==
    /\ MinTick \in Int /\ MaxTick \in Int /\ MinTick < 0 /\ MaxTick > 0
    /\ TickSpacing \in Nat \ {0} /\ TickArraySize \in Nat \ {0}
    /\ Price \in [Ticks -> Nat \ {0}] /\ Q \in Nat \ {0}
    /\ \A s, t \in Ticks : s <= t => Price[s] <= Price[t]
    /\ FeeDenominator \in Nat \ {0} /\ FeeRate \in 0 .. FeeDenominator - 1
    /\ BitmapRadius \in Nat /\ ExtensionRadius \in Nat
    /\ MaxArrays \in Nat \ {0} /\ NumRemaining \in Nat \ {0}
    /\ Amounts \subseteq Nat
    /\ \A p \in Pools : WellFormed(p)

VARIABLES
    pool,          \* the pool account, and in .cached what the pool cache has of it
    zero_for_one,  \* the direction: down when true
    amount_in,
    stored,        \* the pool's tick arrays that are in the store
    price, tick, liquidity, remaining, total_out,   \* the loop's locals
    array,         \* current_array_start
    contains_tick, \* first_array_contains_tick
    walked,        \* the arrays fetched so far
    quote          \* idle, walking, done, or none: no quote

tick_args == <<pool, zero_for_one, amount_in, stored>>
tick_state == <<price, tick, liquidity, remaining, total_out>>
tick_place == <<array, contains_tick, walked>>
tick_vars == <<tick_args, tick_state, tick_place, quote>>

-----------------------------------------------------------------------------

\* Mutant of Delta0: always rounded up.
Delta0Up(low, high, l, up) == CeilDiv(CeilDiv(l * Q * (high - low), high), low)

\* get_delta_amount_0 and get_delta_amount_1 between two prices
Delta0(low, high, l, up) ==
    IF up THEN CeilDiv(CeilDiv(l * Q * (high - low), high), low)
    ELSE ((l * Q * (high - low)) \div high) \div low

Delta1(low, high, l, up) ==
    IF up THEN CeilDiv(l * (high - low), Q) ELSE (l * (high - low)) \div Q

\* next_sqrt_price_from_input
NextPrice(p, l, amount, zero) ==
    IF amount = 0 THEN p
    ELSE IF zero THEN CeilDiv(l * Q * p, l * Q + amount * p)
    ELSE p + (amount * Q) \div l

\* compute_swap_step
SwapStep(p, target, l, amount, zero) ==
    LET for_price == (amount * (FeeDenominator - FeeRate)) \div FeeDenominator
        cost(to) == IF zero THEN Delta0(to, p, l, TRUE) ELSE Delta1(p, to, l, TRUE)
        next == IF for_price >= cost(target) THEN target ELSE NextPrice(p, l, for_price, zero)
    IN  [price |-> next,
         in    |-> cost(next),
         out   |-> IF zero THEN Delta1(next, p, l, FALSE) ELSE Delta0(p, next, l, FALSE),
         fee   |-> IF next # target THEN amount - cost(next)
                   ELSE CeilDiv(cost(next) * FeeRate, FeeDenominator - FeeRate)]

\* get_tick_at_sqrt_price
TickAt(p) == Max({t \in Ticks : Price[t] <= p} \cup {MinTick})

\* MIN_SQRT_PRICE_X64 + 1, MAX_SQRT_PRICE_X64 - 1
PriceLimit(zero) == IF zero THEN Price[MinTick] + 1 ELSE Price[MaxTick] - 1

\* get_tick_array of calculate_output_live_ex: what a stored array holds
TicksOf(a) == {t \in pool.ticks : ArrayOf(t) = a}

LiquidityNet(t) == pool.active[t] - pool.active[t - 1]

\* The nearest member of a set in the direction of the walk
IsNearest(x, s) ==
    x \in s /\ \A y \in s : IF zero_for_one THEN y <= x ELSE y >= x

\* Mutant of TicksAhead: inclusive of the current tick upwards, too.
TicksAheadInclusive ==
    {t \in TicksOf(array) : /\ ArrayOf(tick) = array
                            /\ IF zero_for_one THEN t <= tick ELSE t >= tick}

\* next_initialized_tick: inclusive of the current tick downwards, exclusive
\* upwards, and none when the array is not the current tick's
TicksAhead ==
    {t \in TicksOf(array) : /\ ArrayOf(tick) = array
                            /\ IF zero_for_one THEN t <= tick ELSE t > tick}

\* Mutant of ArraysFrom: the bitmap is not asked.
EveryArrayFrom(a) ==
    IF a \in InPool THEN {b \in InPool : IF zero_for_one THEN b <= a ELSE b >= a} ELSE {}

\* next_bitmap_array_start, from an array on
ArraysFrom(a) ==
    IF a \in InPool
    THEN {b \in pool.bitmap : IF zero_for_one THEN b <= a ELSE b >= a}
    ELSE {}

Beyond == IF zero_for_one THEN array - 1 ELSE array + 1

-----------------------------------------------------------------------------

\* The call: the pool account is decoded, the fee is known and the amount is
\* one the router quotes.
TickInit ==
    /\ pool \in Pools /\ zero_for_one \in BOOLEAN /\ amount_in \in Amounts
    /\ stored \in StoredArrays
    /\ price = pool.price /\ tick = pool.tick /\ liquidity = pool.active[pool.tick]
    /\ remaining = amount_in /\ total_out = 0
    /\ array = ArrayOf(pool.tick) /\ contains_tick = FALSE /\ walked = {}
    /\ quote = "idle"

\* The first array at or behind the current tick.
Start ==
    /\ quote = "idle"
    /\ \E a \in ArraysFrom(array) :
         /\ IsNearest(a, ArraysFrom(array)) /\ a \in stored
         /\ array' = a /\ contains_tick' = (a = array) /\ walked' = {a}
    /\ quote' = "walking"
    /\ UNCHANGED <<tick_args, tick_state>>

\* No array ahead, or the first is not in the store: no tick array was found
\* and calculate_output_live_ex returns an error either way.
NoArrays ==
    /\ quote = "idle"
    /\ \A a \in ArraysFrom(array) : IsNearest(a, ArraysFrom(array)) => a \notin stored
    /\ quote' = "none"
    /\ UNCHANGED <<tick_args, tick_state, tick_place>>

Walking == quote = "walking" /\ remaining # 0 /\ price # PriceLimit(zero_for_one)

\* The rest of one iteration, towards the initialised tick next: a step of the
\* swap, then the crossing when the tick's price is reached.
Advance(next) ==
    LET limit == PriceLimit(zero_for_one)
        target == IF zero_for_one THEN Max({Price[next], limit}) ELSE Min({Price[next], limit})
        step == IF liquidity > 0 /\ price # target
                THEN SwapStep(price, target, liquidity, remaining, zero_for_one)
                ELSE [price |-> target, in |-> 0, out |-> 0, fee |-> 0]
        crossed == step.price = Price[next]
        net == IF zero_for_one THEN -LiquidityNet(next) ELSE LiquidityNet(next)
        fits == step.in + step.fee <= remaining /\ (crossed => liquidity + net >= 0)
    IN  /\ quote' = IF fits THEN "walking" ELSE "none"
        /\ IF fits
           THEN /\ remaining' = remaining - (step.in + step.fee)
                /\ total_out' = total_out + step.out
                /\ price' = step.price
                /\ liquidity' = IF crossed THEN liquidity + net ELSE liquidity
                /\ tick' = IF ~crossed THEN TickAt(step.price)
                           ELSE IF zero_for_one THEN next - 1 ELSE next
           ELSE UNCHANGED tick_state
        /\ UNCHANGED tick_args

\* An iteration that finds its tick in the current array.
StepWithin ==
    /\ Walking
    /\ \E t \in TicksAhead : IsNearest(t, TicksAhead) /\ Advance(t)
    /\ UNCHANGED tick_place

\* The first array lies beyond the current tick: its first tick is the next.
StepIntoFirst ==
    /\ Walking /\ TicksAhead = {} /\ ~contains_tick
    /\ contains_tick' = TRUE
    /\ UNCHANGED <<array, walked>>
    /\ \/ \E t \in TicksOf(array) : IsNearest(t, TicksOf(array)) /\ Advance(t)
       \/ TicksOf(array) = {} /\ quote' = "none" /\ UNCHANGED <<tick_args, tick_state>>

\* On to the next array of the bitmap.
StepAcross ==
    /\ Walking /\ TicksAhead = {} /\ contains_tick
    /\ Cardinality(walked) < MaxArrays
    /\ \E a \in ArraysFrom(Beyond) :
         /\ IsNearest(a, ArraysFrom(Beyond)) /\ a \in stored
         /\ array' = a /\ walked' = walked \cup {a}
         /\ \E t \in TicksOf(a) : IsNearest(t, TicksOf(a)) /\ Advance(t)
    /\ UNCHANGED contains_tick

\* The walk breaks off with what it has: no array is left, too many were
\* walked, the next is not in the store or holds no tick.
StepOff ==
    /\ Walking /\ TicksAhead = {} /\ contains_tick
    /\ \A a \in ArraysFrom(Beyond) :
         IsNearest(a, ArraysFrom(Beyond)) =>
            Cardinality(walked) >= MaxArrays \/ a \notin stored \/ TicksOf(a) = {}
    /\ quote' = "done"
    /\ UNCHANGED <<tick_args, tick_state, tick_place>>

\* Everything is spent, or the price limit is reached.
Spent ==
    /\ quote = "walking" /\ ~Walking
    /\ quote' = "done"
    /\ UNCHANGED <<tick_args, tick_state, tick_place>>

TickNext == Start \/ NoArrays \/ StepWithin \/ StepIntoFirst \/ StepAcross \/ StepOff \/ Spent

TickSpec == TickInit /\ [][TickNext]_tick_vars

-----------------------------------------------------------------------------

\* Mutant of FirstArrays: the array of the current tick is left out.
FirstArraysBeyond(p, zero, marked) ==
    LET home == ArrayOf(p.tick)
        ahead == {a \in marked : IF zero THEN a < home ELSE a > home}
        nearer(a) == {b \in ahead : IF zero THEN b > a ELSE b < a}
    IN  {a \in ahead : Cardinality(nearer(a)) < NumRemaining}

\* The nearest NumRemaining members, in a direction, of the arrays marked.
FirstArrays(p, zero, marked) ==
    LET home == ArrayOf(p.tick)
        ahead == {a \in marked : IF zero THEN a <= home ELSE a >= home}
        nearer(a) == {b \in ahead : IF zero THEN b > a ELSE b < a}
    IN  {a \in ahead : Cardinality(nearer(a)) < NumRemaining}

\* is_tick_array_initialized, with the extension account or without
Marked(p, with_extension) == p.bitmap \cup (IF with_extension THEN p.extension ELSE {})

\* compute_clmm_remaining_accounts: the arrays the swap instruction lists
RemainingArrays(p, with_extension) == FirstArrays(p, zero_for_one, Marked(p, with_extension))

\* derive_pool_tick_array_pdas: the arrays the cold start fetches
PrefetchedArrays(p) ==
    IF ArrayOf(p.tick) \in InPool
    THEN FirstArrays(p, TRUE, p.bitmap) \cup FirstArrays(p, FALSE, p.bitmap)
    ELSE {}

\* The arrays walked with fewer than NumRemaining before them.
WalkedFirst ==
    {a \in walked :
        Cardinality({b \in walked : IF zero_for_one THEN b > a ELSE b < a}) < NumRemaining}

\* Orca Whirlpool: the arrays the quote hands to the swap library, those of
\* the swap instruction and those the cold start fetches.
WhirlpoolOrder(i) == ArrayOf(pool.tick) + (IF zero_for_one THEN -i ELSE i)
WhirlpoolQuoted == {WhirlpoolOrder(i) : i \in {j \in 0 .. 2 :
                        \A k \in 0 .. j : WhirlpoolOrder(k) \in stored}}
WhirlpoolListed == {WhirlpoolOrder(i) : i \in 0 .. 2}
WhirlpoolPrefetched == {ArrayOf(pool.tick) + i : i \in -1 .. 1}

-----------------------------------------------------------------------------

\* Type invariant.
TickTypeOK ==
    /\ pool \in Pools /\ zero_for_one \in BOOLEAN
    /\ amount_in \in Amounts /\ stored \in StoredArrays
    /\ price \in Nat /\ tick \in MinTick - 1 .. MaxTick
    /\ liquidity \in Nat /\ total_out \in Nat
    /\ remaining \in 0 .. amount_in
    /\ array \in Int /\ contains_tick \in BOOLEAN
    /\ walked \subseteq pool.bitmap
    /\ quote \in {"idle", "walking", "done", "none"}

\* While the walk goes on, its liquidity is the liquidity active at its tick:
\* no initialised tick between the start and there was missed or crossed
\* twice, whatever lies in between -- array boundaries, arrays without ticks,
\* stretches without liquidity (quote_exact_in).
LiquidityIsActive ==
    Walking => liquidity = pool.active[tick]

\* A quote never gives more than the price at its start does for the input
\* less the fee: the walk only moves the price against the trader and every
\* rounding favours the pool (compute_swap_step).
WorseThanSpot ==
    LET net == (amount_in - remaining) * (FeeDenominator - FeeRate)
        start == pool.price * pool.price
    IN  IF zero_for_one THEN total_out * Q * Q * FeeDenominator <= net * start
        ELSE total_out * start * FeeDenominator <= net * Q * Q

\* The quote, the instruction and the cold start derive the arrays on their
\* own: from one state of the pool they agree.  The first arrays walked are
\* listed by the instruction, with or without the extension, and were fetched;
\* a Whirlpool's quote uses listed arrays only, and fetched ones but the third.
ArraysAgree ==
    /\ WalkedFirst \subseteq RemainingArrays(pool, TRUE) \cap RemainingArrays(pool, FALSE)
    /\ WalkedFirst \subseteq PrefetchedArrays(pool)
    /\ WhirlpoolQuoted \subseteq WhirlpoolListed
    /\ WhirlpoolQuoted \ WhirlpoolPrefetched \subseteq {WhirlpoolOrder(2)}

\* raydium_clmm.rs:109 says that build_swap computes the tick arrays crossed
\* by the swap; the pool it computes them from is the one in the pool cache
\* (execute.rs:149), the quote's is the live one.  So the arrays of a swap
\* that was quoted to the end may not be listed.
CrossedArraysAreListed ==
    (quote = "done" /\ remaining = 0) => WalkedFirst \subseteq RemainingArrays(pool.cached, FALSE)
=============================================================================

------------------------------ MODULE BinWalk ------------------------------
(***************************************************************************)
(* The exact quote of a Meteora DLMM pool: quote_exact_in of               *)
(* crates/meteora-dlmm/src/quote.rs as calculate_output_live_ex of lib.rs  *)
(* calls it.  A pool is a row of bins, each of which trades at one price:  *)
(* its own liquidity first, then the limit orders placed in it.  The walk  *)
(* goes from bin to bin and, by the pool's bitmap, from bin array to bin   *)
(* array.  Prices are small integers with One for 2^64; the value of pow   *)
(* is a parameter, and amounts that overflow 64 bits are left out.         *)
(***************************************************************************)
EXTENDS Rounding, FiniteSets, FiniteSetsExt, Functions

CONSTANTS
    MinBin, MaxBin,      \* MIN_BIN_ID, MAX_BIN_ID
    BinsPerArray,        \* MAX_BIN_PER_ARRAY
    BinPrice,            \* get_price_from_id, grows with the bin
    One,                 \* 2^64
    BinRadius,           \* BIN_ARRAY_BITMAP_SIZE
    MaxBinArrays,        \* MAX_ARRAYS
    FeePrecision, MaxFeeRate, VariableFeeScale,
    StaleTolerance,      \* STALE_SLOT_TOLERANCE
    Pairs,               \* bound: pools quoted
    BinAmounts,          \* bound: amounts quoted
    BinStores            \* bound: slot of each bin array that is in the store

VARIABLES
    pair, swap_for_y, bin_amount,
    bin_store,           \* the stored arrays, each with the slot it is from
    active_id, amount_left, bins_out, arrays_walked,
    bin_array,           \* the array being walked, none before the first
    bin_quote            \* idle, walking, done, or none: no quote

bin_args == <<pair, swap_for_y, bin_amount, bin_store>>
bin_vars == <<bin_args, active_id, amount_left, bins_out, arrays_walked, bin_array, bin_quote>>

ASSUME BinAssumption ==
    /\ MinBin \in Int /\ MaxBin \in Int /\ BinsPerArray \in Nat \ {0}
    /\ BinPrice \in [MinBin .. MaxBin -> Nat \ {0}] /\ One \in Nat \ {0}
    /\ \A b, c \in MinBin .. MaxBin : b <= c => BinPrice[b] <= BinPrice[c]
    /\ FeePrecision \in Nat /\ MaxFeeRate \in 0 .. FeePrecision - 1
    /\ VariableFeeScale \in Nat \ {0} /\ BinRadius \in Nat
    /\ BinAmounts \subseteq Nat

NoArray == MaxBin + 1    \* no bin array has this index

\* bin_id_to_bin_array_index
BinArrayOf(b) == b \div BinsPerArray

\* What the program keeps true of a pair: the bitmap has the array of every bin
\* that holds something, as far as it reaches, and it reaches no farther than
\* the bins do.
Bins == [x : Nat, y : Nat, processed : Nat, open : Nat, ask : BOOLEAN]

WellKept(p) ==
    /\ p.active_id \in MinBin .. MaxBin
    /\ p.bins \in [MinBin .. MaxBin -> Bins]
    /\ p.bitmap \subseteq -BinRadius .. BinRadius - 1
    /\ \A a \in p.bitmap : a * BinsPerArray \in MinBin .. MaxBin - BinsPerArray + 1
    /\ \A b \in MinBin .. MaxBin :
         \/ BinArrayOf(b) \notin (-BinRadius .. BinRadius - 1) \ p.bitmap
         \/ LET bin == p.bins[b] IN bin.x = 0 /\ bin.y = 0 /\ bin.processed = 0 /\ bin.open = 0
    /\ {p.base_fee, p.variable_fee_control, p.bin_step, p.max_volatility,
        p.volatility_reference} \subseteq Nat
    /\ p.index_reference \in Int

ASSUME PairAssumption == \A p \in Pairs : WellKept(p)

\* get_amount_out and get_amount_in at a bin's price
AmountOut(amount, price_of_bin) ==
    IF swap_for_y THEN (price_of_bin * amount) \div One ELSE (amount * One) \div price_of_bin

AmountIn(amount, price_of_bin) ==
    IF swap_for_y THEN CeilDiv(amount * One, price_of_bin)
    ELSE CeilDiv(price_of_bin * amount, One)

\* volatility_accumulator_for_bin, without a clock
Volatility(b) ==
    Min({pair.max_volatility,
         pair.volatility_reference + 10 * Max({pair.index_reference - b, b - pair.index_reference})})

\* total_fee_rate: base_fee and variable_fee, capped
FeeRateAt(b) ==
    LET moved == Volatility(b) * pair.bin_step
    IN  Min({MaxFeeRate, pair.base_fee +
                CeilDiv(pair.variable_fee_control * (moved * moved), VariableFeeScale)})

\* compute_fee, on top of an amount, and compute_fee_from_amount, within it
FeeOn(b, amount) == CeilDiv(amount * FeeRateAt(b), FeePrecision - FeeRateAt(b))
FeeWithin(b, amount) == CeilDiv(amount * FeeRateAt(b), FeePrecision)

\* fee_on_input
FeeOnInput == pair.collect_only_y => ~swap_for_y

\* The layers of a bin in the order they are filled: its own liquidity, then
\* the limit orders of limit_order_amounts, processed before open.
Layers(b) ==
    LET bin == pair.bins[b]
        facing == pair.limit_orders /\ bin.ask # swap_for_y
    IN  [own       |-> IF swap_for_y THEN bin.y ELSE bin.x,
         processed |-> IF facing THEN bin.processed ELSE 0,
         open      |-> IF facing THEN bin.open ELSE 0]

\* max_amount_out_with_limit_orders
MaxOut(b) == Layers(b).own + Layers(b).processed + Layers(b).open

\* fill_at_price of one layer, on top of the layers before it
FillAtPrice(b, filled, layer) ==
    LET max_in == AmountIn(layer, BinPrice[b])
    IN  IF layer = 0 THEN filled
        ELSE IF filled.left >= max_in
        THEN [in |-> filled.in + max_in, left |-> filled.left - max_in, out |-> filled.out + layer]
        ELSE [in |-> filled.in + filled.left, left |-> 0,
              out |-> filled.out + AmountOut(filled.left, BinPrice[b])]

\* What is left of an output after the fee that is taken from it
NetOut(b, out) == IF FeeOnInput THEN out ELSE out - FeeWithin(b, out)

\* quote_at_bin
QuoteAtBin(b, amount) ==
    LET net == IF FeeOnInput THEN amount - FeeWithin(b, amount) ELSE amount
        own == FillAtPrice(b, [in |-> 0, left |-> net, out |-> 0], Layers(b).own)
        fill == FillAtPrice(b, FillAtPrice(b, own, Layers(b).processed), Layers(b).open)
    IN  [consumed |-> IF fill.left = 0 THEN amount
                      ELSE fill.in + (IF FeeOnInput THEN FeeOn(b, fill.in) ELSE 0),
         out |-> NetOut(b, fill.out)]

-----------------------------------------------------------------------------

BinInit ==
    /\ pair \in Pairs /\ swap_for_y \in BOOLEAN
    /\ bin_amount \in BinAmounts /\ bin_store \in BinStores
    /\ active_id = pair.active_id /\ amount_left = bin_amount
    /\ bins_out = 0 /\ arrays_walked = 0 /\ bin_array = NoArray
    /\ bin_quote = "idle"

\* The staleness gate: the pool and its active array are written together, so
\* an active array much older than the pool account has missed updates.  Slot
\* 0 is an age that is not known.
StaleActiveArray ==
    LET a == BinArrayOf(pair.active_id)
    IN  /\ pair.slot > 0 /\ a \in DOMAIN bin_store
        /\ bin_store[a] > 0 /\ bin_store[a] + StaleTolerance < pair.slot

BinStart ==
    /\ bin_quote = "idle"
    /\ bin_quote' = IF StaleActiveArray \/ pair.disabled THEN "none" ELSE "walking"
    /\ UNCHANGED <<bin_args, active_id, amount_left, bins_out, arrays_walked, bin_array>>

WalkingBins == bin_quote = "walking" /\ amount_left > 0

InArray == bin_array # NoArray /\ BinArrayOf(active_id) = bin_array

\* next_bin_array_index_with_liquidity from the active bin's array on
ArraysWithLiquidity ==
    LET start == BinArrayOf(active_id)
    IN  IF start \in -BinRadius .. BinRadius - 1
        THEN {a \in pair.bitmap : IF swap_for_y THEN a <= start ELSE a >= start}
        ELSE {}

IsNextArray(a) ==
    /\ a \in ArraysWithLiquidity
    /\ \A c \in ArraysWithLiquidity : IF swap_for_y THEN c <= a ELSE c >= a

\* Mutant of EnterArray: downwards, too, the walk goes on at the low edge.
EnterArrayAtLowEdge ==
    /\ WalkingBins /\ ~InArray /\ arrays_walked < MaxBinArrays
    /\ \E a \in DOMAIN bin_store :
         /\ IsNextArray(a)
         /\ bin_array' = a
         /\ active_id' = IF a = BinArrayOf(active_id) THEN active_id ELSE a * BinsPerArray
    /\ arrays_walked' = arrays_walked + 1
    /\ UNCHANGED <<bin_args, amount_left, bins_out, bin_quote>>

\* Into the next array; when empty ones were skipped the active bin snaps to
\* its near edge.
EnterArray ==
    /\ WalkingBins /\ ~InArray /\ arrays_walked < MaxBinArrays
    /\ \E a \in DOMAIN bin_store :
         /\ IsNextArray(a)
         /\ bin_array' = a
         /\ active_id' = IF a = BinArrayOf(active_id) THEN active_id
                         ELSE IF swap_for_y THEN a * BinsPerArray + BinsPerArray - 1
                         ELSE a * BinsPerArray
    /\ arrays_walked' = arrays_walked + 1
    /\ UNCHANGED <<bin_args, amount_left, bins_out, bin_quote>>

\* One bin of the inner loop; a bin with nothing to give is passed over.
WalkBin ==
    /\ WalkingBins /\ InArray
    /\ LET fill == IF MaxOut(active_id) > 0 THEN QuoteAtBin(active_id, amount_left)
                   ELSE [consumed |-> 0, out |-> 0]
           next == IF swap_for_y THEN active_id - 1 ELSE active_id + 1
           left == amount_left - fill.consumed
           taken == fill.consumed > 0
       IN  /\ amount_left' = left
           /\ bins_out' = IF taken THEN bins_out + fill.out ELSE bins_out
           /\ active_id' = IF left > 0 /\ next \in MinBin .. MaxBin THEN next ELSE active_id
           /\ bin_quote' = CASE left < 0 -> "none"
                             [] left > 0 /\ next \notin MinBin .. MaxBin -> "done"
                             [] OTHER -> "walking"
    /\ UNCHANGED <<bin_args, arrays_walked, bin_array>>

\* The loops end: all is spent, or no further array is to be had.  Without a
\* single array there is no quote.
BinStop ==
    /\ bin_quote = "walking"
    /\ \/ amount_left = 0
       \/ ~InArray /\ (arrays_walked = MaxBinArrays \/ \A a \in DOMAIN bin_store : ~IsNextArray(a))
    /\ bin_quote' = IF arrays_walked = 0 THEN "none" ELSE "done"
    /\ UNCHANGED <<bin_args, active_id, amount_left, bins_out, arrays_walked, bin_array>>

BinNext == BinStart \/ EnterArray \/ WalkBin \/ BinStop

BinSpec == BinInit /\ [][BinNext]_bin_vars

-----------------------------------------------------------------------------

\* The bins the walk has left behind.
Passed ==
    {b \in MinBin .. MaxBin : IF swap_for_y THEN active_id < b /\ b <= pair.active_id
                              ELSE pair.active_id <= b /\ b < active_id}

\* A walk gives what the bins it passed hold, all of it and each once, and no
\* more of the bin it stands in than that bin holds: no bin is skipped at the
\* edge of an array, none is paid twice, none is left half filled
\* (quote_exact_in, quote_at_bin).
BinsAreDrained ==
    LET holds(b) == NetOut(b, MaxOut(b))
        behind == SumFunction([b \in Passed |-> holds(b)])
    IN  bin_quote # "idle" =>
            /\ behind <= bins_out
            /\ bins_out <= behind + MaxOut(active_id)

\* A quote never gives more than the active bin's price does for the input:
\* the prices get worse from bin to bin, and fees and roundings are the pool's
\* (fill_at_price, compute_fee).
WorseThanActiveBin ==
    LET p == BinPrice[pair.active_id]
        spent == bin_amount - amount_left
    IN  IF swap_for_y THEN bins_out * One <= spent * p ELSE bins_out * p <= spent * One
=============================================================================

-------------------------- MODULE Quotes_proofs --------------------------
(***************************************************************************)
(* The quotes, for any pool, price curve, bitmap and amount.               *)
(*                                                                         *)
(* The walk over ticks keeps TickInv: it meets every initialised tick once *)
(* and in order, so its liquidity is the active one, and the arrays it     *)
(* fetches are the nearest ones of the bitmap.  TickSums adds up the steps *)
(* of compute_swap_step, each no better than the price it starts from.     *)
(* The walk over bins keeps BinInv: what it has given is what the bins it  *)
(* passed hold.  The other venues keep CurveInv: from the first market to  *)
(* the one now, what its formula conserves is conserved, and whatever the  *)
(* trader is up the pool has lost.  For two sides, virtual or real, that   *)
(* is a product which never shrinks; for one price, the worth of what was  *)
(* traded; for a ladder of segments, what climbing it has cost and what is *)
(* for sale above.  QuotesInv puts them together.                          *)
(***************************************************************************)
EXTENDS Quotes, Sums

Home == ArrayOf(pool.tick)

\* x comes before y in the direction of the walk.
Before(x, y) == IF zero_for_one THEN x > y ELSE x < y

\* No initialised tick is due before next.
IsDue(next) ==
    /\ next \in pool.ticks
    /\ IF zero_for_one THEN next <= tick ELSE next > tick
    /\ \A u \in pool.ticks : (IF zero_for_one THEN u <= tick ELSE u > tick) => ~Before(u, next)

\* Where the walk is when it is called
AtStart ==
    /\ price = pool.price /\ tick = pool.tick /\ liquidity = pool.active[pool.tick]
    /\ remaining = amount_in /\ array = Home /\ walked = {} /\ contains_tick = FALSE

\* The price is in its tick or where crossing a tick has left it, and within
\* the limit.
Aligned ==
    IF zero_for_one
    THEN price >= PriceLimit(TRUE) /\ (tick >= MinTick => Price[tick] <= price)
    ELSE price <= PriceLimit(FALSE) /\ (tick < MaxTick => price <= Price[tick + 1])

\* What the loop keeps of its numbers
Counts ==
    /\ price \in Nat \ {0} /\ tick \in MinTick - 1 .. MaxTick
    /\ liquidity \in Nat /\ remaining \in Nat

\* The current tick is in the current array or, having gone down from its
\* lowest tick, just below; before the first step the array is the nearest
\* of the bitmap.
InPlace ==
    IF contains_tick
    THEN \/ ArrayOf(tick) = array
         \/ zero_for_one /\ ArrayOf(tick) = array - 1 /\ ArrayOf(tick + 1) = array
    ELSE /\ tick = pool.tick /\ array # Home
         /\ IsNearest(array, ArraysFrom(Home))

\* The arrays walked are the first of the bitmap, with none left out.
WalkedIsPrefix ==
    /\ walked \subseteq pool.bitmap
    /\ walked # {} => Home \in InPool
    /\ \A a \in walked : ~Before(a, Home)
    /\ \A a \in walked : \A b \in pool.bitmap :
         (~Before(b, Home) /\ Before(b, a)) => b \in walked

Shapes ==
    /\ pool \in Pools /\ zero_for_one \in BOOLEAN /\ amount_in \in Nat
    /\ array \in Int /\ contains_tick \in BOOLEAN

TickInv ==
    /\ Shapes
    /\ quote = "idle" => AtStart
    /\ quote = "walking" => array \in walked
    /\ Walking => Counts /\ InPlace /\ Aligned
    /\ WalkedIsPrefix
    /\ LiquidityIsActive

-----------------------------------------------------------------------------
(* Arrays, pools, prices *)

\* The quotient of a number and of the one below it
LEMMA DivFacts ==
    ASSUME NEW a \in Int, NEW d \in Nat \ {0}
    PROVE  /\ a \div d \in Int
           /\ a \in Nat => a \div d \in Nat
           /\ (a - 1) \div d \in {a \div d, a \div d - 1}
  <1>1. a \div d \in Int
    OBVIOUS
  <1>2. (a - 1) \div d \in {a \div d, a \div d - 1}
    OBVIOUS
  <1>3. a \in Nat => a \div d \in Nat
    OBVIOUS
  <1>. QED
    BY <1>1, <1>2, <1>3

\* Division by a positive number keeps the order.
LEMMA DivMonotone ==
    ASSUME NEW a \in Int, NEW b \in Int, NEW d \in Nat \ {0}, a <= b
    PROVE  a \div d <= b \div d
  OBVIOUS

\* ArrayOf keeps the order of ticks; the tick below is in the same array or in
\* the one below.
LEMMA ArrayFacts ==
    /\ TicksInArray \in Nat \ {0}
    /\ \A t \in Int : ArrayOf(t) \in Int
    /\ \A s, t \in Int : s <= t => ArrayOf(s) <= ArrayOf(t)
    /\ \A t \in Int : ArrayOf(t - 1) \in {ArrayOf(t), ArrayOf(t) - 1}
  <1>1. TicksInArray \in Nat \ {0}
    BY TickAssumption DEF TicksInArray
  <1>. QED
    BY <1>1, DivFacts, DivMonotone DEF ArrayOf

\* What is known of the pool that is quoted
LEMMA PoolFacts ==
    ASSUME pool \in Pools
    PROVE  /\ pool.ticks \subseteq Ticks /\ Ticks \subseteq Int
           /\ pool.active \in [MinTick - 1 .. MaxTick -> Nat]
           /\ pool.tick \in Ticks /\ pool.price \in Nat \ {0}
           /\ Price[pool.tick] <= pool.price
           /\ pool.tick < MaxTick => pool.price <= Price[pool.tick + 1]
           /\ PriceLimit(TRUE) <= pool.price /\ pool.price <= PriceLimit(FALSE)
           /\ MinTick \in Int /\ MaxTick \in Int
           /\ \A s, t \in MinTick - 1 .. MaxTick :
                (s <= t /\ \A u \in pool.ticks : ~(s < u /\ u <= t))
                    => pool.active[s] = pool.active[t]
           /\ \A t \in pool.ticks : ArrayOf(t) \in InPool => ArrayOf(t) \in pool.bitmap
           /\ pool.bitmap \subseteq InPool
           /\ \A a \in pool.extension : a \in Int /\ a \notin InPool
           /\ InPool \subseteq Int
           /\ \A a, c \in InPool : \A b \in Int : a <= b /\ b <= c => b \in InPool
  <1>1. WellFormed(pool)
    BY TickAssumption
  <1>2. MinTick \in Int /\ MaxTick \in Int /\ BitmapRadius \in Nat
    BY TickAssumption
  <1>3. /\ InPool \subseteq Int
        /\ \A a, c \in InPool : \A b \in Int : a <= b /\ b <= c => b \in InPool
    BY <1>2 DEF InPool
  <1>4. Ticks \subseteq Int
    BY <1>2 DEF Ticks
  <1>5. /\ pool.price \in Nat \ {0}
        /\ PriceLimit(TRUE) <= pool.price /\ pool.price <= PriceLimit(FALSE)
    <2>1. Price[MinTick] \in Nat \ {0} /\ Price[MaxTick] \in Nat \ {0}
      BY TickAssumption DEF Ticks
    <2>2. pool.price \in Price[MinTick] + 1 .. Price[MaxTick] - 1
      BY <1>1 DEF WellFormed
    <2>. QED
      BY <2>1, <2>2 DEF PriceLimit
  <1>6. /\ pool.ticks \subseteq Ticks /\ pool.active \in [MinTick - 1 .. MaxTick -> Nat]
        /\ pool.tick \in Ticks /\ Price[pool.tick] <= pool.price
        /\ pool.tick < MaxTick => pool.price <= Price[pool.tick + 1]
    BY <1>1 DEF WellFormed
  <1>7. /\ \A t \in pool.ticks : ArrayOf(t) \in InPool => ArrayOf(t) \in pool.bitmap
        /\ pool.bitmap \subseteq InPool
    BY <1>1 DEF WellFormed
  <1>8. \A a \in pool.extension : a \in Int /\ a \notin InPool
    <2>1. pool.extension \subseteq (-ExtensionRadius .. ExtensionRadius - 1) \ InPool
      BY <1>1 DEF WellFormed
    <2>. QED
      BY <2>1, TickAssumption
  <1>9. \A s, t \in MinTick - 1 .. MaxTick :
           (s <= t /\ \A u \in pool.ticks : ~(s < u /\ u <= t)) => pool.active[s] = pool.active[t]
    BY <1>1 DEF WellFormed
  <1>. QED
    BY <1>2, <1>3, <1>4, <1>5, <1>6, <1>7, <1>8, <1>9

-----------------------------------------------------------------------------
(* Rounded quotients *)

\* A product keeps the order of its factors.
LEMMA TimesKeepsOrder ==
    \A a, b \in Int : \A c \in Nat : a <= b => a * c <= b * c
  OBVIOUS

\* A quotient rounded down is the largest number that divides,
LEMMA FloorIs ==
    ASSUME NEW a \in Nat, NEW b \in Nat \ {0}
    PROVE  a \div b \in Nat /\ (a \div b) * b <= a
  OBVIOUS

\* and one rounded up the smallest that covers.
LEMMA CeilIs ==
    ASSUME NEW a \in Nat, NEW b \in Nat \ {0}
    PROVE  /\ CeilDiv(a, b) \in Nat /\ a <= CeilDiv(a, b) * b
           /\ \A n \in Nat : a <= n * b => CeilDiv(a, b) <= n
  <1>. DEFINE q == (a + b - 1) \div b
  <1>1. q \in Nat /\ q * b <= a + b - 1 /\ a + b - 1 < q * b + b
    OBVIOUS
  <1>2. CeilDiv(a, b) = q
    BY DEF CeilDiv
  <1>3. a <= q * b
    BY <1>1
  <1>4. ASSUME NEW n \in Nat, a <= n * b PROVE q <= n
    <2>. HIDE DEF q
    <2>. SUFFICES ASSUME q >= n + 1 PROVE FALSE
      BY <1>1
    <2>1. (n + 1) * b <= q * b
      BY <1>1, TimesKeepsOrder
    <2>2. (n + 1) * b = n * b + b
      OBVIOUS
    <2>. QED
      BY <1>1, <1>4, <2>1, <2>2
  <1>. QED
    BY <1>1, <1>2, <1>3, <1>4

-----------------------------------------------------------------------------
(* One step of the swap between two prices *)

\* What is taken or given of token 1 between two prices
LEMMA Delta1Is ==
    ASSUME NEW low \in Nat \ {0}, NEW high \in Nat, low <= high, NEW l \in Nat
    PROVE  /\ Delta1(low, high, l, FALSE) \in Nat /\ Delta1(low, high, l, FALSE) * Q <= l * (high - low)
           /\ Delta1(low, high, l, TRUE) \in Nat /\ l * (high - low) <= Delta1(low, high, l, TRUE) * Q
           /\ \A n \in Nat : l * (high - low) <= n * Q => Delta1(low, high, l, TRUE) <= n
  <1>. DEFINE x == l * (high - low)
  <1>1. x \in Nat /\ Q \in Nat \ {0}
    BY TickAssumption
  <1>2. Delta1(low, high, l, FALSE) = x \div Q /\ Delta1(low, high, l, TRUE) = CeilDiv(x, Q)
    BY DEF Delta1
  <1>. HIDE DEF x
  <1>3. x \div Q \in Nat /\ (x \div Q) * Q <= x
    BY <1>1, FloorIs
  <1>4. /\ CeilDiv(x, Q) \in Nat /\ x <= CeilDiv(x, Q) * Q
        /\ \A n \in Nat : x <= n * Q => CeilDiv(x, Q) <= n
    BY <1>1, CeilIs
  <1>. QED
    BY <1>2, <1>3, <1>4 DEF x

\* and of token 0
LEMMA Delta0Is ==
    ASSUME NEW low \in Nat \ {0}, NEW high \in Nat, low <= high, NEW l \in Nat
    PROVE  /\ Delta0(low, high, l, FALSE) \in Nat
           /\ Delta0(low, high, l, FALSE) * (low * high) <= l * Q * (high - low)
           /\ Delta0(low, high, l, TRUE) \in Nat
           /\ l * Q * (high - low) <= Delta0(low, high, l, TRUE) * (low * high)
           /\ \A n \in Nat : l * Q * (high - low) <= n * (low * high) => Delta0(low, high, l, TRUE) <= n
  <1>. DEFINE x == l * Q * (high - low)
              u == CeilDiv(x, high)
              v == x \div high
  <1>1. x \in Nat /\ high \in Nat \ {0}
    <2>1. l * Q \in Nat /\ high - low \in Nat
      BY TickAssumption
    <2>. QED
      BY <2>1
  <1>2. Delta0(low, high, l, FALSE) = v \div low /\ Delta0(low, high, l, TRUE) = CeilDiv(u, low)
    BY DEF Delta0
  <1>. HIDE DEF x
  <1>3. v \in Nat /\ v * high <= x
    BY <1>1, FloorIs
  <1>4. /\ u \in Nat /\ x <= u * high
        /\ \A n \in Nat : x <= n * high => u <= n
    BY <1>1, CeilIs
  <1>. HIDE DEF u, v
  <1>5. v \div low \in Nat /\ (v \div low) * low <= v
    BY <1>3, FloorIs
  <1>6. /\ CeilDiv(u, low) \in Nat /\ u <= CeilDiv(u, low) * low
        /\ \A n \in Nat : u <= n * low => CeilDiv(u, low) <= n
    BY <1>4, CeilIs
  <1>7. (v \div low) * (low * high) <= x
    <2>. DEFINE w == v \div low
    <2>1. w \in Nat /\ w * low <= v
      BY <1>5
    <2>. HIDE DEF w
    <2>2. w * low * high <= v * high
      BY <1>1, <1>3, <2>1, TimesKeepsOrder
    <2>3. w * low * high = w * (low * high)
      BY <2>1
    <2>4. w * (low * high) <= x
      BY <1>1, <1>3, <2>1, <2>2, <2>3
    <2>. QED
      BY <2>4 DEF w
  <1>8. x <= CeilDiv(u, low) * (low * high)
    <2>. DEFINE w == CeilDiv(u, low)
    <2>1. w \in Nat /\ u <= w * low
      BY <1>6
    <2>. HIDE DEF w
    <2>2. u * high <= w * low * high
      BY <1>1, <1>4, <2>1, TimesKeepsOrder
    <2>3. w * low * high = w * (low * high)
      BY <2>1
    <2>4. x <= w * (low * high)
      BY <1>1, <1>4, <2>1, <2>2, <2>3
    <2>. QED
      BY <2>4 DEF w
  <1>9. ASSUME NEW n \in Nat, x <= n * (low * high) PROVE CeilDiv(u, low) <= n
    <2>1. n * (low * high) = (n * low) * high /\ n * low \in Nat
      OBVIOUS
    <2>2. u <= n * low
      BY <1>4, <1>9, <2>1
    <2>. QED
      BY <1>6, <2>2
  <1>. QED
    BY <1>2, <1>5, <1>6, <1>7, <1>8, <1>9 DEF x

\* Where an amount moves the price: against the trader, and no farther than
\* the amount pays for.
LEMMA NextPriceIs ==
    ASSUME NEW p \in Nat \ {0}, NEW l \in Nat \ {0}, NEW a \in Nat
    PROVE  /\ LET n == NextPrice(p, l, a, TRUE)
              IN  n \in Nat \ {0} /\ n <= p /\ l * Q * (p - n) <= a * (n * p)
           /\ LET n == NextPrice(p, l, a, FALSE)
              IN  n \in Nat \ {0} /\ n >= p /\ l * (n - p) <= a * Q
  <1>1. Q \in Nat \ {0}
    BY TickAssumption
  <1>2. CASE a = 0
    <2>1. NextPrice(p, l, a, TRUE) = p /\ NextPrice(p, l, a, FALSE) = p
      BY <1>2 DEF NextPrice
    <2>2. l * Q * (p - p) <= a * (p * p) /\ l * (p - p) <= a * Q
      <3>1. l * Q * 0 = 0 /\ l * 0 = 0 /\ 0 * (p * p) = 0 /\ 0 * Q = 0 /\ p - p = 0
        BY <1>1
      <3>. QED
        BY <1>2, <3>1
    <2>3. \A n : n = p => /\ n \in Nat \ {0} /\ n <= p /\ n >= p
                          /\ l * Q * (p - n) <= a * (n * p) /\ l * (n - p) <= a * Q
      BY <2>2
    <2>. QED
      BY <2>1, <2>3
  <1>3. ASSUME a # 0
        PROVE  LET n == NextPrice(p, l, a, TRUE)
               IN  n \in Nat \ {0} /\ n <= p /\ l * Q * (p - n) <= a * (n * p)
    <2>. DEFINE k == l * Q
                x == k * p
                y == k + a * p
                n == CeilDiv(x, y)
    <2>1. k \in Nat \ {0}
      BY <1>1
    <2>2. NextPrice(p, l, a, TRUE) = n
      BY <1>3 DEF NextPrice
    <2>. HIDE DEF k
    <2>3. x \in Nat \ {0} /\ y \in Nat \ {0} /\ a * p \in Nat
      BY <2>1
    <2>4. n \in Nat /\ x <= n * y /\ (x <= p * y => n <= p)
      <3>. HIDE DEF x, y
      <3>. QED
        BY <2>3, CeilIs
    <2>5. x <= p * y
      <3>1. p * y = p * k + p * (a * p) /\ p * (a * p) \in Nat /\ p * k = k * p
        BY <2>1, <2>3
      <3>. QED
        BY <2>1, <2>3, <3>1
    <2>6. n # 0
      <3>. HIDE DEF x, y
      <3>. SUFFICES ASSUME n = 0 PROVE FALSE
        OBVIOUS
      <3>1. n * y = 0
        BY <2>3
      <3>. QED
        BY <2>3, <2>4, <3>1
    <2>. HIDE DEF n
    <2>7. k * (p - n) <= a * (n * p)
      <3>1. n * y = n * k + n * (a * p)
        BY <2>1, <2>3, <2>4
      <3>2. k * (p - n) = k * p - n * k /\ n * (a * p) = a * (n * p)
        BY <2>1, <2>4
      <3>3. k * p \in Nat /\ n * k \in Nat /\ a * (n * p) \in Nat
        BY <2>1, <2>4
      <3>. QED
        BY <2>4, <3>1, <3>2, <3>3
    <2>. QED
      BY <2>2, <2>4, <2>5, <2>6, <2>7 DEF k
  <1>4. ASSUME a # 0
        PROVE  LET n == NextPrice(p, l, a, FALSE)
               IN  n \in Nat \ {0} /\ n >= p /\ l * (n - p) <= a * Q
    <2>. DEFINE q == (a * Q) \div l
    <2>1. q \in Nat /\ q * l <= a * Q
      <3>1. a * Q \in Nat
        BY <1>1
      <3>. QED
        BY <3>1, FloorIs
    <2>2. NextPrice(p, l, a, FALSE) = p + q
      BY <1>4 DEF NextPrice
    <2>. HIDE DEF q
    <2>3. p + q \in Nat \ {0} /\ p + q >= p /\ l * ((p + q) - p) = q * l
      BY <2>1
    <2>. QED
      BY <2>1, <2>2, <2>3
  <1>. QED
    BY <1>2, <1>3, <1>4

\* The price moves against the trader.
Worse(p, n, zero) == n \in Nat \ {0} /\ IF zero THEN n <= p ELSE n >= p

\* A step gives no more than its price before and after do for the input less
\* the fee.
FairStep(p, s, zero) ==
    /\ Worse(p, s.price, zero)
    /\ s.in \in Nat /\ s.out \in Nat /\ s.in + s.fee \in Nat
    /\ s.in * FeeDenominator <= (s.in + s.fee) * (FeeDenominator - FeeRate)
    /\ IF zero THEN s.out * (Q * Q) <= s.in * (s.price * p) ELSE s.out * (p * s.price) <= s.in * (Q * Q)

\* What a step from p to n costs and gives
Cost(p, n, l, zero) == IF zero THEN Delta0(n, p, l, TRUE) ELSE Delta1(p, n, l, TRUE)
Given(p, n, l, zero) == IF zero THEN Delta1(n, p, l, FALSE) ELSE Delta0(p, n, l, FALSE)

\* compute_swap_step: what it gives for what it costs
LEMMA CostIsFair ==
    ASSUME NEW p \in Nat \ {0}, NEW n, NEW l \in Nat \ {0}, NEW zero \in BOOLEAN, Worse(p, n, zero)
    PROVE  /\ Cost(p, n, l, zero) \in Nat /\ Given(p, n, l, zero) \in Nat
           /\ IF zero THEN Given(p, n, l, zero) * (Q * Q) <= Cost(p, n, l, zero) * (n * p)
              ELSE Given(p, n, l, zero) * (p * n) <= Cost(p, n, l, zero) * (Q * Q)
  <1>. DEFINE i == Cost(p, n, l, zero)
              o == Given(p, n, l, zero)
  <1>1. Q \in Nat \ {0} /\ n \in Nat \ {0}
    BY TickAssumption DEF Worse
  <1>2. CASE zero
    <2>1. n <= p
      BY <1>2 DEF Worse
    <2>2. i \in Nat /\ l * Q * (p - n) <= i * (n * p)
      <3>1. i = Delta0(n, p, l, TRUE)
        BY <1>2 DEF Cost
      <3>. HIDE DEF i
      <3>. QED
        BY <1>1, <2>1, <3>1, Delta0Is
    <2>3. o \in Nat /\ o * Q <= l * (p - n)
      <3>1. o = Delta1(n, p, l, FALSE)
        BY <1>2 DEF Given
      <3>. HIDE DEF o
      <3>. QED
        BY <1>1, <2>1, <3>1, Delta1Is
    <2>. HIDE DEF i, o
    <2>4. o * (Q * Q) <= l * Q * (p - n)
      <3>1. l * (p - n) \in Nat /\ o * Q \in Nat
        BY <1>1, <2>1, <2>3
      <3>2. o * Q * Q <= l * (p - n) * Q
        BY <1>1, <2>3, <3>1, TimesKeepsOrder
      <3>3. o * Q * Q = o * (Q * Q) /\ l * (p - n) * Q = l * Q * (p - n)
        BY <1>1, <2>3
      <3>. QED
        BY <3>2, <3>3
    <2>5. o * (Q * Q) \in Int /\ l * Q * (p - n) \in Int /\ i * (n * p) \in Int
      BY <1>1, <2>2, <2>3
    <2>6. o * (Q * Q) <= i * (n * p)
      BY <2>2, <2>4, <2>5
    <2>. QED
      BY <1>2, <2>2, <2>3, <2>6 DEF i, o
  <1>3. CASE ~zero
    <2>1. p <= n
      BY <1>3 DEF Worse
    <2>2. i \in Nat /\ l * (n - p) <= i * Q
      <3>1. i = Delta1(p, n, l, TRUE)
        BY <1>3 DEF Cost
      <3>. HIDE DEF i
      <3>. QED
        BY <1>1, <2>1, <3>1, Delta1Is
    <2>3. o \in Nat /\ o * (p * n) <= l * Q * (n - p)
      <3>1. o = Delta0(p, n, l, FALSE)
        BY <1>3 DEF Given
      <3>. HIDE DEF o
      <3>. QED
        BY <1>1, <2>1, <3>1, Delta0Is
    <2>. HIDE DEF i, o
    <2>4. l * Q * (n - p) <= i * (Q * Q)
      <3>1. l * (n - p) \in Nat /\ i * Q \in Nat
        BY <1>1, <2>1, <2>2
      <3>2. l * (n - p) * Q <= i * Q * Q
        BY <1>1, <2>2, <3>1, TimesKeepsOrder
      <3>3. i * Q * Q = i * (Q * Q) /\ l * (n - p) * Q = l * Q * (n - p)
        BY <1>1, <2>2
      <3>. QED
        BY <3>2, <3>3
    <2>5. o * (p * n) \in Int /\ l * Q * (n - p) \in Int /\ i * (Q * Q) \in Int
      BY <1>1, <2>2, <2>3
    <2>6. o * (p * n) <= i * (Q * Q)
      BY <2>3, <2>4, <2>5
    <2>. QED
      BY <1>3, <2>2, <2>3, <2>6 DEF i, o
  <1>. QED
    BY <1>2, <1>3

\* compute_swap_step: whether it reaches its target or spends what it has
LEMMA SwapStepIsFair ==
    ASSUME NEW p \in Nat \ {0}, NEW target, NEW l \in Nat \ {0}, NEW amount \in Nat,
           NEW zero \in BOOLEAN, Worse(p, target, zero)
    PROVE  LET s == SwapStep(p, target, l, amount, zero)
           IN  /\ FairStep(p, s, zero)
               /\ s.price # target => s.in + s.fee = amount
  <1>. DEFINE D == FeeDenominator
              N == FeeDenominator - FeeRate
              a == (amount * N) \div D
              cost(to) == IF zero THEN Delta0(to, p, l, TRUE) ELSE Delta1(p, to, l, TRUE)
              next == IF a >= cost(target) THEN target ELSE NextPrice(p, l, a, zero)
              s == SwapStep(p, target, l, amount, zero)
  <1>1. Q \in Nat \ {0} /\ D \in Nat \ {0} /\ FeeRate \in Nat /\ N \in Nat \ {0} /\ N = D - FeeRate
    BY TickAssumption
  <1>2. s = [price |-> next, in |-> cost(next),
             out |-> IF zero THEN Delta1(next, p, l, FALSE) ELSE Delta0(p, next, l, FALSE),
             fee |-> IF next # target THEN amount - cost(next)
                     ELSE CeilDiv(cost(next) * FeeRate, N)]
    BY DEF SwapStep
  <1>3. \A to : cost(to) = Cost(p, to, l, zero)
    BY DEF Cost
  <1>4. a \in Nat /\ a * D <= amount * N
    <2>1. amount * N \in Nat
      BY <1>1
    <2>. HIDE DEF N, D
    <2>. QED
      BY <1>1, <2>1, FloorIs
  <1>. HIDE DEF a, N, D
  <1>5. Worse(p, NextPrice(p, l, a, zero), zero) /\ Cost(p, NextPrice(p, l, a, zero), l, zero) <= a
    <2>. DEFINE n == NextPrice(p, l, a, zero)
    <2>1. CASE zero
      <3>1. n \in Nat \ {0} /\ n <= p /\ l * Q * (p - n) <= a * (n * p)
        BY <1>4, <2>1, NextPriceIs
      <3>. HIDE DEF n
      <3>2. Delta0(n, p, l, TRUE) <= a
        BY <1>4, <3>1, Delta0Is
      <3>. QED
        BY <2>1, <3>1, <3>2 DEF n, Worse, Cost
    <2>2. CASE ~zero
      <3>1. n \in Nat \ {0} /\ n >= p /\ l * (n - p) <= a * Q
        BY <1>4, <2>2, NextPriceIs
      <3>. HIDE DEF n
      <3>2. Delta1(p, n, l, TRUE) <= a
        BY <1>4, <3>1, Delta1Is
      <3>. QED
        BY <2>2, <3>1, <3>2 DEF n, Worse, Cost
    <2>. QED
      BY <2>1, <2>2
  <1>6. Worse(p, next, zero) /\ (next # target => cost(next) <= a)
    BY <1>3, <1>5
  <1>7. next \in Nat \ {0}
    BY <1>6 DEF Worse
  <1>. HIDE DEF next
  <1>8. /\ cost(next) \in Nat /\ Given(p, next, l, zero) \in Nat
        /\ IF zero THEN Given(p, next, l, zero) * (Q * Q) <= cost(next) * (next * p)
           ELSE Given(p, next, l, zero) * (p * next) <= cost(next) * (Q * Q)
    BY <1>3, <1>6, CostIsFair
  <1>9. s.price = next /\ s.in = cost(next) /\ s.out = Given(p, next, l, zero)
        /\ s.fee = IF next # target THEN amount - cost(next) ELSE CeilDiv(cost(next) * FeeRate, N)
    BY <1>2 DEF Given
  <1>. HIDE DEF s, cost
  <1>10. CASE next # target
    <2>1. s.in + s.fee = amount
      BY <1>8, <1>9, <1>10
    <2>2. s.in * D <= amount * N
      <3>1. s.in * D <= a * D
        BY <1>1, <1>4, <1>6, <1>8, <1>9, <1>10, TimesKeepsOrder
      <3>2. s.in * D \in Nat /\ a * D \in Nat /\ amount * N \in Nat
        BY <1>1, <1>4, <1>8, <1>9
      <3>. QED
        BY <1>4, <3>1, <3>2
    <2>. QED
      BY <1>1, <1>6, <1>8, <1>9, <1>10, <2>1, <2>2 DEF FairStep, s, D, N
  <1>11. CASE next = target
    <2>. DEFINE x == cost(next) * FeeRate
                f == CeilDiv(x, N)
    <2>1. x \in Nat
      BY <1>1, <1>8
    <2>2. f \in Nat /\ x <= f * N
      <3>. HIDE DEF x
      <3>. QED
        BY <1>1, <2>1, CeilIs
    <2>3. s.fee = f
      BY <1>9, <1>11
    <2>. HIDE DEF f
    <2>4. s.in * D <= (s.in + f) * N
      <3>1. (s.in + f) * N = s.in * N + f * N
        BY <1>1, <1>8, <1>9, <2>2
      <3>2. s.in * N + s.in * FeeRate = s.in * D
        BY <1>1, <1>8, <1>9
      <3>3. s.in * N \in Nat /\ f * N \in Nat /\ s.in * FeeRate = x
        BY <1>1, <1>8, <1>9, <2>2
      <3>. QED
        BY <2>1, <2>2, <3>1, <3>2, <3>3
    <2>. QED
      BY <1>1, <1>6, <1>8, <1>9, <1>11, <2>2, <2>3, <2>4 DEF FairStep, s, D, N
  <1>. QED
    BY <1>10, <1>11

\* Steps add up: a quote that was no better than its start before a fair step
\* at a price no better is so after it.
LEMMA FairStepsAdd ==
    ASSUME NEW D \in Nat, NEW N \in Nat, NEW A \in Nat, NEW B \in Nat, NEW x \in Nat, NEW y \in Nat,
           NEW out \in Nat, NEW spent \in Nat, out * A * D <= (spent * N) * B,
           NEW o \in Nat, NEW i \in Nat, NEW w \in Nat,
           i * D <= w * N, A <= x, y <= B, o * x <= i * y
    PROVE  (out + o) * A * D <= ((spent + w) * N) * B
  <1>1. o * A <= o * x /\ i * y <= i * B
    BY TimesKeepsOrder
  <1>2. o * A \in Nat /\ o * x \in Nat /\ i * y \in Nat /\ i * B \in Nat
    OBVIOUS
  <1>3. o * A <= i * B
    BY <1>1, <1>2
  <1>4. o * A * D <= i * B * D
    BY <1>2, <1>3, TimesKeepsOrder
  <1>5. i * D \in Nat /\ w * N \in Nat
    OBVIOUS
  <1>6. i * D * B <= w * N * B
    BY <1>5, TimesKeepsOrder
  <1>7. i * D * B = i * B * D
    OBVIOUS
  <1>8. o * A * D <= w * N * B
    <2>1. o * A * D \in Int /\ i * B * D \in Int /\ w * N * B \in Int
      OBVIOUS
    <2>. QED
      BY <1>4, <1>6, <1>7, <2>1
  <1>9. /\ (out + o) * A * D = out * A * D + o * A * D
        /\ ((spent + w) * N) * B = (spent * N) * B + w * N * B
    OBVIOUS
  <1>10. out * A * D \in Int /\ o * A * D \in Int /\ (spent * N) * B \in Int /\ w * N * B \in Int
    OBVIOUS
  <1>. QED
    BY <1>8, <1>9, <1>10

-----------------------------------------------------------------------------
(* The next tick *)

\* Whatever the walk finds as the next tick, in the array it is in or in the
\* one it goes on to, no initialised tick comes before it.
LEMMA WithinIsDue ==
    ASSUME TickInv, Walking, NEW t \in TicksAhead, IsNearest(t, TicksAhead)
    PROVE  IsDue(t) /\ ArrayOf(t) = array
  <1>1. /\ t \in pool.ticks /\ ArrayOf(t) = array /\ ArrayOf(tick) = array
        /\ IF zero_for_one THEN t <= tick ELSE t > tick
    BY DEF TicksAhead, TicksOf
  <1>2. pool.ticks \subseteq Int /\ tick \in Int
    BY PoolFacts DEF TickInv, Shapes, Counts
  <1>3. ASSUME NEW u \in pool.ticks, IF zero_for_one THEN u <= tick ELSE u > tick, Before(u, t)
        PROVE  FALSE
    <2>1. ArrayOf(u) = array
      <3>1. u \in Int /\ t \in Int /\ tick \in Int
        BY <1>1, <1>2, <1>3
      <3>2. \/ t <= u /\ u <= tick
            \/ tick <= u /\ u <= t
        BY <1>1, <1>3, <3>1 DEF Before
      <3>3. \/ ArrayOf(t) <= ArrayOf(u) /\ ArrayOf(u) <= ArrayOf(tick)
            \/ ArrayOf(tick) <= ArrayOf(u) /\ ArrayOf(u) <= ArrayOf(t)
        BY <3>1, <3>2, ArrayFacts
      <3>4. ArrayOf(u) \in Int /\ ArrayOf(tick) \in Int
        BY <3>1, ArrayFacts
      <3>. QED
        BY <3>3, <3>4, <1>1
    <2>2. u \in TicksAhead
      BY <1>1, <1>3, <2>1 DEF TicksAhead, TicksOf
    <2>. QED
      BY <1>2, <1>3, <2>2, <1>1 DEF IsNearest, Before
  <1>. QED
    BY <1>1, <1>3 DEF IsDue

\* The first tick of an array a in the bitmap is due when every tick that is
\* due lies in an array from some array b on, and a is the nearest from b.
LEMMA AcrossIsDue ==
    ASSUME TickInv, Walking, NEW b \in InPool, NEW a \in ArraysFrom(b), IsNearest(a, ArraysFrom(b)),
           \A u \in pool.ticks : (IF zero_for_one THEN u <= tick ELSE u > tick) =>
               (IF zero_for_one THEN ArrayOf(u) <= b ELSE ArrayOf(u) >= b),
           \A u \in TicksOf(a) : IF zero_for_one THEN u <= tick ELSE u > tick,
           NEW t \in TicksOf(a), IsNearest(t, TicksOf(a))
    PROVE  IsDue(t) /\ ArrayOf(t) = a
  <1>1. t \in pool.ticks /\ ArrayOf(t) = a /\ a \in pool.bitmap
    BY DEF TicksOf, ArraysFrom
  <1>2. /\ pool.ticks \subseteq Int /\ tick \in Int /\ a \in InPool /\ InPool \subseteq Int
    BY <1>1, PoolFacts DEF TickInv, Shapes, Counts
  <1>3. ASSUME NEW u \in pool.ticks, IF zero_for_one THEN u <= tick ELSE u > tick, Before(u, t)
        PROVE  FALSE
    <2>1. /\ ArrayOf(u) \in Int
          /\ IF zero_for_one THEN a <= ArrayOf(u) /\ ArrayOf(u) <= b
             ELSE b <= ArrayOf(u) /\ ArrayOf(u) <= a
      BY <1>1, <1>2, <1>3, ArrayFacts DEF Before
    <2>2. ArrayOf(u) \in InPool
      BY <1>2, <2>1, PoolFacts DEF TickInv, Shapes
    <2>3. ArrayOf(u) \in ArraysFrom(b)
      BY <2>1, <2>2, PoolFacts DEF ArraysFrom, TickInv, Shapes
    <2>4. ArrayOf(u) = a
      BY <1>2, <2>1, <2>3 DEF IsNearest
    <2>5. u \in TicksOf(a)
      BY <2>4 DEF TicksOf
    <2>. QED
      BY <1>1, <1>2, <1>3, <2>5 DEF IsNearest, Before
  <1>. QED
    BY <1>1, <1>3 DEF IsDue

\* Between the current tick and the next one the active liquidity is the same.
LEMMA SameUpToNext ==
    ASSUME TickInv, Walking, NEW next, IsDue(next)
    PROVE  /\ next \in Ticks
           /\ pool.active[tick] = IF zero_for_one THEN pool.active[next] ELSE pool.active[next - 1]
  <1>1. /\ next \in Ticks /\ tick \in MinTick - 1 .. MaxTick
        /\ pool.ticks \subseteq Int /\ MinTick \in Int /\ MaxTick \in Int
    BY PoolFacts DEF IsDue, TickInv, Shapes, Counts
  <1>2. CASE zero_for_one
    <2>1. next <= tick /\ \A u \in pool.ticks : ~(next < u /\ u <= tick)
      BY <1>1, <1>2 DEF IsDue, Before
    <2>. QED
      BY <1>1, <1>2, <2>1, PoolFacts DEF Ticks, TickInv, Shapes
  <1>3. CASE ~zero_for_one
    <2>1. tick <= next - 1 /\ \A u \in pool.ticks : ~(tick < u /\ u <= next - 1)
      BY <1>1, <1>3 DEF IsDue, Before, Ticks
    <2>2. next - 1 \in MinTick - 1 .. MaxTick
      BY <1>1 DEF Ticks
    <2>. QED
      BY <1>1, <1>3, <2>1, <2>2, PoolFacts DEF TickInv, Shapes
  <1>. QED
    BY <1>2, <1>3

\* get_tick_at_sqrt_price gives a tick.
LEMMA TickAtIs ==
    ASSUME NEW p
    PROVE  TickAt(p) \in Ticks
  <1>. DEFINE S == {t \in Ticks : Price[t] <= p} \cup {MinTick}
  <1>1. /\ MinTick \in Ticks /\ Ticks \subseteq Int /\ IsFiniteSet(Ticks)
    BY TickAssumption, FS_Interval DEF Ticks
  <1>2. S \in SUBSET Int /\ S \subseteq Ticks /\ IsFiniteSet(S) /\ S # {}
    <2>1. S \subseteq Ticks /\ S # {}
      BY <1>1
    <2>. HIDE DEF S
    <2>. QED
      BY <1>1, <2>1, FS_Subset
  <1>3. \E b \in S : \A x \in S : x <= b
    BY <1>2, Extremes
  <1>4. \E b \in S : \A x \in S : b >= x
    BY <1>2, <1>3
  <1>5. Max(S) \in S
    BY <1>4 DEF Max
  <1>. QED
    BY <1>2, <1>5 DEF TickAt

\* What an iteration takes and gives, by a step s
Spends(s) ==
    /\ FairStep(price, s, zero_for_one) /\ s.in + s.fee <= remaining
    /\ remaining' = remaining - (s.in + s.fee) /\ total_out' = total_out + s.out
    /\ price' = s.price /\ tick' \in MinTick - 1 .. MaxTick /\ liquidity' \in Nat

\* The target of an iteration lies in the direction of the walk.
LEMMA TargetIsAhead ==
    ASSUME TickInv, Walking, NEW next, IsDue(next)
    PROVE  LET limit == PriceLimit(zero_for_one)
               target == IF zero_for_one THEN Max({Price[next], limit}) ELSE Min({Price[next], limit})
           IN  /\ Worse(price, target, zero_for_one) /\ target \in {Price[next], limit}
               /\ IF zero_for_one THEN target >= limit ELSE target <= limit
  <1>. DEFINE limit == PriceLimit(zero_for_one)
              target == IF zero_for_one THEN Max({Price[next], limit}) ELSE Min({Price[next], limit})
  <1>1. /\ next \in Ticks /\ tick \in MinTick - 1 .. MaxTick /\ price \in Nat \ {0}
        /\ MinTick \in Int /\ MaxTick \in Int /\ zero_for_one \in BOOLEAN /\ Aligned
        /\ Price \in [Ticks -> Nat \ {0}] /\ \A s, t \in Ticks : s <= t => Price[s] <= Price[t]
    BY SameUpToNext, TickAssumption DEF TickInv, Counts, Shapes
  <1>2. Price[next] \in Nat \ {0} /\ limit \in Int /\ (zero_for_one => limit > 0)
    <2>1. Price[MinTick] \in Nat \ {0} /\ Price[MaxTick] \in Nat \ {0}
      BY TickAssumption DEF Ticks
    <2>. QED
      BY <1>1, <2>1 DEF PriceLimit
  <1>3. CASE zero_for_one
    <2>1. next <= tick /\ tick \in Ticks
      BY <1>1, <1>3 DEF IsDue, Ticks
    <2>2. Price[next] <= Price[tick] /\ Price[tick] <= price /\ Price[tick] \in Int
      BY <1>1, <1>3, <2>1 DEF Aligned, Ticks
    <2>3. limit <= price
      BY <1>1, <1>2, <1>3 DEF Aligned
    <2>. HIDE DEF limit
    <2>4. Max({Price[next], limit}) = IF Price[next] >= limit THEN Price[next] ELSE limit
      BY <1>2, MaxOfTwo
    <2>5. target = IF Price[next] >= limit THEN Price[next] ELSE limit
      BY <1>3, <2>4
    <2>. HIDE DEF target
    <2>6. /\ target \in {Price[next], limit} /\ target >= limit /\ target <= price
          /\ target \in Nat \ {0}
      BY <1>1, <1>2, <1>3, <2>2, <2>3, <2>5
    <2>. QED
      BY <1>3, <2>6 DEF Worse, target, limit
  <1>4. CASE ~zero_for_one
    <2>1. next > tick /\ tick + 1 \in Ticks /\ tick + 1 <= next /\ tick < MaxTick
      BY <1>1, <1>4 DEF IsDue, Ticks
    <2>2. Price[tick + 1] <= Price[next] /\ price <= Price[tick + 1] /\ Price[tick + 1] \in Int
      BY <1>1, <1>4, <2>1 DEF Aligned
    <2>3. price <= limit
      BY <1>1, <1>2, <1>4 DEF Aligned
    <2>. HIDE DEF limit
    <2>4. Min({Price[next], limit}) = IF Price[next] <= limit THEN Price[next] ELSE limit
      BY <1>2, MinOfTwo
    <2>5. target = IF Price[next] <= limit THEN Price[next] ELSE limit
      BY <1>4, <2>4
    <2>. HIDE DEF target
    <2>6. /\ target \in {Price[next], limit} /\ target <= limit /\ target >= price
          /\ target \in Nat \ {0}
      BY <1>1, <1>2, <1>4, <2>2, <2>3, <2>5
    <2>. QED
      BY <1>4, <2>6 DEF Worse, target, limit
  <1>. QED
    BY <1>1, <1>3, <1>4

\* An iteration towards a tick that is due makes a fair step or ends the quote;
\* if the walk goes on it has crossed the tick, and its liquidity is the active
\* one again.
LEMMA AdvanceCrosses ==
    ASSUME TickInv, Walking, NEW next, IsDue(next), Advance(next)
    PROVE  /\ UNCHANGED tick_args
           /\ quote' \in {"walking", "none"}
           /\ UNCHANGED tick_state \/ \E s : Spends(s)
           /\ Walking' => /\ Counts' /\ Aligned'
                          /\ tick' = IF zero_for_one THEN next - 1 ELSE next
                          /\ liquidity' = pool.active[tick']
  <1>. DEFINE limit == PriceLimit(zero_for_one)
              target == IF zero_for_one THEN Max({Price[next], limit})
                        ELSE Min({Price[next], limit})
              step == IF liquidity > 0 /\ price # target
                      THEN SwapStep(price, target, liquidity, remaining, zero_for_one)
                      ELSE [price |-> target, in |-> 0, out |-> 0, fee |-> 0]
              crossed == step.price = Price[next]
              net == IF zero_for_one THEN -LiquidityNet(next) ELSE LiquidityNet(next)
              fits == step.in + step.fee <= remaining /\ (crossed => liquidity + net >= 0)
              after == IF zero_for_one THEN next - 1 ELSE next
  <1>1. /\ UNCHANGED tick_args
        /\ quote' = IF fits THEN "walking" ELSE "none"
        /\ fits => /\ remaining' = remaining - (step.in + step.fee)
                   /\ total_out' = total_out + step.out
                   /\ price' = step.price
                   /\ liquidity' = IF crossed THEN liquidity + net ELSE liquidity
                   /\ tick' = IF ~crossed THEN TickAt(step.price) ELSE after
        /\ ~fits => UNCHANGED tick_state
    BY DEF Advance
  <1>2. /\ next \in Ticks /\ Price[next] \in Nat \ {0} /\ price \in Nat \ {0}
        /\ liquidity \in Nat /\ remaining \in Nat /\ zero_for_one \in BOOLEAN
        /\ MinTick \in Int /\ MaxTick \in Int
    BY SameUpToNext, TickAssumption DEF TickInv, Counts, Shapes
  <1>3. /\ Worse(price, target, zero_for_one) /\ target \in {Price[next], limit}
        /\ IF zero_for_one THEN target >= limit ELSE target <= limit
    BY TargetIsAhead
  <1>. HIDE DEF target
  <1>4. /\ FairStep(price, step, zero_for_one)
        /\ step.price # target => step.in + step.fee = remaining
    <2>1. CASE liquidity > 0 /\ price # target
      <3>1. liquidity \in Nat \ {0}
        BY <1>2, <2>1
      <3>. QED
        BY <1>2, <1>3, <2>1, <3>1, SwapStepIsFair
    <2>2. CASE ~(liquidity > 0 /\ price # target)
      <3>1. step = [price |-> target, in |-> 0, out |-> 0, fee |-> 0]
        BY <2>2
      <3>. HIDE DEF step
      <3>2. step.price = target /\ step.in = 0 /\ step.out = 0 /\ step.fee = 0
        BY <3>1
      <3>3. target \in Nat
        BY <1>3 DEF Worse
      <3>4. /\ 0 * FeeDenominator = 0 /\ (0 + 0) * (FeeDenominator - FeeRate) = 0
            /\ 0 * (Q * Q) = 0 /\ 0 * (target * price) = 0 /\ 0 * (price * target) = 0
        BY <1>2, <3>3, TickAssumption
      <3>. QED
        BY <1>3, <3>2, <3>4 DEF FairStep
    <2>. QED
      BY <2>1, <2>2
  <1>. HIDE DEF step
  <1>5. net \in Int /\ liquidity + net = pool.active[after]
    <2>1. liquidity = pool.active[tick]
      BY DEF TickInv, LiquidityIsActive
    <2>2. pool.active[next] \in Nat /\ pool.active[next - 1] \in Nat
      <3>1. next \in MinTick - 1 .. MaxTick /\ next - 1 \in MinTick - 1 .. MaxTick
        BY <1>2, TickAssumption DEF Ticks
      <3>. QED
        BY <3>1, PoolFacts DEF TickInv, Shapes
    <2>. QED
      BY <2>1, <2>2, SameUpToNext DEF LiquidityNet
  <1>. HIDE DEF net
  <1>6. after \in MinTick - 1 .. MaxTick /\ step.price \in Nat \ {0} /\ step.in + step.fee \in Nat
    BY <1>2, <1>4 DEF FairStep, Worse, Ticks
  <1>7. ASSUME fits PROVE Spends(step)
    <2>1. TickAt(step.price) \in MinTick - 1 .. MaxTick
      BY <1>2, TickAtIs DEF Ticks
    <2>2. tick' \in MinTick - 1 .. MaxTick
      <3>. HIDE DEF after, crossed
      <3>. QED
        BY <1>1, <1>6, <1>7, <2>1
    <2>3. liquidity' \in Nat
      <3>. HIDE DEF crossed
      <3>. QED
        BY <1>1, <1>2, <1>5, <1>7
    <2>. QED
      BY <1>1, <1>4, <1>7, <2>2, <2>3 DEF Spends
  <1>8. ASSUME Walking' PROVE crossed /\ fits /\ step.price = target
    <2>1. fits /\ remaining' # 0 /\ price' # PriceLimit(zero_for_one)
      BY <1>1, <1>8 DEF Walking, tick_args
    <2>2. step.price = target
      BY <1>1, <1>2, <1>4, <2>1
    <2>. QED
      BY <1>1, <1>3, <2>1, <2>2
  <1>9. ASSUME Walking'
        PROVE  Counts' /\ Aligned' /\ tick' = after /\ liquidity' = pool.active[tick']
    <2>1. /\ remaining' = remaining - (step.in + step.fee) /\ price' = Price[next]
          /\ price' = target /\ liquidity' = liquidity + net /\ tick' = after
      BY <1>1, <1>8, <1>9
    <2>2. Spends(step)
      BY <1>7, <1>8, <1>9
    <2>3. Counts'
      <3>1. price' \in Nat \ {0}
        BY <1>2, <2>1
      <3>2. remaining' \in Nat
        BY <1>2, <1>6, <2>2 DEF Spends
      <3>. QED
        BY <2>2, <3>1, <3>2 DEF Counts, Spends
    <2>4. Aligned'
      <3>1. /\ Price \in [Ticks -> Nat \ {0}] /\ \A s, t \in Ticks : s <= t => Price[s] <= Price[t]
            /\ zero_for_one' = zero_for_one
        BY <1>1, TickAssumption DEF tick_args
      <3>2. CASE zero_for_one
        <4>1. tick' >= MinTick => Price[tick'] <= price'
          <5>. SUFFICES ASSUME tick' >= MinTick PROVE Price[tick'] <= price'
            OBVIOUS
          <5>1. tick' = next - 1 /\ tick' \in Ticks /\ tick' <= next
            BY <1>2, <2>1, <3>2 DEF Ticks
          <5>. QED
            BY <1>2, <2>1, <3>1, <5>1
        <4>2. price' >= PriceLimit(TRUE)
          BY <1>3, <2>1, <3>2
        <4>. QED
          BY <3>1, <3>2, <4>1, <4>2 DEF Aligned, PriceLimit
      <3>3. CASE ~zero_for_one
        <4>1. tick' < MaxTick => price' <= Price[tick' + 1]
          <5>. SUFFICES ASSUME tick' < MaxTick PROVE price' <= Price[tick' + 1]
            OBVIOUS
          <5>1. tick' = next /\ next + 1 \in Ticks /\ next <= next + 1
            BY <1>2, <2>1, <3>3 DEF Ticks
          <5>. QED
            BY <1>2, <2>1, <3>1, <5>1
        <4>2. price' <= PriceLimit(FALSE)
          BY <1>2, <1>3, <2>1, <3>3
        <4>. QED
          BY <3>1, <3>3, <4>1, <4>2 DEF Aligned, PriceLimit
      <3>. QED
        BY <3>2, <3>3
    <2>. QED
      BY <1>5, <2>1, <2>3, <2>4
  <1>. QED
    BY <1>1, <1>7, <1>9

-----------------------------------------------------------------------------
(* The steps *)

\* The invariant of the walk holds before anything is asked.
LEMMA TickInvInit == TickInit => TickInv
  <1>. SUFFICES ASSUME TickInit PROVE TickInv
    OBVIOUS
  <1>1. /\ pool \in Pools /\ zero_for_one \in BOOLEAN /\ amount_in \in Nat
        /\ quote = "idle" /\ walked = {} /\ array = Home /\ contains_tick = FALSE
        /\ AtStart
    BY TickAssumption DEF TickInit, AtStart, Home
  <1>2. Home \in Int
    BY <1>1, PoolFacts, ArrayFacts DEF Home
  <1>. QED
    BY <1>1, <1>2 DEF TickInv, Shapes, WalkedIsPrefix, LiquidityIsActive, Walking

\* Every step that ends the walk leaves the arrays as they are.
LEMMA EndInv ==
    ASSUME TickInv, quote' \in {"done", "none"}, UNCHANGED <<tick_args, array, walked>>,
           contains_tick' \in BOOLEAN
    PROVE  TickInv'
  BY DEF TickInv, Shapes, Walking, WalkedIsPrefix, LiquidityIsActive, tick_args, Before, Home,
         ArrayOf, InPool

\* An iteration in, or into, an array that the walk has
LEMMA IterationInv ==
    ASSUME TickInv, Walking, NEW next, IsDue(next), Advance(next),
           array' \in Int, ArrayOf(next) = array', array' \in walked', contains_tick' = TRUE,
           WalkedIsPrefix'
    PROVE  TickInv'
  <1>1. /\ UNCHANGED tick_args /\ quote' \in {"walking", "none"}
        /\ Walking' => /\ Counts' /\ Aligned'
                       /\ tick' = IF zero_for_one THEN next - 1 ELSE next
                       /\ liquidity' = pool.active[tick']
    BY AdvanceCrosses
  <1>2. Shapes'
    BY <1>1 DEF TickInv, Shapes, tick_args
  <1>3. ASSUME Walking' PROVE InPlace'
    <2>1. next \in Int
      BY PoolFacts DEF IsDue, TickInv, Shapes
    <2>2. ArrayOf(next - 1) \in {array', array' - 1}
      BY <2>1, ArrayFacts
    <2>3. zero_for_one => tick' + 1 = next
      BY <1>1, <1>3, <2>1
    <2>. QED
      BY <1>1, <1>3, <2>2, <2>3 DEF InPlace, ArrayOf, tick_args
  <1>4. LiquidityIsActive'
    BY <1>1 DEF LiquidityIsActive, tick_args
  <1>. QED
    BY <1>1, <1>2, <1>3, <1>4 DEF TickInv

\* The first array is the nearest of the bitmap from the current tick's.
LEMMA StartInv == TickInv /\ Start => TickInv'
  <1>. SUFFICES ASSUME TickInv, Start PROVE TickInv'
    OBVIOUS
  <1>1. AtStart /\ quote' = "walking" /\ UNCHANGED <<tick_args, tick_state>>
    BY DEF Start, TickInv
  <1>2. PICK a \in ArraysFrom(array) :
           /\ IsNearest(a, ArraysFrom(array))
           /\ array' = a /\ contains_tick' = (a = array) /\ walked' = {a}
    BY DEF Start
  <1>3. /\ array = Home /\ Home \in InPool /\ a \in pool.bitmap /\ ~Before(a, Home)
        /\ InPool \subseteq Int /\ a \in InPool
    <2>1. array = Home /\ Home \in InPool /\ a \in pool.bitmap
      BY <1>1, <1>2 DEF AtStart, ArraysFrom
    <2>2. InPool \subseteq Int /\ pool.bitmap \subseteq InPool
      BY PoolFacts DEF TickInv, Shapes
    <2>3. a \in InPool /\ a \in Int /\ Home \in Int
      BY <2>1, <2>2
    <2>4. IF zero_for_one THEN a <= Home ELSE a >= Home
      BY <1>2, <2>1 DEF ArraysFrom
    <2>. QED
      BY <2>1, <2>2, <2>3, <2>4 DEF Before
  <1>4. \A b \in pool.bitmap : ~Before(b, Home) => ~Before(b, a)
    <2>. SUFFICES ASSUME NEW b \in pool.bitmap, ~Before(b, Home) PROVE ~Before(b, a)
      OBVIOUS
    <2>1. b \in Int /\ Home \in Int /\ a \in Int
      BY <1>3, PoolFacts DEF TickInv, Shapes
    <2>2. b \in ArraysFrom(array)
      BY <1>3, <2>1 DEF ArraysFrom, Before
    <2>. QED
      BY <1>2, <2>1, <2>2 DEF IsNearest, Before
  <1>5. WalkedIsPrefix'
    BY <1>1, <1>2, <1>3, <1>4 DEF WalkedIsPrefix, tick_args, Before, Home, ArrayOf, InPool
  <1>6. Shapes' /\ Counts' /\ Aligned' /\ liquidity' = pool'.active[tick']
    <2>1. pool.tick \in MinTick - 1 .. MaxTick
      BY PoolFacts, TickAssumption DEF Ticks, TickInv, Shapes
    <2>2. pool.active[pool.tick] \in Nat /\ pool.price \in Nat \ {0}
      BY <2>1, PoolFacts DEF TickInv, Shapes
    <2>. QED
      BY <1>1, <1>2, <1>3, <2>1, <2>2, PoolFacts
         DEF AtStart, TickInv, Shapes, Counts, Aligned, PriceLimit, tick_args, tick_state
  <1>7. InPlace'
    BY <1>1, <1>2, <1>3 DEF AtStart, InPlace, tick_args, tick_state, Home, ArrayOf,
       ArraysFrom, IsNearest, InPool
  <1>. QED
    BY <1>1, <1>2, <1>5, <1>6, <1>7 DEF TickInv, LiquidityIsActive

\* A step to a tick of the current array keeps it.
LEMMA WithinInv == TickInv /\ StepWithin => TickInv'
  <1>. SUFFICES ASSUME TickInv, StepWithin PROVE TickInv'
    OBVIOUS
  <1>1. PICK t \in TicksAhead : IsNearest(t, TicksAhead) /\ Advance(t)
    BY DEF StepWithin
  <1>2. Walking /\ UNCHANGED tick_place
    BY DEF StepWithin
  <1>3. IsDue(t) /\ ArrayOf(t) = array
    BY <1>1, <1>2, WithinIsDue
  <1>4. ArrayOf(tick) = array
    BY <1>1 DEF TicksAhead
  <1>5. contains_tick = TRUE
    BY <1>2, <1>4 DEF TickInv, Shapes, InPlace, Home
  <1>6. UNCHANGED tick_args
    BY <1>1, <1>2, <1>3, AdvanceCrosses
  <1>7. WalkedIsPrefix'
    BY <1>2, <1>6 DEF TickInv, WalkedIsPrefix, tick_args, tick_place, Before, Home, ArrayOf, InPool
  <1>8. array \in walked
    BY <1>2 DEF TickInv, Walking
  <1>. QED
    BY <1>1, <1>2, <1>3, <1>5, <1>7, <1>8, IterationInv DEF TickInv, Shapes, tick_place

\* The first tick of a first array beyond the current tick is due.
LEMMA IntoFirstIsDue ==
    ASSUME TickInv, Walking, contains_tick = FALSE, NEW t \in TicksOf(array), IsNearest(t, TicksOf(array))
    PROVE  IsDue(t) /\ ArrayOf(t) = array
  <1>1. /\ tick = pool.tick /\ array # Home /\ IsNearest(array, ArraysFrom(Home))
    BY DEF TickInv, InPlace
  <1>2. /\ array \in ArraysFrom(Home) /\ Home \in InPool /\ Home = ArrayOf(tick)
        /\ array \in InPool /\ InPool \subseteq Int
    BY <1>1, PoolFacts DEF IsNearest, ArraysFrom, Home, TickInv, Shapes
  <1>3. IF zero_for_one THEN array < Home ELSE array > Home
    <2>1. array \in Int /\ Home \in Int
      BY <1>2
    <2>2. IF zero_for_one THEN array <= Home ELSE array >= Home
      BY <1>2 DEF ArraysFrom
    <2>. QED
      BY <1>1, <2>1, <2>2
  <1>4. pool.ticks \subseteq Int /\ tick \in Int
    BY PoolFacts DEF TickInv, Shapes, Counts
  <1>5. \A u \in pool.ticks : (IF zero_for_one THEN u <= tick ELSE u > tick) =>
            (IF zero_for_one THEN ArrayOf(u) <= Home ELSE ArrayOf(u) >= Home)
    BY <1>2, <1>4, ArrayFacts
  <1>6. \A u \in TicksOf(array) : IF zero_for_one THEN u <= tick ELSE u > tick
    <2>. SUFFICES ASSUME NEW u \in TicksOf(array)
                  PROVE  IF zero_for_one THEN u <= tick ELSE u > tick
      OBVIOUS
    <2>1. u \in Int /\ tick \in Int /\ ArrayOf(u) = array /\ ArrayOf(tick) = Home
      BY <1>2, <1>4 DEF TicksOf
    <2>2. /\ u <= tick => ArrayOf(u) <= ArrayOf(tick)
          /\ tick <= u => ArrayOf(tick) <= ArrayOf(u)
      BY <2>1, ArrayFacts
    <2>. QED
      BY <1>2, <1>3, <2>1, <2>2
  <1>. QED
    BY <1>1, <1>2, <1>5, <1>6, AcrossIsDue

\* So does the step into a first array beyond the current tick.
LEMMA IntoFirstInv == TickInv /\ StepIntoFirst => TickInv'
  <1>. SUFFICES ASSUME TickInv, StepIntoFirst PROVE TickInv'
    OBVIOUS
  <1>1. /\ Walking /\ contains_tick = FALSE /\ contains_tick' = TRUE /\ UNCHANGED <<array, walked>>
    BY DEF StepIntoFirst, TickInv, Shapes
  <1>2. CASE quote' = "none" /\ UNCHANGED <<tick_args, tick_state>>
    BY <1>1, <1>2, EndInv
  <1>3. ASSUME NEW t \in TicksOf(array), IsNearest(t, TicksOf(array)), Advance(t)
        PROVE  TickInv'
    <2>7. IsDue(t) /\ ArrayOf(t) = array
      BY <1>1, <1>3, IntoFirstIsDue
    <2>8. UNCHANGED tick_args
      BY <1>1, <1>3, <2>7, AdvanceCrosses
    <2>9. WalkedIsPrefix'
      BY <1>1, <2>8 DEF TickInv, WalkedIsPrefix, tick_args, Before, Home, ArrayOf, InPool
    <2>10. array \in walked
      BY <1>1 DEF TickInv, Walking
    <2>. QED
      BY <1>1, <1>3, <2>7, <2>9, <2>10, IterationInv DEF TickInv, Shapes
  <1>. QED
    BY <1>2, <1>3 DEF StepIntoFirst

\* The first tick of the next array is due.
LEMMA AcrossStepIsDue ==
    ASSUME TickInv, Walking, TicksAhead = {}, contains_tick,
           NEW a \in ArraysFrom(Beyond), IsNearest(a, ArraysFrom(Beyond)),
           NEW t \in TicksOf(a), IsNearest(t, TicksOf(a))
    PROVE  IsDue(t) /\ ArrayOf(t) = a
  <1>1. /\ Beyond \in InPool /\ a \in pool.bitmap /\ a \in InPool /\ InPool \subseteq Int
        /\ array \in Int /\ array \in walked /\ contains_tick = TRUE
    BY PoolFacts DEF ArraysFrom, TickInv, Shapes, Walking
  <1>2. IF zero_for_one THEN Beyond = array - 1 /\ a <= Beyond ELSE Beyond = array + 1 /\ a >= Beyond
    BY DEF ArraysFrom, Beyond
  <1>3. pool.ticks \subseteq Int /\ tick \in Int
    BY PoolFacts DEF TickInv, Shapes, Counts
  <1>4. \/ ArrayOf(tick) = array
        \/ zero_for_one /\ ArrayOf(tick) = array - 1 /\ ArrayOf(tick + 1) = array
    BY DEF TickInv, InPlace
  <1>5. \A u \in pool.ticks : (IF zero_for_one THEN u <= tick ELSE u > tick) =>
            (IF zero_for_one THEN ArrayOf(u) <= Beyond ELSE ArrayOf(u) >= Beyond)
    <2>. SUFFICES ASSUME NEW u \in pool.ticks, IF zero_for_one THEN u <= tick ELSE u > tick
                  PROVE  IF zero_for_one THEN ArrayOf(u) <= Beyond ELSE ArrayOf(u) >= Beyond
      OBVIOUS
    <2>1. u \in Int /\ ArrayOf(u) \in Int /\ ArrayOf(tick) \in Int
      BY <1>3, ArrayFacts
    <2>2. IF zero_for_one THEN ArrayOf(u) <= ArrayOf(tick) ELSE ArrayOf(u) >= ArrayOf(tick)
      BY <1>3, <2>1, ArrayFacts
    <2>3. ArrayOf(tick) = array => ArrayOf(u) # array
      BY DEF TicksAhead, TicksOf
    <2>. QED
      BY <1>1, <1>2, <1>4, <2>1, <2>2, <2>3
  <1>6. \A u \in TicksOf(a) : IF zero_for_one THEN u <= tick ELSE u > tick
    <2>. SUFFICES ASSUME NEW u \in TicksOf(a) PROVE IF zero_for_one THEN u <= tick ELSE u > tick
      OBVIOUS
    <2>1. u \in Int /\ ArrayOf(u) = a /\ ArrayOf(tick) \in Int
      BY <1>3, ArrayFacts DEF TicksOf
    <2>2. /\ u <= tick => ArrayOf(u) <= ArrayOf(tick)
          /\ tick <= u => ArrayOf(tick) <= ArrayOf(u)
      BY <1>3, <2>1, ArrayFacts
    <2>3. CASE ArrayOf(tick) = array
      BY <1>1, <1>2, <1>3, <2>1, <2>2, <2>3
    <2>4. CASE zero_for_one /\ ArrayOf(tick) = array - 1 /\ ArrayOf(tick + 1) = array
      <3>1. tick + 1 \in Int /\ a < array
        BY <1>1, <1>2, <1>3, <2>4
      <3>2. tick + 1 <= u => array <= ArrayOf(u)
        BY <2>1, <2>4, <3>1, ArrayFacts
      <3>3. ~(tick + 1 <= u)
        BY <1>1, <2>1, <3>1, <3>2
      <3>. QED
        BY <1>3, <2>1, <2>4, <3>3
    <2>. QED
      BY <1>4, <2>3, <2>4
  <1>. QED
    BY <1>1, <1>5, <1>6, AcrossIsDue

\* The next array is the nearest of the bitmap beyond the last one, so it
\* adds to a prefix.
LEMMA AcrossInv == TickInv /\ StepAcross => TickInv'
  <1>. SUFFICES ASSUME TickInv, StepAcross PROVE TickInv'
    OBVIOUS
  <1>1. Walking /\ TicksAhead = {} /\ contains_tick /\ UNCHANGED contains_tick
    BY DEF StepAcross
  <1>2. PICK a \in ArraysFrom(Beyond) :
           /\ IsNearest(a, ArraysFrom(Beyond))
           /\ array' = a /\ walked' = walked \cup {a}
           /\ \E t \in TicksOf(a) : IsNearest(t, TicksOf(a)) /\ Advance(t)
    BY DEF StepAcross
  <1>3. PICK t \in TicksOf(a) : IsNearest(t, TicksOf(a)) /\ Advance(t)
    BY <1>2
  <1>4. /\ Beyond \in InPool /\ a \in pool.bitmap /\ a \in InPool /\ InPool \subseteq Int
        /\ array \in Int /\ array \in walked /\ contains_tick = TRUE
    BY <1>1, <1>2, PoolFacts DEF ArraysFrom, TickInv, Shapes, Walking
  <1>5. IF zero_for_one THEN Beyond = array - 1 /\ a <= Beyond ELSE Beyond = array + 1 /\ a >= Beyond
    BY <1>2 DEF ArraysFrom, Beyond
  <1>10. IsDue(t) /\ ArrayOf(t) = a
    BY <1>1, <1>2, <1>3, AcrossStepIsDue
  <1>11. UNCHANGED tick_args
    BY <1>1, <1>3, <1>10, AdvanceCrosses
  <1>12. ASSUME NEW b \in pool.bitmap, ~Before(b, Home), Before(b, a)
         PROVE  b \in walked
    <2>1. b \in Int /\ Home \in Int
      BY <1>4, PoolFacts, ArrayFacts DEF Home, TickInv, Shapes, Ticks
    <2>2. b \notin ArraysFrom(Beyond)
      <3>1. IsNearest(a, ArraysFrom(Beyond)) /\ a \in Int
        BY <1>2, <1>4
      <3>. SUFFICES ASSUME b \in ArraysFrom(Beyond) PROVE FALSE
        OBVIOUS
      <3>2. IF zero_for_one THEN b <= a ELSE b >= a
        BY <3>1 DEF IsNearest
      <3>. QED
        BY <1>12, <2>1, <3>1, <3>2 DEF Before
    <2>3. b = array \/ Before(b, array)
      BY <1>4, <1>5, <2>1, <2>2 DEF ArraysFrom, Before
    <2>. QED
      BY <1>4, <1>12, <2>3 DEF TickInv, WalkedIsPrefix
  <1>13. ~Before(a, Home)
    <2>1. ~Before(array, Home) /\ Home \in Int
      BY <1>4, PoolFacts, ArrayFacts DEF Home, TickInv, WalkedIsPrefix, Shapes
    <2>. QED
      BY <1>4, <1>5, <2>1 DEF Before
  <1>14. WalkedIsPrefix'
    <2>1. /\ \A c \in walked' : c \in pool.bitmap /\ ~Before(c, Home)
          /\ Home \in InPool
      BY <1>2, <1>4, <1>13 DEF TickInv, WalkedIsPrefix
    <2>2. \A c \in walked' : \A b \in pool.bitmap :
             (~Before(b, Home) /\ Before(b, c)) => b \in walked'
      BY <1>2, <1>12 DEF TickInv, WalkedIsPrefix
    <2>. QED
      BY <1>11, <2>1, <2>2 DEF WalkedIsPrefix, tick_args, Before, Home, ArrayOf, InPool
  <1>. QED
    BY <1>1, <1>2, <1>3, <1>4, <1>10, <1>14, IterationInv

\* Every step keeps it.
LEMMA TickInvStep == TickInv /\ [TickNext]_tick_vars => TickInv'
  <1>. SUFFICES ASSUME TickInv, [TickNext]_tick_vars PROVE TickInv'
    OBVIOUS
  <1>1. CASE Start
    BY <1>1, StartInv
  <1>2. CASE NoArrays
    BY <1>2, EndInv DEF NoArrays, tick_place, TickInv, Shapes
  <1>3. CASE StepWithin
    BY <1>3, WithinInv
  <1>4. CASE StepIntoFirst
    BY <1>4, IntoFirstInv
  <1>5. CASE StepAcross
    BY <1>5, AcrossInv
  <1>6. CASE StepOff
    BY <1>6, EndInv DEF StepOff, tick_place, TickInv, Shapes
  <1>7. CASE Spent
    BY <1>7, EndInv DEF Spent, tick_place, TickInv, Shapes
  <1>8. CASE UNCHANGED tick_vars
    BY <1>8 DEF tick_vars, tick_args, tick_state, tick_place, TickInv, Shapes, Walking,
       WalkedIsPrefix, LiquidityIsActive, Before, Home, ArrayOf, InPool, AtStart, Counts,
       InPlace, IsNearest, ArraysFrom, Aligned, PriceLimit
  <1>. QED
    BY <1>1, <1>2, <1>3, <1>4, <1>5, <1>6, <1>7, <1>8 DEF TickNext

\* The walk is an invariant of the quote.
THEOREM TickInvariance == TickSpec => []TickInv
  <1>1. TickInit => TickInv
    BY TickInvInit
  <1>2. TickInv /\ [TickNext]_tick_vars => TickInv'
    BY TickInvStep
  <1>. QED
    BY <1>1, <1>2, PTL DEF TickSpec

\* quote_exact_in: as long as a quote goes on, its liquidity is the one that is
\* active at its tick, for every pool and every amount.
THEOREM LiquidityStaysActive == TickSpec => []LiquidityIsActive
  <1>1. TickInv => LiquidityIsActive
    BY DEF TickInv
  <1>. QED
    BY <1>1, TickInvariance, PTL

-----------------------------------------------------------------------------
(* What a quote takes and gives *)

\* The numbers of the quote: the price has moved against the trader, and the
\* output is no better than the first price.
TickSums ==
    /\ amount_in \in Amounts /\ stored \in StoredArrays
    /\ price \in Nat \ {0} /\ tick \in MinTick - 1 .. MaxTick /\ liquidity \in Nat
    /\ total_out \in Nat /\ remaining \in 0 .. amount_in
    /\ quote \in {"idle", "walking", "done", "none"}
    /\ Worse(pool.price, price, zero_for_one)
    /\ WorseThanSpot

\* Nothing is taken or given at first.
LEMMA TickSumsInit == TickInit => TickSums
  <1>. SUFFICES ASSUME TickInit PROVE TickSums
    OBVIOUS
  <1>1. /\ pool \in Pools /\ zero_for_one \in BOOLEAN /\ amount_in \in Amounts /\ amount_in \in Nat
        /\ stored \in StoredArrays /\ quote = "idle"
        /\ price = pool.price /\ tick = pool.tick /\ liquidity = pool.active[pool.tick]
        /\ remaining = amount_in /\ total_out = 0
    BY TickAssumption DEF TickInit
  <1>2. pool.tick \in MinTick - 1 .. MaxTick
    BY <1>1, PoolFacts DEF Ticks
  <1>3. pool.active[pool.tick] \in Nat /\ pool.price \in Nat \ {0}
    BY <1>1, <1>2, PoolFacts
  <1>4. /\ Q \in Nat \ {0} /\ FeeDenominator \in Nat /\ FeeDenominator - FeeRate \in Nat
    BY TickAssumption
  <1>5. WorseThanSpot
    <2>1. \A n, q, d, b \in Nat : /\ 0 * q * q * d <= (0 * n) * b
                                  /\ 0 * b * d <= (0 * n) * q * q
      OBVIOUS
    <2>2. amount_in - remaining = 0 /\ pool.price * pool.price \in Nat
      BY <1>1, <1>3
    <2>. QED
      BY <1>1, <1>4, <2>1, <2>2 DEF WorseThanSpot
  <1>. QED
    BY <1>1, <1>2, <1>3, <1>5 DEF TickSums, Worse

\* A fair step adds to what was no better than the first price.
LEMMA SpendsKeepsSums ==
    ASSUME TickInv, TickSums, NEW s, Spends(s), UNCHANGED tick_args, quote' \in {"walking", "none"}
    PROVE  TickSums'
  <1>. DEFINE w == s.in + s.fee
              N == FeeDenominator - FeeRate
              spent == amount_in - remaining
              P == pool.price
  <1>1. /\ Q \in Nat \ {0} /\ FeeDenominator \in Nat /\ N \in Nat /\ P \in Nat \ {0}
        /\ amount_in \in Nat /\ remaining \in Nat /\ spent \in Nat /\ total_out \in Nat
        /\ price \in Nat \ {0} /\ zero_for_one \in BOOLEAN
    BY TickAssumption, PoolFacts DEF TickInv, Shapes, TickSums
  <1>2. /\ s.price \in Nat \ {0} /\ s.in \in Nat /\ s.out \in Nat /\ w \in Nat /\ w <= remaining
        /\ s.in * FeeDenominator <= w * N
        /\ remaining' = remaining - w /\ total_out' = total_out + s.out /\ price' = s.price
        /\ IF zero_for_one THEN s.price <= price ELSE s.price >= price
        /\ IF zero_for_one THEN s.out * (Q * Q) <= s.in * (s.price * price)
           ELSE s.out * (price * s.price) <= s.in * (Q * Q)
    BY DEF Spends, FairStep, Worse
  <1>3. IF zero_for_one THEN price <= P ELSE price >= P
    BY DEF TickSums, Worse
  <1>4. /\ remaining' \in 0 .. amount_in' /\ total_out' \in Nat /\ price' \in Nat \ {0}
        /\ amount_in' - remaining' = spent + w /\ pool' = pool /\ zero_for_one' = zero_for_one
    <2>1. remaining \in 0 .. amount_in /\ amount_in' = amount_in
      BY DEF TickSums, tick_args
    <2>. QED
      BY <1>1, <1>2, <2>1 DEF tick_args
  <1>5. Worse(pool.price, price, zero_for_one)'
    <2>1. IF zero_for_one THEN s.price <= P ELSE s.price >= P
      BY <1>1, <1>2, <1>3
    <2>. QED
      BY <1>2, <1>4, <2>1 DEF Worse
  <1>. HIDE DEF w, N, spent
  <1>6. CASE zero_for_one
    <2>1. total_out * (Q * Q) * FeeDenominator <= (spent * N) * (P * P)
      <3>1. total_out * Q * Q * FeeDenominator <= (spent * N) * (P * P)
        BY <1>6 DEF TickSums, WorseThanSpot, spent, N
      <3>2. total_out * Q * Q = total_out * (Q * Q)
        BY <1>1
      <3>. QED
        BY <3>1, <3>2
    <2>2. s.price * price <= P * P /\ s.price * price \in Nat /\ P * P \in Nat /\ Q * Q \in Nat
      <3>1. s.price <= P /\ price <= P
        BY <1>1, <1>2, <1>3, <1>6
      <3>2. s.price \in Nat /\ price \in Nat /\ P \in Nat
        BY <1>1, <1>2
      <3>3. s.price * price <= P * P /\ s.price * price \in Nat /\ P * P \in Nat
        BY <3>1, <3>2, ProductGrows
      <3>. QED
        BY <1>1, <3>3
    <2>3. s.out * (Q * Q) <= s.in * (s.price * price) /\ Q * Q <= Q * Q
      BY <1>1, <1>2, <1>6
    <2>. HIDE DEF P
    <2>4. (total_out + s.out) * (Q * Q) * FeeDenominator <= ((spent + w) * N) * (P * P)
      <3>. DEFINE A == Q * Q
                  B == P * P
                  y == s.price * price
      <3>1. /\ A \in Nat /\ B \in Nat /\ y \in Nat /\ y <= B /\ A <= A
            /\ total_out * A * FeeDenominator <= (spent * N) * B /\ s.out * A <= s.in * y
        BY <2>1, <2>2, <2>3
      <3>. HIDE DEF A, B, y
      <3>2. (total_out + s.out) * A * FeeDenominator <= ((spent + w) * N) * B
        BY <1>1, <1>2, <3>1, FairStepsAdd
      <3>. QED
        BY <3>2 DEF A, B
    <2>5. (total_out + s.out) * (Q * Q) = (total_out + s.out) * Q * Q
      BY <1>1, <1>2
    <2>6. total_out' * Q * Q * FeeDenominator <= ((amount_in' - remaining') * N) * (P * P)
      BY <1>2, <1>4, <2>4, <2>5
    <2>. QED
      BY <1>4, <1>5, <1>6, <2>6 DEF TickSums, WorseThanSpot, N, P, Spends, tick_args
  <1>7. CASE ~zero_for_one
    <2>1. total_out * (P * P) * FeeDenominator <= (spent * N) * (Q * Q)
      <3>1. total_out * (P * P) * FeeDenominator <= (spent * N) * Q * Q
        BY <1>7 DEF TickSums, WorseThanSpot, spent, N
      <3>2. (spent * N) * Q * Q = (spent * N) * (Q * Q)
        BY <1>1
      <3>. QED
        BY <3>1, <3>2
    <2>2. P * P <= price * s.price /\ price * s.price \in Nat /\ P * P \in Nat /\ Q * Q \in Nat
      <3>1. P <= s.price /\ P <= price
        BY <1>1, <1>2, <1>3, <1>7
      <3>2. s.price \in Nat /\ price \in Nat /\ P \in Nat
        BY <1>1, <1>2
      <3>3. P * P <= price * s.price /\ price * s.price \in Nat /\ P * P \in Nat
        BY <3>1, <3>2, ProductGrows
      <3>. QED
        BY <1>1, <3>3
    <2>3. s.out * (price * s.price) <= s.in * (Q * Q) /\ Q * Q <= Q * Q
      BY <1>1, <1>2, <1>7
    <2>. HIDE DEF P
    <2>4. (total_out + s.out) * (P * P) * FeeDenominator <= ((spent + w) * N) * (Q * Q)
      <3>. DEFINE B == Q * Q
                  A == P * P
                  x == price * s.price
      <3>1. /\ A \in Nat /\ B \in Nat /\ x \in Nat /\ A <= x /\ B <= B
            /\ total_out * A * FeeDenominator <= (spent * N) * B /\ s.out * x <= s.in * B
        BY <2>1, <2>2, <2>3
      <3>. HIDE DEF A, B, x
      <3>2. (total_out + s.out) * A * FeeDenominator <= ((spent + w) * N) * B
        BY <1>1, <1>2, <3>1, FairStepsAdd
      <3>. QED
        BY <3>2 DEF A, B
    <2>5. ((spent + w) * N) * (Q * Q) = ((spent + w) * N) * Q * Q
      BY <1>1, <1>2
    <2>6. total_out' * (P * P) * FeeDenominator <= ((amount_in' - remaining') * N) * Q * Q
      BY <1>2, <1>4, <2>4, <2>5
    <2>. QED
      BY <1>4, <1>5, <1>7, <2>6 DEF TickSums, WorseThanSpot, N, P, Spends, tick_args
  <1>. QED
    BY <1>1, <1>6, <1>7

\* What leaves the numbers alone keeps them.
LEMMA SameSums ==
    ASSUME TickSums, UNCHANGED <<tick_args, tick_state>>, quote' \in {"idle", "walking", "done", "none"}
    PROVE  TickSums'
  BY DEF TickSums, WorseThanSpot, Worse, tick_args, tick_state

\* So does an iteration.
LEMMA AdvanceKeepsSums ==
    ASSUME TickInv, TickSums, Walking, NEW next, IsDue(next), Advance(next)
    PROVE  TickSums'
  <1>1. /\ UNCHANGED tick_args /\ quote' \in {"walking", "none"}
        /\ UNCHANGED tick_state \/ \E s : Spends(s)
    BY AdvanceCrosses
  <1>2. CASE UNCHANGED tick_state
    BY <1>1, <1>2, SameSums
  <1>3. CASE \E s : Spends(s)
    <2>1. PICK s : Spends(s)
      BY <1>3
    <2>. QED
      BY <1>1, <2>1, SpendsKeepsSums
  <1>. QED
    BY <1>1, <1>2, <1>3

\* Every step of the walk keeps them.
LEMMA TickSumsStep == TickInv /\ TickSums /\ [TickNext]_tick_vars => TickSums'
  <1>. SUFFICES ASSUME TickInv, TickSums, [TickNext]_tick_vars PROVE TickSums'
    OBVIOUS
  <1>1. CASE Start
    BY <1>1, SameSums DEF Start
  <1>2. CASE NoArrays
    BY <1>2, SameSums DEF NoArrays
  <1>3. CASE StepWithin
    <2>1. PICK t \in TicksAhead : IsNearest(t, TicksAhead) /\ Advance(t)
      BY <1>3 DEF StepWithin
    <2>2. Walking /\ IsDue(t)
      BY <1>3, <2>1, WithinIsDue DEF StepWithin
    <2>. QED
      BY <2>1, <2>2, AdvanceKeepsSums
  <1>4. CASE StepIntoFirst
    <2>1. Walking /\ contains_tick = FALSE
      BY <1>4 DEF StepIntoFirst, TickInv, Shapes
    <2>2. ASSUME NEW t \in TicksOf(array), IsNearest(t, TicksOf(array)), Advance(t) PROVE TickSums'
      BY <2>1, <2>2, IntoFirstIsDue, AdvanceKeepsSums
    <2>3. CASE quote' = "none" /\ UNCHANGED <<tick_args, tick_state>>
      BY <2>3, SameSums
    <2>. QED
      BY <1>4, <2>2, <2>3 DEF StepIntoFirst
  <1>5. CASE StepAcross
    <2>1. Walking /\ TicksAhead = {} /\ contains_tick
      BY <1>5 DEF StepAcross
    <2>2. PICK a \in ArraysFrom(Beyond) : /\ IsNearest(a, ArraysFrom(Beyond))
                                          /\ \E t \in TicksOf(a) : IsNearest(t, TicksOf(a)) /\ Advance(t)
      BY <1>5 DEF StepAcross
    <2>3. PICK t \in TicksOf(a) : IsNearest(t, TicksOf(a)) /\ Advance(t)
      BY <2>2
    <2>4. IsDue(t)
      BY <2>1, <2>2, <2>3, AcrossStepIsDue
    <2>. QED
      BY <2>1, <2>3, <2>4, AdvanceKeepsSums
  <1>6. CASE StepOff
    BY <1>6, SameSums DEF StepOff
  <1>7. CASE Spent
    BY <1>7, SameSums DEF Spent
  <1>8. CASE UNCHANGED tick_vars
    BY <1>8 DEF tick_vars, TickSums, WorseThanSpot, Worse, tick_args, tick_state
  <1>. QED
    BY <1>1, <1>2, <1>3, <1>4, <1>5, <1>6, <1>7, <1>8 DEF TickNext

\* The types of the walk, for every pool, price curve and amount.
THEOREM TickTypeCorrect == TickSpec => []TickTypeOK
  <1>1. TickInit => TickInv /\ TickSums
    BY TickInvInit, TickSumsInit
  <1>2. TickInv /\ TickSums /\ [TickNext]_tick_vars => TickInv' /\ TickSums'
    BY TickInvStep, TickSumsStep
  <1>3. TickInv /\ TickSums => TickTypeOK
    BY DEF TickInv, TickSums, TickTypeOK, Shapes, WalkedIsPrefix
  <1>. QED
    BY <1>1, <1>2, <1>3, PTL DEF TickSpec

-----------------------------------------------------------------------------
(* The arrays *)

\* Among any marked arrays that are the pool's bitmap within the bitmap's
\* range, those before a walked one are walked.
LEMMA WalkedAreFirst ==
    ASSUME TickInv, NEW marked, pool.bitmap \subseteq marked,
           \A b \in marked : b \in Int /\ (b \in InPool => b \in pool.bitmap)
    PROVE  WalkedFirst \subseteq FirstArrays(pool, zero_for_one, marked)
  <1>. SUFFICES ASSUME NEW a \in WalkedFirst PROVE a \in FirstArrays(pool, zero_for_one, marked)
    OBVIOUS
  <1>. DEFINE ahead == {b \in marked : IF zero_for_one THEN b <= Home ELSE b >= Home}
              nearer == {b \in ahead : IF zero_for_one THEN b > a ELSE b < a}
              before == {b \in walked : IF zero_for_one THEN b > a ELSE b < a}
  <1>1. /\ a \in walked /\ Home \in InPool /\ walked \subseteq pool.bitmap
        /\ pool.bitmap \subseteq InPool /\ InPool \subseteq Int
        /\ \A b \in walked : ~Before(b, Home)
    BY PoolFacts DEF WalkedFirst, TickInv, WalkedIsPrefix, Shapes
  <1>2. walked \subseteq ahead
    BY <1>1 DEF Before
  <1>3. ASSUME NEW b \in nearer PROVE b \in before
    <2>1. b \in marked /\ b \in Int /\ ~Before(b, Home) /\ Before(b, a)
      BY <1>1, <1>3 DEF Before
    <2>2. (a <= b /\ b <= Home) \/ (Home <= b /\ b <= a)
      <3>1. a \in Int /\ Home \in Int
        BY <1>1
      <3>2. CASE zero_for_one
        BY <2>1, <3>1, <3>2 DEF Before
      <3>3. CASE ~zero_for_one
        BY <2>1, <3>1, <3>3 DEF Before
      <3>. QED
        BY <3>2, <3>3
    <2>3. b \in InPool
      BY <1>1, <2>1, <2>2, PoolFacts DEF TickInv, Shapes
    <2>4. b \in walked
      BY <1>1, <2>1, <2>3 DEF TickInv, WalkedIsPrefix
    <2>. QED
      BY <1>3, <2>4
  <1>4. nearer = before
    BY <1>2, <1>3
  <1>5. Cardinality(before) < NumRemaining
    BY DEF WalkedFirst
  <1>. QED
    BY <1>1, <1>2, <1>4, <1>5 DEF FirstArrays, Home

\* The three arrays of a Whirlpool quote are those its instruction lists, and
\* all but the last are those the cold start fetches.
LEMMA WhirlpoolArraysAgree ==
    ASSUME TickInv
    PROVE  /\ WhirlpoolQuoted \subseteq WhirlpoolListed
           /\ WhirlpoolQuoted \ WhirlpoolPrefetched \subseteq {WhirlpoolOrder(2)}
  <1>1. WhirlpoolQuoted \subseteq WhirlpoolListed
    BY DEF WhirlpoolQuoted, WhirlpoolListed
  <1>2. ASSUME NEW i \in 0 .. 2, i # 2 PROVE WhirlpoolOrder(i) \in WhirlpoolPrefetched
    <2>1. i = 0 \/ i = 1
      BY <1>2
    <2>2. ArrayOf(pool.tick) \in Int
      BY PoolFacts, ArrayFacts DEF TickInv, Shapes
    <2>3. \E k \in -1 .. 1 : WhirlpoolOrder(i) = ArrayOf(pool.tick) + k
      <3>1. CASE zero_for_one
        <4>1. -i \in -1 .. 1 /\ WhirlpoolOrder(i) = ArrayOf(pool.tick) + (-i)
          BY <2>1, <3>1 DEF WhirlpoolOrder
        <4>. QED
          BY <4>1
      <3>2. CASE ~zero_for_one
        <4>1. i \in -1 .. 1 /\ WhirlpoolOrder(i) = ArrayOf(pool.tick) + i
          BY <2>1, <3>2 DEF WhirlpoolOrder
        <4>. QED
          BY <4>1
      <3>. QED
        BY <3>1, <3>2
    <2>. QED
      BY <2>3 DEF WhirlpoolPrefetched
  <1>. QED
    BY <1>1, <1>2 DEF WhirlpoolQuoted

\* tick_arrays.rs, quote_exact_in and cold_start: the first arrays a quote
\* fetches are those the instruction lists and the cold start has fetched,
\* for every pool, bitmap and extension.
THEOREM ArraysDoAgree == TickSpec => []ArraysAgree
  <1>1. ASSUME TickInv PROVE ArraysAgree
    <2>1. /\ pool.bitmap \subseteq InPool /\ InPool \subseteq Int
          /\ \A b \in pool.extension : b \in Int /\ b \notin InPool
          /\ zero_for_one \in BOOLEAN
      BY <1>1, PoolFacts DEF TickInv, Shapes
    <2>2. WalkedFirst \subseteq FirstArrays(pool, zero_for_one, pool.bitmap)
      BY <1>1, <2>1, WalkedAreFirst
    <2>3. WalkedFirst \subseteq FirstArrays(pool, zero_for_one, pool.bitmap \cup pool.extension)
      BY <1>1, <2>1, WalkedAreFirst
    <2>4. WalkedFirst \subseteq RemainingArrays(pool, TRUE) \cap RemainingArrays(pool, FALSE)
      <3>1. pool.bitmap \cup {} = pool.bitmap
        OBVIOUS
      <3>. QED
        BY <2>2, <2>3, <3>1 DEF RemainingArrays, Marked
    <2>5. WalkedFirst # {} => Home \in InPool
      BY <1>1 DEF TickInv, WalkedIsPrefix, WalkedFirst
    <2>6. WalkedFirst \subseteq PrefetchedArrays(pool)
      BY <2>1, <2>2, <2>5 DEF PrefetchedArrays, Home
    <2>. QED
      BY <1>1, <2>4, <2>6, WhirlpoolArraysAgree DEF ArraysAgree
  <1>. QED
    BY <1>1, TickInvariance, PTL

-----------------------------------------------------------------------------
(* Single-price quotes *)

\* A trade leaves a market of the same venue.
SameVenue(n, m) ==
    {"venue", "outside"} \subseteq DOMAIN n /\ n.venue = m.venue /\ n.outside = m.outside

\* Whatever a market books, it stays at its venue.
LEMMA VenueStays ==
    ASSUME NEW m, {"venue", "outside"} \subseteq DOMAIN m, m.venue \in CurveVenues \ SpotVenues,
           NEW buy, NEW amount
    PROVE  SameVenue(MarketQuote(m, buy, amount).market, m)
  <1>1. CASE m.venue = "Raydium AMM V4"
    <2>1. SameVenue(PoolQuote(m, buy, amount).market, m)
      BY DEF PoolQuote, Quoted, SameVenue
    <2>. QED
      BY <1>1, <2>1 DEF MarketQuote
  <1>2. CASE m.venue = "Pumpfun AMM"
    <2>1. SameVenue(PumpSwapQuote(m, buy, amount).market, m)
      BY DEF PumpSwapQuote, Quoted, NoQuote, SameVenue
    <2>. QED
      BY <1>2, <2>1 DEF MarketQuote
  <1>3. CASE m.venue = "Pumpfun BC"
    <2>1. SameVenue(BondingCurveQuote(m, buy, amount).market, m)
      BY DEF BondingCurveQuote, Quoted, NoQuote, SameVenue
    <2>. QED
      BY <1>3, <2>1 DEF MarketQuote
  <1>4. CASE m.venue = "Bonk"
    <2>1. SameVenue(BonkQuote(m, buy, amount).market, m)
      BY DEF BonkQuote, Quoted, NoQuote, SameVenue
    <2>. QED
      BY <1>4, <2>1 DEF MarketQuote
  <1>5. CASE m.venue = "Meteora DBC"
    <2>1. SameVenue(DbcQuote(m, buy, amount).market, m)
      BY DEF DbcQuote, Quoted, NoQuote, SameVenue
    <2>. QED
      BY <1>5, <2>1 DEF MarketQuote
  <1>6. CASE m.venue = "Meteora DAMM V1"
    <2>1. SameVenue(DammQuote(m, buy, amount).market, m)
      BY DEF DammQuote, Quoted, NoQuote, SameVenue
    <2>. QED
      BY <1>6, <2>1 DEF MarketQuote
  <1>7. CASE m.venue = "Meteora DAMM V1 offline"
    <2>1. SameVenue(DammOffline(m, buy, amount).market, m)
      BY DEF DammOffline, Quoted, SameVenue
    <2>. QED
      BY <1>7, <2>1 DEF MarketQuote
  <1>. QED
    BY <1>1, <1>2, <1>3, <1>4, <1>5, <1>6, <1>7 DEF CurveVenues, SpotVenues

\* What a trade at a price gives for net of its input is worth no more than
\* that at the price, and no more than the side that pays holds.
LEMMA PaidAtPrice ==
    ASSUME NEW net \in Nat, NEW up \in Nat, NEW down \in Nat \ {0}, NEW held \in Nat
    PROVE  LET out == Min({(net * up) \div down, held})
           IN  out \in Nat /\ out <= held /\ out * down <= net * up
  <1>. DEFINE q == (net * up) \div down
  <1>1. q \in Nat /\ q * down <= net * up
    <2>1. net * up \in Nat
      OBVIOUS
    <2>. QED
      BY <2>1, FloorIs
  <1>. HIDE DEF q
  <1>2. Min({q, held}) = IF q <= held THEN q ELSE held
    BY <1>1, MinOfTwo
  <1>3. \A o : o = (IF q <= held THEN q ELSE held) =>
            o \in Nat /\ o <= held /\ o * down <= net * up
    BY <1>1
  <1>. QED
    BY <1>2, <1>3 DEF q

\* What no trade changes of a market with a price
SamePool(n, m) ==
    /\ SameVenue(n, m) /\ n.price = m.price /\ n.flipped = m.flipped
    /\ n.decimals_a = m.decimals_a /\ n.decimals_b = m.decimals_b

\* A trade at a price p, on the side the quote token is on
LEMMA SpotTrade ==
    ASSUME NEW m, {"venue", "outside"} \subseteq DOMAIN m, SpotMarket(m),
           NEW buy \in BOOLEAN, NEW amount \in Nat,
           NEW p, p.a \in Nat \ {0}, p.b \in Nat \ {0}, NEW a_to_b \in BOOLEAN,
           a_to_b = (QuoteIsA(m) = buy)
    PROVE  LET q == SinglePrice(m, buy, amount, a_to_b, p)
           IN  /\ q.out \in Nat /\ SpotMarket(q.market) /\ SamePool(q.market, m)
               /\ IF a_to_b THEN q.out * p.a <= amount * p.b ELSE q.out * p.b <= amount * p.a
  <1>. DEFINE net == (amount * (10000 - m.fee_bps)) \div 10000
              out == IF a_to_b THEN Min({(net * p.b) \div p.a, m.b})
                     ELSE Min({(net * p.a) \div p.b, m.a})
              after == IF QuoteIsA(m) = buy THEN [m EXCEPT !.a = @ + amount, !.b = @ - out]
                       ELSE [m EXCEPT !.b = @ + amount, !.a = @ - out]
              q == SinglePrice(m, buy, amount, a_to_b, p)
  <1>1. q.out = out /\ q.market = after
    BY DEF SinglePrice, Quoted
  <1>2. net \in Nat /\ net <= amount
    <2>. DEFINE c == 10000 - m.fee_bps
                y == amount * c
    <2>0. m.fee_bps \in Nat /\ m.fee_bps <= 10000
      BY DEF SpotMarket
    <2>1. c \in Nat /\ c <= 10000
      BY <2>0
    <2>. HIDE DEF c
    <2>2. y \in Nat /\ y <= amount * 10000
      BY <2>1, ProductGrows
    <2>. HIDE DEF y
    <2>3. y \div 10000 \in Nat /\ y \div 10000 <= amount
      BY <2>2
    <2>. QED
      BY <2>3 DEF y, c
  <1>3. m.a \in Nat /\ m.b \in Nat
    BY DEF SpotMarket
  <1>. HIDE DEF net
  <1>4. /\ out \in Nat /\ IF a_to_b THEN out <= m.b ELSE out <= m.a
        /\ IF a_to_b THEN out * p.a <= net * p.b ELSE out * p.b <= net * p.a
    <2>1. CASE a_to_b
      <3>. DEFINE o == Min({(net * p.b) \div p.a, m.b})
      <3>1. o \in Nat /\ o <= m.b /\ o * p.a <= net * p.b
        BY <1>2, <1>3, PaidAtPrice
      <3>2. out = o
        BY <2>1
      <3>. HIDE DEF o, out
      <3>. QED
        BY <2>1, <3>1, <3>2
    <2>2. CASE ~a_to_b
      <3>. DEFINE o == Min({(net * p.a) \div p.b, m.a})
      <3>1. o \in Nat /\ o <= m.a /\ o * p.b <= net * p.a
        BY <1>2, <1>3, PaidAtPrice
      <3>2. out = o
        BY <2>2
      <3>. HIDE DEF o, out
      <3>. QED
        BY <2>2, <3>1, <3>2
    <2>. QED
      BY <2>1, <2>2
  <1>. HIDE DEF out
  <1>5. net * p.b <= amount * p.b /\ net * p.a <= amount * p.a
    BY <1>2, TimesKeepsOrder
  <1>6. IF a_to_b THEN out * p.a <= amount * p.b ELSE out * p.b <= amount * p.a
    <2>1. /\ out * p.a \in Nat /\ out * p.b \in Nat /\ net * p.a \in Nat /\ net * p.b \in Nat
          /\ amount * p.a \in Nat /\ amount * p.b \in Nat
      BY <1>2, <1>4
    <2>. QED
      BY <1>4, <1>5, <2>1
  <1>7. /\ DOMAIN after = DOMAIN m
        /\ \A f \in DOMAIN m : f \notin {"a", "b"} => after[f] = m[f]
        /\ after.a \in Nat /\ after.b \in Nat
    <2>1. {"a", "b"} \subseteq DOMAIN m
      BY DEF SpotMarket
    <2>2. CASE a_to_b
      <3>1. after = [m EXCEPT !.a = @ + amount, !.b = @ - out]
        BY <2>2
      <3>. HIDE DEF after
      <3>2. after.a = m.a + amount /\ after.b = m.b - out
        BY <2>1, <3>1
      <3>3. DOMAIN after = DOMAIN m /\ \A f \in DOMAIN m : f \notin {"a", "b"} => after[f] = m[f]
        BY <3>1
      <3>. QED
        BY <1>3, <1>4, <2>2, <3>2, <3>3
    <2>3. CASE ~a_to_b
      <3>1. after = [m EXCEPT !.b = @ + amount, !.a = @ - out]
        BY <2>3
      <3>. HIDE DEF after
      <3>2. after.b = m.b + amount /\ after.a = m.a - out
        BY <2>1, <3>1
      <3>3. DOMAIN after = DOMAIN m /\ \A f \in DOMAIN m : f \notin {"a", "b"} => after[f] = m[f]
        BY <3>1
      <3>. QED
        BY <1>3, <1>4, <2>3, <3>2, <3>3
    <2>. QED
      BY <2>2, <2>3
  <1>. HIDE DEF after
  <1>8. /\ after.price = m.price /\ after.fee_bps = m.fee_bps /\ after.flipped = m.flipped
        /\ after.decimals_a = m.decimals_a /\ after.decimals_b = m.decimals_b /\ after.venue = m.venue
        /\ after.outside = m.outside /\ {"venue", "outside"} \subseteq DOMAIN after
    BY <1>7 DEF SpotMarket
  <1>9. SpotMarket(after) /\ SamePool(after, m)
    BY <1>7, <1>8 DEF SpotMarket, SamePool, SameVenue
  <1>. QED
    BY <1>1, <1>4, <1>6, <1>9

\* The four venues quote at their price on the side the quote token is on,
\* each by its own rule for which side that is.
LEMMA SpotQuoteIs ==
    ASSUME NEW m, m.venue \in SpotVenues, SpotMarket(m), NEW buy \in BOOLEAN, NEW amount
    PROVE  MarketQuote(m, buy, amount)
               = SinglePrice(m, buy, amount, QuoteIsA(m) = buy, SpotPrice(m))
  <1>1. m.flipped \in BOOLEAN
    BY DEF SpotMarket
  <1>2. CASE m.venue = "Raydium CLMM"
    <2>1. MarketQuote(m, buy, amount) = SinglePrice(m, buy, amount, PhysicalBuy(m, buy), m.price)
      BY <1>2 DEF MarketQuote, ClmmSpotQuote
    <2>2. PhysicalBuy(m, buy) = (QuoteIsA(m) = buy) /\ SpotPrice(m) = m.price
      BY <1>1, <1>2 DEF PhysicalBuy, QuoteIsA, SpotPrice
    <2>. QED
      BY <2>1, <2>2
  <1>3. CASE m.venue = "Orca Whirlpool"
    <2>1. MarketQuote(m, buy, amount) = SinglePrice(m, buy, amount, PhysicalBuy(m, buy), m.price)
      BY <1>3 DEF MarketQuote, WhirlpoolSpotQuote
    <2>2. PhysicalBuy(m, buy) = (QuoteIsA(m) = buy) /\ SpotPrice(m) = m.price
      BY <1>1, <1>3 DEF PhysicalBuy, QuoteIsA, SpotPrice
    <2>. QED
      BY <2>1, <2>2
  <1>4. CASE m.venue = "Meteora DLMM"
    <2>1. MarketQuote(m, buy, amount) = SinglePrice(m, buy, amount, ~PhysicalBuy(m, buy), m.price)
      BY <1>4 DEF MarketQuote, DlmmSpotQuote
    <2>2. QuoteIsA(m) = m.flipped /\ SpotPrice(m) = m.price
      BY <1>4 DEF QuoteIsA, SpotPrice
    <2>3. (~PhysicalBuy(m, buy)) = (m.flipped = buy)
      BY <1>1 DEF PhysicalBuy
    <2>. QED
      BY <2>1, <2>2, <2>3
  <1>5. CASE m.venue = "Meteora DAMM V2"
    <2>1. MarketQuote(m, buy, amount) = SinglePrice(m, buy, amount, ~PhysicalBuy(m, buy), SpotPrice(m))
      BY <1>5 DEF MarketQuote, DammV2SpotQuote
    <2>2. QuoteIsA(m) = m.flipped
      BY <1>5 DEF QuoteIsA
    <2>3. (~PhysicalBuy(m, buy)) = (m.flipped = buy)
      BY <1>1 DEF PhysicalBuy
    <2>. QED
      BY <2>1, <2>2, <2>3
  <1>. QED
    BY <1>2, <1>3, <1>4, <1>5 DEF SpotVenues

\* Dividing a comparison by a positive number
LEMMA CancelFactor ==
    ASSUME NEW x \in Nat, NEW y \in Nat, NEW u \in Nat \ {0}, x * u <= y * u
    PROVE  x <= y
  <1>. SUFFICES ASSUME y + 1 <= x PROVE FALSE
    OBVIOUS
  <1>1. (y + 1) * u <= x * u
    BY TimesKeepsOrder
  <1>2. (y + 1) * u = y * u + u /\ y * u \in Nat /\ x * u \in Nat
    OBVIOUS
  <1>. QED
    BY <1>1, <1>2

-----------------------------------------------------------------------------
(* Bins *)

\* What is known of the pair that is quoted
LEMMA PairFacts ==
    ASSUME pair \in Pairs
    PROVE  /\ pair.active_id \in MinBin .. MaxBin /\ pair.bins \in [MinBin .. MaxBin -> Bins]
           /\ pair.bitmap \subseteq -BinRadius .. BinRadius - 1
           /\ \A a \in pair.bitmap : a * BinsPerArray \in MinBin .. MaxBin - BinsPerArray + 1
           /\ pair.base_fee \in Nat /\ pair.variable_fee_control \in Nat /\ pair.bin_step \in Nat
           /\ pair.max_volatility \in Nat /\ pair.volatility_reference \in Nat
           /\ pair.index_reference \in Int
  BY PairAssumption DEF WellKept

\* A fee rate leaves something of every amount but nothing.
LEMMA FeeRateIs ==
    ASSUME pair \in Pairs, NEW b \in Int
    PROVE  FeeRateAt(b) \in Nat /\ FeeRateAt(b) < FeePrecision /\ FeePrecision \in Nat \ {0}
  <1>. DEFINE d == pair.index_reference - b
              e == b - pair.index_reference
              far == Max({d, e})
              drift == pair.volatility_reference + 10 * far
              moved == Volatility(b) * pair.bin_step
              variable == CeilDiv(pair.variable_fee_control * (moved * moved), VariableFeeScale)
  <1>1. pair.index_reference \in Int /\ pair.volatility_reference \in Nat /\ pair.max_volatility \in Nat
    BY PairFacts
  <1>2. far \in Nat
    <2>1. d \in Int /\ e \in Int /\ d + e = 0
      BY <1>1
    <2>. HIDE DEF d, e
    <2>2. far = IF d >= e THEN d ELSE e
      BY <2>1, MaxOfTwo
    <2>. HIDE DEF far
    <2>. QED
      BY <2>1, <2>2
  <1>3. Volatility(b) \in Nat
    <2>. HIDE DEF far
    <2>1. drift \in Nat
      BY <1>1, <1>2
    <2>2. Volatility(b) = Min({pair.max_volatility, drift})
      BY DEF Volatility, far, d, e
    <2>. HIDE DEF drift
    <2>3. Min({pair.max_volatility, drift})
            = IF pair.max_volatility <= drift THEN pair.max_volatility ELSE drift
      BY <1>1, <2>1, MinOfTwo
    <2>. QED
      BY <1>1, <2>1, <2>2, <2>3
  <1>4. variable \in Nat
    <2>. DEFINE x == pair.variable_fee_control * (moved * moved)
    <2>1. moved \in Nat
      BY <1>3, PairFacts
    <2>. HIDE DEF moved
    <2>2. x \in Nat
      BY <2>1, PairFacts
    <2>3. VariableFeeScale \in Nat \ {0}
      BY BinAssumption
    <2>. HIDE DEF x
    <2>4. CeilDiv(x, VariableFeeScale) \in Nat
      BY <2>2, <2>3, CeilIs
    <2>. QED
      BY <2>4 DEF x
  <1>5. FeeRateAt(b) = Min({MaxFeeRate, pair.base_fee + variable})
    BY DEF FeeRateAt
  <1>. HIDE DEF variable
  <1>6. pair.base_fee + variable \in Nat /\ MaxFeeRate \in Nat /\ MaxFeeRate < FeePrecision
        /\ FeePrecision \in Nat \ {0}
    <2>1. pair.base_fee \in Nat
      BY PairFacts
    <2>2. MaxFeeRate \in Nat /\ MaxFeeRate < FeePrecision /\ FeePrecision \in Nat \ {0}
      BY BinAssumption
    <2>. QED
      BY <1>4, <2>1, <2>2
  <1>7. FeeRateAt(b) = IF MaxFeeRate <= pair.base_fee + variable THEN MaxFeeRate
                       ELSE pair.base_fee + variable
    BY <1>5, <1>6, MinOfTwo
  <1>. QED
    BY <1>6, <1>7

\* compute_fee and compute_fee_from_amount: a fee within an amount is at most
\* the amount.
LEMMA FeesAre ==
    ASSUME pair \in Pairs, NEW b \in Int, NEW amount \in Nat
    PROVE  /\ FeeOn(b, amount) \in Nat
           /\ FeeWithin(b, amount) \in 0 .. amount
           /\ NetOut(b, amount) \in 0 .. amount
  <1>. DEFINE rate == FeeRateAt(b)
              x == amount * rate
  <1>1. rate \in Nat /\ rate < FeePrecision /\ FeePrecision \in Nat \ {0}
    BY FeeRateIs
  <1>. HIDE DEF rate
  <1>2. x \in Nat /\ FeePrecision - rate \in Nat \ {0}
    BY <1>1
  <1>3. x <= amount * FeePrecision
    BY <1>1, ProductGrows
  <1>. HIDE DEF x
  <1>4. CeilDiv(x, FeePrecision - rate) \in Nat
    <2>. DEFINE d == FeePrecision - rate
    <2>1. d \in Nat \ {0}
      BY <1>2
    <2>. HIDE DEF d
    <2>2. CeilDiv(x, d) \in Nat
      BY <1>2, <2>1, CeilIs
    <2>. QED
      BY <2>2 DEF d
  <1>5. CeilDiv(x, FeePrecision) \in Nat /\ CeilDiv(x, FeePrecision) <= amount
    BY <1>1, <1>2, <1>3, CeilIs
  <1>6. FeeOn(b, amount) = CeilDiv(x, FeePrecision - rate)
    BY DEF FeeOn, x, rate
  <1>7. FeeWithin(b, amount) = CeilDiv(x, FeePrecision)
    BY DEF FeeWithin, x, rate
  <1>8. FeeWithin(b, amount) \in 0 .. amount
    BY <1>5, <1>7
  <1>9. NetOut(b, amount) \in 0 .. amount
    <2>1. amount - FeeWithin(b, amount) \in 0 .. amount
      BY <1>8
    <2>. QED
      BY <2>1 DEF NetOut
  <1>. QED
    BY <1>4, <1>6, <1>8, <1>9

\* The layers of a bin are amounts; there is nothing in a bin whose array the
\* bitmap does not have.
LEMMA LayersAre ==
    ASSUME pair \in Pairs, NEW b \in MinBin .. MaxBin
    PROVE  /\ Layers(b).own \in Nat /\ Layers(b).processed \in Nat /\ Layers(b).open \in Nat
           /\ MaxOut(b) \in Nat
           /\ BinArrayOf(b) \in (-BinRadius .. BinRadius - 1) \ pair.bitmap => MaxOut(b) = 0
  <1>. DEFINE bin == pair.bins[b]
              facing == pair.limit_orders /\ bin.ask # swap_for_y
  <1>1. bin \in Bins
    BY PairFacts
  <1>2. bin.x \in Nat /\ bin.y \in Nat /\ bin.processed \in Nat /\ bin.open \in Nat
    BY <1>1 DEF Bins
  <1>3. /\ Layers(b).own = IF swap_for_y THEN bin.y ELSE bin.x
        /\ Layers(b).processed = IF facing THEN bin.processed ELSE 0
        /\ Layers(b).open = IF facing THEN bin.open ELSE 0
    BY DEF Layers
  <1>. HIDE DEF facing
  <1>4. Layers(b).own \in Nat /\ Layers(b).processed \in Nat /\ Layers(b).open \in Nat
    BY <1>2, <1>3
  <1>5. MaxOut(b) \in Nat
    BY <1>4 DEF MaxOut
  <1>6. ASSUME BinArrayOf(b) \in (-BinRadius .. BinRadius - 1) \ pair.bitmap PROVE MaxOut(b) = 0
    <2>1. bin.x = 0 /\ bin.y = 0 /\ bin.processed = 0 /\ bin.open = 0
      BY <1>6, PairAssumption DEF WellKept
    <2>. HIDE DEF bin
    <2>2. Layers(b).own = 0 /\ Layers(b).processed = 0 /\ Layers(b).open = 0
      BY <1>3, <2>1
    <2>. QED
      BY <2>2 DEF MaxOut
  <1>. QED
    BY <1>4, <1>5, <1>6

\* At a price, out is worth no more than in.
PricedAt(p, in, out) == IF swap_for_y THEN out * One <= in * p ELSE out * p <= in * One

\* get_amount_in and get_amount_out: what a layer costs covers it, and less
\* than its cost gives no more than the layer.
LEMMA AmountsAre ==
    ASSUME NEW p \in Nat \ {0}, NEW layer \in Nat \ {0}, NEW left \in Nat
    PROVE  /\ AmountIn(layer, p) \in Nat \ {0} /\ PricedAt(p, AmountIn(layer, p), layer)
           /\ AmountOut(left, p) \in Nat /\ PricedAt(p, left, AmountOut(left, p))
           /\ left < AmountIn(layer, p) => AmountOut(left, p) <= layer
  <1>1. One \in Nat \ {0}
    BY BinAssumption
  <1>2. ASSUME NEW u \in Nat \ {0}, NEW v \in Nat \ {0}
        PROVE  LET in == CeilDiv(layer * u, v)
                   out == (left * v) \div u
               IN  /\ in \in Nat \ {0} /\ layer * u <= in * v
                   /\ out \in Nat /\ out * u <= left * v
                   /\ left < in => out <= layer
    <2>. DEFINE x == layer * u
                y == left * v
                in == CeilDiv(x, v)
                out == y \div u
    <2>1. x \in Nat \ {0} /\ y \in Nat
      BY <1>2
    <2>. HIDE DEF x
    <2>2. in \in Nat /\ x <= in * v /\ \A n \in Nat : x <= n * v => in <= n
      BY <1>2, <2>1, CeilIs
    <2>. HIDE DEF y
    <2>3. out \in Nat /\ out * u <= y
      BY <1>2, <2>1, FloorIs
    <2>. HIDE DEF in, out
    <2>4. in # 0
      <3>. SUFFICES ASSUME in = 0 PROVE FALSE
        OBVIOUS
      <3>1. in * v = 0
        BY <1>2
      <3>. QED
        BY <2>1, <2>2, <3>1
    <2>5. ASSUME left < in PROVE out <= layer
      <3>1. ~(x <= left * v) /\ left * v = y
        BY <2>2, <2>5 DEF y
      <3>2. out * u <= layer * u
        <4>1. out * u \in Nat /\ layer * u = x
          BY <1>2, <2>3 DEF x
        <4>. QED
          BY <2>1, <2>3, <3>1, <4>1
      <3>. QED
        BY <1>2, <2>3, <3>2, CancelFactor
    <2>. QED
      BY <2>2, <2>3, <2>4, <2>5 DEF x, y, in, out
  <1>3. CASE swap_for_y
    <2>1. /\ AmountIn(layer, p) = CeilDiv(layer * One, p)
          /\ AmountOut(left, p) = (p * left) \div One /\ p * left = left * p
      BY <1>3 DEF AmountIn, AmountOut
    <2>. QED
      BY <1>1, <1>2, <1>3, <2>1 DEF PricedAt
  <1>4. CASE ~swap_for_y
    <2>1. /\ AmountIn(layer, p) = CeilDiv(p * layer, One)
          /\ AmountOut(left, p) = (left * One) \div p /\ p * layer = layer * p
      BY <1>4 DEF AmountIn, AmountOut
    <2>. QED
      BY <1>1, <1>2, <1>4, <2>1 DEF PricedAt
  <1>. QED
    BY <1>3, <1>4

\* Prices of a fill add up.
LEMMA PricedSum ==
    ASSUME NEW p \in Nat, NEW i \in Nat, NEW o \in Nat, PricedAt(p, i, o),
           NEW j \in Nat, NEW u \in Nat, PricedAt(p, j, u)
    PROVE  PricedAt(p, i + j, o + u)
  <1>1. One \in Nat
    BY BinAssumption
  <1>2. /\ (o + u) * One = o * One + u * One /\ (i + j) * p = i * p + j * p
        /\ (o + u) * p = o * p + u * p /\ (i + j) * One = i * One + j * One
    BY <1>1
  <1>3. /\ o * One \in Nat /\ u * One \in Nat /\ i * p \in Nat /\ j * p \in Nat
        /\ o * p \in Nat /\ u * p \in Nat /\ i * One \in Nat /\ j * One \in Nat
    BY <1>1
  <1>4. CASE swap_for_y
    BY <1>2, <1>3, <1>4 DEF PricedAt
  <1>5. CASE ~swap_for_y
    BY <1>2, <1>3, <1>5 DEF PricedAt
  <1>. QED
    BY <1>4, <1>5

\* A fill f of an amount net after layers that hold o together: what is left
\* over means that they are empty.
Filled(f, p, net, o) ==
    /\ f.in \in Nat /\ f.left \in Nat /\ f.out \in Nat
    /\ f.in + f.left = net /\ f.out <= o
    /\ f.left > 0 => f.out = o /\ (o > 0 => f.in > 0)
    /\ PricedAt(p, f.in, f.out)

\* One more layer is filled.
LEMMA FillStep ==
    ASSUME NEW b \in MinBin .. MaxBin, NEW net \in Nat, NEW o \in Nat, NEW f, Filled(f, BinPrice[b], net, o),
           NEW layer \in Nat
    PROVE  Filled(FillAtPrice(b, f, layer), BinPrice[b], net, o + layer)
  <1>. DEFINE p == BinPrice[b]
              max_in == AmountIn(layer, p)
              g == FillAtPrice(b, f, layer)
  <1>1. p \in Nat \ {0}
    BY BinAssumption
  <1>2. CASE layer = 0
    <2>1. g = f /\ o + layer = o
      BY <1>2 DEF FillAtPrice
    <2>. QED
      BY <2>1
  <1>3. CASE layer # 0
    <2>. HIDE DEF p
    <2>1. /\ f.in \in Nat /\ f.left \in Nat /\ f.out \in Nat
          /\ f.in + f.left = net /\ f.out <= o /\ (f.left > 0 => f.out = o)
          /\ PricedAt(p, f.in, f.out)
      BY DEF Filled, p
    <2>2. /\ max_in \in Nat \ {0} /\ PricedAt(p, max_in, layer)
          /\ AmountOut(f.left, p) \in Nat /\ PricedAt(p, f.left, AmountOut(f.left, p))
          /\ f.left < max_in => AmountOut(f.left, p) <= layer
      BY <1>1, <1>3, <2>1, AmountsAre
    <2>3. CASE f.left >= max_in
      <3>1. g = [in |-> f.in + max_in, left |-> f.left - max_in, out |-> f.out + layer]
        BY <1>3, <2>3 DEF FillAtPrice, p
      <3>. HIDE DEF g, max_in
      <3>2. g.in = f.in + max_in /\ g.left = f.left - max_in /\ g.out = f.out + layer
        BY <3>1
      <3>3. PricedAt(p, f.in + max_in, f.out + layer)
        BY <1>1, <2>1, <2>2, PricedSum
      <3>4. f.out = o
        BY <2>1, <2>2, <2>3
      <3>5. PricedAt(p, g.in, g.out)
        BY <3>2, <3>3
      <3>6. /\ g.in \in Nat /\ g.left \in Nat /\ g.out \in Nat /\ g.in > 0
            /\ g.in + g.left = net /\ g.out = o + layer
        BY <2>1, <2>2, <2>3, <3>2, <3>4
      <3>7. Filled(g, p, net, o + layer)
        BY <3>5, <3>6 DEF Filled
      <3>. QED
        BY <3>7 DEF g, p
    <2>4. CASE ~(f.left >= max_in)
      <3>. DEFINE u == AmountOut(f.left, p)
      <3>1. g = [in |-> f.in + f.left, left |-> 0, out |-> f.out + u]
        BY <1>3, <2>4 DEF FillAtPrice, p
      <3>2. u \in Nat /\ u <= layer /\ PricedAt(p, f.left, u)
        BY <2>1, <2>2, <2>4
      <3>. HIDE DEF g, u
      <3>3. g.in = f.in + f.left /\ g.left = 0 /\ g.out = f.out + u
        BY <3>1
      <3>4. PricedAt(p, f.in + f.left, f.out + u)
        BY <1>1, <2>1, <3>2, PricedSum
      <3>5. PricedAt(p, g.in, g.out)
        BY <3>3, <3>4
      <3>6. /\ g.in \in Nat /\ g.left = 0 /\ g.out \in Nat
            /\ g.in + g.left = net /\ g.out <= o + layer
        BY <2>1, <3>2, <3>3
      <3>7. Filled(g, p, net, o + layer)
        BY <3>5, <3>6 DEF Filled
      <3>. QED
        BY <3>7 DEF g, p
    <2>. QED
      BY <2>3, <2>4
  <1>. QED
    BY <1>2, <1>3

\* quote_at_bin: what is left over has drained the bin, and the output is
\* worth no more than what is consumed at the bin's price.
LEMMA QuoteAtBinIs ==
    ASSUME pair \in Pairs, NEW b \in MinBin .. MaxBin, MaxOut(b) > 0, NEW amount \in Nat \ {0}
    PROVE  LET q == QuoteAtBin(b, amount)
           IN  /\ q.consumed \in Nat \ {0} /\ q.out \in 0 .. MaxOut(b)
               /\ q.consumed # amount => q.out = NetOut(b, MaxOut(b))
               /\ PricedAt(BinPrice[b], q.consumed, q.out)
  <1>. DEFINE p == BinPrice[b]
              net == IF FeeOnInput THEN amount - FeeWithin(b, amount) ELSE amount
              none == [in |-> 0, left |-> net, out |-> 0]
              own == FillAtPrice(b, none, Layers(b).own)
              processed == FillAtPrice(b, own, Layers(b).processed)
              fill == FillAtPrice(b, processed, Layers(b).open)
              q == QuoteAtBin(b, amount)
  <1>1. q = [consumed |-> IF fill.left = 0 THEN amount
                          ELSE fill.in + (IF FeeOnInput THEN FeeOn(b, fill.in) ELSE 0),
             out |-> NetOut(b, fill.out)]
    BY DEF QuoteAtBin
  <1>2. b \in Int /\ p \in Nat \ {0} /\ One \in Nat \ {0}
    BY BinAssumption
  <1>3. net \in Nat /\ net <= amount
    <2>1. FeeWithin(b, amount) \in 0 .. amount
      BY <1>2, FeesAre
    <2>. QED
      BY <2>1
  <1>. HIDE DEF net
  <1>4. Filled(none, p, net, 0)
    <2>1. none.in = 0 /\ none.left = net /\ none.out = 0
      OBVIOUS
    <2>2. PricedAt(p, 0, 0)
      BY <1>2 DEF PricedAt
    <2>. HIDE DEF none, p
    <2>. QED
      BY <1>3, <2>1, <2>2 DEF Filled
  <1>5. Filled(fill, p, net, MaxOut(b))
    <2>1. Layers(b).own \in Nat /\ Layers(b).processed \in Nat /\ Layers(b).open \in Nat
      BY LayersAre
    <2>. HIDE DEF none
    <2>2. Filled(own, p, net, 0 + Layers(b).own)
      BY <1>3, <1>4, <2>1, FillStep
    <2>3. 0 + Layers(b).own \in Nat /\ 0 + Layers(b).own + Layers(b).processed \in Nat
      BY <2>1
    <2>. HIDE DEF own
    <2>4. Filled(processed, p, net, 0 + Layers(b).own + Layers(b).processed)
      BY <1>3, <2>1, <2>2, <2>3, FillStep
    <2>. HIDE DEF processed
    <2>5. Filled(fill, p, net, 0 + Layers(b).own + Layers(b).processed + Layers(b).open)
      BY <1>3, <2>1, <2>3, <2>4, FillStep
    <2>6. 0 + Layers(b).own + Layers(b).processed + Layers(b).open = MaxOut(b)
      BY <2>1 DEF MaxOut
    <2>. QED
      BY <2>5, <2>6
  <1>. HIDE DEF fill, q, p
  <1>6. /\ fill.in \in Nat /\ fill.left \in Nat /\ fill.out \in Nat /\ fill.in + fill.left = net
        /\ fill.out <= MaxOut(b) /\ (fill.left > 0 => fill.out = MaxOut(b) /\ fill.in > 0)
        /\ PricedAt(p, fill.in, fill.out)
    BY <1>5 DEF Filled
  <1>. DEFINE c == q.consumed
              o == q.out
              fee == IF FeeOnInput THEN FeeOn(b, fill.in) ELSE 0
  <1>7. fee \in Nat
    BY <1>2, <1>6, FeesAre
  <1>8. c = (IF fill.left = 0 THEN amount ELSE fill.in + fee) /\ o = NetOut(b, fill.out)
    BY <1>1
  <1>9. o \in 0 .. fill.out
    BY <1>2, <1>6, <1>8, FeesAre
  <1>. HIDE DEF c, o, fee
  <1>10. c \in Nat \ {0} /\ c >= fill.in
    BY <1>3, <1>6, <1>7, <1>8
  <1>11. o \in 0 .. MaxOut(b)
    <2>1. MaxOut(b) \in Nat
      BY LayersAre
    <2>. QED
      BY <1>6, <1>9, <2>1
  <1>12. c # amount => o = NetOut(b, MaxOut(b))
    BY <1>6, <1>8
  <1>13. PricedAt(p, c, o)
    <2>1. o * One <= fill.out * One /\ o * p <= fill.out * p
      BY <1>2, <1>6, <1>9, TimesKeepsOrder DEF p
    <2>2. fill.in * p <= c * p /\ fill.in * One <= c * One
      BY <1>2, <1>6, <1>10, TimesKeepsOrder DEF p
    <2>3. /\ o * One \in Nat /\ o * p \in Nat /\ fill.out * One \in Nat /\ fill.out * p \in Nat
          /\ fill.in * p \in Nat /\ fill.in * One \in Nat /\ c * p \in Nat /\ c * One \in Nat
      BY <1>2, <1>6, <1>9, <1>10 DEF p
    <2>4. CASE swap_for_y
      BY <1>6, <2>1, <2>2, <2>3, <2>4 DEF PricedAt
    <2>5. CASE ~swap_for_y
      BY <1>6, <2>1, <2>2, <2>3, <2>5 DEF PricedAt
    <2>. QED
      BY <2>4, <2>5
  <1>. QED
    BY <1>10, <1>11, <1>12, <1>13 DEF c, o, q, p

\* The bins from where the walk began up to a bin x, what a bin gives when it
\* is drained, and what they give together
PassedTo(x) ==
    {b \in MinBin .. MaxBin : IF swap_for_y THEN x < b /\ b <= pair.active_id
                              ELSE pair.active_id <= b /\ b < x}
Held(b) == NetOut(b, MaxOut(b))
SumTo(x) == SumFunction([b \in PassedTo(x) |-> Held(b)])

\* The walk has drained what it passed, and from the bin it stands in it has
\* taken something only when all is spent.
BinInv ==
    /\ pair \in Pairs /\ swap_for_y \in BOOLEAN /\ bin_amount \in Nat
    /\ active_id \in MinBin .. MaxBin
    /\ IF swap_for_y THEN active_id <= pair.active_id ELSE pair.active_id <= active_id
    /\ amount_left \in Int /\ bins_out \in Nat
    /\ (bin_quote \in {"idle", "walking"} /\ amount_left > 0) => bins_out = SumTo(active_id)
    /\ SumTo(active_id) <= bins_out /\ bins_out <= SumTo(active_id) + MaxOut(active_id)
    /\ WorseThanActiveBin

\* A bin gives a natural number, and nothing when nothing is in it.
LEMMA HeldIs ==
    ASSUME pair \in Pairs, NEW b \in MinBin .. MaxBin
    PROVE  Held(b) \in Nat /\ Held(b) <= MaxOut(b) /\ (MaxOut(b) = 0 => Held(b) = 0)
  <1>1. b \in Int /\ MaxOut(b) \in Nat
    <2>1. b \in Int
      BY BinAssumption
    <2>2. MaxOut(b) \in Nat
      BY LayersAre
    <2>. QED
      BY <2>1, <2>2
  <1>2. NetOut(b, MaxOut(b)) \in 0 .. MaxOut(b)
    BY <1>1, FeesAre
  <1>. QED
    BY <1>1, <1>2 DEF Held

\* What a bin gives depends on the pair and the direction only.
LEMMA SameHeld ==
    ASSUME pair' = pair, swap_for_y' = swap_for_y, NEW b
    PROVE  Held(b)' = Held(b) /\ MaxOut(b)' = MaxOut(b)
  BY DEF Held, NetOut, MaxOut, Layers, FeeOnInput, FeeWithin, FeeRateAt, Volatility

\* So does what the bins up to one give.
LEMMA SameSumTo ==
    ASSUME pair' = pair, swap_for_y' = swap_for_y
    PROVE  SumTo(active_id)' = SumTo(active_id') /\ MaxOut(active_id)' = MaxOut(active_id')
  <1>1. PICK x : x = active_id'
    OBVIOUS
  <1>2. \A b : Held(b)' = Held(b) /\ MaxOut(b)' = MaxOut(b)
    BY SameHeld
  <1>3. MaxOut(active_id)' = MaxOut(active_id')
    BY <1>1, <1>2
  <1>4. PassedTo(active_id)' = PassedTo(active_id')
    BY DEF PassedTo
  <1>5. SumTo(active_id)' = SumFunction([b \in PassedTo(active_id)' |-> Held(b)'])
    BY DEF SumTo
  <1>6. [b \in PassedTo(active_id)' |-> Held(b)'] = [b \in PassedTo(active_id') |-> Held(b)]
    BY <1>2, <1>4
  <1>. QED
    BY <1>3, <1>5, <1>6 DEF SumTo

\* The sum up to a bin is a number, and 0 up to the first.
LEMMA SumToIs ==
    ASSUME pair \in Pairs, NEW x
    PROVE  /\ IsFiniteSet(PassedTo(x)) /\ [b \in PassedTo(x) |-> Held(b)] \in [PassedTo(x) -> Int]
           /\ SumTo(x) \in Int /\ (x = pair.active_id => SumTo(x) = 0)
  <1>1. IsFiniteSet(PassedTo(x))
    <2>1. IsFiniteSet(MinBin .. MaxBin)
      BY BinAssumption, FS_Interval
    <2>. QED
      BY <2>1, FS_Subset DEF PassedTo
  <1>2. [b \in PassedTo(x) |-> Held(b)] \in [PassedTo(x) -> Int]
    <2>1. \A b \in PassedTo(x) : Held(b) \in Int
      BY HeldIs DEF PassedTo
    <2>. QED
      BY <2>1
  <1>3. SumTo(x) \in Int
    BY <1>1, <1>2, SumInt DEF SumTo
  <1>4. ASSUME x = pair.active_id PROVE SumTo(x) = 0
    <2>1. PassedTo(x) = {}
      BY <1>4, PairFacts, BinAssumption DEF PassedTo
    <2>2. DOMAIN [b \in PassedTo(x) |-> Held(b)] = {}
      BY <2>1
    <2>. QED
      BY <2>2, SumOfNone DEF SumTo
  <1>. QED
    BY <1>1, <1>2, <1>3, <1>4

\* Going on over bins with nothing in them adds nothing.
LEMMA SumToFar ==
    ASSUME pair \in Pairs, NEW x \in MinBin .. MaxBin, NEW y \in MinBin .. MaxBin,
           IF swap_for_y THEN y <= x ELSE x <= y,
           \A b \in MinBin .. MaxBin :
               (IF swap_for_y THEN y < b /\ b <= x ELSE x <= b /\ b < y) => MaxOut(b) = 0
    PROVE  SumTo(y) = SumTo(x)
  <1>. DEFINE f == [b \in PassedTo(y) |-> Held(b)]
  <1>1. x \in Int /\ y \in Int /\ pair.active_id \in Int /\ \A b \in MinBin .. MaxBin : b \in Int
    BY PairFacts, BinAssumption
  <1>2. PassedTo(x) \in SUBSET PassedTo(y)
    BY <1>1 DEF PassedTo
  <1>3. \A b \in PassedTo(y) \ PassedTo(x) : f[b] = 0
    <2>. SUFFICES ASSUME NEW b \in PassedTo(y) \ PassedTo(x) PROVE Held(b) = 0
      OBVIOUS
    <2>1. b \in MinBin .. MaxBin /\ (IF swap_for_y THEN y < b /\ b <= x ELSE x <= b /\ b < y)
      BY <1>1 DEF PassedTo
    <2>. QED
      BY <2>1, HeldIs
  <1>4. IsFiniteSet(PassedTo(y)) /\ f \in [PassedTo(y) -> Int]
    BY SumToIs
  <1>5. [b \in PassedTo(x) |-> f[b]] = [b \in PassedTo(x) |-> Held(b)]
    BY <1>2
  <1>6. SumFunction(f) = SumTo(y)
    BY DEF SumTo
  <1>. HIDE DEF f
  <1>7. SumFunction(f) = SumFunction([b \in PassedTo(x) |-> f[b]])
    BY <1>2, <1>3, <1>4, SumOfRest
  <1>. QED
    BY <1>5, <1>6, <1>7 DEF SumTo

\* Going on by one bin adds that bin.
LEMMA SumToNext ==
    ASSUME pair \in Pairs, swap_for_y \in BOOLEAN, NEW x \in MinBin .. MaxBin,
           IF swap_for_y THEN x <= pair.active_id ELSE pair.active_id <= x
    PROVE  SumTo(IF swap_for_y THEN x - 1 ELSE x + 1) = SumTo(x) + Held(x)
  <1>. DEFINE y == IF swap_for_y THEN x - 1 ELSE x + 1
              f == [b \in PassedTo(y) |-> Held(b)]
  <1>1. x \in Int /\ y \in Int /\ pair.active_id \in Int /\ \A b \in MinBin .. MaxBin : b \in Int
    BY PairFacts, BinAssumption
  <1>2. x \in PassedTo(y) /\ PassedTo(y) \ {x} = PassedTo(x)
    <2>1. CASE swap_for_y
      BY <1>1, <2>1 DEF PassedTo
    <2>2. CASE ~swap_for_y
      BY <1>1, <2>2 DEF PassedTo
    <2>. QED
      BY <2>1, <2>2
  <1>. HIDE DEF y
  <1>3. IsFiniteSet(PassedTo(y)) /\ f \in [PassedTo(y) -> Int]
    BY SumToIs
  <1>4. f[x] = Held(x) /\ [b \in PassedTo(y) \ {x} |-> f[b]] = [b \in PassedTo(x) |-> Held(b)]
    BY <1>2
  <1>5. SumFunction(f) = SumTo(y)
    BY DEF SumTo
  <1>. HIDE DEF f
  <1>6. SumFunction(f) = f[x] + SumFunction([b \in PassedTo(y) \ {x} |-> f[b]])
    <2>. DEFINE P == PassedTo(y)
    <2>1. IsFiniteSet(P) /\ f \in [P -> Int] /\ x \in P
      BY <1>2, <1>3, Zenon
    <2>. HIDE DEF P
    <2>. DEFINE e == [b \in P \ {x} |-> f[b]]
    <2>2. DOMAIN e = P \ {x} /\ \A b \in P \ {x} : e[b] = f[b]
      OBVIOUS
    <2>3. e = [b \in P \ {x} |-> e[b]]
      OBVIOUS
    <2>. HIDE DEF e
    <2>4. SumFunction(f) = f[x] + SumFunction(e)
      BY <2>1, <2>2, <2>3, TermOut
    <2>. QED
      BY <2>4 DEF e, P
  <1>7. SumTo(x) \in Int /\ Held(x) \in Int
    BY SumToIs, HeldIs
  <1>. QED
    BY <1>4, <1>5, <1>6, <1>7 DEF SumTo, y

\* Where an array begins and ends
LEMMA ArrayEdges ==
    ASSUME NEW a \in Int, NEW n \in Nat \ {0}
    PROVE  /\ (a * n) \div n = a /\ (a * n + n - 1) \div n = a
           /\ (a * n - 1) \div n = a - 1 /\ (a * n + n) \div n = a + 1
  <1>. DEFINE m == a * n
  <1>1. \A k \in Int : \A r \in 0 .. n - 1 : (k * n + r) \div n = k
    OBVIOUS
  <1>2. m \in Int /\ (a - 1) * n = m - n /\ (a + 1) * n = m + n
    OBVIOUS
  <1>3. m \div n = a
    BY <1>1
  <1>4. (m + n - 1) \div n = a
    <2>1. m + n - 1 = a * n + (n - 1) /\ n - 1 \in 0 .. n - 1
      OBVIOUS
    <2>. QED
      BY <1>1, <2>1
  <1>5. (m - 1) \div n = a - 1
    <2>1. m - 1 = (a - 1) * n + (n - 1) /\ n - 1 \in 0 .. n - 1 /\ a - 1 \in Int
      BY <1>2
    <2>. QED
      BY <1>1, <2>1
  <1>6. (m + n) \div n = a + 1
    <2>1. m + n = (a + 1) * n + 0 /\ 0 \in 0 .. n - 1 /\ a + 1 \in Int
      BY <1>2
    <2>. QED
      BY <1>1, <2>1
  <1>. QED
    BY <1>3, <1>4, <1>5, <1>6

\* Nothing is passed or given at first.
LEMMA BinInvInit == BinInit => BinInv
  <1>. SUFFICES ASSUME BinInit PROVE BinInv
    OBVIOUS
  <1>1. /\ pair \in Pairs /\ swap_for_y \in BOOLEAN /\ bin_amount \in Nat
        /\ active_id = pair.active_id /\ amount_left = bin_amount /\ bins_out = 0
    BY BinAssumption DEF BinInit
  <1>2. /\ active_id \in MinBin .. MaxBin /\ active_id \in Int
        /\ SumTo(active_id) = 0 /\ MaxOut(active_id) \in Nat
    BY <1>1, PairFacts, SumToIs, LayersAre, BinAssumption
  <1>3. WorseThanActiveBin
    <2>1. BinPrice[pair.active_id] \in Nat /\ One \in Nat
      BY <1>1, <1>2, BinAssumption
    <2>2. bin_amount - amount_left = 0
      BY <1>1
    <2>. QED
      BY <1>1, <2>1, <2>2 DEF WorseThanActiveBin
  <1>. QED
    BY <1>1, <1>2, <1>3 DEF BinInv

\* What only changes where the quote stands
LEMMA SameBins ==
    ASSUME BinInv, UNCHANGED <<bin_args, active_id, amount_left, bins_out>>,
           \/ bin_quote = "idle"
           \/ bin_quote' \in {"done", "none"}
           \/ bin_quote' = bin_quote
    PROVE  BinInv'
  <1>1. /\ pair' = pair /\ swap_for_y' = swap_for_y /\ bin_amount' = bin_amount
        /\ active_id' = active_id /\ amount_left' = amount_left /\ bins_out' = bins_out
    BY DEF bin_args
  <1>2. SumTo(active_id)' = SumTo(active_id) /\ MaxOut(active_id)' = MaxOut(active_id)
    BY <1>1, SameSumTo
  <1>3. WorseThanActiveBin'
    BY <1>1 DEF BinInv, WorseThanActiveBin
  <1>. QED
    BY <1>1, <1>2, <1>3 DEF BinInv

\* Into the next array: what is skipped has nothing to give.
LEMMA EnterArrayInv == BinInv /\ EnterArray => BinInv'
  <1>. SUFFICES ASSUME BinInv, EnterArray PROVE BinInv'
    OBVIOUS
  <1>1. /\ WalkingBins /\ UNCHANGED <<bin_args, amount_left, bins_out, bin_quote>>
    BY DEF EnterArray
  <1>2. PICK a \in DOMAIN bin_store :
           /\ IsNextArray(a)
           /\ active_id' = IF a = BinArrayOf(active_id) THEN active_id
                           ELSE IF swap_for_y THEN a * BinsPerArray + BinsPerArray - 1
                           ELSE a * BinsPerArray
    BY DEF EnterArray
  <1>. DEFINE x == active_id
              y == active_id'
              start == BinArrayOf(active_id)
  <1>3. /\ pair \in Pairs /\ swap_for_y \in BOOLEAN /\ x \in MinBin .. MaxBin
        /\ MinBin \in Int /\ MaxBin \in Int /\ BinsPerArray \in Nat \ {0} /\ BinRadius \in Nat
        /\ IF swap_for_y THEN x <= pair.active_id ELSE pair.active_id <= x
        /\ pair.active_id \in Int
    BY BinAssumption, PairFacts DEF BinInv
  <1>4. /\ start \in -BinRadius .. BinRadius - 1 /\ a \in pair.bitmap
        /\ IF swap_for_y THEN a <= start ELSE a >= start
        /\ \A c \in pair.bitmap :
              (IF swap_for_y THEN c <= start ELSE c >= start) => IF swap_for_y THEN c <= a ELSE c >= a
    BY <1>2 DEF IsNextArray, ArraysWithLiquidity
  <1>5. a \in Int /\ start \in Int /\ a * BinsPerArray \in MinBin .. MaxBin - BinsPerArray + 1
    BY <1>3, <1>4, PairFacts
  <1>6. \A b \in Int : BinArrayOf(b) \in Int
    BY <1>3, DivFacts DEF BinArrayOf
  <1>7. \A b, c \in Int : b <= c => BinArrayOf(b) <= BinArrayOf(c)
    BY <1>3, DivMonotone DEF BinArrayOf
  <1>8. CASE a = start
    <2>1. active_id' = active_id
      BY <1>2, <1>8
    <2>. QED
      BY <1>1, <2>1, SameBins
  <1>9. CASE a # start
    <2>. DEFINE e == a * BinsPerArray
    <2>1. e \in Int /\ MinBin <= e /\ e + BinsPerArray - 1 <= MaxBin
      BY <1>3, <1>5
    <2>2. /\ BinArrayOf(e) = a /\ BinArrayOf(e + BinsPerArray - 1) = a
          /\ BinArrayOf(e - 1) = a - 1 /\ BinArrayOf(e + BinsPerArray) = a + 1
      BY <1>3, <1>5, ArrayEdges DEF BinArrayOf
    <2>. HIDE DEF e
    <2>3. y = IF swap_for_y THEN e + BinsPerArray - 1 ELSE e
      BY <1>2, <1>9 DEF e
    <2>4. y \in MinBin .. MaxBin /\ BinArrayOf(y) = a
      BY <1>3, <2>1, <2>2, <2>3
    <2>5. IF swap_for_y THEN y < x ELSE x < y
      <3>1. ~(IF swap_for_y THEN x <= y ELSE y <= x)
        <4>1. x \in Int /\ y \in Int
          BY <1>3, <2>4
        <4>2. CASE swap_for_y
          BY <1>4, <1>5, <1>7, <1>9, <2>4, <4>1, <4>2
        <4>3. CASE ~swap_for_y
          BY <1>4, <1>5, <1>7, <1>9, <2>4, <4>1, <4>3
        <4>. QED
          BY <4>2, <4>3
      <3>. QED
        BY <1>3, <2>4, <3>1
    <2>6. ASSUME NEW b \in MinBin .. MaxBin, IF swap_for_y THEN y < b /\ b <= x ELSE x <= b /\ b < y
          PROVE  MaxOut(b) = 0
      <3>1. b \in Int /\ x \in Int /\ y \in Int /\ BinArrayOf(b) \in Int
        BY <1>3, <1>6, <2>4
      <3>2. CASE swap_for_y
        <4>1. BinArrayOf(b) <= start
          BY <1>7, <2>6, <3>1, <3>2
        <4>2. a + 1 <= BinArrayOf(b)
          <5>1. e + BinsPerArray \in Int /\ e + BinsPerArray <= b
            BY <1>3, <2>1, <2>3, <2>6, <3>1, <3>2
          <5>. QED
            BY <1>7, <2>2, <3>1, <5>1
        <4>3. BinArrayOf(b) \in (-BinRadius .. BinRadius - 1) \ pair.bitmap
          <5>1. BinArrayOf(b) \notin pair.bitmap
            BY <1>4, <1>5, <3>1, <3>2, <4>1, <4>2
          <5>2. a \in -BinRadius .. BinRadius - 1
            BY <1>3, <1>4, PairFacts
          <5>. QED
            BY <1>3, <1>4, <1>5, <3>1, <4>1, <4>2, <5>1, <5>2
        <4>. QED
          BY <1>3, <4>3, LayersAre
      <3>3. CASE ~swap_for_y
        <4>1. start <= BinArrayOf(b)
          BY <1>7, <2>6, <3>1, <3>3
        <4>2. BinArrayOf(b) <= a - 1
          <5>1. e - 1 \in Int /\ b <= e - 1
            BY <1>3, <2>1, <2>3, <2>6, <3>1, <3>3
          <5>. QED
            BY <1>7, <2>2, <3>1, <5>1
        <4>3. BinArrayOf(b) \in (-BinRadius .. BinRadius - 1) \ pair.bitmap
          <5>1. BinArrayOf(b) \notin pair.bitmap
            BY <1>4, <1>5, <3>1, <3>3, <4>1, <4>2
          <5>2. a \in -BinRadius .. BinRadius - 1
            BY <1>3, <1>4, PairFacts
          <5>. QED
            BY <1>3, <1>4, <1>5, <3>1, <4>1, <4>2, <5>1, <5>2
        <4>. QED
          BY <1>3, <4>3, LayersAre
      <3>. QED
        BY <3>2, <3>3
    <2>7. SumTo(y) = SumTo(x)
      <3>1. IF swap_for_y THEN y <= x ELSE x <= y
        BY <1>3, <2>4, <2>5
      <3>. QED
        BY <1>3, <2>4, <2>6, <3>1, SumToFar
    <2>8. bins_out = SumTo(x) /\ bins_out \in Nat /\ amount_left \in Int /\ bin_amount \in Nat
      BY <1>1 DEF BinInv, WalkingBins
    <2>9. /\ pair' = pair /\ swap_for_y' = swap_for_y /\ bin_amount' = bin_amount
          /\ amount_left' = amount_left /\ bins_out' = bins_out
      BY <1>1 DEF bin_args
    <2>10. SumTo(active_id)' = bins_out /\ MaxOut(active_id)' \in Nat
      <3>1. MaxOut(y) \in Nat
        BY <1>3, <2>4, LayersAre
      <3>. QED
        BY <2>7, <2>8, <2>9, <3>1, SameSumTo
    <2>11. WorseThanActiveBin'
      BY <2>9 DEF BinInv, WorseThanActiveBin
    <2>12. IF swap_for_y THEN active_id' <= pair.active_id ELSE pair.active_id <= active_id'
      BY <1>3, <2>4, <2>5
    <2>. QED
      BY <1>3, <2>4, <2>8, <2>9, <2>10, <2>11, <2>12 DEF BinInv
  <1>. QED
    BY <1>8, <1>9

\* A bin is paid by what is taken at its price, which is no better than the
\* first bin's.
LEMMA PaidByBin ==
    ASSUME BinInv, NEW c \in Nat, NEW o \in Nat, PricedAt(BinPrice[active_id], c, o),
           pair' = pair, swap_for_y' = swap_for_y, bin_amount' = bin_amount,
           amount_left' = amount_left - c, bins_out' = bins_out + o
    PROVE  WorseThanActiveBin'
  <1>. DEFINE p == BinPrice[pair.active_id]
              q == BinPrice[active_id]
              spent == bin_amount - amount_left
  <1>1. /\ pair \in Pairs /\ swap_for_y \in BOOLEAN /\ bin_amount \in Nat /\ amount_left \in Int
        /\ bins_out \in Nat /\ active_id \in MinBin .. MaxBin /\ pair.active_id \in MinBin .. MaxBin
        /\ IF swap_for_y THEN active_id <= pair.active_id ELSE pair.active_id <= active_id
    BY PairFacts DEF BinInv
  <1>2. /\ p \in Nat \ {0} /\ q \in Nat \ {0} /\ One \in Nat \ {0}
        /\ IF swap_for_y THEN q <= p ELSE p <= q
    BY <1>1, BinAssumption
  <1>3. spent \in Int /\ bin_amount' - amount_left' = spent + c
    BY <1>1
  <1>4. IF swap_for_y THEN bins_out * One <= spent * p ELSE bins_out * p <= spent * One
    BY DEF BinInv, WorseThanActiveBin
  <1>5. IF swap_for_y THEN o * One <= c * q ELSE o * q <= c * One
    BY DEF PricedAt
  <1>. HIDE DEF p, q, spent
  <1>6. CASE swap_for_y
    <2>1. c * q <= c * p
      BY <1>2, <1>6, TimesKeepsOrder
    <2>2. (bins_out + o) * One = bins_out * One + o * One /\ (spent + c) * p = spent * p + c * p
      BY <1>1, <1>2, <1>3
    <2>3. /\ bins_out * One \in Int /\ o * One \in Int /\ spent * p \in Int /\ c * p \in Int /\ c * q \in Int
      BY <1>1, <1>2, <1>3
    <2>4. (bins_out + o) * One <= (spent + c) * p
      BY <1>4, <1>5, <1>6, <2>1, <2>2, <2>3
    <2>. QED
      BY <1>3, <1>6, <2>4 DEF WorseThanActiveBin, p
  <1>7. CASE ~swap_for_y
    <2>1. o * p <= o * q
      BY <1>2, <1>7, TimesKeepsOrder
    <2>2. (bins_out + o) * p = bins_out * p + o * p /\ (spent + c) * One = spent * One + c * One
      BY <1>1, <1>2, <1>3
    <2>3. /\ bins_out * p \in Int /\ o * p \in Int /\ spent * One \in Int /\ c * One \in Int /\ o * q \in Int
      BY <1>1, <1>2, <1>3
    <2>4. (bins_out + o) * p <= (spent + c) * One
      BY <1>4, <1>5, <1>7, <2>1, <2>2, <2>3
    <2>. QED
      BY <1>3, <1>7, <2>4 DEF WorseThanActiveBin, p
  <1>. QED
    BY <1>6, <1>7

\* One bin is walked: it is drained, or all is spent, or there is no quote.
LEMMA WalkBinInv == BinInv /\ WalkBin => BinInv'
  <1>. SUFFICES ASSUME BinInv, WalkBin PROVE BinInv'
    OBVIOUS
  <1>. DEFINE x == active_id
              fill == IF MaxOut(active_id) > 0 THEN QuoteAtBin(active_id, amount_left)
                      ELSE [consumed |-> 0, out |-> 0]
              next == IF swap_for_y THEN active_id - 1 ELSE active_id + 1
              left == amount_left - fill.consumed
  <1>1. /\ WalkingBins
        /\ amount_left' = left
        /\ bins_out' = IF fill.consumed > 0 THEN bins_out + fill.out ELSE bins_out
        /\ active_id' = IF left > 0 /\ next \in MinBin .. MaxBin THEN next ELSE active_id
        /\ bin_quote' = CASE left < 0 -> "none"
                          [] left > 0 /\ next \notin MinBin .. MaxBin -> "done"
                          [] OTHER -> "walking"
        /\ pair' = pair /\ swap_for_y' = swap_for_y /\ bin_amount' = bin_amount
    BY DEF WalkBin, bin_args
  <1>2. /\ pair \in Pairs /\ swap_for_y \in BOOLEAN /\ x \in MinBin .. MaxBin /\ x \in Int
        /\ pair.active_id \in Int /\ amount_left \in Nat \ {0} /\ bins_out \in Nat
        /\ bins_out = SumTo(x) /\ MaxOut(x) \in Nat /\ Held(x) \in Nat /\ Held(x) <= MaxOut(x)
        /\ (MaxOut(x) = 0 => Held(x) = 0)
        /\ IF swap_for_y THEN x <= pair.active_id ELSE pair.active_id <= x
    <2>1. /\ pair \in Pairs /\ swap_for_y \in BOOLEAN /\ x \in MinBin .. MaxBin
          /\ amount_left \in Nat \ {0} /\ bins_out \in Nat /\ bins_out = SumTo(x)
          /\ IF swap_for_y THEN x <= pair.active_id ELSE pair.active_id <= x
      BY <1>1 DEF BinInv, WalkingBins
    <2>2. x \in Int /\ pair.active_id \in Int
      BY <2>1, PairFacts, BinAssumption
    <2>3. MaxOut(x) \in Nat /\ Held(x) \in Nat /\ Held(x) <= MaxOut(x) /\ (MaxOut(x) = 0 => Held(x) = 0)
      BY <2>1, LayersAre, HeldIs
    <2>. QED
      BY <2>1, <2>2, <2>3
  <1>3. /\ fill.consumed \in Nat /\ fill.out \in 0 .. MaxOut(x)
        /\ fill.consumed = 0 => fill.out = 0
        /\ left > 0 => fill.out = Held(x)
        /\ PricedAt(BinPrice[x], fill.consumed, fill.out)
    <2>1. CASE MaxOut(x) > 0
      <3>1. fill = QuoteAtBin(x, amount_left)
        BY <2>1
      <3>. HIDE DEF fill
      <3>2. /\ fill.consumed \in Nat \ {0} /\ fill.out \in 0 .. MaxOut(x)
            /\ fill.consumed # amount_left => fill.out = NetOut(x, MaxOut(x))
            /\ PricedAt(BinPrice[x], fill.consumed, fill.out)
        BY <1>2, <2>1, <3>1, QuoteAtBinIs
      <3>3. left > 0 => fill.consumed # amount_left
        BY <1>2, <3>2
      <3>. QED
        BY <3>2, <3>3 DEF Held
    <2>2. CASE ~(MaxOut(x) > 0)
      <3>1. fill = [consumed |-> 0, out |-> 0] /\ MaxOut(x) = 0 /\ Held(x) = 0
        BY <1>2, <2>2
      <3>. HIDE DEF fill
      <3>2. fill.consumed = 0 /\ fill.out = 0
        BY <3>1
      <3>3. BinPrice[x] \in Nat /\ One \in Nat
        BY <1>2, BinAssumption
      <3>4. PricedAt(BinPrice[x], 0, 0)
        BY <3>3 DEF PricedAt
      <3>. QED
        BY <1>2, <3>1, <3>2, <3>4
    <2>. QED
      BY <2>1, <2>2
  <1>. DEFINE c == fill.consumed
              o == fill.out
  <1>4. /\ c \in Nat /\ o \in Nat /\ o <= MaxOut(x) /\ (c = 0 => o = 0) /\ (left > 0 => o = Held(x))
        /\ left = amount_left - c /\ PricedAt(BinPrice[x], c, o)
    BY <1>2, <1>3
  <1>5. bins_out' = bins_out + o /\ amount_left' = amount_left - c
    BY <1>1, <1>2, <1>4
  <1>. HIDE DEF fill, c, o
  <1>6. WorseThanActiveBin'
    <2>. HIDE DEF left
    <2>. QED
      BY <1>1, <1>4, <1>5, PaidByBin
  <1>7. SumTo(next) = SumTo(x) + Held(x)
    BY <1>2, SumToNext
  <1>8. left \in Int /\ next \in Int
    BY <1>2, <1>4
  <1>9. SumTo(active_id)' = SumTo(active_id') /\ MaxOut(active_id)' = MaxOut(active_id')
    BY <1>1, SameSumTo
  <1>. DEFINE on == left > 0 /\ next \in MinBin .. MaxBin
  <1>10. CASE on
    <2>1. active_id' = next
      BY <1>1, <1>10
    <2>2. bins_out' = SumTo(active_id)'
      BY <1>2, <1>4, <1>5, <1>7, <1>9, <1>10, <2>1
    <2>3. MaxOut(active_id)' \in Nat
      BY <1>2, <1>9, <1>10, <2>1, LayersAre
    <2>4. IF swap_for_y THEN next <= pair.active_id ELSE pair.active_id <= next
      BY <1>2
    <2>5. bins_out' \in Nat /\ amount_left' \in Int
      BY <1>2, <1>4, <1>5
    <2>. HIDE DEF next, left
    <2>. QED
      BY <1>1, <1>6, <1>10, <2>1, <2>2, <2>3, <2>4, <2>5 DEF BinInv
  <1>11. CASE ~on
    <2>1. active_id' = x
      BY <1>1, <1>11
    <2>2. SumTo(active_id)' = SumTo(x) /\ MaxOut(active_id)' = MaxOut(x)
      BY <1>9, <2>1
    <2>3. bins_out' \in Nat /\ amount_left' \in Int /\ SumTo(x) <= bins_out' /\ bins_out' <= SumTo(x) + MaxOut(x)
      BY <1>2, <1>4, <1>5
    <2>4. ~(bin_quote' \in {"idle", "walking"} /\ amount_left' > 0)
      <3>1. left > 0 => next \notin MinBin .. MaxBin
        BY <1>11
      <3>. HIDE DEF next, left
      <3>2. left > 0 => bin_quote' = "done"
        BY <1>1, <1>8, <3>1
      <3>. QED
        BY <1>1, <3>2
    <2>. QED
      BY <1>1, <1>2, <1>6, <2>1, <2>2, <2>3, <2>4 DEF BinInv
  <1>. QED
    BY <1>10, <1>11

\* Every step of the walk over bins keeps it.
LEMMA BinInvStep == BinInv /\ [BinNext]_bin_vars => BinInv'
  <1>. SUFFICES ASSUME BinInv, [BinNext]_bin_vars PROVE BinInv'
    OBVIOUS
  <1>1. CASE BinStart
    BY <1>1, SameBins DEF BinStart
  <1>2. CASE EnterArray
    BY <1>2, EnterArrayInv
  <1>3. CASE WalkBin
    BY <1>3, WalkBinInv
  <1>4. CASE BinStop
    BY <1>4, SameBins DEF BinStop
  <1>5. CASE UNCHANGED bin_vars
    BY <1>5, SameBins DEF bin_vars, bin_args
  <1>. QED
    BY <1>1, <1>2, <1>3, <1>4, <1>5 DEF BinNext

\* quote_exact_in and quote_at_bin: the bins a walk has passed are drained,
\* each once, and of the last it gives no more than there is, for every pair,
\* bitmap, fee and amount.
THEOREM BinsDrained == BinSpec => []BinsAreDrained
  <1>1. BinInv => BinsAreDrained
    <2>1. SumTo(active_id) = SumFunction([b \in Passed |-> NetOut(b, MaxOut(b))])
      BY DEF SumTo, Passed, PassedTo, Held
    <2>. QED
      BY <2>1 DEF BinInv, BinsAreDrained
  <1>. QED
    BY <1>1, BinInvInit, BinInvStep, PTL DEF BinSpec

-----------------------------------------------------------------------------
(* Constant products: what a trader is up has left the sides. *)

\* Into one side of a product and out of the other: the product of the sides
\* does not shrink, and what was there on both sides is not used up.
LEMMA ProductSwap ==
    ASSUME NEW x \in Nat, NEW y \in Nat, NEW n \in Nat, x + n > 0
    PROVE  LET out == (n * y) \div (x + n)
           IN  /\ out \in Nat /\ out <= y /\ out * (x + n) <= n * y
               /\ x * y <= (x + n) * (y - out) /\ (x > 0 /\ y > 0 => out < y)
  <1>. DEFINE out == (n * y) \div (x + n)
              z == x + n
  <1>1. n * y \in Nat /\ z \in Nat \ {0} /\ x * y \in Nat
    OBVIOUS
  <1>2. out \in Nat /\ out * z <= n * y
    BY <1>1, FloorIs
  <1>3. y * z = x * y + n * y
    OBVIOUS
  <1>. HIDE DEF out, z
  <1>4. out <= y
    <2>1. out * z <= y * z
      BY <1>1, <1>2, <1>3
    <2>. QED
      BY <1>1, <1>2, <2>1, CancelFactor
  <1>5. z * (y - out) = y * z - out * z /\ out * z \in Nat /\ y * z \in Nat
    BY <1>1, <1>2
  <1>6. x * y <= z * (y - out)
    BY <1>1, <1>2, <1>3, <1>5
  <1>7. ASSUME x > 0, y > 0 PROVE out < y
    <2>1. SUFFICES ASSUME out = y PROVE FALSE
      BY <1>2, <1>4
    <2>2. x * y <= 0
      BY <1>1, <1>2, <1>3, <2>1
    <2>. QED
      BY <1>7, <2>2
  <1>. QED
    BY <1>2, <1>4, <1>6, <1>7 DEF out, z

\* A product that has not shrunk, of sides that have not grown
LEMMA NothingGained ==
    ASSUME NEW q0 \in Nat, NEW b0 \in Nat, NEW q1 \in Nat, NEW b1 \in Nat,
           q0 * b0 <= q1 * b1, q0 * b0 # 0, q1 <= q0, b1 <= b0
    PROVE  q1 = q0 /\ b1 = b0
  <1>1. q0 > 0 /\ b0 > 0
    OBVIOUS
  <1>2. ASSUME q1 < q0 PROVE FALSE
    <2>1. q1 * b1 <= (q0 - 1) * b0
      BY <1>2, ProductGrows
    <2>2. (q0 - 1) * b0 = q0 * b0 - b0 /\ q0 * b0 \in Nat /\ q1 * b1 \in Nat
      OBVIOUS
    <2>. QED
      BY <1>1, <2>1, <2>2
  <1>3. ASSUME b1 < b0 PROVE FALSE
    <2>1. q1 * b1 <= q0 * (b0 - 1)
      BY <1>3, ProductGrows
    <2>2. q0 * (b0 - 1) = q0 * b0 - q0 /\ q0 * b0 \in Nat /\ q1 * b1 \in Nat
      OBVIOUS
    <2>. QED
      BY <1>1, <2>1, <2>2
  <1>. QED
    BY <1>2, <1>3

\* Of the sides of a product, and what the trader is up: the product has not
\* shrunk, and the trader has no more than the sides have lost.
Paid(q0, b0, q1, b1, q, b) ==
    /\ q1 \in Nat /\ b1 \in Nat /\ q \in Int /\ b \in Int
    /\ q0 * b0 <= q1 * b1 /\ q <= q0 - q1 /\ b <= b0 - b1

\* A trade that keeps the product
LEMMA PaidStill ==
    ASSUME NEW q0 \in Nat, NEW b0 \in Nat, NEW q1, NEW b1, NEW q, NEW b, Paid(q0, b0, q1, b1, q, b),
           NEW q2 \in Nat, NEW b2 \in Nat, q1 * b1 <= q2 * b2, NEW amount \in Nat, NEW out \in Nat
    PROVE  /\ q2 <= q1 + amount /\ b2 <= b1 - out => Paid(q0, b0, q2, b2, q - amount, b + out)
           /\ b2 <= b1 + amount /\ q2 <= q1 - out => Paid(q0, b0, q2, b2, q + out, b - amount)
  <1>1. q1 \in Nat /\ b1 \in Nat /\ q \in Int /\ b \in Int /\ q <= q0 - q1 /\ b <= b0 - b1
    BY DEF Paid
  <1>2. q0 * b0 <= q1 * b1
    BY DEF Paid
  <1>3. q0 * b0 \in Nat /\ q1 * b1 \in Nat /\ q2 * b2 \in Nat
    BY <1>1
  <1>4. q0 * b0 <= q2 * b2
    BY <1>2, <1>3
  <1>. QED
    BY <1>1, <1>4 DEF Paid

\* and that gains nothing on one side without losing on the other.
LEMMA PaidNoGain ==
    ASSUME NEW q0 \in Nat, NEW b0 \in Nat, NEW q1, NEW b1, NEW q, NEW b, Paid(q0, b0, q1, b1, q, b),
           q0 * b0 # 0, q >= 0, b >= 0
    PROVE  q = 0 /\ b = 0
  <1>1. q1 \in Nat /\ b1 \in Nat /\ q \in Int /\ b \in Int /\ q <= q0 - q1 /\ b <= b0 - b1
    BY DEF Paid
  <1>2. q0 * b0 <= q1 * b1 /\ q1 <= q0 /\ b1 <= b0
    BY <1>1 DEF Paid
  <1>3. q1 = q0 /\ b1 = b0
    BY <1>1, <1>2, NothingGained
  <1>. QED
    BY <1>1, <1>3

\* From the sides x and y to x2 and y2: the product has not shrunk, and each
\* side has no more than the trade left it.
Swapped(x, y, x2, y2, amount, out) ==
    /\ x \in Nat /\ y \in Nat /\ x2 \in Nat /\ y2 \in Nat /\ out \in Nat
    /\ x * y # 0 /\ x * y <= x2 * y2 /\ x2 <= x + amount /\ y2 <= y - out

\* Net of a fee there is no more.
LEMMA NetOfFee ==
    ASSUME NEW amount \in Nat, NEW bps \in Nat, bps <= 10000,
           NEW net, net = (amount * (10000 - bps)) \div 10000
    PROVE  net \in Nat /\ net <= amount
  <1>. DEFINE y == amount * (10000 - bps)
  <1>1. 10000 - bps \in Nat /\ 10000 - bps <= 10000
    OBVIOUS
  <1>2. y \in Nat /\ y <= amount * 10000
    BY <1>1, ProductGrows
  <1>3. net = y \div 10000
    OBVIOUS
  <1>. HIDE DEF y
  <1>. QED
    BY <1>2, <1>3

\* constant_product_swap
LEMMA PoolSwap ==
    \A x, y, amount, bps :
        x \in Nat /\ y \in Nat /\ amount \in Nat /\ bps \in Nat /\ bps <= 10000 =>
            LET out == ConstantProductSwap(x, y, amount, bps)
            IN  /\ out \in Nat /\ out <= y
                /\ out > 0 => Swapped(x, y, x + amount, y - out, amount, out)
  <1>. SUFFICES ASSUME NEW x \in Nat, NEW y \in Nat, NEW amount \in Nat, NEW bps \in Nat, bps <= 10000,
                       NEW out, out = ConstantProductSwap(x, y, amount, bps)
                PROVE  /\ out \in Nat /\ out <= y
                       /\ out > 0 => Swapped(x, y, x + amount, y - out, amount, out)
    OBVIOUS
  <1>. DEFINE net == (amount * (10000 - bps)) \div 10000
  <1>1. net \in Nat /\ net <= amount
    BY NetOfFee
  <1>2. out = IF x = 0 \/ y = 0 THEN 0 ELSE (net * y) \div (x + net)
    BY SMT DEF ConstantProductSwap
  <1>. HIDE DEF net
  <1>3. CASE x = 0 \/ y = 0
    BY <1>2, <1>3
  <1>4. CASE ~(x = 0 \/ y = 0)
    <2>1. x > 0 /\ y > 0 /\ out = (net * y) \div (x + net)
      BY <1>2, <1>4
    <2>2. out \in Nat /\ out <= y /\ x * y <= (x + net) * (y - out)
      BY <1>1, <2>1, ProductSwap
    <2>3. x * y # 0
      BY <2>1
    <2>4. (x + net) * (y - out) <= (x + amount) * (y - out)
      BY <1>1, <2>2, ProductGrows
    <2>5. x * y \in Int /\ (x + net) * (y - out) \in Int /\ (x + amount) * (y - out) \in Int
      BY <1>1, <2>2
    <2>. QED
      BY <2>2, <2>3, <2>4, <2>5 DEF Swapped
  <1>. QED
    BY <1>3, <1>4

\* Raydium AMM V4: either direction swaps one side for the other.
LEMMA PoolTrades ==
    ASSUME NEW m, PoolMarket(m), NEW amount \in Nat
    PROVE  /\ LET q == PoolQuote(m, TRUE, amount)
              IN  q.out > 0 =>
                    /\ Swapped(m.quote, m.base, q.market.quote, q.market.base, amount, q.out)
                    /\ PoolMarket(q.market)
           /\ LET q == PoolQuote(m, FALSE, amount)
              IN  q.out > 0 =>
                    /\ Swapped(m.base, m.quote, q.market.base, q.market.quote, amount, q.out)
                    /\ PoolMarket(q.market)
  <1>1. /\ m.quote \in Nat /\ m.base \in Nat /\ m.fee_bps \in Nat /\ m.fee_bps <= 10000
        /\ {"quote", "base", "fee_bps"} \subseteq DOMAIN m
    BY DEF PoolMarket
  <1>2. ASSUME NEW q, q = PoolQuote(m, TRUE, amount), q.out > 0
        PROVE  /\ Swapped(m.quote, m.base, q.market.quote, q.market.base, amount, q.out)
               /\ PoolMarket(q.market)
    <2>. DEFINE out == ConstantProductSwap(m.quote, m.base, amount, m.fee_bps)
    <2>1. /\ q.out = out
          /\ q.market = [m EXCEPT !.quote = @ + amount, !.base = @ - out]
      BY <1>2 DEF PoolQuote, Quoted, AmmV4Output
    <2>2. /\ out \in Nat /\ out <= m.base
          /\ out > 0 => Swapped(m.quote, m.base, m.quote + amount, m.base - out, amount, out)
      BY <1>1, PoolSwap
    <2>. HIDE DEF out
    <2>3. /\ q.market.quote = m.quote + amount /\ q.market.base = m.base - out
          /\ q.market.fee_bps = m.fee_bps /\ DOMAIN q.market = DOMAIN m
      BY <1>1, <2>1
    <2>4. out > 0
      BY <1>2, <2>1
    <2>5. q.market.quote \in Nat /\ q.market.base \in Nat
      BY <1>1, <2>2, <2>3
    <2>6. PoolMarket(q.market)
      BY <1>1, <2>3, <2>5 DEF PoolMarket
    <2>. QED
      BY <2>1, <2>2, <2>3, <2>4, <2>6, Zenon
  <1>3. ASSUME NEW q, q = PoolQuote(m, FALSE, amount), q.out > 0
        PROVE  /\ Swapped(m.base, m.quote, q.market.base, q.market.quote, amount, q.out)
               /\ PoolMarket(q.market)
    <2>. DEFINE out == ConstantProductSwap(m.base, m.quote, amount, m.fee_bps)
    <2>1. /\ q.out = out
          /\ q.market = [m EXCEPT !.base = @ + amount, !.quote = @ - out]
      BY <1>3 DEF PoolQuote, Quoted, AmmV4Output
    <2>2. /\ out \in Nat /\ out <= m.quote
          /\ out > 0 => Swapped(m.base, m.quote, m.base + amount, m.quote - out, amount, out)
      BY <1>1, PoolSwap
    <2>. HIDE DEF out
    <2>3. /\ q.market.base = m.base + amount /\ q.market.quote = m.quote - out
          /\ q.market.fee_bps = m.fee_bps /\ DOMAIN q.market = DOMAIN m
      BY <1>1, <2>1
    <2>4. out > 0
      BY <1>3, <2>1
    <2>5. q.market.quote \in Nat /\ q.market.base \in Nat
      BY <1>1, <2>2, <2>3
    <2>6. PoolMarket(q.market)
      BY <1>1, <2>3, <2>5 DEF PoolMarket
    <2>. QED
      BY <2>1, <2>2, <2>3, <2>4, <2>6, Zenon
  <1>. QED
    BY <1>2, <1>3

\* DAMM V1 without vault accounts: what is paid is held, and without the
\* stable curve one side is swapped for the other.
LEMMA OfflineTrades ==
    ASSUME NEW m, OfflineMarket(m), NEW amount \in Nat, NEW buy,
           NEW q, q = DammOffline(m, buy, amount), q.out > 0
    PROVE  /\ OfflineMarket(q.market) /\ q.market.flipped = m.flipped /\ q.out \in Nat
           /\ q.market.amp = m.amp
           /\ m.amp = 0 =>
                 IF buy = m.flipped
                 THEN Swapped(m.a, m.b, q.market.a, q.market.b, amount, q.out)
                 ELSE Swapped(m.b, m.a, q.market.b, q.market.a, amount, q.out)
  <1>0. m.a \in Nat /\ m.b \in Nat
    BY DEF OfflineMarket
  <1>1. /\ {"a", "b", "fee_bps", "amp", "flipped"} \subseteq DOMAIN m /\ m.a \in Nat /\ m.b \in Nat
        /\ m.fee_bps \in Nat /\ m.fee_bps <= 10000 /\ m.amp \in Nat /\ m.flipped \in BOOLEAN
    BY DEF OfflineMarket
  <1>. DEFINE Gives(x, y, out) ==
                LET product == ConstantProductSwap(x, y, amount, m.fee_bps)
                IN  out = IF m.amp = 0 THEN product
                          ELSE Min({(product * (10000 + Min({m.amp, 1000}))) \div 10000, y})
  <1>2. ASSUME NEW x, NEW y, x \in Nat, y \in Nat, NEW out, Gives(x, y, out)
        PROVE  /\ out \in Nat /\ out <= y
               /\ m.amp = 0 /\ out > 0 => Swapped(x, y, x + amount, y - out, amount, out)
    <2>. DEFINE product == ConstantProductSwap(x, y, amount, m.fee_bps)
                raised == (product * (10000 + Min({m.amp, 1000}))) \div 10000
    <2>1. out = IF m.amp = 0 THEN product ELSE Min({raised, y})
      BY <1>2
    <2>2. /\ product \in Nat /\ product <= y
          /\ product > 0 => Swapped(x, y, x + amount, y - product, amount, product)
      BY <1>1, <1>2, PoolSwap
    <2>3. raised \in Nat
      <3>1. Min({m.amp, 1000}) \in Nat
        BY <1>1, MinOfTwo
      <3>. DEFINE k == 10000 + Min({m.amp, 1000})
      <3>2. k \in Nat
        BY <3>1
      <3>. HIDE DEF k, product
      <3>3. product * k \in Nat
        BY <2>2, <3>2
      <3>4. (product * k) \div 10000 \in Nat
        BY <3>3
      <3>. QED
        BY <3>4 DEF k
    <2>. HIDE DEF product, raised
    <2>4. CASE m.amp = 0
      <3>1. out = product
        BY <2>1, <2>4
      <3>. QED
        BY <2>2, <3>1
    <2>5. CASE m.amp # 0
      <3>1. out = IF raised <= y THEN raised ELSE y
        BY <1>2, <2>1, <2>3, <2>5, MinOfTwo
      <3>. QED
        BY <1>2, <2>3, <2>5, <3>1
    <2>. QED
      BY <2>4, <2>5
  <1>3. CASE buy = m.flipped
    <2>1. /\ q.market = [m EXCEPT !.a = @ + amount, !.b = @ - q.out]
          /\ Gives(m.a, m.b, q.out)
      BY <1>3 DEF DammOffline, Quoted
    <2>2. /\ q.out \in Nat /\ q.out <= m.b
          /\ m.amp = 0 /\ q.out > 0 => Swapped(m.a, m.b, m.a + amount, m.b - q.out, amount, q.out)
      <3>. HIDE DEF Gives
      <3>. QED
        BY <1>0, <1>2, <2>1, Zenon
    <2>3. /\ q.market.a = m.a + amount /\ q.market.b = m.b - q.out /\ q.market.fee_bps = m.fee_bps
          /\ q.market.amp = m.amp /\ q.market.flipped = m.flipped /\ DOMAIN q.market = DOMAIN m
      BY <1>1, <2>1
    <2>4. q.market.a \in Nat /\ q.market.b \in Nat
      BY <1>1, <2>2, <2>3
    <2>5. OfflineMarket(q.market)
      BY <1>1, <2>3, <2>4 DEF OfflineMarket
    <2>. QED
      BY <1>3, <2>2, <2>3, <2>5
  <1>4. CASE buy # m.flipped
    <2>1. /\ q.market = [m EXCEPT !.b = @ + amount, !.a = @ - q.out]
          /\ Gives(m.b, m.a, q.out)
      BY <1>4 DEF DammOffline, Quoted
    <2>2. /\ q.out \in Nat /\ q.out <= m.a
          /\ m.amp = 0 /\ q.out > 0 => Swapped(m.b, m.a, m.b + amount, m.a - q.out, amount, q.out)
      <3>. HIDE DEF Gives
      <3>. QED
        BY <1>0, <1>2, <2>1, Zenon
    <2>3. /\ q.market.b = m.b + amount /\ q.market.a = m.a - q.out /\ q.market.fee_bps = m.fee_bps
          /\ q.market.amp = m.amp /\ q.market.flipped = m.flipped /\ DOMAIN q.market = DOMAIN m
      BY <1>1, <2>1
    <2>4. q.market.a \in Nat /\ q.market.b \in Nat
      BY <1>1, <2>2, <2>3
    <2>5. OfflineMarket(q.market)
      BY <1>1, <2>3, <2>4 DEF OfflineMarket
    <2>. QED
      BY <1>4, <2>2, <2>3, <2>5
  <1>. QED
    BY <1>3, <1>4

-----------------------------------------------------------------------------
(* Bonding curves: the coins outside could all be sold back. *)

\* What of the quote side s was there before any trade is S, never more than
\* there is: were the coins outside all sold, s would fall to no less.
Backed(S, s, t, outside) ==
    /\ S \in Nat /\ s \in Nat \ {0} /\ t \in Nat /\ outside \in Nat
    /\ S <= s /\ S * (t + outside) <= s * t

\* Buying from a backed curve
LEMMA BackedBuy ==
    \A S, s, t, outside, in, amount, out :
        /\ Backed(S, s, t, outside) /\ t # 0 /\ in \in Nat /\ amount \in Nat /\ in <= amount
        /\ out \in Nat /\ out <= (in * t) \div (s + in)
        => /\ Backed(S, s + in, t - out, outside + out)
           /\ Swapped(s, t, s + in, t - out, amount, out)
  <1>. SUFFICES ASSUME NEW S, NEW s, NEW t, NEW outside, Backed(S, s, t, outside), t # 0,
                       NEW in \in Nat, NEW amount \in Nat, in <= amount,
                       NEW out \in Nat, out <= (in * t) \div (s + in)
                PROVE  /\ Backed(S, s + in, t - out, outside + out)
                       /\ Swapped(s, t, s + in, t - out, amount, out)
    OBVIOUS
  <1>0. /\ S \in Nat /\ s \in Nat \ {0} /\ t \in Nat /\ outside \in Nat
        /\ S <= s /\ S * (t + outside) <= s * t
    BY DEF Backed
  <1>. DEFINE most == (in * t) \div (s + in)
  <1>1. most \in Nat /\ most <= t /\ s * t <= (s + in) * (t - most)
    BY <1>0, ProductSwap
  <1>2. out <= most
    OBVIOUS
  <1>. HIDE DEF most
  <1>3. (s + in) * (t - most) <= (s + in) * (t - out)
    BY <1>0, <1>1, <1>2, ProductGrows
  <1>4. /\ s * t \in Nat /\ (s + in) * (t - most) \in Int /\ (s + in) * (t - out) \in Int
        /\ S * (t + outside) \in Int /\ s * t # 0
    BY <1>0, <1>1, <1>2
  <1>5. s * t <= (s + in) * (t - out)
    BY <1>0, <1>1, <1>3, <1>4
  <1>6. S * (t + outside) <= (s + in) * (t - out)
    BY <1>0, <1>4, <1>5
  <1>7. (t - out) + (outside + out) = t + outside
    BY <1>0
  <1>8. S * ((t - out) + (outside + out)) <= (s + in) * (t - out)
    BY <1>0, <1>6, <1>7
  <1>9. s + in \in Nat \ {0} /\ t - out \in Nat /\ outside + out \in Nat /\ S <= s + in /\ s + in <= s + amount
    BY <1>0, <1>1, <1>2
  <1>10. Backed(S, s + in, t - out, outside + out)
    BY <1>0, <1>8, <1>9 DEF Backed
  <1>11. Swapped(s, t, s + in, t - out, amount, out)
    BY <1>0, <1>4, <1>5, <1>9 DEF Swapped
  <1>. QED
    BY <1>0, <1>10, <1>11

\* Selling what is outside of one
LEMMA BackedSell ==
    \A S, s, t, outside, amount, cost, out :
        /\ Backed(S, s, t, outside) /\ t # 0 /\ amount \in Nat /\ amount <= outside
        /\ cost = (amount * s) \div (t + amount) /\ out \in Nat /\ out <= cost
        => /\ Backed(S, s - cost, t + amount, outside - amount)
           /\ Swapped(t, s, t + amount, s - cost, amount, out)
  <1>. SUFFICES ASSUME NEW S, NEW s, NEW t, NEW outside, Backed(S, s, t, outside), t # 0,
                       NEW amount \in Nat, amount <= outside,
                       NEW cost, cost = (amount * s) \div (t + amount), NEW out \in Nat, out <= cost
                PROVE  /\ Backed(S, s - cost, t + amount, outside - amount)
                       /\ Swapped(t, s, t + amount, s - cost, amount, out)
    OBVIOUS
  <1>0. /\ S \in Nat /\ s \in Nat \ {0} /\ t \in Nat /\ outside \in Nat
        /\ S <= s /\ S * (t + outside) <= s * t
    BY DEF Backed
  <1>1. cost \in Nat /\ cost < s /\ t * s <= (t + amount) * (s - cost)
    BY <1>0, ProductSwap
  <1>2. s * t = t * s /\ (t + amount) * (s - cost) = (s - cost) * (t + amount)
    BY <1>0, <1>1
  <1>3. S * (t + amount) <= S * (t + outside)
    BY <1>0, ProductGrows
  <1>4. /\ t * s \in Nat /\ (s - cost) * (t + amount) \in Nat /\ t * s # 0
        /\ S * (t + outside) \in Nat /\ S * (t + amount) \in Nat
    BY <1>0, <1>1
  <1>5. S * (t + outside) <= (s - cost) * (t + amount)
    BY <1>0, <1>1, <1>2, <1>4
  <1>6. S <= s - cost
    <2>1. S * (t + amount) <= (s - cost) * (t + amount)
      BY <1>0, <1>3, <1>4, <1>5
    <2>2. s - cost \in Nat /\ t + amount \in Nat \ {0}
      BY <1>0, <1>1
    <2>. QED
      BY <1>0, <2>1, <2>2, CancelFactor
  <1>7. (t + amount) + (outside - amount) = t + outside
    BY <1>0
  <1>8. S * ((t + amount) + (outside - amount)) <= (s - cost) * (t + amount)
    BY <1>0, <1>5, <1>7
  <1>9. s - cost \in Nat \ {0} /\ t + amount \in Nat /\ outside - amount \in Nat /\ s - cost <= s - out
    BY <1>0, <1>1
  <1>10. Backed(S, s - cost, t + amount, outside - amount)
    BY <1>0, <1>6, <1>8, <1>9 DEF Backed
  <1>11. Swapped(t, s, t + amount, s - cost, amount, out)
    BY <1>0, <1>1, <1>4, <1>9 DEF Swapped
  <1>. QED
    BY <1>0, <1>10, <1>11

\* A bonding curve and the coins outside of it
LEMMA CurveBacked ==
    ASSUME NEW m, NEW outside \in Nat, BondingCurveMarket(m, outside)
    PROVE  /\ {"virtual_sol", "real_sol", "virtual_token", "real_token", "complete"} \subseteq DOMAIN m
           /\ m.virtual_sol \in Nat /\ m.virtual_token \in Nat /\ m.real_token \in Nat
           /\ m.real_sol \in Nat /\ m.complete \in BOOLEAN
           /\ Backed(m.virtual_sol - m.real_sol, m.virtual_sol, m.virtual_token, outside)
  <1>1. /\ {"virtual_sol", "real_sol", "virtual_token", "real_token", "complete"} \subseteq DOMAIN m
        /\ m.virtual_sol \in Nat \ {0} /\ m.virtual_token \in Nat /\ m.real_token \in Nat
        /\ m.real_sol \in Nat /\ m.real_sol <= m.virtual_sol /\ m.complete \in BOOLEAN
        /\ (m.virtual_sol - m.real_sol) * (m.virtual_token + outside) <= m.virtual_sol * m.virtual_token
    BY DEF BondingCurveMarket
  <1>2. m.virtual_sol - m.real_sol \in Nat /\ m.virtual_sol - m.real_sol <= m.virtual_sol
    BY <1>1
  <1>. QED
    BY <1>1, <1>2 DEF Backed

\* The reserves, virtual and real, move together,
Moved(m, sol, token) ==
    [m EXCEPT !.virtual_sol = @ + sol, !.real_sol = @ + sol,
              !.virtual_token = @ + token, !.real_token = @ + token]

\* which keeps what is virtual of them.
LEMMA CurveStillBacked ==
    ASSUME NEW m, NEW outside \in Nat, BondingCurveMarket(m, outside), NEW sol \in Int, NEW token \in Int,
           m.real_token + token \in Nat, NEW left,
           Backed(m.virtual_sol - m.real_sol, m.virtual_sol + sol, m.virtual_token + token, left)
    PROVE  /\ BondingCurveMarket(Moved(m, sol, token), left)
           /\ Moved(m, sol, token).virtual_sol = m.virtual_sol + sol
           /\ Moved(m, sol, token).virtual_token = m.virtual_token + token
  <1>. DEFINE n == Moved(m, sol, token)
  <1>1. /\ {"virtual_sol", "real_sol", "virtual_token", "real_token", "complete"} \subseteq DOMAIN m
        /\ m.virtual_sol \in Nat /\ m.virtual_token \in Nat /\ m.real_token \in Nat
        /\ m.real_sol \in Nat /\ m.complete \in BOOLEAN
    BY CurveBacked
  <1>2. /\ n.virtual_sol = m.virtual_sol + sol /\ n.virtual_token = m.virtual_token + token
        /\ n.real_sol = m.real_sol + sol /\ n.real_token = m.real_token + token
        /\ n.complete = m.complete /\ DOMAIN n = DOMAIN m
    BY <1>1 DEF Moved
  <1>. HIDE DEF n
  <1>. DEFINE S == m.virtual_sol - m.real_sol
  <1>3. /\ m.virtual_sol + sol \in Nat \ {0} /\ m.virtual_token + token \in Nat
        /\ S <= m.virtual_sol + sol
        /\ S * (m.virtual_token + token + left) <= (m.virtual_sol + sol) * (m.virtual_token + token)
    BY DEF Backed
  <1>4. n.virtual_sol - n.real_sol = S /\ S \in Nat
    <2>1. S \in Nat
      BY DEF Backed
    <2>2. n.virtual_sol - n.real_sol = S
      BY <1>1, <1>2
    <2>. QED
      BY <2>1, <2>2
  <1>5. n.real_sol \in Nat /\ n.real_sol <= n.virtual_sol
    BY <1>1, <1>2, <1>3, <1>4
  <1>. HIDE DEF S
  <1>6. (n.virtual_sol - n.real_sol) * (n.virtual_token + left) <= n.virtual_sol * n.virtual_token
    BY <1>2, <1>3, <1>4
  <1>7. BondingCurveMarket(n, left)
    BY <1>1, <1>2, <1>3, <1>5, <1>6 DEF BondingCurveMarket
  <1>. QED
    BY <1>2, <1>7 DEF n

\* A bonding curve of pump.fun: a buy, and a sale of what is outside
LEMMA BondingCurveTrades ==
    ASSUME NEW m, NEW outside \in Nat, BondingCurveMarket(m, outside), NEW amount \in Nat
    PROVE  /\ LET q == BondingCurveQuote(m, TRUE, amount)
              IN  q.out > 0 =>
                    /\ Swapped(m.virtual_sol, m.virtual_token,
                               q.market.virtual_sol, q.market.virtual_token, amount, q.out)
                    /\ BondingCurveMarket(q.market, outside + q.out)
           /\ LET q == BondingCurveQuote(m, FALSE, amount)
              IN  q.out > 0 /\ amount <= outside =>
                    /\ Swapped(m.virtual_token, m.virtual_sol,
                               q.market.virtual_token, q.market.virtual_sol, amount, q.out)
                    /\ BondingCurveMarket(q.market, outside - amount)
  <1>. DEFINE S == m.virtual_sol - m.real_sol
              fee == BcFee(m)
  <1>1. /\ m.virtual_sol \in Nat /\ m.virtual_token \in Nat /\ m.real_token \in Nat
        /\ Backed(S, m.virtual_sol, m.virtual_token, outside)
    BY CurveBacked
  <1>2. fee \in Nat /\ fee <= 10000
    BY DEF BcFee
  <1>. HIDE DEF fee
  <1>3. ASSUME NEW q, q = BondingCurveQuote(m, TRUE, amount), q.out > 0
        PROVE  /\ Swapped(m.virtual_sol, m.virtual_token,
                          q.market.virtual_sol, q.market.virtual_token, amount, q.out)
               /\ BondingCurveMarket(q.market, outside + q.out)
    <2>. DEFINE input == (amount * 10000) \div (fee + 10000)
                most == (input * m.virtual_token) \div (m.virtual_sol + input)
                out == Min({most, m.real_token})
    <2>1. m.virtual_token # 0
      BY <1>3 DEF BondingCurveQuote, NoQuote
    <2>2. /\ q.out = out
          /\ q.market = Moved(m, input, -out)
      BY <1>3 DEF Moved, BondingCurveQuote, NoQuote, Quoted, fee
    <2>3. input \in Nat /\ input <= amount
      <3>1. \A d \in Nat : (amount * 10000) \div (d + 10000) \in Nat
                             /\ (amount * 10000) \div (d + 10000) <= amount
        <4>. SUFFICES ASSUME NEW d \in Nat
                      PROVE  (amount * 10000) \div (d + 10000) \in Nat
                             /\ (amount * 10000) \div (d + 10000) <= amount
          OBVIOUS
        <4>. DEFINE e == d + 10000
                    x == amount * 10000
        <4>1. e \in Nat \ {0} /\ x \in Nat /\ x <= amount * e
          <5>1. amount * 10000 <= amount * (d + 10000)
            BY ProductGrows
          <5>. QED
            BY <5>1
        <4>. HIDE DEF e, x
        <4>2. x \div e \in Nat /\ (x \div e) * e <= x
          BY <4>1, FloorIs
        <4>3. (x \div e) * e <= amount * e
          BY <4>1, <4>2
        <4>4. x \div e <= amount
          BY <4>1, <4>2, <4>3, CancelFactor
        <4>. QED
          BY <4>2, <4>4 DEF e, x
      <3>. QED
        BY <1>2, <3>1
    <2>. HIDE DEF input
    <2>4. most \in Nat
      <3>1. m.virtual_sol + input \in Nat \ {0} /\ input * m.virtual_token \in Nat
        BY <1>1, <2>3 DEF Backed
      <3>. QED
        BY <3>1, FloorIs
    <2>. HIDE DEF most
    <2>5. out = IF most <= m.real_token THEN most ELSE m.real_token
      BY <1>1, <2>4, MinOfTwo
    <2>. HIDE DEF out
    <2>6. out \in Nat /\ out <= most /\ out <= m.real_token
      BY <1>1, <2>4, <2>5
    <2>7. /\ Backed(S, m.virtual_sol + input, m.virtual_token - out, outside + out)
          /\ Swapped(m.virtual_sol, m.virtual_token, m.virtual_sol + input, m.virtual_token - out, amount, out)
      BY <1>1, <2>1, <2>3, <2>6, BackedBuy DEF most
    <2>8. -out \in Int /\ input \in Int /\ m.real_token + (-out) \in Nat
      BY <1>1, <2>3, <2>6
    <2>9. m.virtual_token + (-out) = m.virtual_token - out
      BY <1>1, <2>6
    <2>10. Backed(S, m.virtual_sol + input, m.virtual_token + (-out), outside + out)
      BY <2>7, <2>9
    <2>11. /\ BondingCurveMarket(Moved(m, input, -out), outside + out)
           /\ Moved(m, input, -out).virtual_sol = m.virtual_sol + input
           /\ Moved(m, input, -out).virtual_token = m.virtual_token + (-out)
      BY <2>8, <2>10, CurveStillBacked, Zenon
    <2>. QED
      BY <2>2, <2>7, <2>9, <2>11
  <1>4. ASSUME NEW q, q = BondingCurveQuote(m, FALSE, amount), q.out > 0, amount <= outside
        PROVE  /\ Swapped(m.virtual_token, m.virtual_sol,
                          q.market.virtual_token, q.market.virtual_sol, amount, q.out)
               /\ BondingCurveMarket(q.market, outside - amount)
    <2>. DEFINE cost == (amount * m.virtual_sol) \div (m.virtual_token + amount)
                kept == CeilDiv(cost * fee, 10000)
    <2>1. m.virtual_token # 0
      BY <1>4 DEF BondingCurveQuote, NoQuote
    <2>2. /\ q.out = cost - kept
          /\ q.market = Moved(m, -cost, amount)
      BY <1>4 DEF Moved, BondingCurveQuote, NoQuote, Quoted, fee
    <2>3. cost \in Nat
      <3>1. m.virtual_token + amount \in Nat \ {0} /\ amount * m.virtual_sol \in Nat
        BY <1>1, <2>1
      <3>. QED
        BY <3>1, FloorIs
    <2>4. cost = (amount * m.virtual_sol) \div (m.virtual_token + amount)
      OBVIOUS
    <2>. HIDE DEF cost
    <2>5. kept \in Nat
      <3>1. cost * fee \in Nat
        BY <1>2, <2>3
      <3>. QED
        BY <3>1, CeilIs
    <2>. HIDE DEF kept
    <2>6. q.out \in Nat /\ q.out <= cost
      <3>1. cost - kept \in Int /\ cost - kept <= cost
        BY <2>3, <2>5
      <3>2. cost - kept > 0
        BY <1>4, <2>2
      <3>. QED
        BY <2>2, <3>1, <3>2
    <2>7. /\ Backed(S, m.virtual_sol - cost, m.virtual_token + amount, outside - amount)
          /\ Swapped(m.virtual_token, m.virtual_sol, m.virtual_token + amount, m.virtual_sol - cost, amount, q.out)
      BY <1>1, <1>4, <2>1, <2>4, <2>6, BackedSell
    <2>8. -cost \in Int /\ amount \in Int /\ m.real_token + amount \in Nat
      BY <1>1, <2>3
    <2>9. m.virtual_sol + (-cost) = m.virtual_sol - cost
      BY <1>1, <2>3
    <2>10. Backed(S, m.virtual_sol + (-cost), m.virtual_token + amount, outside - amount)
      BY <2>7, <2>9
    <2>11. /\ BondingCurveMarket(Moved(m, -cost, amount), outside - amount)
           /\ Moved(m, -cost, amount).virtual_sol = m.virtual_sol + (-cost)
           /\ Moved(m, -cost, amount).virtual_token = m.virtual_token + amount
      BY <2>8, <2>10, CurveStillBacked, Zenon
    <2>. QED
      BY <2>2, <2>7, <2>9, <2>11
  <1>. QED
    BY <1>3, <1>4

\* A launch and the coins outside of it
LEMMA LaunchBacked ==
    ASSUME NEW m, NEW outside \in Nat, BonkMarket(m, outside)
    PROVE  /\ {"virtual_quote", "real_quote", "virtual_base", "real_base", "migrated"} \subseteq DOMAIN m
           /\ m.migrated \in BOOLEAN
           /\ m.virtual_quote \in Nat /\ m.real_quote \in Nat
           /\ m.virtual_base \in Nat /\ m.real_base \in Int
           /\ Backed(m.virtual_quote, m.virtual_quote + m.real_quote, m.virtual_base - m.real_base, outside)
  <1>1. /\ {"virtual_quote", "real_quote", "virtual_base", "real_base", "migrated"} \subseteq DOMAIN m
        /\ m.migrated \in BOOLEAN
        /\ m.virtual_quote \in Nat \ {0} /\ m.real_quote \in Nat
        /\ m.virtual_base \in Nat /\ m.real_base \in Int /\ m.real_base <= m.virtual_base
        /\ m.virtual_quote * (m.virtual_base - m.real_base + outside)
             <= (m.virtual_quote + m.real_quote) * (m.virtual_base - m.real_base)
    BY DEF BonkMarket
  <1>2. /\ m.virtual_quote + m.real_quote \in Nat \ {0} /\ m.virtual_base - m.real_base \in Nat
        /\ m.virtual_quote <= m.virtual_quote + m.real_quote
    BY <1>1
  <1>. QED
    BY <1>1, <1>2 DEF Backed

\* The real reserves, in and out
Launched(m, in_quote, out_base) ==
    [m EXCEPT !.real_quote = @ + in_quote, !.real_base = @ + out_base]

\* A launch whose reserves still back the coins outside is one still.
LEMMA LaunchStillBacked ==
    ASSUME NEW m, NEW outside \in Nat, BonkMarket(m, outside), NEW in_quote \in Int, NEW out_base \in Int,
           NEW left,
           Backed(m.virtual_quote, m.virtual_quote + m.real_quote + in_quote,
                  m.virtual_base - m.real_base - out_base, left)
    PROVE  LET n == Launched(m, in_quote, out_base)
           IN  /\ BonkMarket(n, left)
               /\ n.virtual_quote + n.real_quote = m.virtual_quote + m.real_quote + in_quote
               /\ n.virtual_base - n.real_base = m.virtual_base - m.real_base - out_base
  <1>. DEFINE n == Launched(m, in_quote, out_base)
  <1>1. /\ {"virtual_quote", "real_quote", "virtual_base", "real_base", "migrated"} \subseteq DOMAIN m
        /\ m.migrated \in BOOLEAN
        /\ m.virtual_quote \in Nat /\ m.real_quote \in Nat
        /\ m.virtual_base \in Nat /\ m.real_base \in Int
    BY LaunchBacked
  <1>2. /\ n.real_quote = m.real_quote + in_quote /\ n.real_base = m.real_base + out_base
        /\ n.virtual_quote = m.virtual_quote /\ n.virtual_base = m.virtual_base
        /\ n.migrated = m.migrated /\ DOMAIN n = DOMAIN m
    BY <1>1 DEF Launched
  <1>. HIDE DEF n
  <1>3. /\ n.virtual_quote + n.real_quote = m.virtual_quote + m.real_quote + in_quote
        /\ n.virtual_base - n.real_base = m.virtual_base - m.real_base - out_base
    BY <1>1, <1>2
  <1>. DEFINE s == m.virtual_quote + m.real_quote + in_quote
              t == m.virtual_base - m.real_base - out_base
  <1>4. Backed(m.virtual_quote, s, t, left) /\ s \in Int /\ t \in Int
    BY <1>1
  <1>. HIDE DEF s, t
  <1>5. /\ s \in Nat \ {0} /\ t \in Nat /\ m.virtual_quote <= s /\ m.virtual_quote * (t + left) <= s * t
    BY <1>4 DEF Backed
  <1>6. n.virtual_quote * (n.virtual_base - n.real_base + left)
            <= (n.virtual_quote + n.real_quote) * (n.virtual_base - n.real_base)
    BY <1>2, <1>3, <1>5 DEF s, t
  <1>7. n.real_quote \in Nat /\ n.real_base \in Int /\ n.real_base <= n.virtual_base
    <2>1. n.real_quote \in Int /\ n.real_base \in Int
      BY <1>1, <1>2
    <2>2. m.virtual_quote + n.real_quote = s /\ m.virtual_base - n.real_base = t
      BY <1>2, <1>3 DEF s, t
    <2>. QED
      BY <1>1, <1>2, <1>5, <2>1, <2>2
  <1>8. n.virtual_quote \in Nat \ {0}
    <2>1. m.virtual_quote \in Nat \ {0}
      BY DEF BonkMarket
    <2>. QED
      BY <1>2, <2>1
  <1>9. BonkMarket(n, left)
    BY <1>1, <1>2, <1>6, <1>7, <1>8 DEF BonkMarket
  <1>. QED
    BY <1>3, <1>9 DEF n

\* The launchpad's fees are part of the amount.
LEMMA BonkFeeIs == \A amount \in Nat : BonkFee(amount) \in Nat /\ BonkFee(amount) <= amount
  <1>. SUFFICES ASSUME NEW amount \in Nat PROVE BonkFee(amount) \in Nat /\ BonkFee(amount) <= amount
    OBVIOUS
  <1>. DEFINE a == (amount * 25) \div 10000
              b == (amount * 100) \div 10000
  <1>1. a \in Nat /\ b \in Nat /\ a * 10000 <= amount * 25 /\ b * 10000 <= amount * 100
    OBVIOUS
  <1>2. BonkFee(amount) = a + b
    BY DEF BonkFee
  <1>. HIDE DEF a, b
  <1>. QED
    BY <1>1, <1>2

\* A launch of LaunchLab: a buy, and a sale of what is outside
LEMMA LaunchTrades ==
    ASSUME NEW m, NEW outside \in Nat, BonkMarket(m, outside), NEW amount \in Nat
    PROVE  /\ LET q == BonkQuote(m, TRUE, amount)
              IN  q.out > 0 =>
                    /\ Swapped(m.virtual_quote + m.real_quote, m.virtual_base - m.real_base,
                               q.market.virtual_quote + q.market.real_quote,
                               q.market.virtual_base - q.market.real_base, amount, q.out)
                    /\ BonkMarket(q.market, outside + q.out)
           /\ LET q == BonkQuote(m, FALSE, amount)
              IN  q.out > 0 /\ amount <= outside =>
                    /\ Swapped(m.virtual_base - m.real_base, m.virtual_quote + m.real_quote,
                               q.market.virtual_base - q.market.real_base,
                               q.market.virtual_quote + q.market.real_quote, amount, q.out)
                    /\ BonkMarket(q.market, outside - amount)
  <1>. DEFINE s == m.virtual_quote + m.real_quote
              t == m.virtual_base - m.real_base
  <1>1. Backed(m.virtual_quote, s, t, outside) /\ m.migrated \in BOOLEAN
    BY LaunchBacked
  <1>2. s \in Nat \ {0} /\ t \in Nat
    BY <1>1 DEF Backed
  <1>3. ASSUME NEW q, q = BonkQuote(m, TRUE, amount), q.out > 0
        PROVE  /\ Swapped(s, t, q.market.virtual_quote + q.market.real_quote,
                          q.market.virtual_base - q.market.real_base, amount, q.out)
               /\ BonkMarket(q.market, outside + q.out)
    <2>. DEFINE net == amount - BonkFee(amount)
                out == (net * t) \div (s + net)
    <2>1. /\ t # 0 /\ q.out = out /\ q.market = Launched(m, net, out)
      BY <1>3 DEF BonkQuote, NoQuote, Quoted, Launched
    <2>2. net \in Nat /\ net <= amount
      BY BonkFeeIs
    <2>. HIDE DEF net
    <2>3. out \in Nat /\ out <= (net * t) \div (s + net)
      <3>1. s + net \in Nat \ {0} /\ net * t \in Nat
        BY <1>2, <2>2
      <3>2. out \in Nat
        BY <3>1, FloorIs
      <3>. QED
        BY <3>2
    <2>. HIDE DEF s, t
    <2>4. /\ Backed(m.virtual_quote, s + net, t - out, outside + out)
          /\ Swapped(s, t, s + net, t - out, amount, out)
      <3>. HIDE DEF out
      <3>. QED
        BY <1>1, <2>1, <2>2, <2>3, BackedBuy
    <2>. HIDE DEF out
    <2>5. net \in Int /\ out \in Int
      BY <2>2, <2>3
    <2>6. /\ BonkMarket(Launched(m, net, out), outside + out)
          /\ Launched(m, net, out).virtual_quote + Launched(m, net, out).real_quote = s + net
          /\ Launched(m, net, out).virtual_base - Launched(m, net, out).real_base = t - out
      BY <2>4, <2>5, LaunchStillBacked, Zenon DEF s, t
    <2>. QED
      BY <2>1, <2>4, <2>6
  <1>4. ASSUME NEW q, q = BonkQuote(m, FALSE, amount), q.out > 0, amount <= outside
        PROVE  /\ Swapped(t, s, q.market.virtual_base - q.market.real_base,
                          q.market.virtual_quote + q.market.real_quote, amount, q.out)
               /\ BonkMarket(q.market, outside - amount)
    <2>. DEFINE gross == (amount * s) \div (t + amount)
    <2>0. t + amount # 0
      BY <1>4 DEF BonkQuote, NoQuote
    <2>1. /\ t # 0 /\ q.out = gross - BonkFee(gross) /\ q.market = Launched(m, -gross, -amount)
      <3>1. q.out = gross - BonkFee(gross) /\ q.market = Launched(m, -gross, -amount)
        BY <1>4 DEF BonkQuote, NoQuote, Quoted, Launched
      <3>2. m.virtual_quote \in Nat \ {0} /\ m.virtual_quote * (t + outside) <= s * t
        BY <1>1 DEF Backed, BonkMarket
      <3>. HIDE DEF s, t
      <3>3. t = 0 => outside = 0
        BY <1>2, <3>2
      <3>4. t # 0
        BY <1>4, <2>0, <3>3
      <3>. QED
        BY <3>1, <3>4
    <2>2. gross \in Nat
      <3>1. t + amount \in Nat \ {0} /\ amount * s \in Nat
        BY <1>2, <2>1
      <3>. QED
        BY <3>1, FloorIs
    <2>3. gross = (amount * s) \div (t + amount)
      OBVIOUS
    <2>. HIDE DEF gross, s, t
    <2>4. q.out \in Nat /\ q.out <= gross
      <3>1. gross - BonkFee(gross) \in Nat /\ gross - BonkFee(gross) <= gross
        BY <2>2, BonkFeeIs
      <3>. QED
        BY <2>1, <3>1
    <2>5. /\ Backed(m.virtual_quote, s - gross, t + amount, outside - amount)
          /\ Swapped(t, s, t + amount, s - gross, amount, q.out)
      BY <1>1, <1>4, <2>1, <2>3, <2>4, BackedSell
    <2>6. -gross \in Int /\ -amount \in Int
      BY <2>2
    <2>7. s + (-gross) = s - gross /\ t - (-amount) = t + amount
      BY <1>2, <2>2
    <2>8. Backed(m.virtual_quote, s + (-gross), t - (-amount), outside - amount)
      BY <2>5, <2>7
    <2>9. /\ BonkMarket(Launched(m, -gross, -amount), outside - amount)
          /\ Launched(m, -gross, -amount).virtual_quote + Launched(m, -gross, -amount).real_quote
                = s + (-gross)
          /\ Launched(m, -gross, -amount).virtual_base - Launched(m, -gross, -amount).real_base
                = t - (-amount)
      BY <2>6, <2>8, LaunchStillBacked, Zenon DEF s, t
    <2>. QED
      BY <2>1, <2>5, <2>7, <2>9
  <1>. QED
    BY <1>3, <1>4

-----------------------------------------------------------------------------
(* Single-price quotes: what a trader is up is worth nothing at the price. *)

\* What q of the quote token and b of the base token are worth at the price a
\* pool quotes with
Worth(m, q, b) ==
    IF QuoteIsA(m) THEN q * SpotPrice(m).b + b * SpotPrice(m).a
    ELSE b * SpotPrice(m).b + q * SpotPrice(m).a

\* The price quoted with is one,
LEMMA SpotPriceIs ==
    ASSUME NEW m, SpotMarket(m)
    PROVE  /\ SpotPrice(m).a \in Nat \ {0} /\ SpotPrice(m).b \in Nat \ {0}
           /\ (m.venue = "Meteora DAMM V2" => m.decimals_a = m.decimals_b) =>
                 \E u \in Nat \ {0} : /\ SpotPrice(m).a = m.price.a * u
                                      /\ SpotPrice(m).b = m.price.b * u
  <1>. DEFINE adjusted == m.venue = "Meteora DAMM V2"
              ua == Unit(m.decimals_a)
              ub == Unit(m.decimals_b)
              p == SpotPrice(m)
  <1>1. /\ m.price.a \in Nat \ {0} /\ m.price.b \in Nat \ {0}
        /\ ua \in Nat \ {0} /\ ub \in Nat \ {0}
    BY DEF SpotMarket
  <1>2. p = IF adjusted THEN [b |-> m.price.b * ua, a |-> m.price.a * ub] ELSE m.price
    BY DEF SpotPrice
  <1>3. adjusted \in BOOLEAN
    OBVIOUS
  <1>4. adjusted /\ m.decimals_a = m.decimals_b => ua = ub
    OBVIOUS
  <1>. HIDE DEF p, ua, ub, adjusted
  <1>5. \A x, y \in Nat \ {0} : x * y \in Nat \ {0}
    OBVIOUS
  <1>6. CASE ~adjusted
    <2>1. p = m.price
      BY <1>2, <1>6
    <2>2. p.a = m.price.a * 1 /\ p.b = m.price.b * 1 /\ p.a \in Nat \ {0} /\ p.b \in Nat \ {0}
      BY <1>1, <2>1
    <2>3. \E x \in Nat \ {0} : p.a = m.price.a * x /\ p.b = m.price.b * x
      BY <2>2
    <2>. QED
      BY <2>2, <2>3, Zenon DEF p
  <1>7. CASE adjusted
    <2>1. p.a = m.price.a * ub /\ p.b = m.price.b * ua
      BY <1>2, <1>7
    <2>2. p.a \in Nat \ {0} /\ p.b \in Nat \ {0}
      BY <1>1, <1>5, <2>1
    <2>3. m.decimals_a = m.decimals_b => p.a = m.price.a * ub /\ p.b = m.price.b * ub
      BY <1>4, <1>7, <2>1
    <2>4. m.decimals_a = m.decimals_b => \E x \in Nat \ {0} : p.a = m.price.a * x /\ p.b = m.price.b * x
      BY <1>1, <2>3
    <2>. QED
      BY <1>7, <2>2, <2>4, Zenon DEF p, adjusted
  <1>. QED
    BY <1>3, <1>6, <1>7

\* and a trade keeps it.
LEMMA SamePrice ==
    ASSUME NEW m, NEW n, SamePool(n, m)
    PROVE  SpotPrice(n) = SpotPrice(m) /\ QuoteIsA(n) = QuoteIsA(m)
  <1>1. /\ n.venue = m.venue /\ n.price = m.price /\ n.flipped = m.flipped
        /\ n.decimals_a = m.decimals_a /\ n.decimals_b = m.decimals_b
    BY DEF SamePool, SameVenue
  <1>. QED
    BY <1>1 DEF SpotPrice, QuoteIsA

\* A quote of the four at the price: what the trader has is worth no more
\* after it.
LEMMA SpotTradeIsFair ==
    ASSUME NEW m, {"venue", "outside"} \subseteq DOMAIN m, m.venue \in SpotVenues, SpotMarket(m),
           NEW buy \in BOOLEAN, NEW amount \in Nat, NEW q \in Int, NEW b \in Int
    PROVE  LET t == MarketQuote(m, buy, amount)
           IN  /\ t.out \in Nat /\ SpotMarket(t.market) /\ SamePool(t.market, m)
               /\ IF buy THEN Worth(t.market, q - amount, b + t.out) <= Worth(m, q, b)
                  ELSE Worth(t.market, q + t.out, b - amount) <= Worth(m, q, b)
  <1>. DEFINE a_to_b == QuoteIsA(m) = buy
              p == SpotPrice(m)
              t == MarketQuote(m, buy, amount)
              u == p.a
              v == p.b
              o == t.out
  <1>1. t = SinglePrice(m, buy, amount, a_to_b, p)
    BY SpotQuoteIs
  <1>2. u \in Nat \ {0} /\ v \in Nat \ {0}
    BY SpotPriceIs
  <1>3. a_to_b \in BOOLEAN
    OBVIOUS
  <1>4. /\ o \in Nat /\ SpotMarket(t.market) /\ SamePool(t.market, m)
        /\ IF a_to_b THEN o * u <= amount * v ELSE o * v <= amount * u
    <2>. HIDE DEF p, t
    <2>1. \A c \in BOOLEAN : c = (QuoteIsA(m) = buy) =>
            LET s == SinglePrice(m, buy, amount, c, p)
            IN  /\ s.out \in Nat /\ SpotMarket(s.market) /\ SamePool(s.market, m)
                /\ IF c THEN s.out * p.a <= amount * p.b ELSE s.out * p.b <= amount * p.a
      BY <1>2, SpotTrade
    <2>. QED
      BY <1>1, <1>3, <2>1
  <1>5. QuoteIsA(m) \in BOOLEAN
    <2>1. m.flipped \in BOOLEAN
      BY DEF SpotMarket
    <2>. QED
      BY <2>1 DEF QuoteIsA
  <1>6. /\ SpotPrice(t.market) = p /\ QuoteIsA(t.market) = QuoteIsA(m)
    <2>. HIDE DEF t
    <2>. QED
      BY <1>4, SamePrice
  <1>7. \A x, y : /\ Worth(m, x, y) = IF QuoteIsA(m) THEN x * v + y * u ELSE y * v + x * u
                  /\ Worth(t.market, x, y) = IF QuoteIsA(m) THEN x * v + y * u ELSE y * v + x * u
    <2>. HIDE DEF t
    <2>. QED
      BY <1>6 DEF Worth
  <1>. HIDE DEF t, p, u, v, o
  <1>8. /\ (q - amount) * v = q * v - amount * v /\ (q - amount) * u = q * u - amount * u
        /\ (b - amount) * v = b * v - amount * v /\ (b - amount) * u = b * u - amount * u
        /\ (b + o) * v = b * v + o * v /\ (b + o) * u = b * u + o * u
        /\ (q + o) * v = q * v + o * v /\ (q + o) * u = q * u + o * u
    BY <1>2, <1>4
  <1>9. /\ q * v \in Int /\ q * u \in Int /\ b * v \in Int /\ b * u \in Int
        /\ o * v \in Int /\ o * u \in Int /\ amount * v \in Int /\ amount * u \in Int
    BY <1>2, <1>4
  <1>10. CASE QuoteIsA(m)
    <2>1. IF buy THEN o * u <= amount * v ELSE o * v <= amount * u
      BY <1>4, <1>10
    <2>2. IF buy THEN (q - amount) * v + (b + o) * u <= q * v + b * u
          ELSE (q + o) * v + (b - amount) * u <= q * v + b * u
      BY <1>8, <1>9, <2>1
    <2>3. IF buy THEN Worth(t.market, q - amount, b + o) <= Worth(m, q, b)
          ELSE Worth(t.market, q + o, b - amount) <= Worth(m, q, b)
      BY <1>7, <1>10, <2>2
    <2>. QED
      BY <1>4, <2>3 DEF o, t
  <1>11. CASE ~QuoteIsA(m)
    <2>1. IF buy THEN o * v <= amount * u ELSE o * u <= amount * v
      <3>1. a_to_b = ~buy
        BY <1>5, <1>11, Zenon
      <3>. QED
        BY <1>4, <3>1
    <2>2. IF buy THEN (b + o) * v + (q - amount) * u <= b * v + q * u
          ELSE (b - amount) * v + (q + o) * u <= b * v + q * u
      BY <1>8, <1>9, <2>1
    <2>3. IF buy THEN Worth(t.market, q - amount, b + o) <= Worth(m, q, b)
          ELSE Worth(t.market, q + o, b - amount) <= Worth(m, q, b)
      BY <1>7, <1>11, <2>2
    <2>. QED
      BY <1>4, <2>3 DEF o, t
  <1>. QED
    BY <1>5, <1>10, <1>11

\* Nothing gained on one side without a loss on the other
LEMMA WorthlessGain ==
    ASSUME NEW m, SpotMarket(m), NEW q \in Int, NEW b \in Int, Worth(m, q, b) <= 0, q >= 0, b >= 0
    PROVE  q = 0 /\ b = 0
  <1>. DEFINE u == SpotPrice(m).a
              v == SpotPrice(m).b
  <1>1. u \in Nat \ {0} /\ v \in Nat \ {0}
    BY SpotPriceIs
  <1>2. q * v + b * u <= 0 \/ b * v + q * u <= 0
    BY DEF Worth
  <1>. HIDE DEF u, v
  <1>3. \A x, y \in Nat : y # 0 => x * y \in Nat /\ x <= x * y
    OBVIOUS
  <1>4. /\ q <= q * v /\ b <= b * u /\ b <= b * v /\ q <= q * u
        /\ q * v \in Nat /\ b * u \in Nat /\ b * v \in Nat /\ q * u \in Nat
    BY <1>1, <1>3
  <1>. QED
    BY <1>2, <1>4

\* At the raw price likewise, where the quoted one is a multiple of it
LEMMA WorthAtRawPrice ==
    ASSUME NEW m, SpotMarket(m), NEW q \in Int, NEW b \in Int, Worth(m, q, b) <= 0,
           NEW u \in Nat \ {0}, SpotPrice(m).a = m.price.a * u, SpotPrice(m).b = m.price.b * u
    PROVE  (IF QuoteIsA(m) THEN q * m.price.b + b * m.price.a
            ELSE b * m.price.b + q * m.price.a) <= 0
  <1>2. m.price.a \in Nat /\ m.price.b \in Nat
    BY DEF SpotMarket
  <1>. DEFINE A == m.price.a
              B == m.price.b
  <1>3. A \in Nat /\ B \in Nat /\ SpotPrice(m).a = A * u /\ SpotPrice(m).b = B * u
    BY <1>2
  <1>. HIDE DEF A, B
  <1>4. \A x, y \in Int : /\ x * (B * u) + y * (A * u) = (x * B + y * A) * u
                          /\ x * B + y * A \in Int
    BY <1>3
  <1>5. \A x \in Int : x * u <= 0 => x <= 0
    OBVIOUS
  <1>6. CASE QuoteIsA(m)
    <2>1. q * (B * u) + b * (A * u) <= 0
      BY <1>3, <1>6 DEF Worth
    <2>2. (q * B + b * A) * u <= 0 /\ q * B + b * A \in Int
      BY <1>4, <2>1
    <2>3. q * B + b * A <= 0
      BY <1>5, <2>2
    <2>. QED
      BY <1>6, <2>3 DEF A, B
  <1>7. CASE ~QuoteIsA(m)
    <2>1. b * (B * u) + q * (A * u) <= 0
      BY <1>3, <1>7 DEF Worth
    <2>2. (b * B + q * A) * u <= 0 /\ b * B + q * A \in Int
      BY <1>4, <2>1
    <2>3. b * B + q * A <= 0
      BY <1>5, <2>2
    <2>. QED
      BY <1>7, <2>3 DEF A, B
  <1>. QED
    BY <1>6, <1>7

-----------------------------------------------------------------------------
(* PumpSwap: less than a unit of the curve for each trade *)

\* What PumpSwap's curve gives: the product over what is then there, rounded
\* down, and so up to one unit more than it should.
LEMMA CurveGives ==
    ASSUME NEW x \in Nat \ {0}, NEW y \in Nat \ {0}, NEW net \in Nat,
           NEW out, out = y - (x * y) \div (x + net), out > 0
    PROVE  out \in Nat /\ out * x <= y * net + x - 1
  <1>. DEFINE z == x + net
              f == (x * y) \div z
  <1>1. x * y \in Nat /\ z \in Nat \ {0}
    OBVIOUS
  <1>2. f \in Nat /\ x * y <= f * z + z - 1
    <2>. DEFINE k == x * y
    <2>1. k \in Nat
      BY <1>1
    <2>. HIDE DEF k, z
    <2>2. k \div z \in Nat /\ k <= (k \div z) * z + z - 1
      BY <1>1, <2>1
    <2>. QED
      BY <2>2 DEF k
  <1>3. out = y - f
    OBVIOUS
  <1>. HIDE DEF f
  <1>4. out \in Nat \ {0} /\ f = y - out
    BY <1>2, <1>3
  <1>5. f * z = y * z - out * z /\ y * z = x * y + y * net /\ out * z = out * x + out * net
    <2>1. (y - out) * z = y * z - out * z
      BY <1>1, <1>4
    <2>. QED
      BY <1>4, <2>1
  <1>6. net <= out * net
    BY <1>4
  <1>7. out * x \in Nat /\ out * net \in Nat /\ y * net \in Nat
    BY <1>4
  <1>8. f * z = x * y + y * net - out * x - out * net /\ f * z \in Int /\ z = x + net
    BY <1>1, <1>2, <1>5, <1>7
  <1>. HIDE DEF z
  <1>9. x * y <= x * y + y * net - out * x - out * net + x + net - 1
    BY <1>2, <1>8
  <1>. QED
    BY <1>1, <1>4, <1>6, <1>7, <1>9

\* What a trader of PumpSwap is up, at the curve it trades on
UpOnCurve(m, q, b) == q * m.virtual_token + b * m.virtual_sol

\* A trade leaves the curve as it is, and is up by less than a unit of each.
LEMMA PumpSwapTrades ==
    ASSUME NEW m, PumpSwapMarket(m), NEW amount \in Nat, NEW q \in Int, NEW b \in Int
    PROVE  /\ LET t == PumpSwapQuote(m, TRUE, amount)
              IN  t.out > 0 =>
                    /\ t.out \in Nat /\ t.market = m
                    /\ UpOnCurve(m, q - amount, b + t.out)
                         <= UpOnCurve(m, q, b) + m.virtual_sol + m.virtual_token - 1
           /\ LET t == PumpSwapQuote(m, FALSE, amount)
              IN  t.out > 0 =>
                    /\ t.out \in Nat /\ t.market = m
                    /\ UpOnCurve(m, q + t.out, b - amount)
                         <= UpOnCurve(m, q, b) + m.virtual_sol + m.virtual_token - 1
  <1>. DEFINE x == m.virtual_sol
              y == m.virtual_token
              net == (amount * 9900) \div 10000
  <1>1. x \in Nat /\ y \in Nat
    BY DEF PumpSwapMarket
  <1>2. net \in Nat /\ net <= amount
    OBVIOUS
  <1>3. \A i, j \in Int : UpOnCurve(m, i, j) = i * y + j * x
    BY DEF UpOnCurve
  <1>4. ASSUME NEW t, t = PumpSwapQuote(m, TRUE, amount), t.out > 0
        PROVE  /\ t.out \in Nat /\ t.market = m
               /\ UpOnCurve(m, q - amount, b + t.out) <= UpOnCurve(m, q, b) + x + y - 1
    <2>1. x * y # 0 /\ t.market = m /\ t.out = y - (x * y) \div (x + net)
      BY <1>4 DEF PumpSwapQuote, NoQuote, Quoted
    <2>. HIDE DEF net, x, y
    <2>2. x \in Nat \ {0} /\ y \in Nat \ {0}
      BY <1>1, <2>1
    <2>. DEFINE o == t.out
    <2>3. o \in Nat /\ o * x <= y * net + x - 1
      BY <1>2, <1>4, <2>1, <2>2, CurveGives
    <2>. HIDE DEF o
    <2>4. y * net <= y * amount /\ y * net \in Nat /\ y * amount \in Nat /\ o * x \in Nat
      BY <1>2, <2>2, <2>3, ProductGrows
    <2>5. (q - amount) * y = q * y - y * amount /\ (b + o) * x = b * x + o * x
      BY <2>2, <2>3
    <2>6. q * y \in Int /\ b * x \in Int
      BY <2>2
    <2>7. (q - amount) * y + (b + o) * x <= q * y + b * x + x + y - 1
      BY <2>2, <2>3, <2>4, <2>5, <2>6
    <2>8. UpOnCurve(m, q - amount, b + o) <= UpOnCurve(m, q, b) + x + y - 1
      BY <1>3, <2>3, <2>7
    <2>. QED
      BY <2>1, <2>3, <2>8 DEF o
  <1>5. ASSUME NEW t, t = PumpSwapQuote(m, FALSE, amount), t.out > 0
        PROVE  /\ t.out \in Nat /\ t.market = m
               /\ UpOnCurve(m, q + t.out, b - amount) <= UpOnCurve(m, q, b) + x + y - 1
    <2>1. x * y # 0 /\ t.market = m /\ t.out = x - (x * y) \div (y + net)
      BY <1>5 DEF PumpSwapQuote, NoQuote, Quoted
    <2>. HIDE DEF net, x, y
    <2>2. x \in Nat \ {0} /\ y \in Nat \ {0} /\ x * y = y * x
      BY <1>1, <2>1
    <2>. DEFINE o == t.out
    <2>3. o \in Nat /\ o * y <= x * net + y - 1
      BY <1>2, <1>5, <2>1, <2>2, CurveGives
    <2>. HIDE DEF o
    <2>4. x * net <= x * amount /\ x * net \in Nat /\ x * amount \in Nat /\ o * y \in Nat
      BY <1>2, <2>2, <2>3, ProductGrows
    <2>5. (b - amount) * x = b * x - x * amount /\ (q + o) * y = q * y + o * y
      BY <2>2, <2>3
    <2>6. q * y \in Int /\ b * x \in Int
      BY <2>2
    <2>7. (q + o) * y + (b - amount) * x <= q * y + b * x + x + y - 1
      BY <2>2, <2>3, <2>4, <2>5, <2>6
    <2>8. UpOnCurve(m, q + o, b - amount) <= UpOnCurve(m, q, b) + x + y - 1
      BY <1>3, <2>3, <2>7
    <2>. QED
      BY <2>1, <2>3, <2>8 DEF o
  <1>. QED
    BY <1>4, <1>5

\* Up by less than that in each of t trades is not a unit of both per trade.
LEMMA CurveNoGain ==
    ASSUME NEW m, PumpSwapMarket(m), NEW q \in Int, NEW b \in Int, NEW t \in Nat,
           UpOnCurve(m, q, b) <= t * (m.virtual_sol + m.virtual_token - 1),
           m.virtual_sol * m.virtual_token = 0 => q = 0 /\ b = 0 /\ t = 0,
           q >= t, b >= t
    PROVE  q = t /\ b = t
  <1>. DEFINE x == m.virtual_sol
              y == m.virtual_token
  <1>1. x \in Nat /\ y \in Nat
    BY DEF PumpSwapMarket
  <1>2. q * y + b * x <= t * (x + y - 1)
    BY DEF UpOnCurve
  <1>3. CASE x * y = 0
    BY <1>3
  <1>4. CASE x * y # 0
    <2>. HIDE DEF x, y
    <2>1. x \in Nat \ {0} /\ y \in Nat \ {0}
      BY <1>1, <1>4
    <2>2. t * y <= q * y /\ t * x <= b * x
      BY <2>1, TimesKeepsOrder
    <2>3. t * (x + y - 1) = t * x + t * y - t
      BY <2>1
    <2>4. t * y \in Int /\ q * y \in Int /\ t * x \in Int /\ b * x \in Int
      BY <2>1
    <2>5. t = 0
      BY <1>2, <2>2, <2>3, <2>4
    <2>6. q * y + b * x <= 0
      <3>1. t * (x + y - 1) = 0
        BY <2>1, <2>5
      <3>. QED
        BY <1>2, <3>1
    <2>7. q <= q * y /\ b <= b * x
      BY <2>1, <2>5
    <2>. QED
      BY <2>4, <2>5, <2>6, <2>7
  <1>. QED
    BY <1>3, <1>4

-----------------------------------------------------------------------------
(* Shares of vaults *)

\* A quotient times the divisor and the next
LEMMA Quotient ==
    ASSUME NEW k \in Nat, NEW n \in Nat \ {0}
    PROVE  k \div n \in Nat /\ (k \div n) * n <= k /\ k < (k \div n + 1) * n
  OBVIOUS

\* A value over n shares that has grown by no more than d since it was v over
\* s shares of value r each, rounded down
LEMMA ShareGrows ==
    ASSUME NEW T \in Nat, NEW n \in Nat \ {0}, NEW s \in Nat \ {0}, NEW v \in Nat, NEW r \in Nat,
           NEW d \in Int, v < (r + 1) * s, T * s <= (v + d * s) * n
    PROVE  T \div n <= r + d
  <1>. DEFINE k == T \div n
  <1>1. k \in Nat /\ k * n <= T
    BY FloorIs
  <1>. HIDE DEF k
  <1>. SUFFICES ASSUME r + d + 1 <= k PROVE FALSE
    BY <1>1 DEF k
  <1>2. (r + d + 1) * n <= k * n
    BY <1>1, TimesKeepsOrder
  <1>. DEFINE e == r + d + 1
              x == e * n
  <1>3. e \in Int /\ x \in Int /\ x <= T /\ e * n = x
    BY <1>1, <1>2
  <1>. HIDE DEF x
  <1>4. x * s <= T * s
    BY <1>3, TimesKeepsOrder
  <1>5. v + d * s < e * s
    <2>1. e * s = (r + 1) * s + d * s /\ d * s \in Int /\ (r + 1) * s \in Int
      OBVIOUS
    <2>. HIDE DEF e
    <2>. QED
      BY <2>1
  <1>6. v + d * s + 1 <= e * s /\ v + d * s + 1 \in Int /\ e * s \in Int /\ d * s \in Int
    BY <1>5
  <1>. HIDE DEF e
  <1>7. (v + d * s + 1) * n <= (e * s) * n
    BY <1>6, TimesKeepsOrder
  <1>8. (e * s) * n = x * s
    <2>1. (e * s) * n = (e * n) * s
      BY <1>3
    <2>. QED
      BY <1>3, <2>1
  <1>9. (v + d * s + 1) * n = (v + d * s) * n + n
    BY <1>6
  <1>10. x * s \in Int /\ T * s \in Int /\ (v + d * s) * n \in Int
    BY <1>3, <1>6
  <1>. QED
    BY <1>4, <1>7, <1>8, <1>9, <1>10

\* A quotient is at least what n times over is no more.
LEMMA FloorAtLeast ==
    ASSUME NEW T \in Nat, NEW n \in Nat \ {0}, NEW k \in Int, k * n <= T
    PROVE  k <= T \div n
  <1>1. T \div n \in Nat /\ T < (T \div n + 1) * n
    OBVIOUS
  <1>. DEFINE q == T \div n
  <1>. HIDE DEF q
  <1>. SUFFICES ASSUME q + 1 <= k PROVE FALSE
    BY <1>1 DEF q
  <1>2. q \in Nat /\ T < (q + 1) * n
    BY <1>1 DEF q
  <1>3. (q + 1) * n <= k * n
    BY <1>2, TimesKeepsOrder
  <1>4. (q + 1) * n \in Int /\ k * n \in Int
    BY <1>2
  <1>. QED
    BY <1>2, <1>3, <1>4

\* Of a vault of value u in s shares, of which lp are held: a deposit that
\* mints no more shares than it is worth makes them worth no more than it.
LEMMA DepositWorth ==
    ASSUME NEW u \in Nat, NEW s \in Nat \ {0}, NEW lp \in Nat, lp <= s, NEW d \in Nat,
           NEW minted \in Nat, minted * u <= d * s
    PROVE  ((lp + minted) * (u + d)) \div (s + minted) <= (lp * u) \div s + d
  <1>. DEFINE v == lp * u
              r == v \div s
              T == (lp + minted) * (u + d)
              n == s + minted
  <1>1. v \in Nat /\ T \in Nat /\ n \in Nat \ {0}
    OBVIOUS
  <1>2. r \in Nat /\ v < (r + 1) * s
    BY <1>1, Quotient
  <1>3. T * s <= (v + d * s) * n
    <2>. DEFINE g == s - lp
    <2>1. g \in Nat /\ lp = s - g
      OBVIOUS
    <2>2. (v + d * s) * n - T * s = (d * s - minted * u) * g
      <3>1. (v + d * s) * n = lp * u * s + lp * u * minted + d * s * s + d * s * minted
        OBVIOUS
      <3>2. T * s = lp * u * s + lp * d * s + minted * u * s + minted * d * s
        OBVIOUS
      <3>3. (d * s - minted * u) * g = d * s * s - d * s * lp - minted * u * s + minted * u * lp
        OBVIOUS
      <3>4. lp * u * minted = minted * u * lp /\ d * s * minted = minted * d * s /\ d * s * lp = lp * d * s
        OBVIOUS
      <3>5. /\ lp * u * s \in Int /\ lp * u * minted \in Int /\ d * s * s \in Int /\ d * s * minted \in Int
            /\ lp * d * s \in Int /\ minted * u * s \in Int
        OBVIOUS
      <3>. HIDE DEF v, T, n, g
      <3>. QED
        BY <3>1, <3>2, <3>3, <3>4, <3>5
    <2>3. d * s - minted * u \in Nat
      OBVIOUS
    <2>4. (d * s - minted * u) * g \in Nat
      BY <2>1, <2>3
    <2>5. (v + d * s) * n \in Int /\ T * s \in Int
      BY <1>1
    <2>. HIDE DEF v, T, n, g
    <2>. QED
      BY <2>2, <2>4, <2>5
  <1>. HIDE DEF r, T, n, v
  <1>4. T \div n <= r + d
    BY <1>1, <1>2, <1>3, ShareGrows
  <1>. QED
    BY <1>4 DEF r, T, n, v

\* A withdrawal of w less than they are worth, that burns no more shares than
\* that is and pays no more than those: what is left is worth what they were
\* less w or more, and no more than less what was paid.
LEMMA WithdrawalWorth ==
    ASSUME NEW u \in Nat \ {0}, NEW s \in Nat \ {0}, NEW lp \in Nat, lp <= s, NEW w \in Nat,
           w < (lp * u) \div s,
           NEW burnt \in Nat, burnt * u <= w * s, NEW p \in Nat, p * s <= burnt * u
    PROVE  /\ burnt < lp /\ p <= w /\ (lp * u) \div s <= u
           /\ ((lp - burnt) * (u - p)) \div (s - burnt) \in Nat
           /\ (lp * u) \div s - w <= ((lp - burnt) * (u - p)) \div (s - burnt)
           /\ ((lp - burnt) * (u - p)) \div (s - burnt) <= (lp * u) \div s - p
  <1>. DEFINE v == lp * u
              r == v \div s
              T == (lp - burnt) * (u - p)
              n == s - burnt
  <1>1. v \in Nat
    OBVIOUS
  <1>2. r \in Nat /\ r * s <= v /\ v < (r + 1) * s
    BY <1>1, Quotient
  <1>. HIDE DEF r
  <1>3. w + 1 <= r
    BY <1>2 DEF r
  <1>4. w * s + s <= v
    <2>1. (w + 1) * s <= r * s
      BY <1>2, <1>3, TimesKeepsOrder
    <2>2. (w + 1) * s = w * s + s /\ w * s \in Int /\ r * s \in Int
      BY <1>2
    <2>. HIDE DEF v
    <2>. QED
      BY <1>1, <1>2, <2>1, <2>2
  <1>5. burnt < lp
    <2>. SUFFICES ASSUME lp <= burnt PROVE FALSE
      OBVIOUS
    <2>1. lp * u <= burnt * u
      BY TimesKeepsOrder
    <2>2. lp * u \in Int /\ burnt * u \in Int /\ w * s \in Int
      OBVIOUS
    <2>. QED
      BY <1>4, <2>1, <2>2
  <1>6. p <= w
    <2>1. p * s <= w * s
      <3>1. p * s \in Int /\ burnt * u \in Int /\ w * s \in Int
        OBVIOUS
      <3>. QED
        BY <3>1
    <2>. QED
      BY <2>1, CancelFactor
  <1>7. r <= u
    <2>1. lp * u <= s * u
      BY ProductGrows
    <2>2. r * s <= u * s
      <3>1. s * u = u * s /\ r * s \in Int /\ lp * u \in Int /\ u * s \in Int
        BY <1>2
      <3>. QED
        BY <1>2, <2>1, <3>1
    <2>. QED
      BY <1>2, <2>2, CancelFactor
  <1>8. T \in Nat /\ n \in Nat \ {0} /\ u - p \in Nat /\ lp - burnt \in Nat
    <2>1. u - p \in Nat /\ lp - burnt \in Nat
      BY <1>2, <1>3, <1>5, <1>6, <1>7
    <2>2. n \in Nat \ {0}
      BY <1>5
    <2>. QED
      BY <2>1, <2>2
  <1>9. (r - w) * n <= T
    <2>1. (r - w) * s <= (lp - burnt) * u
      <3>1. (r - w) * s = r * s - w * s /\ (lp - burnt) * u = lp * u - burnt * u
        BY <1>2
      <3>2. r * s \in Int /\ w * s \in Int /\ lp * u \in Int /\ burnt * u \in Int
        BY <1>2
      <3>. QED
        BY <1>2, <3>1, <3>2
    <2>2. u * n <= (u - p) * s
      <3>1. u * n = u * s - burnt * u /\ (u - p) * s = u * s - p * s
        OBVIOUS
      <3>2. u * s \in Int /\ burnt * u \in Int /\ p * s \in Int
        OBVIOUS
      <3>. QED
        BY <3>1, <3>2
    <2>. DEFINE a == r - w
                b == lp - burnt
                c == u - p
    <2>3. a \in Nat /\ b \in Nat /\ c \in Nat
      BY <1>2, <1>3, <1>8
    <2>4. a * s <= b * u /\ u * n <= c * s /\ T = b * c
      BY <2>1, <2>2
    <2>. HIDE DEF a, b, c, n, T
    <2>5. (a * s) * n <= (b * u) * n /\ b * (u * n) <= b * (c * s)
      <3>1. a * s \in Nat /\ b * u \in Nat /\ u * n \in Nat /\ c * s \in Nat
        BY <1>8, <2>3
      <3>. QED
        BY <1>8, <2>3, <2>4, <3>1, ProductGrows
    <2>6. (a * s) * n = (a * n) * s /\ (b * u) * n = b * (u * n) /\ b * (c * s) = (b * c) * s
      BY <1>8, <2>3
    <2>7. (a * n) * s <= T * s
      <3>1. (a * s) * n \in Int /\ (b * u) * n \in Int /\ b * (c * s) \in Int
        BY <1>8, <2>3
      <3>. QED
        BY <2>4, <2>5, <2>6, <3>1
    <2>8. a * n \in Nat
      BY <1>8, <2>3
    <2>. QED
      BY <1>8, <2>7, <2>8, CancelFactor DEF a
  <1>10. T * s <= (v + (-p) * s) * n
    <2>. DEFINE g == s - lp
    <2>1. g \in Nat
      OBVIOUS
    <2>2. (v + (-p) * s) * n - T * s = (burnt * u - p * s) * g
      <3>1. (v + (-p) * s) * n = lp * u * s - lp * u * burnt - p * s * s + p * s * burnt
        OBVIOUS
      <3>2. T * s = lp * u * s - lp * p * s - burnt * u * s + burnt * p * s
        OBVIOUS
      <3>3. (burnt * u - p * s) * g = burnt * u * s - burnt * u * lp - p * s * s + p * s * lp
        OBVIOUS
      <3>4. lp * u * burnt = burnt * u * lp /\ p * s * burnt = burnt * p * s /\ lp * p * s = p * s * lp
        OBVIOUS
      <3>5. /\ lp * u * s \in Int /\ lp * u * burnt \in Int /\ p * s * s \in Int /\ p * s * burnt \in Int
            /\ lp * p * s \in Int /\ burnt * u * s \in Int
        OBVIOUS
      <3>. HIDE DEF v, T, n, g
      <3>. QED
        BY <3>1, <3>2, <3>3, <3>4, <3>5
    <2>3. burnt * u - p * s \in Nat
      OBVIOUS
    <2>4. (burnt * u - p * s) * g \in Nat
      BY <2>1, <2>3
    <2>5. (v + (-p) * s) * n \in Int /\ T * s \in Int
      BY <1>1, <1>8
    <2>. HIDE DEF v, T, n, g
    <2>. QED
      BY <2>2, <2>4, <2>5
  <1>. HIDE DEF T, n, v
  <1>11. T \div n <= r + (-p)
    BY <1>1, <1>2, <1>8, <1>10, ShareGrows
  <1>12. r - w <= T \div n
    <2>. DEFINE k == r - w
    <2>1. k \in Int /\ k * n <= T
      BY <1>2, <1>9
    <2>. HIDE DEF k
    <2>2. k <= T \div n
      BY <1>8, <2>1, FloorAtLeast
    <2>. QED
      BY <2>2 DEF k
  <1>13. T \div n \in Nat
    BY <1>8, FloorIs
  <1>14. T \div n <= r - p
    BY <1>2, <1>11, <1>13
  <1>. QED
    BY <1>5, <1>6, <1>7, <1>12, <1>13, <1>14 DEF r, T, n, v

\* What a vault has not locked: what is added to it or taken from it is not.
LEMMA UnlockedIs ==
    ASSUME NEW m, m.now \in Nat, NEW v \in VaultSide
    PROVE  /\ Unlocked(m, v) \in Int /\ Unlocked(m, v) <= v.total
           /\ \A n, w : /\ n.now = m.now /\ w.locked = v.locked /\ w.degradation = v.degradation
                        /\ w.last_report = v.last_report /\ w.total \in Int
                        => Unlocked(n, w) = Unlocked(m, v) + (w.total - v.total)
  <1>. DEFINE ratio == (m.now - v.last_report) * v.degradation
              left == (v.locked * (DegradationUnit - ratio)) \div DegradationUnit
              out == IF ratio > DegradationUnit THEN 0 ELSE left
  <1>1. v.total \in Nat /\ v.locked \in Nat /\ v.degradation \in Nat /\ v.last_report \in Nat
    BY DEF VaultSide
  <1>2. DegradationUnit \in Nat \ {0}
    BY UnitAssumption
  <1>3. ratio \in Int
    BY <1>1
  <1>4. Unlocked(m, v) = v.total - out
    BY DEF Unlocked
  <1>5. ASSUME NEW n, NEW w, n.now = m.now, w.locked = v.locked, w.degradation = v.degradation,
               w.last_report = v.last_report
        PROVE  Unlocked(n, w) = w.total - out
    BY <1>5 DEF Unlocked
  <1>6. out \in Nat
    <2>1. CASE ratio <= DegradationUnit
      <3>. HIDE DEF ratio
      <3>1. DegradationUnit - ratio \in Nat
        BY <1>2, <1>3, <2>1
      <3>. DEFINE k == v.locked * (DegradationUnit - ratio)
      <3>2. k \in Nat
        BY <1>1, <3>1
      <3>. HIDE DEF k
      <3>3. k \div DegradationUnit \in Nat
        BY <1>2, <3>2
      <3>. QED
        BY <1>2, <1>3, <2>1, <3>3 DEF k
    <2>2. CASE ratio > DegradationUnit
      BY <2>2
    <2>. QED
      BY <1>2, <1>3, <2>1, <2>2
  <1>. HIDE DEF out
  <1>. QED
    BY <1>1, <1>4, <1>5, <1>6

\* A deposit at a vault of which the pool holds shares
LEMMA Deposited ==
    \A m, v, d, minted, w :
        /\ m.now \in Nat /\ v \in VaultSide /\ Shared(m, v) /\ d \in Nat
        /\ minted = Unmint(m, v, d) /\ w = PaidIn(v, d, minted)
        => /\ w \in VaultSide
           /\ ByShare(m, v, v.lp) \in Nat /\ ByShare(m, w, w.lp) \in Nat
           /\ ByShare(m, w, w.lp) <= ByShare(m, v, v.lp) + d
  <1>. TAKE m, v, d, minted, w
  <1>. HAVE /\ m.now \in Nat /\ v \in VaultSide /\ Shared(m, v) /\ d \in Nat
            /\ minted = Unmint(m, v, d) /\ w = PaidIn(v, d, minted)
  <1>. DEFINE u == Unlocked(m, v)
              s == v.supply
              lp == v.lp
  <1>1. /\ s \in Nat \ {0} /\ lp \in Nat /\ lp <= s /\ u \in Nat \ {0}
        /\ v.total \in Nat /\ v.liquid \in Nat
    BY UnlockedIs DEF VaultSide, Shared
  <1>2. minted = (d * s) \div u
    BY DEF Unmint
  <1>3. minted \in Nat /\ minted * u <= d * s
    <2>1. d * s \in Nat
      BY <1>1
    <2>. HIDE DEF u, s
    <2>. QED
      BY <1>1, <1>2, <2>1, Quotient
  <1>4. /\ w.total = v.total + d /\ w.liquid = v.liquid + d /\ w.supply = s + minted
        /\ w.lp = lp + minted /\ w.locked = v.locked /\ w.degradation = v.degradation
        /\ w.last_report = v.last_report
    BY DEF VaultSide, PaidIn, PaidOut
  <1>5. w \in VaultSide
    <2>1. /\ w.total \in Nat /\ w.liquid \in Nat /\ w.supply \in Nat /\ w.lp \in Nat /\ w.lp <= w.supply
      BY <1>1, <1>3, <1>4
    <2>2. w \in [total : Nat, locked : Nat, degradation : Nat, last_report : Nat,
                 supply : Nat, lp : Nat, liquid : Nat]
      BY <1>4, <2>1 DEF VaultSide, PaidIn, PaidOut
    <2>. QED
      BY <2>1, <2>2 DEF VaultSide
  <1>6. Unlocked(m, w) = u + d
    <2>1. w.total - v.total = d /\ w.total \in Int
      BY <1>1, <1>4
    <2>2. Unlocked(m, w) = u + (w.total - v.total)
      <3>1. /\ m.now = m.now /\ w.locked = v.locked /\ w.degradation = v.degradation
            /\ w.last_report = v.last_report /\ w.total \in Int
        BY <1>4, <2>1
      <3>. QED
        BY <3>1, UnlockedIs, Zenon
    <2>. QED
      BY <2>1, <2>2
  <1>7. /\ ByShare(m, v, v.lp) = (lp * u) \div s
        /\ ByShare(m, w, w.lp) = ((lp + minted) * (u + d)) \div (s + minted)
    BY <1>4, <1>6 DEF ByShare
  <1>. HIDE DEF u, s, lp
  <1>8. ((lp + minted) * (u + d)) \div (s + minted) <= (lp * u) \div s + d
    BY <1>1, <1>3, DepositWorth
  <1>9. (lp * u) \div s \in Nat
    <2>1. lp * u \in Nat
      BY <1>1
    <2>. QED
      BY <1>1, <2>1, Quotient
  <1>10. ((lp + minted) * (u + d)) \div (s + minted) \in Nat
    <2>1. (lp + minted) * (u + d) \in Nat /\ s + minted \in Nat \ {0}
      BY <1>1, <1>3
    <2>. QED
      BY <2>1, Quotient
  <1>. QED
    BY <1>5, <1>7, <1>8, <1>9, <1>10

\* A withdrawal of less than the pool's shares are worth, from what is there
LEMMA Withdrawn ==
    \A m, v, want, burnt, p, w :
        /\ m.now \in Nat /\ v \in VaultSide /\ Shared(m, v) /\ want \in Nat
        /\ want < ByShare(m, v, v.lp)
        /\ burnt = Unmint(m, v, want) /\ p = ByShare(m, v, burnt) /\ p < v.liquid
        /\ w = PaidOut(v, p, burnt)
        => /\ w \in VaultSide /\ p \in Nat
           /\ ByShare(m, v, v.lp) \in Nat /\ ByShare(m, w, w.lp) \in Nat
           /\ ByShare(m, v, v.lp) - want <= ByShare(m, w, w.lp)
           /\ ByShare(m, w, w.lp) <= ByShare(m, v, v.lp) - p
  <1>. TAKE m, v, want, burnt, p, w
  <1>. HAVE /\ m.now \in Nat /\ v \in VaultSide /\ Shared(m, v) /\ want \in Nat
            /\ want < ByShare(m, v, v.lp)
            /\ burnt = Unmint(m, v, want) /\ p = ByShare(m, v, burnt) /\ p < v.liquid
            /\ w = PaidOut(v, p, burnt)
  <1>. DEFINE u == Unlocked(m, v)
              s == v.supply
              lp == v.lp
  <1>1. /\ s \in Nat \ {0} /\ lp \in Nat /\ lp <= s /\ u \in Nat \ {0}
        /\ v.total \in Nat /\ v.liquid \in Nat /\ u <= v.total
    BY UnlockedIs DEF VaultSide, Shared
  <1>2. burnt = (want * s) \div u /\ p = (burnt * u) \div s /\ want < (lp * u) \div s
    BY DEF Unmint, ByShare
  <1>3. burnt \in Nat /\ burnt * u <= want * s
    <2>1. want * s \in Nat
      BY <1>1
    <2>. HIDE DEF u, s
    <2>. QED
      BY <1>1, <1>2, <2>1, Quotient
  <1>4. p \in Nat /\ p * s <= burnt * u
    <2>1. burnt * u \in Nat
      BY <1>1, <1>3
    <2>. HIDE DEF u, s
    <2>. QED
      BY <1>1, <1>2, <2>1, Quotient
  <1>5. /\ burnt < lp /\ p <= want /\ (lp * u) \div s <= u
        /\ ((lp - burnt) * (u - p)) \div (s - burnt) \in Nat
        /\ (lp * u) \div s - want <= ((lp - burnt) * (u - p)) \div (s - burnt)
        /\ ((lp - burnt) * (u - p)) \div (s - burnt) <= (lp * u) \div s - p
    <2>. HIDE DEF u, s, lp
    <2>. QED
      BY <1>1, <1>2, <1>3, <1>4, WithdrawalWorth
  <1>6. (lp * u) \div s \in Nat
    <2>. HIDE DEF u, s, lp
    <2>1. lp * u \in Nat
      BY <1>1
    <2>. QED
      BY <1>1, <2>1, Quotient
  <1>7. p <= v.total
    <2>. DEFINE r == (lp * u) \div s
    <2>1. r \in Nat /\ want < r /\ p <= want /\ r <= u
      BY <1>2, <1>5, <1>6
    <2>. HIDE DEF r, u
    <2>. QED
      BY <1>1, <1>4, <2>1
  <1>8. /\ w.total = v.total - p /\ w.liquid = v.liquid - p /\ w.supply = s - burnt
        /\ w.lp = lp - burnt /\ w.locked = v.locked /\ w.degradation = v.degradation
        /\ w.last_report = v.last_report
    BY DEF VaultSide, PaidIn, PaidOut
  <1>9. w \in VaultSide
    <2>1. /\ w.total \in Nat /\ w.liquid \in Nat /\ w.supply \in Nat /\ w.lp \in Nat /\ w.lp <= w.supply
      BY <1>1, <1>3, <1>4, <1>5, <1>7, <1>8
    <2>2. w \in [total : Nat, locked : Nat, degradation : Nat, last_report : Nat,
                 supply : Nat, lp : Nat, liquid : Nat]
      BY <1>8, <2>1 DEF VaultSide, PaidIn, PaidOut
    <2>. QED
      BY <2>1, <2>2 DEF VaultSide
  <1>10. Unlocked(m, w) = u - p
    <2>1. w.total - v.total = -p /\ w.total \in Int
      BY <1>1, <1>4, <1>8
    <2>2. Unlocked(m, w) = u + (w.total - v.total)
      <3>1. /\ m.now = m.now /\ w.locked = v.locked /\ w.degradation = v.degradation
            /\ w.last_report = v.last_report /\ w.total \in Int
        BY <1>8, <2>1
      <3>2. \A n, x : /\ n.now = m.now /\ x.locked = v.locked /\ x.degradation = v.degradation
                      /\ x.last_report = v.last_report /\ x.total \in Int
                      => Unlocked(n, x) = u + (x.total - v.total)
        BY UnlockedIs
      <3>. HIDE DEF u
      <3>. QED
        BY <3>1, <3>2, Zenon
    <2>. QED
      BY <1>1, <1>4, <2>1, <2>2
  <1>11. /\ ByShare(m, v, v.lp) = (lp * u) \div s
         /\ ByShare(m, w, w.lp) = ((lp - burnt) * (u - p)) \div (s - burnt)
    BY <1>8, <1>10 DEF ByShare
  <1>. HIDE DEF u, s, lp
  <1>. QED
    BY <1>4, <1>5, <1>6, <1>9, <1>11

-----------------------------------------------------------------------------
(* The curves of DAMM V1 *)

\* constant_product_swap_exact
LEMMA SwapExactIs ==
    \A amount, x, y : amount \in Nat /\ x \in Nat /\ y \in Nat /\ SwapExact(amount, x, y) > 0 =>
        LET out == SwapExact(amount, x, y)
        IN  out \in Nat /\ out < y /\ x * y # 0 /\ x * y <= (x + amount) * (y - out)
  <1>. SUFFICES ASSUME NEW amount \in Nat, NEW x \in Nat, NEW y \in Nat,
                       NEW out, out = SwapExact(amount, x, y), out > 0
                PROVE  out \in Nat /\ out < y /\ x * y # 0 /\ x * y <= (x + amount) * (y - out)
    OBVIOUS
  <1>. DEFINE k == x * y
              n == x + amount
              c == CeilDiv(k, n)
  <1>1. k \in Nat /\ n \in Nat /\ n # 0 /\ k >= n /\ out = y - c
    BY DEF SwapExact
  <1>2. k <= y * n
    BY ProductGrows
  <1>. HIDE DEF k, n
  <1>3. c \in Nat /\ k <= c * n
    BY <1>1, CeilIs
  <1>. HIDE DEF c
  <1>4. c # 0
    BY <1>1, <1>3
  <1>5. n * (y - out) = c * n
    BY <1>1, <1>3
  <1>. QED
    BY <1>1, <1>3, <1>4, <1>5 DEF k, n

\* compute_next_d is positive.
LEMMA NextDIs ==
    \A ann, a, b, d :
        ann \in Nat /\ ann >= 2 /\ a \in Nat \ {0} /\ b \in Nat \ {0} /\ d \in Nat \ {0}
            => NextD(ann, a, b, d) \in Nat \ {0}
  <1>. SUFFICES ASSUME NEW ann \in Nat, ann >= 2, NEW a \in Nat \ {0}, NEW b \in Nat \ {0},
                       NEW d \in Nat \ {0}
                PROVE  NextD(ann, a, b, d) \in Nat \ {0}
    OBVIOUS
  <1>. DEFINE p1 == (d * d) \div (2 * a)
              p2 == (p1 * d) \div (2 * b)
              above == d * (2 * p2 + ann * (a + b))
              below == (ann - 1) * d + 3 * p2
  <1>1. NextD(ann, a, b, d) = above \div below
    BY DEF NextD
  <1>2. p1 \in Nat
    <2>1. d * d \in Nat /\ 2 * a \in Nat \ {0}
      OBVIOUS
    <2>. QED
      BY <2>1, Quotient
  <1>3. p2 \in Nat /\ (d = 1 => p2 = 0)
    <2>1. ASSUME d = 1 PROVE p1 = 0
      BY <2>1
    <2>. HIDE DEF p1
    <2>2. p1 * d \in Nat /\ 2 * b \in Nat \ {0}
      BY <1>2
    <2>3. p2 \in Nat
      BY <2>2, Quotient
    <2>4. ASSUME d = 1 PROVE p2 = 0
      <3>1. p1 * d = 0
        BY <2>1, <2>4
      <3>2. (p1 * d) \div (2 * b) = 0
        BY <2>2, <3>1
      <3>. QED
        BY <3>2
    <2>. QED
      BY <2>3, <2>4
  <1>. HIDE DEF p2
  <1>4. below \in Nat \ {0}
    <2>1. (ann - 1) * d \in Nat \ {0}
      OBVIOUS
    <2>. QED
      BY <1>3, <2>1
  <1>5. above \in Nat /\ below <= above
    <2>. DEFINE r == ann * (a + b)
    <2>1. r \in Nat /\ ann - 1 \in Nat /\ ann - 1 <= r
      <3>1. ann * 1 <= ann * (a + b)
        BY ProductGrows
      <3>. QED
        BY <3>1
    <2>2. (ann - 1) * d <= r * d
      BY <2>1, TimesKeepsOrder
    <2>. HIDE DEF r
    <2>3. above = d * (2 * p2) + r * d /\ d * (2 * p2) \in Nat /\ r * d \in Nat
      <3>1. d * (2 * p2 + r) = d * (2 * p2) + r * d /\ d * (2 * p2) \in Nat /\ r * d \in Nat
        BY <1>3, <2>1
      <3>. QED
        BY <3>1 DEF r
    <2>4. 3 * p2 <= d * (2 * p2)
      <3>1. CASE d = 1
        BY <1>3, <3>1
      <3>2. CASE d # 1
        <4>1. 2 * (2 * p2) <= d * (2 * p2)
          BY <1>3, <3>2, ProductGrows
        <4>. QED
          BY <1>3, <2>3, <4>1
      <3>. QED
        BY <3>1, <3>2
    <2>5. (ann - 1) * d \in Nat
      OBVIOUS
    <2>. QED
      BY <1>3, <2>2, <2>3, <2>4, <2>5
  <1>. HIDE DEF above, below
  <1>6. 1 * below <= above
    BY <1>4, <1>5
  <1>7. 1 <= above \div below
    BY <1>4, <1>5, <1>6, FloorAtLeast
  <1>8. above \div below \in Nat
    BY <1>4, <1>5, Quotient
  <1>. QED
    BY <1>1, <1>7, <1>8

\* compute_y goes on to a number, or to none.
LEMMA NextYIs ==
    \A ann, x, d, y :
        ann \in Nat \ {0} /\ x \in Nat \ {0} /\ d \in Nat /\ y \in Nat
            => NextY(ann, x, d, y) \in Nat \cup {-1}
  <1>. SUFFICES ASSUME NEW ann \in Nat \ {0}, NEW x \in Nat \ {0}, NEW d \in Nat, NEW y \in Nat
                PROVE  NextY(ann, x, d, y) \in Nat \cup {-1}
    OBVIOUS
  <1>. DEFINE c1 == (d * d) \div (2 * x)
              c == (c1 * d) \div (2 * ann)
              divisor == 2 * y + d \div ann + x - d
              above == y * y + c
  <1>1. NextY(ann, x, d, y) = IF divisor <= 0 THEN -1 ELSE above \div divisor
    BY DEF NextY
  <1>2. c1 \in Nat
    <2>1. d * d \in Nat /\ 2 * x \in Nat \ {0}
      OBVIOUS
    <2>. QED
      BY <2>1, Quotient
  <1>. HIDE DEF c1
  <1>3. c \in Nat
    <2>1. c1 * d \in Nat /\ 2 * ann \in Nat \ {0}
      BY <1>2
    <2>. QED
      BY <2>1, Quotient
  <1>. HIDE DEF c
  <1>4. divisor \in Int
    <2>1. d \div ann \in Nat
      BY Quotient
    <2>. QED
      BY <2>1
  <1>5. above \in Nat
    <2>1. y * y \in Nat
      OBVIOUS
    <2>. QED
      BY <1>3, <2>1
  <1>. HIDE DEF divisor, above
  <1>6. CASE divisor > 0
    <2>1. above \div divisor \in Nat
      BY <1>4, <1>5, <1>6, Quotient
    <2>. QED
      BY <1>1, <1>4, <1>6, <2>1
  <1>7. CASE divisor <= 0
    BY <1>1, <1>7
  <1>. QED
    BY <1>4, <1>6, <1>7

\* compute_d is positive.
LEMMA StableDIs ==
    \A ann, a, b :
        ann \in Nat /\ ann >= 2 /\ a \in Nat \ {0} /\ b \in Nat \ {0} => StableD(ann, a, b) \in Nat \ {0}
  <1>. SUFFICES ASSUME NEW ann \in Nat, ann >= 2, NEW a \in Nat \ {0}, NEW b \in Nat \ {0}
                PROVE  StableD(ann, a, b) \in Nat \ {0}
    OBVIOUS
  <1>. DEFINE N == NewtonRounds
              X == [at : Nat \ {0}, done : BOOLEAN]
              s == [at |-> a + b, done |-> FALSE]
              On(was) == LET next == NextD(ann, a, b, was.at)
                         IN  IF was.done THEN was
                             ELSE [at |-> next, done |-> next = -1 \/ next - was.at \in -1 .. 1]
              Eq(r) == r = [n \in 0 .. N |-> IF n = 0 THEN s ELSE On(r[n - 1])]
  <1>1. StableD(ann, a, b) = (CHOOSE r : Eq(r))[N].at
    BY DEF StableD, Converge
  <1>2. N \in Nat
    BY UnitAssumption
  <1>3. s \in X
    OBVIOUS
  <1>4. \A x \in X : On(x) \in X
    <2>1. \A x \in X : NextD(ann, a, b, x.at) \in Nat \ {0}
      BY NextDIs
    <2>. QED
      BY <2>1
  <1>. HIDE DEF N, X, s, On
  <1>. DEFINE F == [p \in (1 .. N) \X X |-> On(p[2])]
  <1>5. F \in [(1 .. N) \X X -> X]
    BY <1>4
  <1>6. PICK h : Iterates(h, N, X, s, F)
    <2>. HIDE DEF F
    <2>. QED
      BY <1>2, <1>3, <1>5, Iterated, Zenon
  <1>6a. h \in [0 .. N -> X] /\ h[0] = s /\ \A n \in 1 .. N : h[n] = F[<<n, h[n - 1]>>]
    BY <1>6 DEF Iterates
  <1>7. \A n \in 1 .. N : h[n] = On(h[n - 1])
    <2>1. \A n \in 1 .. N : h[n - 1] \in X
      BY <1>2, <1>6a
    <2>2. \A n \in 1 .. N : F[<<n, h[n - 1]>>] = On(h[n - 1])
      BY <2>1
    <2>. QED
      BY <1>6a, <2>2
  <1>8. Eq(h)
    BY <1>2, <1>6a, <1>7
  <1>. DEFINE k == CHOOSE r : Eq(r)
  <1>9. Eq(k)
    <2>. HIDE DEF Eq
    <2>. QED
      BY <1>8
  <1>. HIDE DEF k
  <1>10. k[0] \in X /\ \A n \in 1 .. N : k[n - 1] \in X => k[n] \in X
    <2>1. k[0] = s /\ \A n \in 1 .. N : k[n] = On(k[n - 1])
      BY <1>2, <1>9
    <2>. QED
      BY <1>3, <1>4, <2>1
  <1>11. k[N] \in X
    BY <1>2, <1>10, IteratesStay
  <1>. QED
    BY <1>1, <1>11 DEF k, X

\* compute_y has a number, or none.
LEMMA StableYIs ==
    \A ann, x, d :
        ann \in Nat \ {0} /\ x \in Nat \ {0} /\ d \in Nat => StableY(ann, x, d) \in Nat \cup {-1}
  <1>. SUFFICES ASSUME NEW ann \in Nat \ {0}, NEW x \in Nat \ {0}, NEW d \in Nat
                PROVE  StableY(ann, x, d) \in Nat \cup {-1}
    OBVIOUS
  <1>. DEFINE N == NewtonRounds
              X == {r \in [at : Nat \cup {-1}, done : BOOLEAN] : r.at = -1 => r.done}
              s == [at |-> d, done |-> FALSE]
              On(was) == LET next == NextY(ann, x, d, was.at)
                         IN  IF was.done THEN was
                             ELSE [at |-> next, done |-> next = -1 \/ next - was.at \in -1 .. 1]
              Eq(r) == r = [n \in 0 .. N |-> IF n = 0 THEN s ELSE On(r[n - 1])]
  <1>1. StableY(ann, x, d) = (CHOOSE r : Eq(r))[N].at
    BY DEF StableY, Converge
  <1>2. N \in Nat
    BY UnitAssumption
  <1>3. s \in X
    OBVIOUS
  <1>4. \A r \in X : On(r) \in X
    <2>1. \A r \in X : ~r.done => NextY(ann, x, d, r.at) \in Nat \cup {-1}
      BY NextYIs
    <2>. QED
      BY <2>1
  <1>. HIDE DEF N, X, s, On
  <1>. DEFINE F == [p \in (1 .. N) \X X |-> On(p[2])]
  <1>5. F \in [(1 .. N) \X X -> X]
    BY <1>4
  <1>6. PICK h : Iterates(h, N, X, s, F)
    <2>. HIDE DEF F
    <2>. QED
      BY <1>2, <1>3, <1>5, Iterated, Zenon
  <1>6a. h \in [0 .. N -> X] /\ h[0] = s /\ \A n \in 1 .. N : h[n] = F[<<n, h[n - 1]>>]
    BY <1>6 DEF Iterates
  <1>7. \A n \in 1 .. N : h[n] = On(h[n - 1])
    <2>1. \A n \in 1 .. N : h[n - 1] \in X
      BY <1>2, <1>6a
    <2>2. \A n \in 1 .. N : F[<<n, h[n - 1]>>] = On(h[n - 1])
      BY <2>1
    <2>. QED
      BY <1>6a, <2>2
  <1>8. Eq(h)
    BY <1>2, <1>6a, <1>7
  <1>. DEFINE k == CHOOSE r : Eq(r)
  <1>9. Eq(k)
    <2>. HIDE DEF Eq
    <2>. QED
      BY <1>8
  <1>. HIDE DEF k
  <1>10. k[0] \in X /\ \A n \in 1 .. N : k[n - 1] \in X => k[n] \in X
    <2>1. k[0] = s /\ \A n \in 1 .. N : k[n] = On(k[n - 1])
      BY <1>2, <1>9
    <2>. QED
      BY <1>3, <1>4, <2>1
  <1>11. k[N] \in X
    BY <1>2, <1>10, IteratesStay
  <1>. QED
    BY <1>1, <1>11 DEF k, X

\* stable_swap_exact leaves something of what is there.
LEMMA StableSwapIs ==
    \A amp, amount, x, y :
        amp \in Nat \ {0} /\ amount \in Nat /\ x \in Nat /\ y \in Nat
            => StableSwap(amp, amount, x, y) \in Int
               /\ (StableSwap(amp, amount, x, y) > 0 => StableSwap(amp, amount, x, y) < y)
  <1>. SUFFICES ASSUME NEW amp \in Nat \ {0}, NEW amount \in Nat, NEW x \in Nat, NEW y \in Nat,
                       NEW out, out = StableSwap(amp, amount, x, y)
                PROVE  out \in Int /\ (out > 0 => out < y)
    OBVIOUS
  <1>. DEFINE d == StableD(2 * amp, x, y)
              z == StableY(2 * amp, x + amount, d)
  <1>1. out = IF x = 0 \/ y = 0 \/ z = -1 THEN 0 ELSE y - z - 1
    BY DEF StableSwap
  <1>2. CASE x # 0 /\ y # 0
    <2>1. d \in Nat
      BY <1>2, StableDIs
    <2>2. z \in Nat \cup {-1}
      <3>. HIDE DEF d
      <3>1. 2 * amp \in Nat \ {0} /\ x + amount \in Nat \ {0}
        BY <1>2
      <3>. QED
        BY <2>1, <3>1, StableYIs
    <2>. HIDE DEF z
    <2>. QED
      BY <1>1, <2>2
  <1>3. CASE x = 0 \/ y = 0
    BY <1>1, <1>3
  <1>. QED
    BY <1>2, <1>3

-----------------------------------------------------------------------------
(* A quote from vault to vault *)

\* calculate_fee takes no more than there is.
LEMMA DammFeeIs ==
    \A amount, fee : amount \in Nat /\ fee \in Rates =>
        DammFee(amount, fee) \in Nat /\ DammFee(amount, fee) <= amount
  <1>. SUFFICES ASSUME NEW amount \in Nat, NEW fee \in Rates, NEW taken, taken = DammFee(amount, fee)
                PROVE  taken \in Nat /\ taken <= amount
    OBVIOUS
  <1>. DEFINE n == fee.numerator
              d == fee.denominator
              k == amount * n
              part == k \div d
  <1>1. n \in Nat /\ d \in Nat \ {0} /\ n <= d
    BY DEF Rates
  <1>2. taken = IF n = 0 \/ amount = 0 THEN 0 ELSE Max({1, part})
    BY DEF DammFee
  <1>3. part \in Nat /\ part <= amount
    <2>1. k \in Nat /\ k <= amount * d
      BY <1>1, ProductGrows
    <2>. HIDE DEF k, n, d
    <2>2. part \in Nat /\ part * d <= k
      BY <1>1, <2>1, Quotient
    <2>. HIDE DEF part
    <2>3. part * d <= amount * d
      BY <1>1, <2>1, <2>2
    <2>. QED
      BY <1>1, <2>2, <2>3, CancelFactor
  <1>. HIDE DEF part
  <1>4. Max({1, part}) = IF 1 >= part THEN 1 ELSE part
    BY <1>3, MaxOfTwo
  <1>. QED
    BY <1>2, <1>3, <1>4

\* A quotient, of a negative number too
LEMMA FloorBelow ==
    ASSUME NEW a \in Int, NEW b \in Nat \ {0}
    PROVE  a \div b \in Int /\ (a \div b) * b <= a
  OBVIOUS

\* The curve of either kind
LEMMA SwappedIs ==
    \A amp, net, x, y, up_in, up_out, swapped :
        /\ amp \in Nat /\ net \in Nat /\ x \in Nat /\ y \in Nat
        /\ up_in \in Nat \ {0} /\ up_out \in Nat \ {0}
        /\ swapped = CurveSwap(amp, net, x, y, up_in, up_out)
        /\ swapped > 0
        => /\ swapped \in Nat /\ swapped < y
           /\ amp = 0 => x * y # 0 /\ x * y <= (x + net) * (y - swapped)
  <1>. TAKE amp, net, x, y, up_in, up_out, swapped
  <1>. HAVE /\ amp \in Nat /\ net \in Nat /\ x \in Nat /\ y \in Nat
            /\ up_in \in Nat \ {0} /\ up_out \in Nat \ {0}
            /\ swapped = CurveSwap(amp, net, x, y, up_in, up_out)
            /\ swapped > 0
  <1>1. CASE amp = 0
    BY <1>1, SwapExactIs DEF CurveSwap
  <1>2. CASE amp # 0
    <2>. DEFINE s == StableSwap(amp, net * up_in, x * up_in, y * up_out)
                out == s \div up_out
    <2>0. swapped = out
      BY <1>2 DEF CurveSwap
    <2>1. net * up_in \in Nat /\ x * up_in \in Nat /\ y * up_out \in Nat
      OBVIOUS
    <2>2. s \in Int /\ (s > 0 => s < y * up_out)
      BY <1>2, <2>1, StableSwapIs
    <2>. HIDE DEF s
    <2>3. out \in Int /\ out * up_out <= s
      BY <2>2, FloorBelow
    <2>. HIDE DEF out
    <2>4. ASSUME out > 0 PROVE out < y
      <3>1. 1 * up_out <= out * up_out
        BY <2>3, <2>4, TimesKeepsOrder
      <3>2. s > 0
        BY <2>2, <2>3, <3>1
      <3>. SUFFICES ASSUME y <= out PROVE FALSE
        BY <2>3
      <3>3. y * up_out <= out * up_out
        BY <2>3, TimesKeepsOrder
      <3>. QED
        BY <2>1, <2>2, <2>3, <3>2, <3>3
    <2>. QED
      BY <1>2, <2>0, <2>3, <2>4
  <1>. QED
    BY <1>1, <1>2

\* Each side has at least what the curve leaves it, and no more than is paid.
LEMMA SwapKeeps ==
    \A x, y, net, swapped, x2, y2, amount, paid :
        /\ x \in Nat /\ y \in Nat /\ x2 \in Nat /\ y2 \in Nat /\ paid \in Nat
        /\ net \in Nat /\ swapped \in Nat /\ swapped < y /\ amount \in Nat
        /\ x * y # 0 /\ x * y <= (x + net) * (y - swapped)
        /\ x + net <= x2 /\ x2 <= x + amount /\ y - swapped <= y2 /\ y2 <= y - paid
        => Swapped(x, y, x2, y2, amount, paid)
  <1>. TAKE x, y, net, swapped, x2, y2, amount, paid
  <1>. HAVE /\ x \in Nat /\ y \in Nat /\ x2 \in Nat /\ y2 \in Nat /\ paid \in Nat
            /\ net \in Nat /\ swapped \in Nat /\ swapped < y /\ amount \in Nat
            /\ x * y # 0 /\ x * y <= (x + net) * (y - swapped)
            /\ x + net <= x2 /\ x2 <= x + amount /\ y - swapped <= y2 /\ y2 <= y - paid
  <1>1. y - swapped \in Nat /\ x + net \in Nat
    OBVIOUS
  <1>2. (x + net) * (y - swapped) <= x2 * y2
    BY <1>1, ProductGrows
  <1>3. x * y \in Nat /\ (x + net) * (y - swapped) \in Nat /\ x2 * y2 \in Nat
    BY <1>1, ProductSign
  <1>4. x * y <= x2 * y2
    BY <1>2, <1>3
  <1>. QED
    BY <1>4 DEF Swapped

\* quote_exact_in from a vault to another
LEMMA VaultTrades ==
    ASSUME NEW m, m.now \in Nat, m.amp \in Nat, m.trade_fee \in Rates, m.protocol_fee \in Rates,
           NEW v \in VaultSide, NEW w \in VaultSide, NEW amount \in Nat,
           NEW up_in \in Nat \ {0}, NEW up_out \in Nat \ {0},
           NEW q, q = VaultQuote(m, v, w, up_in, up_out, amount), q.out > 0
    PROVE  /\ q.in_vault \in VaultSide /\ q.out_vault \in VaultSide /\ q.out \in Nat
           /\ m.amp = 0 => Swapped(Reserve(m, v), Reserve(m, w), Reserve(m, q.in_vault),
                                  Reserve(m, q.out_vault), amount, q.out)
  <1>. DEFINE fee == DammFee(amount, m.trade_fee)
              protocol_fee == DammFee(fee, m.protocol_fee)
              deposit == amount - protocol_fee
              minted == Unmint(m, v, deposit)
              v2 == PaidIn(v, deposit, minted)
              net == Reserve(m, v2) - Reserve(m, v) - (fee - protocol_fee)
              swapped == CurveSwap(m.amp, net, Reserve(m, v), Reserve(m, w), up_in, up_out)
              burnt == Unmint(m, w, swapped)
              paid == ByShare(m, w, burnt)
              w2 == PaidOut(w, paid, burnt)
  <1>1. /\ Shared(m, v) /\ Shared(m, w) /\ net >= 0 /\ swapped > 0 /\ paid < w.liquid
        /\ q.out = paid /\ q.in_vault = v2 /\ q.out_vault = w2
    BY DEF VaultQuote
  <1>2. /\ m.now \in Nat /\ m.amp \in Nat /\ m.trade_fee \in Rates /\ m.protocol_fee \in Rates
        /\ v \in VaultSide /\ Shared(m, v) /\ w \in VaultSide /\ Shared(m, w) /\ amount \in Nat
        /\ fee = DammFee(amount, m.trade_fee) /\ protocol_fee = DammFee(fee, m.protocol_fee)
        /\ deposit = amount - protocol_fee /\ minted = Unmint(m, v, deposit)
        /\ v2 = PaidIn(v, deposit, minted)
        /\ net = Reserve(m, v2) - Reserve(m, v) - (fee - protocol_fee) /\ net >= 0
        /\ up_in \in Nat \ {0} /\ up_out \in Nat \ {0}
        /\ swapped = CurveSwap(m.amp, net, Reserve(m, v), Reserve(m, w), up_in, up_out)
        /\ swapped > 0 /\ burnt = Unmint(m, w, swapped)
        /\ paid = ByShare(m, w, burnt) /\ paid < w.liquid /\ w2 = PaidOut(w, paid, burnt)
    BY <1>1
  <1>. HIDE DEF fee, protocol_fee, deposit, minted, net, swapped, burnt, v2, w2, paid
  <1>3. /\ v2 \in VaultSide /\ w2 \in VaultSide /\ paid \in Nat
        /\ m.amp = 0 => Swapped(Reserve(m, v), Reserve(m, w), Reserve(m, v2), Reserve(m, w2), amount, paid)
    <2>. USE <1>2
    <2>1. fee \in Nat /\ fee <= amount /\ protocol_fee \in Nat /\ protocol_fee <= fee
      <3>1. fee \in Nat /\ fee <= amount
        BY DammFeeIs
      <3>. QED
        BY <3>1, DammFeeIs
    <2>2. deposit \in Nat /\ deposit <= amount
      BY <2>1
    <2>3. /\ v2 \in VaultSide /\ Reserve(m, v) \in Nat /\ Reserve(m, v2) \in Nat
          /\ Reserve(m, v2) <= Reserve(m, v) + deposit
      BY <2>2, Deposited DEF Reserve
    <2>. DEFINE x == Reserve(m, v)
                y == Reserve(m, w)
                x2 == Reserve(m, v2)
                y2 == Reserve(m, w2)
    <2>4. net \in Nat /\ x + net <= x2
      BY <2>1, <2>3
    <2>5. y \in Nat
      <3>. DEFINE k == w.lp * Unlocked(m, w)
      <3>1. y = k \div w.supply
        BY DEF Reserve, ByShare
      <3>2. w.lp \in Nat /\ w.supply \in Nat \ {0} /\ Unlocked(m, w) \in Nat
        BY UnlockedIs DEF VaultSide, Shared
      <3>3. k \in Nat
        BY <3>2
      <3>. HIDE DEF k
      <3>. QED
        BY <3>1, <3>2, <3>3, Quotient
    <2>6. /\ swapped \in Nat /\ swapped < y
          /\ m.amp = 0 => x * y # 0 /\ x * y <= (x + net) * (y - swapped)
      <3>1. x \in Nat
        BY <2>3
      <3>2. swapped = CurveSwap(m.amp, net, x, y, up_in, up_out)
        OBVIOUS
      <3>. HIDE DEF x, y
      <3>3. /\ m.amp \in Nat /\ net \in Nat /\ x \in Nat /\ y \in Nat
            /\ up_in \in Nat \ {0} /\ up_out \in Nat \ {0}
            /\ swapped = CurveSwap(m.amp, net, x, y, up_in, up_out)
            /\ swapped > 0
        BY <2>4, <2>5, <3>1, <3>2
      <3>. QED
        BY <3>3, SwappedIs
    <2>7. /\ w2 \in VaultSide /\ paid \in Nat /\ y2 \in Nat
          /\ y - swapped <= y2 /\ y2 <= y - paid
      <3>1. swapped \in Nat /\ swapped < ByShare(m, w, w.lp)
        BY <2>6 DEF Reserve
      <3>1a. /\ m.now \in Nat /\ w \in VaultSide /\ Shared(m, w) /\ swapped \in Nat
             /\ swapped < ByShare(m, w, w.lp)
             /\ burnt = Unmint(m, w, swapped) /\ paid = ByShare(m, w, burnt) /\ paid < w.liquid
             /\ w2 = PaidOut(w, paid, burnt)
        BY <3>1
      <3>2. /\ w2 \in VaultSide /\ paid \in Nat /\ ByShare(m, w2, w2.lp) \in Nat
            /\ ByShare(m, w, w.lp) - swapped <= ByShare(m, w2, w2.lp)
            /\ ByShare(m, w2, w2.lp) <= ByShare(m, w, w.lp) - paid
        BY <3>1a, Withdrawn, Zenon
      <3>. QED
        BY <3>2 DEF Reserve
    <2>8. ASSUME m.amp = 0 PROVE Swapped(x, y, x2, y2, amount, paid)
      <3>1. x \in Nat /\ x2 \in Nat /\ x2 <= x + amount
        BY <2>2, <2>3
      <3>. HIDE DEF x, y, x2, y2
      <3>. QED
        BY <2>4, <2>5, <2>6, <2>7, <2>8, <3>1, SwapKeeps, Zenon
    <2>. QED
      BY <2>3, <2>7, <2>8
  <1>. QED
    BY <1>1, <1>3

\* The reserves depend on nothing but the vault and the time.
LEMMA SameReserve ==
    ASSUME NEW m, m.now \in Nat, NEW v \in VaultSide, NEW n, n.now = m.now
    PROVE  Reserve(n, v) = Reserve(m, v)
  <1>1. Unlocked(n, v) = Unlocked(m, v)
    BY DEF Unlocked
  <1>. QED
    BY <1>1 DEF Reserve, ByShare

\* A trade with a pool over dynamic vaults
LEMMA DammTrades ==
    ASSUME NEW m, DammMarket(m), NEW amount \in Nat, NEW buy,
           NEW q, q = DammQuote(m, buy, amount), q.out > 0
    PROVE  /\ DammMarket(q.market) /\ q.market.flipped = m.flipped /\ q.market.amp = m.amp
           /\ q.out \in Nat
           /\ m.amp = 0 =>
                 IF buy = m.flipped
                 THEN Swapped(Reserve(m, m.a), Reserve(m, m.b), Reserve(q.market, q.market.a),
                              Reserve(q.market, q.market.b), amount, q.out)
                 ELSE Swapped(Reserve(m, m.b), Reserve(m, m.a), Reserve(q.market, q.market.b),
                              Reserve(q.market, q.market.a), amount, q.out)
  <1>1. /\ {"a", "b", "trade_fee", "protocol_fee", "now", "amp", "multiplier_a", "multiplier_b",
            "virtual_price", "enabled", "flipped", "depeg"} \subseteq DOMAIN m
        /\ m.a \in VaultSide /\ m.b \in VaultSide
        /\ m.trade_fee \in Rates /\ m.protocol_fee \in Rates /\ m.now \in Nat /\ m.amp \in Nat
        /\ {m.multiplier_a, m.multiplier_b, m.virtual_price} \subseteq Nat \ {0}
        /\ {m.enabled, m.flipped, m.depeg} \subseteq BOOLEAN
    BY DEF DammMarket
  <1>. DEFINE up_a == Scale(m, TRUE)
              up_b == Scale(m, FALSE)
  <1>2. up_a \in Nat \ {0} /\ up_b \in Nat \ {0}
    <2>1. \A i, j \in Nat \ {0} : i * j \in Nat \ {0}
      OBVIOUS
    <2>2. DepegPrecision \in Nat \ {0} /\ 1 \in Nat \ {0}
      BY UnitAssumption
    <2>3. /\ up_a = m.multiplier_a * (IF m.depeg THEN DepegPrecision ELSE 1)
          /\ up_b = m.multiplier_b * (IF m.depeg THEN m.virtual_price ELSE 1)
      BY DEF Scale
    <2>. HIDE DEF up_a, up_b
    <2>. QED
      BY <1>1, <2>1, <2>2, <2>3
  <1>. HIDE DEF up_a, up_b
  <1>3. CASE buy = m.flipped
    <2>. DEFINE t == VaultQuote(m, m.a, m.b, up_a, up_b, amount)
    <2>1. q.out = t.out /\ q.market = [m EXCEPT !.a = t.in_vault, !.b = t.out_vault]
      BY <1>3 DEF DammQuote, Quoted, up_a, up_b
    <2>2. t.out > 0
      BY <2>1
    <2>3. /\ t.in_vault \in VaultSide /\ t.out_vault \in VaultSide /\ t.out \in Nat
          /\ m.amp = 0 => Swapped(Reserve(m, m.a), Reserve(m, m.b), Reserve(m, t.in_vault),
                                 Reserve(m, t.out_vault), amount, t.out)
      BY <1>1, <1>2, <2>2, VaultTrades
    <2>. HIDE DEF t
    <2>4. /\ q.market.a = t.in_vault /\ q.market.b = t.out_vault /\ DOMAIN q.market = DOMAIN m
          /\ q.market.trade_fee = m.trade_fee /\ q.market.protocol_fee = m.protocol_fee
          /\ q.market.now = m.now /\ q.market.amp = m.amp /\ q.market.multiplier_a = m.multiplier_a
          /\ q.market.multiplier_b = m.multiplier_b /\ q.market.virtual_price = m.virtual_price
          /\ q.market.enabled = m.enabled /\ q.market.flipped = m.flipped /\ q.market.depeg = m.depeg
          /\ q.out = t.out
      BY <1>1, <2>1
    <2>5. DammMarket(q.market)
      BY <1>1, <2>3, <2>4 DEF DammMarket
    <2>6. /\ Reserve(q.market, q.market.a) = Reserve(m, t.in_vault)
          /\ Reserve(q.market, q.market.b) = Reserve(m, t.out_vault)
      BY <1>1, <2>3, <2>4, SameReserve
    <2>. QED
      BY <1>3, <2>3, <2>4, <2>5, <2>6
  <1>4. CASE buy # m.flipped
    <2>. DEFINE t == VaultQuote(m, m.b, m.a, up_b, up_a, amount)
    <2>1. q.out = t.out /\ q.market = [m EXCEPT !.b = t.in_vault, !.a = t.out_vault]
      BY <1>4 DEF DammQuote, Quoted, up_a, up_b
    <2>2. t.out > 0
      BY <2>1
    <2>3. /\ t.in_vault \in VaultSide /\ t.out_vault \in VaultSide /\ t.out \in Nat
          /\ m.amp = 0 => Swapped(Reserve(m, m.b), Reserve(m, m.a), Reserve(m, t.in_vault),
                                 Reserve(m, t.out_vault), amount, t.out)
      BY <1>1, <1>2, <2>2, VaultTrades
    <2>. HIDE DEF t
    <2>4. /\ q.market.b = t.in_vault /\ q.market.a = t.out_vault /\ DOMAIN q.market = DOMAIN m
          /\ q.market.trade_fee = m.trade_fee /\ q.market.protocol_fee = m.protocol_fee
          /\ q.market.now = m.now /\ q.market.amp = m.amp /\ q.market.multiplier_a = m.multiplier_a
          /\ q.market.multiplier_b = m.multiplier_b /\ q.market.virtual_price = m.virtual_price
          /\ q.market.enabled = m.enabled /\ q.market.flipped = m.flipped /\ q.market.depeg = m.depeg
          /\ q.out = t.out
      BY <1>1, <2>1
    <2>5. DammMarket(q.market)
      BY <1>1, <2>3, <2>4 DEF DammMarket
    <2>6. /\ Reserve(q.market, q.market.b) = Reserve(m, t.in_vault)
          /\ Reserve(q.market, q.market.a) = Reserve(m, t.out_vault)
      BY <1>1, <2>3, <2>4, SameReserve
    <2>. QED
      BY <1>4, <2>3, <2>4, <2>5, <2>6
  <1>. QED
    BY <1>3, <1>4

-----------------------------------------------------------------------------
(* The ladder of a dynamic bonding curve: what has been paid to climb to a  *)
(* price, and what is for sale above it, move with the trades.             *)

\* The segments of a dynamic bonding curve, in rising order from its start
Ladder(m) ==
    /\ m.curve \in Seq([price : Nat \ {0}, liquidity : Nat \ {0}]) /\ m.curve # <<>>
    /\ \A i, j \in 1 .. Len(m.curve) : i <= j => m.curve[i].price <= m.curve[j].price
    /\ m.start_price \in Nat \ {0} /\ m.migration_price \in Nat
    /\ m.start_price <= m.migration_price /\ m.start_price <= m.curve[1].price

\* Its rungs rise.
LEMMA LadderIs ==
    ASSUME NEW m, Ladder(m)
    PROVE  /\ Len(m.curve) \in Nat \ {0} /\ Rung(m, 0) = m.start_price
           /\ \A i \in 1 .. Len(m.curve) :
                 /\ m.curve[i].price \in Nat \ {0} /\ m.curve[i].liquidity \in Nat \ {0}
                 /\ Rung(m, i) = Min({m.migration_price, m.curve[i].price})
                 /\ Rung(m, i) = IF m.migration_price <= m.curve[i].price THEN m.migration_price
                                 ELSE m.curve[i].price
           /\ \A i \in 0 .. Len(m.curve) : Rung(m, i) \in Nat \ {0} /\ Rung(m, i) <= m.migration_price
           /\ \A i, j \in 0 .. Len(m.curve) : i <= j => Rung(m, i) <= Rung(m, j)
  <1>. DEFINE N == Len(m.curve)
              c == m.curve
              top == m.migration_price
              s == m.start_price
  <1>1. /\ c \in Seq([price : Nat \ {0}, liquidity : Nat \ {0}]) /\ c # <<>> /\ s \in Nat \ {0}
        /\ top \in Nat /\ s <= top /\ s <= c[1].price
        /\ \A i, j \in 1 .. N : i <= j => c[i].price <= c[j].price
    BY DEF Ladder
  <1>2. N \in Nat /\ N # 0
    BY <1>1
  <1>3. \A i \in 1 .. N : c[i] \in [price : Nat \ {0}, liquidity : Nat \ {0}]
    <2>. DEFINE R == [price : Nat \ {0}, liquidity : Nat \ {0}]
    <2>1. c \in Seq(R)
      BY <1>1
    <2>. HIDE DEF R, c
    <2>2. \A i \in 1 .. Len(c) : c[i] \in R
      BY <2>1
    <2>. QED
      BY <2>2 DEF R, c
  <1>4. \A i \in 1 .. N : c[i].price \in Nat \ {0} /\ c[i].liquidity \in Nat \ {0}
    BY <1>3
  <1>5. Rung(m, 0) = s
    BY DEF Rung
  <1>6. \A i \in 1 .. N : Rung(m, i) = Min({top, c[i].price})
    BY <1>2 DEF Rung
  <1>. HIDE DEF N, c, top, s
  <1>7. \A i \in 1 .. N : Rung(m, i) = IF top <= c[i].price THEN top ELSE c[i].price
    <2>. TAKE i \in 1 .. N
    <2>1. top \in Int /\ c[i].price \in Int
      BY <1>1, <1>4
    <2>2. Min({top, c[i].price}) = IF top <= c[i].price THEN top ELSE c[i].price
      BY <2>1, MinOfTwo
    <2>. QED
      BY <1>6, <2>2
  <1>8. \A i \in 0 .. N : Rung(m, i) \in Nat \ {0} /\ Rung(m, i) <= top
    <2>. TAKE i \in 0 .. N
    <2>1. CASE i = 0
      BY <1>1, <1>5, <2>1
    <2>2. CASE i # 0
      <3>1. i \in 1 .. N
        BY <1>2, <2>2
      <3>2. c[i].price \in Nat \ {0} /\ Rung(m, i) = IF top <= c[i].price THEN top ELSE c[i].price
        BY <1>4, <1>7, <3>1
      <3>. QED
        BY <1>1, <3>2
    <2>. QED
      BY <2>1, <2>2
  <1>9. ASSUME NEW i \in 0 .. N, NEW j \in 0 .. N, i <= j PROVE Rung(m, i) <= Rung(m, j)
    <2>1. CASE j = 0
      BY <1>8, <1>9, <2>1
    <2>2. CASE j # 0
      <3>1. j \in 1 .. N /\ 1 \in 1 .. N
        BY <1>2, <2>2
      <3>2. c[j].price \in Nat \ {0} /\ Rung(m, j) = IF top <= c[j].price THEN top ELSE c[j].price
        BY <1>4, <1>7, <3>1
      <3>3. CASE i = 0
        <4>1. c[1].price <= c[j].price /\ c[1].price \in Nat
          BY <1>1, <1>4, <3>1
        <4>2. s \in Nat /\ top \in Nat /\ s <= top /\ s <= c[1].price
          BY <1>1
        <4>. QED
          BY <1>5, <3>2, <3>3, <4>1, <4>2
      <3>4. CASE i # 0
        <4>1. i \in 1 .. N
          BY <1>2, <3>4
        <4>2. c[i].price \in Nat \ {0}
          BY <1>4, <4>1
        <4>3. Rung(m, i) = IF top <= c[i].price THEN top ELSE c[i].price
          BY <1>7, <4>1
        <4>4. \A a, b \in 1 .. N : a <= b => c[a].price <= c[b].price
          BY <1>1
        <4>5. c[i].price <= c[j].price
          BY <1>9, <3>1, <4>1, <4>4, Zenon
        <4>6. top \in Nat
          BY <1>1
        <4>. QED
          BY <3>2, <4>2, <4>3, <4>5, <4>6
      <3>. QED
        BY <3>3, <3>4
    <2>. QED
      BY <2>1, <2>2
  <1>. QED
    BY <1>2, <1>4, <1>5, <1>6, <1>7, <1>8, <1>9 DEF N, c, top, s

\* What of a segment lies below a price
LEMMA ReachedIs ==
    ASSUME NEW m, Ladder(m), NEW i \in 1 .. Len(m.curve), NEW p \in Nat \ {0}
    PROVE  /\ i - 1 \in 0 .. Len(m.curve) /\ i \in 0 .. Len(m.curve)
           /\ Reached(m, i, p) \in Nat \ {0}
           /\ Rung(m, i - 1) <= Reached(m, i, p) /\ Reached(m, i, p) <= Rung(m, i)
           /\ Reached(m, i, p) = IF p <= Rung(m, i - 1) THEN Rung(m, i - 1)
                                 ELSE IF p <= Rung(m, i) THEN p ELSE Rung(m, i)
  <1>. DEFINE lo == Rung(m, i - 1)
              hi == Rung(m, i)
  <1>1. Len(m.curve) \in Nat /\ i - 1 \in 0 .. Len(m.curve) /\ i \in 0 .. Len(m.curve) /\ i - 1 <= i
    BY LadderIs
  <1>2. lo \in Nat \ {0} /\ hi \in Nat \ {0} /\ lo <= hi
    BY <1>1, LadderIs
  <1>3. Reached(m, i, p) = Max({lo, Min({hi, p})})
    BY DEF Reached
  <1>. HIDE DEF lo, hi
  <1>4. Min({hi, p}) = IF hi <= p THEN hi ELSE p
    BY <1>2, MinOfTwo
  <1>. DEFINE k == Min({hi, p})
  <1>5. k \in Nat \ {0}
    BY <1>2, <1>4
  <1>. HIDE DEF k
  <1>6. Max({lo, k}) = IF lo >= k THEN lo ELSE k
    BY <1>2, <1>5, MaxOfTwo
  <1>. QED
    BY <1>1, <1>2, <1>3, <1>4, <1>6 DEF k, lo, hi

\* What climbing to a price costs, times CurveQ squared; what there is between
\* a price and others, one in each segment, rounded up in each.
CostTo(m, p) ==
    SumFunction([i \in 1 .. Len(m.curve) |->
        m.curve[i].liquidity * (Reached(m, i, p) - Rung(m, i - 1))])
Part(l, x, a) == CeilDiv(l * (a - x), x * a)
Between(m, p, a) ==
    SumFunction([i \in 1 .. Len(m.curve) |-> Part(m.curve[i].liquidity, Reached(m, i, p), a[i])])

\* A rounded quotient is a number, of a negative one too, and the least that
\* covers.
LEMMA CeilOf ==
    ASSUME NEW k \in Int, NEW n \in Nat \ {0}
    PROVE  /\ CeilDiv(k, n) \in Int /\ k <= CeilDiv(k, n) * n
           /\ \A c \in Int : k <= c * n => CeilDiv(k, n) <= c
  <1>. DEFINE q == (k + n - 1) \div n
  <1>1. q \in Int /\ q * n <= k + n - 1 /\ k + n - 1 < q * n + n
    OBVIOUS
  <1>2. CeilDiv(k, n) = q
    BY DEF CeilDiv
  <1>3. k <= q * n
    BY <1>1
  <1>4. ASSUME NEW c \in Int, k <= c * n PROVE q <= c
    <2>. HIDE DEF q
    <2>. SUFFICES ASSUME q >= c + 1 PROVE FALSE
      BY <1>1
    <2>1. (c + 1) * n <= q * n
      BY <1>1, TimesKeepsOrder
    <2>2. (c + 1) * n = c * n + n
      OBVIOUS
    <2>. QED
      BY <1>1, <1>4, <2>1, <2>2
  <1>. QED
    BY <1>1, <1>2, <1>3, <1>4

\* From a price to another of the segment: what there is to a third changes by
\* no more than what is given for the difference, or less what is got for it.
LEMMA PartMoves ==
    ASSUME NEW l \in Nat \ {0}, NEW a \in Nat \ {0}, NEW p \in Nat \ {0}, NEW q \in Nat \ {0},
           NEW d \in Int, l * (p - q) <= d * (p * q)
    PROVE  /\ Part(l, p, a) \in Int /\ Part(l, q, a) \in Int
           /\ Part(l, q, a) <= Part(l, p, a) + d
  <1>. DEFINE k == Part(l, p, a)
              P == p * a
              x == l * (a - p)
              y == l * (a - q)
  <1>1. P \in Nat \ {0} /\ x \in Int /\ y \in Int /\ q * a \in Nat \ {0} /\ l * (p - q) \in Int /\ p * q \in Nat \ {0}
    OBVIOUS
  <1>2. k = CeilDiv(x, P) /\ Part(l, q, a) = CeilDiv(y, q * a)
    BY DEF Part
  <1>. HIDE DEF x, y, P, k
  <1>3. k \in Int /\ x <= k * P
    BY <1>1, <1>2, CeilOf
  <1>4. Part(l, q, a) \in Int /\ \A c \in Int : y <= c * (q * a) => Part(l, q, a) <= c
    BY <1>1, <1>2, CeilOf
  <1>5. x * q <= (k * P) * q
    BY <1>1, <1>3, TimesKeepsOrder
  <1>6. (l * (p - q)) * a <= (d * (p * q)) * a
    BY <1>1, TimesKeepsOrder
  <1>7. x * q + (l * (p - q)) * a = y * p
    BY DEF x, y
  <1>8. (k * P) * q + (d * (p * q)) * a = ((k + d) * (q * a)) * p
    <2>1. (k * P) * q = (k * (q * a)) * p
      BY <1>3 DEF P
    <2>2. (d * (p * q)) * a = (d * (q * a)) * p
      OBVIOUS
    <2>. DEFINE z == q * a
    <2>3. z \in Nat /\ (k + d) * z = k * z + d * z /\ k * z \in Int /\ d * z \in Int
      BY <1>3
    <2>. HIDE DEF z
    <2>4. (k * z + d * z) * p = (k * z) * p + (d * z) * p
      BY <2>3
    <2>. QED
      BY <2>1, <2>2, <2>3, <2>4 DEF z
  <1>. DEFINE c == (k + d) * (q * a)
  <1>9. c \in Int
    BY <1>3
  <1>. HIDE DEF c
  <1>10. y * p <= c * p
    <2>1. /\ x * q \in Int /\ (k * P) * q \in Int /\ (l * (p - q)) * a \in Int /\ (d * (p * q)) * a \in Int
          /\ c * p \in Int
      BY <1>1, <1>3, <1>9
    <2>. QED
      BY <1>5, <1>6, <1>7, <1>8, <2>1 DEF c
  <1>11. y <= c
    <2>. SUFFICES ASSUME c + 1 <= y PROVE FALSE
      BY <1>1, <1>9
    <2>1. (c + 1) * p <= y * p
      BY <1>1, <1>9, TimesKeepsOrder
    <2>2. (c + 1) * p = c * p + p /\ c * p \in Int /\ y * p \in Int
      BY <1>1, <1>9
    <2>. QED
      BY <1>10, <2>1, <2>2
  <1>. QED
    BY <1>3, <1>4, <1>11 DEF c, k

\* A part is a number.
LEMMA PartInt ==
    ASSUME NEW l \in Nat \ {0}, NEW x \in Nat \ {0}, NEW a \in Nat \ {0}
    PROVE  Part(l, x, a) \in Int
  <1>1. l * (a - x) \in Int /\ x * a \in Nat \ {0}
    OBVIOUS
  <1>. QED
    BY <1>1, CeilOf DEF Part

\* A price of a segment is reached in it; one below it all of it, one above none.
LEMMA ReachedBetween ==
    ASSUME NEW m, Ladder(m), NEW i \in 1 .. Len(m.curve), NEW p \in Nat \ {0},
           Rung(m, i - 1) <= p, p <= Rung(m, i)
    PROVE  /\ Reached(m, i, p) = p
           /\ \A j \in 1 .. Len(m.curve) : /\ j < i => Reached(m, j, p) = Rung(m, j)
                                           /\ i < j => Reached(m, j, p) = Rung(m, j - 1)
  <1>1. Len(m.curve) \in Nat /\ i - 1 \in 0 .. Len(m.curve) /\ i \in 0 .. Len(m.curve)
    BY LadderIs
  <1>2. Rung(m, i - 1) \in Nat /\ Rung(m, i) \in Nat
    BY <1>1, LadderIs
  <1>3. Reached(m, i, p) = IF p <= Rung(m, i - 1) THEN Rung(m, i - 1)
                           ELSE IF p <= Rung(m, i) THEN p ELSE Rung(m, i)
    BY ReachedIs
  <1>4. Reached(m, i, p) = p
    BY <1>2, <1>3
  <1>5. ASSUME NEW j \in 1 .. Len(m.curve)
        PROVE  /\ j < i => Reached(m, j, p) = Rung(m, j)
               /\ i < j => Reached(m, j, p) = Rung(m, j - 1)
    <2>1. j - 1 \in 0 .. Len(m.curve) /\ j \in 0 .. Len(m.curve) /\ j - 1 <= j
      BY <1>1
    <2>2. /\ Rung(m, j - 1) \in Nat /\ Rung(m, j) \in Nat
          /\ Rung(m, j - 1) <= Rung(m, j)
      BY <2>1, LadderIs
    <2>3. Reached(m, j, p) = IF p <= Rung(m, j - 1) THEN Rung(m, j - 1)
                             ELSE IF p <= Rung(m, j) THEN p ELSE Rung(m, j)
      BY ReachedIs
    <2>4. ASSUME j < i PROVE Rung(m, j) <= Rung(m, i - 1)
      <3>1. j <= i - 1
        BY <2>4
      <3>. QED
        BY <1>1, <2>1, <3>1, LadderIs
    <2>5. ASSUME i < j PROVE Rung(m, i) <= Rung(m, j - 1)
      <3>1. i <= j - 1
        BY <2>5
      <3>. QED
        BY <1>1, <2>1, <3>1, LadderIs
    <2>6. ASSUME j < i PROVE Reached(m, j, p) = Rung(m, j)
      BY <1>2, <2>2, <2>3, <2>4, <2>6
    <2>7. ASSUME i < j PROVE Reached(m, j, p) = Rung(m, j - 1)
      BY <1>2, <2>2, <2>3, <2>5, <2>7
    <2>. QED
      BY <2>6, <2>7
  <1>. QED
    BY <1>4, <1>5

\* The sums are numbers.
LEMMA LadderSums ==
    ASSUME NEW m, Ladder(m), NEW p \in Nat \ {0}, NEW a \in [1 .. Len(m.curve) -> Nat \ {0}]
    PROVE  CostTo(m, p) \in Int /\ Between(m, p, a) \in Int
  <1>. DEFINE S == 1 .. Len(m.curve)
              f == [i \in S |-> m.curve[i].liquidity * (Reached(m, i, p) - Rung(m, i - 1))]
              g == [i \in S |-> Part(m.curve[i].liquidity, Reached(m, i, p), a[i])]
  <1>1. IsFiniteSet(S)
    <2>1. Len(m.curve) \in Int /\ 1 \in Int
      BY LadderIs
    <2>. QED
      BY <2>1, FS_Interval
  <1>2. \A i \in S : /\ m.curve[i].liquidity \in Nat \ {0} /\ Reached(m, i, p) \in Nat \ {0}
                     /\ Rung(m, i - 1) \in Nat \ {0} /\ a[i] \in Nat \ {0}
    BY LadderIs, ReachedIs
  <1>3. \A i \in S : f[i] \in Int
    BY <1>2
  <1>4. \A i \in S : g[i] \in Int
    BY <1>2, PartInt
  <1>5. f \in [S -> Int] /\ g \in [S -> Int]
    BY <1>3, <1>4
  <1>6. CostTo(m, p) = SumFunction(f) /\ Between(m, p, a) = SumFunction(g)
    BY DEF CostTo, Between
  <1>. HIDE DEF f, g, S
  <1>. QED
    BY <1>1, <1>5, <1>6, SumInt

\* The cost is one whatever there is in between.
LEMMA CostInt ==
    ASSUME NEW m, Ladder(m), NEW p \in Nat \ {0}
    PROVE  CostTo(m, p) \in Int
  <1>. DEFINE a == [j \in 1 .. Len(m.curve) |-> 1]
  <1>1. a \in [1 .. Len(m.curve) -> Nat \ {0}]
    OBVIOUS
  <1>. HIDE DEF a
  <1>. QED
    BY <1>1, LadderSums

\* Along a segment the cost changes by its liquidity for every step, and what
\* there is to other prices by no more than what is given or got for it.
LEMMA LadderMoves ==
    ASSUME NEW m, Ladder(m), NEW i \in 1 .. Len(m.curve), NEW p \in Nat \ {0}, NEW q \in Nat \ {0},
           Rung(m, i - 1) <= p, p <= Rung(m, i), Rung(m, i - 1) <= q, q <= Rung(m, i)
    PROVE  /\ CostTo(m, q) = CostTo(m, p) + m.curve[i].liquidity * (q - p)
           /\ \A a \in [1 .. Len(m.curve) -> Nat \ {0}], d \in Int :
                 m.curve[i].liquidity * (p - q) <= d * (p * q)
                     => Between(m, q, a) <= Between(m, p, a) + d
  <1>. DEFINE S == 1 .. Len(m.curve)
              l == m.curve[i].liquidity
              f == [j \in S |-> m.curve[j].liquidity * (Reached(m, j, p) - Rung(m, j - 1))]
              g == [j \in S |-> m.curve[j].liquidity * (Reached(m, j, q) - Rung(m, j - 1))]
  <1>1. IsFiniteSet(S)
    <2>1. Len(m.curve) \in Int /\ 1 \in Int
      BY LadderIs
    <2>. QED
      BY <2>1, FS_Interval
  <1>2. \A j \in S : /\ m.curve[j].liquidity \in Nat \ {0} /\ Reached(m, j, p) \in Nat \ {0}
                     /\ Reached(m, j, q) \in Nat \ {0} /\ Rung(m, j - 1) \in Nat \ {0}
    BY LadderIs, ReachedIs
  <1>3. Reached(m, i, p) = p /\ Reached(m, i, q) = q
    BY ReachedBetween
  <1>4. ASSUME NEW j \in S, j # i PROVE Reached(m, j, p) = Reached(m, j, q)
    <2>1. /\ j < i => Reached(m, j, p) = Rung(m, j)
          /\ i < j => Reached(m, j, p) = Rung(m, j - 1)
      BY ReachedBetween
    <2>2. /\ j < i => Reached(m, j, q) = Rung(m, j)
          /\ i < j => Reached(m, j, q) = Rung(m, j - 1)
      BY ReachedBetween
    <2>3. j < i \/ i < j
      BY <1>4
    <2>. QED
      BY <2>1, <2>2, <2>3
  <1>0. \A u, v \in [S -> Int] :
           (\A j \in S \ {i} : u[j] = v[j]) => SumFunction(v) = SumFunction(u) + (v[i] - u[i])
    <2>1. i \in S
      OBVIOUS
    <2>. HIDE DEF S
    <2>. QED
      BY <1>1, <2>1, OneTermChanges, Zenon
  <1>5. CostTo(m, q) = CostTo(m, p) + l * (q - p)
    <2>1. CostTo(m, p) = SumFunction(f) /\ CostTo(m, q) = SumFunction(g)
      BY DEF CostTo
    <2>2. f \in [S -> Int] /\ g \in [S -> Int]
      <3>1. ASSUME NEW j \in S PROVE f[j] \in Int /\ g[j] \in Int
        <4>. DEFINE w == m.curve[j].liquidity
                    x == Reached(m, j, p)
                    y == Reached(m, j, q)
                    lo == Rung(m, j - 1)
        <4>1. w \in Int /\ x \in Int /\ y \in Int /\ lo \in Int
          <5>1. w \in Nat \ {0} /\ x \in Nat \ {0} /\ y \in Nat \ {0} /\ lo \in Nat \ {0}
            BY <1>2, Zenon
          <5>. HIDE DEF w, x, y, lo
          <5>. QED
            BY <5>1
        <4>2. f[j] = w * (x - lo) /\ g[j] = w * (y - lo)
          OBVIOUS
        <4>. HIDE DEF w, x, y, lo, f, g
        <4>. QED
          BY <4>1, <4>2
      <3>. QED
        BY <3>1
    <2>3. \A j \in S \ {i} : f[j] = g[j]
      BY <1>4
    <2>4. g[i] - f[i] = l * (q - p)
      <3>1. g[i] = l * (q - Rung(m, i - 1)) /\ f[i] = l * (p - Rung(m, i - 1))
        BY <1>3
      <3>2. l \in Int /\ Rung(m, i - 1) \in Int
        BY <1>2
      <3>. HIDE DEF l, f, g
      <3>. QED
        BY <3>1, <3>2
    <2>. HIDE DEF f, g, S
    <2>5. SumFunction(g) = SumFunction(f) + (g[i] - f[i])
      BY <1>0, <2>2, <2>3
    <2>. QED
      BY <2>1, <2>4, <2>5
  <1>6. ASSUME NEW a \in [S -> Nat \ {0}], NEW d \in Int, l * (p - q) <= d * (p * q)
        PROVE  Between(m, q, a) <= Between(m, p, a) + d
    <2>. DEFINE u == [j \in S |-> Part(m.curve[j].liquidity, Reached(m, j, p), a[j])]
                v == [j \in S |-> Part(m.curve[j].liquidity, Reached(m, j, q), a[j])]
    <2>1. Between(m, p, a) = SumFunction(u) /\ Between(m, q, a) = SumFunction(v)
      BY DEF Between
    <2>2. \A j \in S \ {i} : u[j] = v[j]
      BY <1>4
    <2>3. u[i] = Part(l, p, a[i]) /\ v[i] = Part(l, q, a[i]) /\ l \in Nat \ {0} /\ a[i] \in Nat \ {0}
      BY <1>2, <1>3
    <2>. HIDE DEF u, v, l, f, g
    <2>4. v[i] <= u[i] + d
      <3>1. Part(l, q, a[i]) <= Part(l, p, a[i]) + d
        BY <1>6, <2>3, PartMoves, Zenon
      <3>. QED
        BY <2>3, <3>1
    <2>5. \A j \in S : u[j] \in Int /\ v[j] \in Int
      <3>. TAKE j \in S
      <3>1. /\ u[j] = Part(m.curve[j].liquidity, Reached(m, j, p), a[j])
            /\ v[j] = Part(m.curve[j].liquidity, Reached(m, j, q), a[j])
        BY DEF u, v
      <3>2. a[j] \in Nat \ {0}
        OBVIOUS
      <3>3. /\ m.curve[j].liquidity \in Nat \ {0} /\ Reached(m, j, p) \in Nat \ {0}
            /\ Reached(m, j, q) \in Nat \ {0}
        BY <1>2, Zenon
      <3>4. /\ Part(m.curve[j].liquidity, Reached(m, j, p), a[j]) \in Int
            /\ Part(m.curve[j].liquidity, Reached(m, j, q), a[j]) \in Int
        BY <3>2, <3>3, PartInt, Zenon
      <3>. QED
        BY <3>1, <3>4, Zenon
    <2>6. u \in [S -> Int] /\ v \in [S -> Int]
      BY <2>5 DEF u, v
    <2>. HIDE DEF S
    <2>7. i \in S
      BY DEF S
    <2>8. \A y \in S \ {i} : u[y] = v[y]
      BY <2>2
    <2>9. SumFunction(v) = SumFunction(u) + (v[i] - u[i])
      BY <1>0, <2>6, <2>8
    <2>11. SumFunction(u) \in Int
      BY <1>1, <2>6, SumInt
    <2>10. u[i] \in Int /\ v[i] \in Int
      BY <2>5, <2>7
    <2>. QED
      BY <2>1, <2>4, <2>9, <2>10, <2>11
  <1>. QED
    BY <1>5, <1>6

\* A place on the ladder, with what is left to trade and what was got
Walk == [price : Nat \ {0}, left : Nat, out : Nat]

\* 2^128
CurveQ2 == CurveQ * CurveQ

\* A stretch of the ladder from one place to another: what it costs is paid out
\* of what was left, what it gives is got.
Climbs(at, r, l) ==
    /\ at.price <= r.price /\ r.left <= at.left /\ at.out <= r.out
    /\ l * (r.price - at.price) <= (at.left - r.left) * CurveQ2
    /\ l * (at.price - r.price) <= (at.out - r.out) * (at.price * r.price)

\* One segment of quote_to_base: nothing, or some of the segment; then nothing
\* is left, or it is done.
LEMMA ClimbStep ==
    ASSUME NEW m, Ladder(m), NEW i \in 1 .. Len(m.curve), NEW at \in Walk,
           NEW r, r = ClimbSegment(m, at, m.curve[i])
    PROVE  /\ r \in Walk
           /\ r.left = 0 \/ Rung(m, i) <= r.price
           /\ at.left = 0 => r = at
           /\ \/ r = at
              \/ r.price <= Rung(m, i) /\ Climbs(at, r, m.curve[i].liquidity)
  <1>. DEFINE l == m.curve[i].liquidity
              to == Rung(m, i)
              p == at.price
              left == at.left
              QQ == CurveQ2
              n == to - p
              k == l * n
              max_in == CeilDiv(k, QQ)
              next == IF left < max_in THEN p + (left * QQ) \div l ELSE to
              rest == Max({0, left - max_in})
              o == (l * (next - p)) \div (p * next)
  <1>1. /\ l \in Nat \ {0} /\ to \in Nat \ {0} /\ to = Min({m.migration_price, m.curve[i].price})
    <2>1. i \in 0 .. Len(m.curve)
      BY LadderIs
    <2>. QED
      BY <2>1, LadderIs
  <1>2. p \in Nat \ {0} /\ left \in Nat /\ at.out \in Nat
    BY DEF Walk
  <1>3. QQ \in Nat \ {0}
    BY UnitAssumption DEF CurveQ2
  <1>4. l # 0 /\ r = IF to <= p THEN at ELSE [price |-> next, left |-> rest, out |-> at.out + o]
    <2>1. left * CurveQ * CurveQ = left * QQ
      BY <1>2, UnitAssumption DEF CurveQ2
    <2>2. DeltaQuote(p, to, l, TRUE) = max_in /\ DeltaBase(p, next, l, FALSE) = o
      BY DEF DeltaQuote, DeltaBase, CurveQ2
    <2>. HIDE DEF o, QQ
    <2>. QED
      BY <1>1, <2>1, <2>2 DEF ClimbSegment
  <1>5. CASE to <= p
    BY <1>4, <1>5
  <1>6. CASE p < to
    <2>1. r = [price |-> next, left |-> rest, out |-> at.out + o]
      BY <1>1, <1>2, <1>4, <1>6
    <2>. HIDE DEF l, to, p, left, QQ
    <2>2. n \in Nat \ {0} /\ k \in Nat
      BY <1>1, <1>2, <1>6
    <2>3. to = p + n
      BY <1>1, <1>2
    <2>. HIDE DEF k, n
    <2>4. max_in \in Int /\ k <= max_in * QQ /\ \A c \in Int : k <= c * QQ => max_in <= c
      <3>1. k \in Int
        BY <2>2
      <3>2. /\ CeilDiv(k, QQ) \in Int /\ k <= CeilDiv(k, QQ) * QQ
            /\ \A c \in Int : k <= c * QQ => CeilDiv(k, QQ) <= c
        BY <1>3, <3>1, CeilOf, Zenon
      <3>. QED
        BY <3>2, Zenon
    <2>. HIDE DEF max_in
    <2>5. rest = IF left < max_in THEN 0 ELSE left - max_in
      <3>1. left - max_in \in Int /\ 0 \in Int
        BY <1>2, <2>4
      <3>2. rest = IF 0 >= left - max_in THEN 0 ELSE left - max_in
        BY <3>1, MaxOfTwo
      <3>. QED
        BY <1>2, <2>4, <3>2
    <2>. HIDE DEF rest
    <2>6. /\ next \in Nat \ {0} /\ p <= next /\ next <= to
          /\ rest \in Nat /\ rest <= left /\ (rest = 0 \/ next = to)
          /\ l * (next - p) <= (left - rest) * QQ
      <3>1. CASE left < max_in
        <4>. DEFINE s == (left * QQ) \div l
        <4>1. left * QQ \in Nat
          BY <1>2, <1>3
        <4>2. s \in Nat /\ s * l <= left * QQ
          BY <1>1, <4>1, Quotient
        <4>3. next = p + s /\ rest = 0
          BY <2>5, <3>1
        <4>. HIDE DEF s, next
        <4>4. left * QQ < k
          BY <1>2, <2>2, <2>4, <3>1, <4>1
        <4>5. s * l <= n * l
          BY <1>1, <2>2, <4>1, <4>2, <4>4 DEF k
        <4>6. s <= n
          BY <1>1, <2>2, <4>2, <4>5, CancelFactor
        <4>7. l * (next - p) = s * l /\ (left - rest) * QQ = left * QQ
          BY <1>1, <1>2, <1>3, <4>2, <4>3
        <4>8. l * (next - p) <= (left - rest) * QQ
          BY <4>2, <4>7
        <4>9. next \in Nat \ {0} /\ p <= next /\ next <= to
          BY <1>1, <1>2, <2>2, <2>3, <4>2, <4>3, <4>6
        <4>10. rest \in Nat /\ rest <= left /\ rest = 0
          BY <1>2, <4>3
        <4>. QED
          BY <4>8, <4>9, <4>10
      <3>2. CASE max_in <= left
        <4>1. next = to /\ rest = left - max_in
          BY <1>2, <2>4, <2>5, <3>2
        <4>. HIDE DEF next
        <4>2. 0 <= max_in
          BY <1>3, <2>2, <2>4
        <4>3. l * (next - p) = k /\ (left - rest) * QQ = max_in * QQ
          BY <1>2, <2>3, <2>2, <2>4, <4>1 DEF k
        <4>4. l * (next - p) <= (left - rest) * QQ
          BY <2>4, <4>3
        <4>5. next \in Nat \ {0} /\ p <= next /\ next <= to
          BY <1>1, <1>2, <1>6, <4>1
        <4>6. rest \in Nat /\ rest <= left /\ (rest = 0 \/ next = to)
          BY <1>2, <2>4, <3>2, <4>1, <4>2
        <4>. QED
          BY <4>4, <4>5, <4>6
      <3>. QED
        BY <1>2, <2>4, <3>1, <3>2
    <2>. HIDE DEF next
    <2>7. o \in Nat /\ o * (p * next) <= l * (next - p)
      <3>1. l * (next - p) \in Nat /\ p * next \in Nat \ {0}
        BY <1>1, <1>2, <2>6
      <3>. QED
        BY <3>1, Quotient
    <2>. HIDE DEF o
    <2>8. /\ r.price = next /\ r.left = rest /\ r.out = at.out + o /\ r \in Walk
      BY <1>2, <2>1, <2>6, <2>7 DEF Walk
    <2>9. r.price <= Rung(m, i) /\ Climbs(at, r, m.curve[i].liquidity)
      <3>1. l * (p - next) <= (-o) * (p * next)
        <4>1. l * (p - next) = -(l * (next - p)) /\ (-o) * (p * next) = -(o * (p * next))
          BY <1>1, <1>2, <2>6, <2>7
        <4>2. l * (next - p) \in Int /\ o * (p * next) \in Int
          BY <1>1, <1>2, <2>6, <2>7
        <4>. QED
          BY <2>7, <4>1, <4>2
      <3>2. at.out - (at.out + o) = -o
        BY <1>2, <2>7
      <3>3. Climbs(at, r, l)
        BY <1>2, <2>6, <2>7, <2>8, <3>1, <3>2 DEF Climbs, p, left, QQ
      <3>. QED
        BY <1>1, <2>6, <2>8, <3>3 DEF l, to
    <2>10. ASSUME at.left = 0 PROVE r = at
      <3>1. left = 0
        BY <2>10 DEF left
      <3>2. left < max_in
        <4>1. 1 <= max_in
          <5>. SUFFICES ASSUME max_in <= 0 PROVE FALSE
            BY <2>4
          <5>1. max_in * QQ <= 0 * QQ
            BY <1>3, <2>4, TimesKeepsOrder
          <5>2. k > 0
            BY <1>1, <2>2 DEF k
          <5>. QED
            BY <1>3, <2>2, <2>4, <5>1, <5>2
        <4>. QED
          BY <2>4, <3>1, <4>1
      <3>3. (left * QQ) \div l = 0
        BY <1>1, <1>3, <3>1
      <3>4. next = p /\ rest = 0
        BY <1>2, <2>5, <3>2, <3>3 DEF next
      <3>5. o = 0
        <4>1. l * (next - p) = 0 /\ p * next \in Nat \ {0}
          BY <1>1, <1>2, <3>4
        <4>. QED
          BY <4>1 DEF o
      <3>6. r = at
        <4>1. at = [price |-> at.price, left |-> at.left, out |-> at.out]
          BY DEF Walk
        <4>2. r = [price |-> p, left |-> left, out |-> at.out]
          BY <1>2, <2>1, <3>1, <3>4, <3>5
        <4>. QED
          BY <4>1, <4>2 DEF p, left
      <3>. QED
        BY <3>6
    <2>11. r.left = 0 \/ Rung(m, i) <= r.price
      BY <1>1, <2>6, <2>8 DEF to
    <2>. QED
      BY <2>8, <2>9, <2>10, <2>11
  <1>. QED
    BY <1>1, <1>2, <1>5, <1>6

\* A stretch of the ladder down: what it gives is got, what it costs paid.
Descends(at, r, l) ==
    /\ r.price <= at.price /\ r.left <= at.left /\ at.out <= r.out
    /\ l * (r.price - at.price) <= (at.out - r.out) * CurveQ2
    /\ l * (at.price - r.price) <= (at.left - r.left) * (at.price * r.price)

\* One stretch of base_to_quote: nothing, or some of the way; then nothing is
\* left, or it is done.  The stop of the last stretch stops nothing.
LEMMA DescendStep ==
    ASSUME NEW l \in Nat \ {0}, NEW to \in Nat \ {0}, NEW at \in Walk, NEW last \in BOOLEAN,
           NEW r, r = DescendTo(at, to, l, last)
    PROVE  /\ r \in Walk
           /\ r.left = 0 \/ r.price <= to
           /\ \/ r = at
              \/ to <= r.price /\ Descends(at, r, l)
  <1>. DEFINE p == at.price
              left == at.left
              QQ == CurveQ2
              k == l * (p - to)
              n == to * p
              max_in == CeilDiv(k, n)
              a == p * l
              d == l + left * p
              by_input == CeilDiv(a, d)
              next == IF last THEN Max({to, by_input}) ELSE IF left < max_in THEN by_input ELSE to
              rest == Max({0, left - max_in})
              o == (l * (p - next)) \div QQ
  <1>1. p \in Nat \ {0} /\ left \in Nat /\ at.out \in Nat
    BY DEF Walk
  <1>2. QQ \in Nat \ {0}
    BY UnitAssumption DEF CurveQ2
  <1>3. r = IF to >= p \/ left = 0 THEN at ELSE [price |-> next, left |-> rest, out |-> at.out + o]
    <2>1. DeltaQuote(next, p, l, FALSE) = o /\ DeltaBase(to, p, l, TRUE) = max_in
      BY DEF DeltaQuote, DeltaBase, CurveQ2
    <2>. HIDE DEF o, max_in, QQ
    <2>. QED
      BY <2>1 DEF DescendTo
  <1>4. CASE to >= p \/ left = 0
    BY <1>3, <1>4
  <1>5. CASE to < p /\ left # 0
    <2>1. r = [price |-> next, left |-> rest, out |-> at.out + o]
      BY <1>1, <1>3, <1>5
    <2>. HIDE DEF p, left, QQ
    <2>2. k \in Nat /\ n \in Nat \ {0}
      BY <1>1, <1>5
    <2>3. a \in Nat /\ d \in Nat \ {0}
      <3>1. left * p \in Nat
        BY <1>1
      <3>. QED
        BY <1>1, <3>1
    <2>4. max_in \in Int /\ k <= max_in * n /\ \A c \in Int : k <= c * n => max_in <= c
      <3>1. k \in Int
        BY <2>2
      <3>. HIDE DEF k, n
      <3>2. /\ CeilDiv(k, n) \in Int /\ k <= CeilDiv(k, n) * n
            /\ \A c \in Int : k <= c * n => CeilDiv(k, n) <= c
        BY <2>2, <3>1, CeilOf, Zenon
      <3>. QED
        BY <3>2, Zenon
    <2>5. by_input \in Int /\ a <= by_input * d /\ \A c \in Int : a <= c * d => by_input <= c
      <3>1. a \in Int
        BY <2>3
      <3>. HIDE DEF a, d
      <3>2. /\ CeilDiv(a, d) \in Int /\ a <= CeilDiv(a, d) * d
            /\ \A c \in Int : a <= c * d => CeilDiv(a, d) <= c
        BY <2>3, <3>1, CeilOf, Zenon
      <3>. QED
        BY <3>2, Zenon
    <2>. HIDE DEF max_in, by_input
    <2>6. rest = IF left < max_in THEN 0 ELSE left - max_in
      <3>1. left - max_in \in Int /\ 0 \in Int
        BY <1>1, <2>4
      <3>2. rest = IF 0 >= left - max_in THEN 0 ELSE left - max_in
        BY <3>1, MaxOfTwo
      <3>. QED
        BY <1>1, <2>4, <3>2
    <2>. HIDE DEF rest
    <2>7. Max({to, by_input}) = IF to >= by_input THEN to ELSE by_input
      BY <2>5, MaxOfTwo
    \* to times the divisor, and the price times it
    <2>8. to * d = to * l + left * n /\ a = to * l + k /\ a <= p * d /\ a \in Int /\ left * n \in Int /\ to * l \in Int
      <3>1. /\ to * d = to * l + to * (left * p) /\ to * (left * p) = left * n
            /\ p * d = p * l + p * (left * p) /\ left * n \in Int /\ to * l \in Int
        BY <1>1
      <3>2. a = to * l + k
        BY <1>1
      <3>3. p * (left * p) \in Nat
        <4>1. left * p \in Nat
          BY <1>1
        <4>. QED
          BY <1>1, <4>1
      <3>. HIDE DEF d, k, n
      <3>. QED
        BY <2>3, <3>1, <3>2, <3>3
    <2>9. by_input <= p
      BY <1>1, <2>5, <2>8
    <2>10. ASSUME left < max_in PROVE to < by_input
      <3>1. left * n < k
        BY <1>1, <2>2, <2>4, <2>8, <2>10
      <3>2. to * d < a
        <4>. HIDE DEF a, d, k, n
        <4>. QED
          BY <2>2, <2>8, <3>1
      <3>. SUFFICES ASSUME by_input <= to PROVE FALSE
        BY <2>5
      <3>3. by_input * d <= to * d
        BY <2>3, <2>5, TimesKeepsOrder
      <3>4. by_input * d \in Int /\ to * d \in Int
        BY <2>3, <2>5
      <3>. HIDE DEF a, d
      <3>. QED
        BY <2>3, <2>5, <3>2, <3>3, <3>4
    <2>11. ASSUME max_in <= left PROVE by_input <= to
      <3>1. k <= left * n
        <4>1. max_in * n <= left * n
          BY <1>1, <2>2, <2>4, <2>11, TimesKeepsOrder
        <4>2. max_in * n \in Int
          BY <2>2, <2>4
        <4>. HIDE DEF k, n
        <4>. QED
          BY <2>2, <2>4, <2>8, <4>1, <4>2
      <3>2. a <= to * d
        <4>. HIDE DEF a, d, k, n
        <4>. QED
          BY <2>2, <2>8, <3>1
      <3>. QED
        BY <2>5, <3>2
    <2>12. next = IF left < max_in THEN by_input ELSE to
      <3>1. CASE left < max_in
        BY <2>5, <2>7, <2>10, <3>1
      <3>2. CASE max_in <= left
        BY <1>1, <2>4, <2>5, <2>7, <2>11, <3>2
      <3>. QED
        BY <1>1, <2>4, <3>1, <3>2
    <2>. HIDE DEF next
    <2>13. /\ next \in Nat \ {0} /\ to <= next /\ next <= p
           /\ rest \in Nat /\ rest <= left /\ (rest = 0 \/ next = to)
           /\ l * (p - next) <= (left - rest) * (p * next)
      <3>1. CASE left < max_in
        <4>1. next = by_input /\ rest = 0
          BY <2>6, <2>12, <3>1
        <4>2. next \in Nat \ {0} /\ to <= next /\ next <= p
          BY <2>5, <2>9, <2>10, <3>1, <4>1
        <4>3. l * (p - next) <= (left - rest) * (p * next)
          <5>1. a <= next * d
            BY <2>5, <4>1
          <5>2. next * d = next * l + left * (p * next)
            <6>1. next * d = next * l + next * (left * p) /\ next * (left * p) = left * (p * next)
              BY <1>1, <4>2
            <6>. QED
              BY <6>1
          <5>3. l * (p - next) = a - next * l
            BY <1>1, <4>2
          <5>4. (left - rest) * (p * next) = left * (p * next)
            BY <1>1, <4>1
          <5>5. a \in Int /\ next * l \in Int /\ left * (p * next) \in Int
            BY <1>1, <2>3, <4>2
          <5>. HIDE DEF a, d
          <5>. QED
            BY <5>1, <5>2, <5>3, <5>4, <5>5
        <4>. QED
          BY <1>1, <4>1, <4>2, <4>3
      <3>2. CASE max_in <= left
        <4>1. next = to /\ rest = left - max_in
          BY <1>1, <2>4, <2>6, <2>12, <3>2
        <4>2. 0 <= max_in
          <5>1. k > 0
            BY <1>1, <1>5
          <5>. SUFFICES ASSUME max_in <= 0 PROVE FALSE
            BY <2>4
          <5>2. max_in * n <= 0 * n
            BY <2>2, <2>4, TimesKeepsOrder
          <5>3. max_in * n \in Int
            BY <2>2, <2>4
          <5>. HIDE DEF k, n
          <5>. QED
            BY <2>2, <2>4, <5>1, <5>2, <5>3
        <4>3. l * (p - next) = k /\ p * next = n
          BY <1>1, <4>1
        <4>4. left - rest = max_in
          BY <1>1, <2>4, <4>1
        <4>5. l * (p - next) <= (left - rest) * (p * next)
          BY <2>4, <4>3, <4>4
        <4>. QED
          BY <1>1, <1>5, <2>4, <3>2, <4>1, <4>2, <4>5
      <3>. QED
        BY <1>1, <2>4, <3>1, <3>2
    <2>. HIDE DEF k, n, a, d
    <2>14. o \in Nat /\ o * QQ <= l * (p - next)
      <3>1. l * (p - next) \in Nat
        BY <1>1, <2>13
      <3>. QED
        BY <1>2, <3>1, Quotient
    <2>. HIDE DEF o
    <2>15. r.price = next /\ r.left = rest /\ r.out = at.out + o /\ r \in Walk
      BY <1>1, <2>1, <2>13, <2>14 DEF Walk
    <2>16. l * (next - p) <= (-o) * QQ
      <3>1. l * (next - p) = -(l * (p - next)) /\ (-o) * QQ = -(o * QQ)
        BY <1>1, <1>2, <2>13, <2>14
      <3>2. l * (p - next) \in Int /\ o * QQ \in Int
        BY <1>1, <1>2, <2>13, <2>14
      <3>. QED
        BY <2>14, <3>1, <3>2
    <2>17. at.out - (at.out + o) = -o
      BY <1>1, <2>14
    <2>18. Descends(at, r, l)
      BY <1>1, <2>13, <2>14, <2>15, <2>16, <2>17 DEF Descends, p, left, QQ
    <2>. QED
      BY <2>13, <2>15, <2>18
  <1>. QED
    BY <1>1, <1>4, <1>5

\* Somewhere up the ladder from a price, segment n done or nothing left
Upward(m, p0, amount, n, r) ==
    /\ r \in Walk /\ r.left <= amount
    /\ r.left = 0 \/ Rung(m, n) <= r.price
    /\ p0 <= r.price /\ r.price <= Rung(m, Len(m.curve))
    /\ CostTo(m, r.price) <= CostTo(m, p0) + (amount - r.left) * CurveQ2
    /\ \A a \in [1 .. Len(m.curve) -> Nat \ {0}] : Between(m, r.price, a) + r.out <= Between(m, p0, a)

\* Somewhere down from it, to the start or the rung reached
Downward(m, p0, amount, n, r) ==
    /\ r \in Walk /\ r.left <= amount
    /\ r.left = 0 \/ r.price <= Rung(m, n)
    /\ r.price <= p0 /\ Rung(m, 0) <= r.price
    /\ CostTo(m, r.price) + r.out * CurveQ2 <= CostTo(m, p0)
    /\ \A a \in [1 .. Len(m.curve) -> Nat \ {0}] :
          Between(m, r.price, a) <= Between(m, p0, a) + (amount - r.left)

\* Another segment of a climb
LEMMA UpStep ==
    ASSUME NEW m, Ladder(m), NEW p0 \in Nat \ {0}, NEW amount \in Nat, NEW i \in 1 .. Len(m.curve),
           NEW at, Upward(m, p0, amount, i - 1, at), NEW r, r = ClimbSegment(m, at, m.curve[i])
    PROVE  Upward(m, p0, amount, i, r)
  <1>. DEFINE l == m.curve[i].liquidity
              N == Len(m.curve)
              A == [1 .. N -> Nat \ {0}]
  <1>1. /\ at \in Walk /\ at.left <= amount /\ (at.left = 0 \/ Rung(m, i - 1) <= at.price)
        /\ p0 <= at.price /\ at.price <= Rung(m, N)
        /\ CostTo(m, at.price) <= CostTo(m, p0) + (amount - at.left) * CurveQ2
        /\ \A a \in A : Between(m, at.price, a) + at.out <= Between(m, p0, a)
    BY DEF Upward
  <1>2. /\ r \in Walk
        /\ r.left = 0 \/ Rung(m, i) <= r.price
        /\ \/ r = at
           \/ Rung(m, i - 1) <= at.price /\ r.price <= Rung(m, i) /\ Climbs(at, r, l)
    <2>1. /\ r \in Walk
          /\ r.left = 0 \/ Rung(m, i) <= r.price
          /\ at.left = 0 => r = at
          /\ \/ r = at
             \/ r.price <= Rung(m, i) /\ Climbs(at, r, l)
      BY <1>1, ClimbStep
    <2>. HIDE DEF l
    <2>. QED
      BY <1>1, <2>1
  <1>3. CASE r = at
    BY <1>1, <1>2, <1>3 DEF Upward
  <1>4. CASE Rung(m, i - 1) <= at.price /\ r.price <= Rung(m, i) /\ Climbs(at, r, l)
    <2>. DEFINE p == at.price
                q == r.price
                d == at.out - r.out
    <2>1. /\ p \in Nat \ {0} /\ q \in Nat \ {0} /\ at.left \in Nat /\ r.left \in Nat
          /\ at.out \in Nat /\ r.out \in Nat
      BY <1>1, <1>2 DEF Walk
    <2>2. /\ p <= q /\ r.left <= at.left /\ at.out <= r.out
          /\ l * (q - p) <= (at.left - r.left) * CurveQ2 /\ l * (p - q) <= d * (p * q)
      BY <1>4 DEF Climbs
    <2>3. /\ N \in Nat /\ i \in 0 .. N /\ i - 1 \in 0 .. N /\ N \in 0 .. N /\ i <= N /\ l \in Nat
      <3>1. N \in Nat \ {0}
        BY LadderIs
      <3>2. l \in Nat \ {0}
        BY LadderIs
      <3>. HIDE DEF l
      <3>. QED
        BY <3>1, <3>2
    <2>4. /\ Rung(m, i) \in Nat /\ Rung(m, i - 1) \in Nat /\ Rung(m, N) \in Nat
          /\ Rung(m, i) <= Rung(m, N)
      BY <2>3, LadderIs
    <2>50. Rung(m, i - 1) <= p /\ q <= Rung(m, i) /\ p0 <= p
      BY <1>1, <1>4
    <2>. HIDE DEF p, q, d
    <2>5. Rung(m, i - 1) <= p /\ p <= Rung(m, i) /\ Rung(m, i - 1) <= q /\ q <= Rung(m, i)
      <3>1. p <= q
        BY <2>2
      <3>2. p \in Int /\ q \in Int
        BY <2>1
      <3>. QED
        BY <2>50, <2>4, <3>1, <3>2
    <2>6. /\ CostTo(m, q) = CostTo(m, p) + l * (q - p)
          /\ \A a \in A, e \in Int : l * (p - q) <= e * (p * q) => Between(m, q, a) <= Between(m, p, a) + e
      BY <2>1, <2>5, LadderMoves
    <2>. HIDE DEF l, N, A
    <2>7. CostTo(m, q) <= CostTo(m, p0) + (amount - r.left) * CurveQ2
      <3>1. CostTo(m, p) <= CostTo(m, p0) + (amount - at.left) * CurveQ2
        BY <1>1 DEF p
      <3>2. CurveQ2 \in Nat
        BY UnitAssumption DEF CurveQ2
      <3>3. (amount - r.left) * CurveQ2 = (amount - at.left) * CurveQ2 + (at.left - r.left) * CurveQ2
        <4>. DEFINE y == at.left
                    z == r.left
        <4>1. amount \in Int /\ y \in Int /\ z \in Int /\ CurveQ2 \in Int
          BY <2>1, <3>2
        <4>. HIDE DEF y, z
        <4>2. (amount - z) * CurveQ2 = (amount - y) * CurveQ2 + (y - z) * CurveQ2
          BY <4>1
        <4>. QED
          BY <4>2 DEF y, z
      <3>4. /\ (amount - at.left) * CurveQ2 \in Int /\ (at.left - r.left) * CurveQ2 \in Int
            /\ l * (q - p) \in Int
        BY <2>1, <2>3, <3>2
      <3>5. CostTo(m, p) \in Int /\ CostTo(m, p0) \in Int
        BY <2>1, CostInt
      <3>. QED
        BY <2>2, <2>6, <3>1, <3>3, <3>4, <3>5
    <2>8. ASSUME NEW a \in A PROVE Between(m, q, a) + r.out <= Between(m, p0, a)
      <3>1. d \in Int
        BY <2>1 DEF d
      <3>2. Between(m, q, a) <= Between(m, p, a) + d
        BY <2>2, <2>6, <3>1, Zenon
      <3>3. Between(m, p, a) + at.out <= Between(m, p0, a)
        BY <1>1 DEF p
      <3>4. Between(m, p, a) \in Int /\ Between(m, p0, a) \in Int /\ Between(m, q, a) \in Int
        BY <2>1, LadderSums DEF A, N
      <3>5. d = at.out - r.out /\ at.out \in Int /\ r.out \in Int
        BY <2>1 DEF d
      <3>. DEFINE x == Between(m, p, a)
                  x0 == Between(m, p0, a)
                  y == Between(m, q, a)
                  u == at.out
                  v == r.out
      <3>6. /\ y <= x + d /\ x + u <= x0 /\ d = u - v
            /\ x \in Int /\ x0 \in Int /\ y \in Int /\ u \in Int /\ v \in Int
        BY <3>2, <3>3, <3>4, <3>5, Zenon
      <3>. HIDE DEF d, x, x0, y, u, v
      <3>7. y + v <= x0
        BY <3>6
      <3>. QED
        BY <3>7 DEF y, x0, v
    <2>9. p0 <= q /\ q <= Rung(m, N)
      <3>1. /\ p0 \in Int /\ p \in Int /\ q \in Int /\ Rung(m, i) \in Int /\ Rung(m, N) \in Int
        BY <2>1, <2>4
      <3>2. p0 <= p /\ p <= q /\ q <= Rung(m, i) /\ Rung(m, i) <= Rung(m, N)
        BY <2>50, <2>2, <2>4
      <3>. QED
        BY <3>1, <3>2
    <2>10. r.left <= amount
      BY <1>1, <2>1, <2>2
    <2>. QED
      BY <1>2, <2>7, <2>8, <2>9, <2>10 DEF Upward, q, N, A
  <1>. QED
    BY <1>2, <1>3, <1>4

\* Another stretch of a descent
LEMMA DownStep ==
    ASSUME NEW m, Ladder(m), NEW p0 \in Nat \ {0}, p0 <= Rung(m, Len(m.curve)), NEW amount \in Nat,
           NEW i \in 1 .. Len(m.curve), NEW at, Downward(m, p0, amount, i, at),
           NEW to \in Nat \ {0}, Rung(m, i - 1) = Min({m.migration_price, to}), NEW last \in BOOLEAN,
           NEW r, r = DescendTo(at, to, m.curve[i].liquidity, last)
    PROVE  Downward(m, p0, amount, i - 1, r)
  <1>. DEFINE l == m.curve[i].liquidity
              N == Len(m.curve)
              A == [1 .. N -> Nat \ {0}]
  <1>1. /\ at \in Walk /\ at.left <= amount /\ (at.left = 0 \/ at.price <= Rung(m, i))
        /\ at.price <= p0 /\ Rung(m, 0) <= at.price
        /\ CostTo(m, at.price) + at.out * CurveQ2 <= CostTo(m, p0)
        /\ \A a \in A : Between(m, at.price, a) <= Between(m, p0, a) + (amount - at.left)
    BY DEF Downward
  <1>2. /\ N \in Nat /\ i \in 0 .. N /\ i - 1 \in 0 .. N /\ N \in 0 .. N /\ i <= N /\ l \in Nat \ {0}
        /\ 0 \in 0 .. N /\ 0 <= i - 1
    <2>1. N \in Nat \ {0}
      BY LadderIs
    <2>2. l \in Nat \ {0}
      BY LadderIs
    <2>. HIDE DEF l
    <2>. QED
      BY <2>1, <2>2
  <1>3. /\ r \in Walk /\ (r.left = 0 \/ r.price <= to)
        /\ \/ r = at
           \/ to <= r.price /\ Descends(at, r, l)
    <2>1. at \in Walk /\ l \in Nat \ {0} /\ r = DescendTo(at, to, l, last)
      BY <1>1, <1>2
    <2>. HIDE DEF l
    <2>. QED
      BY <2>1, DescendStep
  <1>4. /\ Rung(m, i) \in Nat /\ Rung(m, i - 1) \in Nat /\ Rung(m, N) \in Nat /\ Rung(m, 0) \in Nat
        /\ Rung(m, 0) <= Rung(m, i - 1) /\ Rung(m, N) <= m.migration_price
    BY <1>2, LadderIs
  <1>5. /\ m.migration_price \in Nat
        /\ Rung(m, i - 1) = IF m.migration_price <= to THEN m.migration_price ELSE to
    <2>1. m.migration_price \in Nat
      BY DEF Ladder
    <2>2. Min({m.migration_price, to}) = IF m.migration_price <= to THEN m.migration_price ELSE to
      BY <2>1, MinOfTwo
    <2>. QED
      BY <2>1, <2>2
  <1>6. /\ at.price \in Nat \ {0} /\ r.price \in Nat \ {0} /\ at.left \in Nat /\ r.left \in Nat
        /\ at.out \in Nat /\ r.out \in Nat
    BY <1>1, <1>3 DEF Walk
  <1>7. CASE r = at
    <2>1. r.left = 0 \/ r.price <= Rung(m, i - 1)
      BY <1>1, <1>3, <1>4, <1>5, <1>6, <1>7
    <2>. QED
      BY <1>1, <1>3, <1>7, <2>1 DEF Downward
  <1>8. CASE r # at /\ to <= r.price /\ Descends(at, r, l)
    <2>. DEFINE p == at.price
                q == r.price
                d == at.left - r.left
    <2>1. /\ q <= p /\ r.left <= at.left /\ at.out <= r.out
          /\ l * (q - p) <= (at.out - r.out) * CurveQ2 /\ l * (p - q) <= d * (p * q)
      BY <1>8 DEF Descends
    <2>2. at.left # 0 /\ to < p
      <3>1. ~(to >= at.price \/ at.left = 0)
        BY <1>8 DEF DescendTo
      <3>. QED
        BY <1>6, <3>1
    <2>3. Rung(m, i - 1) = to
      BY <1>1, <1>4, <1>5, <1>6, <2>2
    <2>40. p <= Rung(m, i) /\ to <= q /\ p <= p0
      BY <1>1, <1>8, <2>2
    <2>5. p \in Nat \ {0} /\ q \in Nat \ {0}
      BY <1>6
    <2>. HIDE DEF p, q, d
    <2>4. Rung(m, i - 1) <= p /\ p <= Rung(m, i) /\ Rung(m, i - 1) <= q /\ q <= Rung(m, i)
      BY <1>4, <2>1, <2>3, <2>40, <2>5
    <2>6. /\ CostTo(m, q) = CostTo(m, p) + l * (q - p)
          /\ \A a \in A, e \in Int : l * (p - q) <= e * (p * q) => Between(m, q, a) <= Between(m, p, a) + e
      BY <2>4, <2>5, LadderMoves
    <2>. HIDE DEF l, N, A
    <2>7. CostTo(m, q) + r.out * CurveQ2 <= CostTo(m, p0)
      <3>1. CostTo(m, p) + at.out * CurveQ2 <= CostTo(m, p0)
        BY <1>1 DEF p
      <3>2. CurveQ2 \in Nat
        BY UnitAssumption DEF CurveQ2
      <3>3. (at.out - r.out) * CurveQ2 = at.out * CurveQ2 - r.out * CurveQ2
        <4>. DEFINE y == at.out
                    z == r.out
        <4>1. y \in Int /\ z \in Int /\ CurveQ2 \in Int
          BY <1>6, <3>2
        <4>. HIDE DEF y, z
        <4>2. (y - z) * CurveQ2 = y * CurveQ2 - z * CurveQ2
          BY <4>1
        <4>. QED
          BY <4>2 DEF y, z
      <3>4. at.out * CurveQ2 \in Int /\ r.out * CurveQ2 \in Int /\ l * (q - p) \in Int
        <4>. DEFINE y == at.out
                    z == r.out
        <4>1. /\ y \in Int /\ z \in Int /\ CurveQ2 \in Int /\ l \in Int /\ p \in Int /\ q \in Int
          BY <1>2, <1>6, <2>5, <3>2
        <4>. HIDE DEF y, z
        <4>2. y * CurveQ2 \in Int /\ z * CurveQ2 \in Int /\ l * (q - p) \in Int
          BY <4>1
        <4>. QED
          BY <4>2 DEF y, z
      <3>5. CostTo(m, p) \in Int /\ CostTo(m, p0) \in Int
        BY <2>5, CostInt
      <3>. QED
        BY <2>1, <2>6, <3>1, <3>3, <3>4, <3>5
    <2>8. ASSUME NEW a \in A PROVE Between(m, q, a) <= Between(m, p0, a) + (amount - r.left)
      <3>1. d \in Int
        BY <1>6 DEF d
      <3>2. Between(m, q, a) <= Between(m, p, a) + d
        BY <2>1, <2>6, <3>1, Zenon
      <3>3. Between(m, p, a) <= Between(m, p0, a) + (amount - at.left)
        BY <1>1 DEF p
      <3>4. Between(m, p, a) \in Int /\ Between(m, p0, a) \in Int /\ Between(m, q, a) \in Int
        BY <2>5, LadderSums DEF A, N
      <3>5. d = at.left - r.left /\ at.left \in Int /\ r.left \in Int
        BY <1>6 DEF d
      <3>. DEFINE x == Between(m, p, a)
                  x0 == Between(m, p0, a)
                  y == Between(m, q, a)
                  u == at.left
                  v == r.left
      <3>6. /\ y <= x + d /\ x <= x0 + (amount - u) /\ d = u - v
            /\ x \in Int /\ x0 \in Int /\ y \in Int /\ u \in Int /\ v \in Int
        BY <3>2, <3>3, <3>4, <3>5, Zenon
      <3>. HIDE DEF d, x, x0, y, u, v
      <3>7. y <= x0 + (amount - v)
        BY <3>6
      <3>. QED
        BY <3>7 DEF y, x0, v
    <2>9. q <= p0 /\ Rung(m, 0) <= q
      <3>1. /\ p0 \in Int /\ p \in Int /\ q \in Int /\ Rung(m, 0) \in Int /\ Rung(m, i - 1) \in Int
        BY <1>4, <2>5
      <3>2. q <= p /\ p <= p0 /\ Rung(m, 0) <= Rung(m, i - 1) /\ Rung(m, i - 1) <= q
        BY <1>4, <2>1, <2>4, <2>40
      <3>. QED
        BY <3>1, <3>2
    <2>10. r.left <= amount
      BY <1>1, <1>6, <2>1
    <2>11. r.left = 0 \/ q <= Rung(m, i - 1)
      BY <1>3, <2>3 DEF q
    <2>. QED
      BY <1>3, <2>7, <2>8, <2>9, <2>10, <2>11 DEF Downward, q, A, N
  <1>. QED
    BY <1>3, <1>7, <1>8

\* quote_to_base climbs the ladder.
LEMMA ClimbIs ==
    ASSUME NEW m, Ladder(m), NEW amount \in Nat, NEW p0 \in Nat \ {0}, p0 = m.sqrt_price,
           Rung(m, 0) <= p0, p0 <= Rung(m, Len(m.curve))
    PROVE  Upward(m, p0, amount, Len(m.curve), Climb(m, amount))
  <1>. DEFINE K == Len(m.curve)
              s == [price |-> m.sqrt_price, left |-> amount, out |-> 0]
              On(n, x) == ClimbSegment(m, x, m.curve[n])
              Eq(r) == r = [i \in 0 .. K |-> IF i = 0 THEN s ELSE On(i, r[i - 1])]
              Y == [n \in 0 .. K |-> {x \in Walk : Upward(m, p0, amount, n, x)}]
  <1>1. Climb(m, amount) = (CHOOSE r : Eq(r))[K]
    BY DEF Climb
  <1>2. K \in Nat
    BY LadderIs
  <1>3. s \in Walk
    BY DEF Walk
  <1>4. \A n \in 1 .. K : \A x \in Walk : On(n, x) \in Walk
    BY ClimbStep
  <1>. DEFINE F == [x \in (1 .. K) \X Walk |-> On(x[1], x[2])]
  <1>5. F \in [(1 .. K) \X Walk -> Walk]
    <2>. HIDE DEF On
    <2>. QED
      BY <1>4
  <1>6. PICK h : Iterates(h, K, Walk, s, F)
    <2>. HIDE DEF F, s, K
    <2>. QED
      BY <1>2, <1>3, <1>5, Iterated, Zenon
  <1>. HIDE DEF On, K, s
  <1>7. h \in [0 .. K -> Walk] /\ h[0] = s /\ \A n \in 1 .. K : h[n] = F[<<n, h[n - 1]>>]
    BY <1>6 DEF Iterates
  <1>8. \A n \in 1 .. K : h[n] = On(n, h[n - 1])
    <2>1. \A n \in 1 .. K : h[n - 1] \in Walk
      BY <1>2, <1>7
    <2>2. \A n \in 1 .. K : F[<<n, h[n - 1]>>] = On(n, h[n - 1])
      BY <2>1
    <2>. QED
      BY <1>7, <2>2
  <1>9. Eq(h)
    BY <1>2, <1>7, <1>8
  <1>. DEFINE k == CHOOSE r : Eq(r)
  <1>10. Eq(k)
    <2>. HIDE DEF Eq
    <2>. QED
      BY <1>9
  <1>. HIDE DEF k
  <1>11. k[0] = s /\ \A n \in 1 .. K : k[n] = On(n, k[n - 1])
    BY <1>2, <1>10
  <1>12. s \in Y[0]
    <2>1. s.price = p0 /\ s.left = amount /\ s.out = 0
      BY DEF s
    <2>2. CostTo(m, s.price) <= CostTo(m, p0) + (amount - s.left) * CurveQ2
      <3>1. CostTo(m, p0) \in Int /\ CurveQ2 \in Int
        <4>1. CostTo(m, p0) \in Int
          BY CostInt
        <4>2. CurveQ2 \in Int
          BY UnitAssumption DEF CurveQ2
        <4>. QED
          BY <4>1, <4>2
      <3>. QED
        BY <2>1, <3>1
    <2>3. \A a \in [1 .. Len(m.curve) -> Nat \ {0}] : Between(m, s.price, a) + s.out <= Between(m, p0, a)
      BY <2>1, LadderSums
    <2>4. s \in Walk /\ s.left <= amount /\ Rung(m, 0) <= s.price /\ p0 <= s.price /\ s.price <= Rung(m, K)
      BY <1>3, <2>1 DEF K
    <2>5. Upward(m, p0, amount, 0, s)
      BY <2>2, <2>3, <2>4 DEF Upward, K
    <2>. QED
      BY <1>2, <1>3, <2>5
  <1>13. ASSUME NEW n \in 1 .. K, k[n - 1] \in Y[n - 1] PROVE k[n] \in Y[n]
    <2>1. n - 1 \in 0 .. K /\ n \in 0 .. K
      BY <1>2
    <2>2. k[n - 1] \in Walk /\ Upward(m, p0, amount, n - 1, k[n - 1])
      BY <1>13, <2>1
    <2>3. k[n] = ClimbSegment(m, k[n - 1], m.curve[n])
      BY <1>11 DEF On
    <2>4. Upward(m, p0, amount, n, k[n])
      BY <2>2, <2>3, UpStep DEF K
    <2>5. k[n] \in Walk
      BY <2>4 DEF Upward
    <2>. QED
      BY <2>1, <2>4, <2>5
  <1>. HIDE DEF Y
  <1>14. k[K] \in Y[K]
    BY <1>2, <1>11, <1>12, <1>13, IteratesPass
  <1>15. Upward(m, p0, amount, K, k[K])
    BY <1>2, <1>14 DEF Y
  <1>. QED
    BY <1>1, <1>15 DEF k, K

\* base_to_quote goes down it.
LEMMA DescendIs ==
    ASSUME NEW m, Ladder(m), NEW amount \in Nat, NEW p0 \in Nat \ {0}, p0 = m.sqrt_price,
           Rung(m, 0) <= p0, p0 <= Rung(m, Len(m.curve))
    PROVE  Downward(m, p0, amount, 0, Descend(m, amount))
  <1>. DEFINE N == Len(m.curve)
              K == N - 1
              s == [price |-> m.sqrt_price, left |-> amount, out |-> 0]
              On(n, x) == DescendTo(x, Stretch(m, n).to, Stretch(m, n).l, FALSE)
              Eq(r) == r = [i \in 0 .. K |-> IF i = 0 THEN s ELSE On(i, r[i - 1])]
              Y == [n \in 0 .. K |-> {x \in Walk : Downward(m, p0, amount, N - n, x)}]
  <1>1. Descend(m, amount) = DescendTo((CHOOSE r : Eq(r))[K], m.start_price, m.curve[1].liquidity, TRUE)
    BY DEF Descend
  <1>2. K \in Nat /\ N \in Nat
    BY LadderIs
  <1>3. s \in Walk
    BY DEF Walk
  <1>0. ASSUME NEW n \in 1 .. K
        PROVE  /\ Stretch(m, n).to \in Nat \ {0} /\ N - n + 1 \in 1 .. N
               /\ Stretch(m, n).l = m.curve[N - n + 1].liquidity
               /\ Stretch(m, n).l \in Nat \ {0}
               /\ Rung(m, N - n) = Min({m.migration_price, Stretch(m, n).to})
    <2>1. N - n \in 1 .. N /\ N - n + 1 \in 1 .. N
      BY <1>2
    <2>2. Stretch(m, n).to = m.curve[N - n].price /\ Stretch(m, n).l = m.curve[N - n + 1].liquidity
      BY DEF Stretch
    <2>3. m.curve[N - n].price \in Nat \ {0} /\ m.curve[N - n + 1].liquidity \in Nat \ {0}
      BY <2>1, LadderIs
    <2>4. Rung(m, N - n) = Min({m.migration_price, m.curve[N - n].price})
      BY <2>1, LadderIs
    <2>. QED
      BY <2>1, <2>2, <2>3, <2>4
  <1>4. \A n \in 1 .. K : \A x \in Walk : On(n, x) \in Walk
    <2>. TAKE n \in 1 .. K
    <2>. TAKE x \in Walk
    <2>. DEFINE to == Stretch(m, n).to
                l == Stretch(m, n).l
    <2>1. to \in Nat \ {0} /\ l \in Nat \ {0}
      BY <1>0
    <2>. HIDE DEF to, l
    <2>2. DescendTo(x, to, l, FALSE) \in Walk
      BY <2>1, DescendStep
    <2>. QED
      BY <2>2 DEF to, l
  <1>. DEFINE F == [x \in (1 .. K) \X Walk |-> On(x[1], x[2])]
  <1>5. F \in [(1 .. K) \X Walk -> Walk]
    <2>. HIDE DEF On
    <2>. QED
      BY <1>4
  <1>6. PICK h : Iterates(h, K, Walk, s, F)
    <2>. HIDE DEF F, s, K, N
    <2>. QED
      BY <1>2, <1>3, <1>5, Iterated, Zenon
  <1>. HIDE DEF On, K, s, N
  <1>7. h \in [0 .. K -> Walk] /\ h[0] = s /\ \A n \in 1 .. K : h[n] = F[<<n, h[n - 1]>>]
    BY <1>6 DEF Iterates
  <1>8. \A n \in 1 .. K : h[n] = On(n, h[n - 1])
    <2>1. \A n \in 1 .. K : h[n - 1] \in Walk
      BY <1>2, <1>7
    <2>2. \A n \in 1 .. K : F[<<n, h[n - 1]>>] = On(n, h[n - 1])
      BY <2>1
    <2>. QED
      BY <1>7, <2>2
  <1>9. Eq(h)
    BY <1>2, <1>7, <1>8
  <1>. DEFINE k == CHOOSE r : Eq(r)
  <1>10. Eq(k)
    <2>. HIDE DEF Eq
    <2>. QED
      BY <1>9
  <1>. HIDE DEF k
  <1>11. k[0] = s /\ \A n \in 1 .. K : k[n] = On(n, k[n - 1])
    BY <1>2, <1>10
  <1>16. K = N - 1
    BY DEF K
  <1>12. s \in Y[0]
    <2>1. s.price = p0 /\ s.left = amount /\ s.out = 0
      BY DEF s
    <2>2. CostTo(m, s.price) + s.out * CurveQ2 <= CostTo(m, p0)
      <3>1. CostTo(m, p0) \in Int /\ CurveQ2 \in Int
        <4>1. CostTo(m, p0) \in Int
          BY CostInt
        <4>2. CurveQ2 \in Int
          BY UnitAssumption DEF CurveQ2
        <4>. QED
          BY <4>1, <4>2
      <3>. QED
        BY <2>1, <3>1
    <2>3. \A a \in [1 .. Len(m.curve) -> Nat \ {0}] :
             Between(m, s.price, a) <= Between(m, p0, a) + (amount - s.left)
      BY <2>1, LadderSums
    <2>4. s \in Walk /\ s.left <= amount /\ Rung(m, 0) <= s.price /\ s.price <= p0 /\ s.price <= Rung(m, N)
      BY <1>3, <2>1 DEF N
    <2>5. Downward(m, p0, amount, N, s)
      BY <2>2, <2>3, <2>4 DEF Downward
    <2>6. N - 0 = N
      BY <1>2
    <2>. QED
      BY <1>2, <1>3, <2>5, <2>6
  <1>13. ASSUME NEW n \in 1 .. K, k[n - 1] \in Y[n - 1] PROVE k[n] \in Y[n]
    <2>. DEFINE i == N - n + 1
    <2>1. n - 1 \in 0 .. K /\ n \in 0 .. K /\ N - (n - 1) = i /\ i - 1 = N - n
      BY <1>2
    <2>2. k[n - 1] \in Walk /\ Downward(m, p0, amount, N - (n - 1), k[n - 1])
      BY <1>13, <2>1
    <2>. DEFINE to == Stretch(m, n).to
    <2>3. /\ to \in Nat \ {0} /\ i \in 1 .. N /\ Rung(m, N - n) = Min({m.migration_price, to})
          /\ k[n] = DescendTo(k[n - 1], to, m.curve[i].liquidity, FALSE)
      BY <1>0, <1>11 DEF On
    <2>. HIDE DEF i, to
    <2>4. Downward(m, p0, amount, i, k[n - 1]) /\ Rung(m, i - 1) = Min({m.migration_price, to})
      BY <2>1, <2>2, <2>3
    <2>5. Downward(m, p0, amount, i - 1, k[n])
      BY <2>3, <2>4, DownStep DEF N
    <2>6. k[n] \in Walk
      BY <2>5 DEF Downward
    <2>. QED
      BY <2>1, <2>5, <2>6
  <1>. HIDE DEF Y
  <1>14. k[K] \in Y[K]
    BY <1>2, <1>11, <1>12, <1>13, IteratesPass
  <1>15. Downward(m, p0, amount, 1, k[K])
    <2>1. N - K = 1 /\ K \in 0 .. K
      BY <1>2, <1>16
    <2>. QED
      BY <1>14, <2>1 DEF Y
  <1>17. Downward(m, p0, amount, 0, DescendTo(k[K], m.start_price, m.curve[1].liquidity, TRUE))
    <2>. DEFINE to == m.start_price
                i == 1
    <2>1. to \in Nat \ {0} /\ i \in 1 .. Len(m.curve) /\ i - 1 = 0
      BY LadderIs DEF Ladder
    <2>2. Rung(m, i - 1) = Min({m.migration_price, to})
      <3>1. Rung(m, 0) = to /\ to <= m.migration_price /\ m.migration_price \in Nat
        BY LadderIs DEF Ladder
      <3>. HIDE DEF to
      <3>2. Min({m.migration_price, to}) = IF m.migration_price <= to THEN m.migration_price ELSE to
        BY <2>1, <3>1, MinOfTwo
      <3>. QED
        BY <2>1, <3>1, <3>2
    <2>3. Downward(m, p0, amount, i, k[K])
      BY <1>15
    <2>. HIDE DEF to, i
    <2>4. Downward(m, p0, amount, i - 1, DescendTo(k[K], to, m.curve[i].liquidity, TRUE))
      BY <2>1, <2>2, <2>3, DownStep
    <2>. QED
      BY <2>1, <2>4 DEF to, i
  <1>. QED
    BY <1>1, <1>17 DEF k

\* pow_q64 is a number.
LEMMA PowQIs ==
    ASSUME NEW b \in Nat, NEW e \in Nat
    PROVE  PowQ(b, e) \in Nat
  <1>. DEFINE Square(x) == (x * x) \div CurveQ
              FactorIs(r) == r = [n \in 0 .. e |-> IF n = 0 THEN b ELSE Square(r[n - 1])]
              factor == CHOOSE r : FactorIs(r)
              Odd(n) == (e \div 2^(n - 1)) % 2 = 1
              On(n, x) == IF Odd(n) THEN (x * factor[n - 1]) \div CurveQ ELSE x
              PowerIs(r) == r = [n \in 0 .. e |-> IF n = 0 THEN CurveQ ELSE On(n, r[n - 1])]
              power == CHOOSE r : PowerIs(r)
  <1>1. PowQ(b, e) = power[e]
    BY DEF PowQ
  <1>2. CurveQ \in Nat \ {0}
    BY UnitAssumption
  <1>3. \A x \in Nat : Square(x) \in Nat
    <2>. TAKE x \in Nat
    <2>1. x * x \in Nat
      OBVIOUS
    <2>. QED
      BY <1>2, <2>1, Quotient
  <1>4. \A n \in 0 .. e : factor[n] \in Nat
    <2>. HIDE DEF Square
    <2>. DEFINE F == [p \in (1 .. e) \X Nat |-> Square(p[2])]
    <2>1. F \in [(1 .. e) \X Nat -> Nat]
      BY <1>3
    <2>2. PICK h : Iterates(h, e, Nat, b, F)
      <3>. HIDE DEF F
      <3>. QED
        BY <2>1, Iterated, Zenon
    <2>3. h \in [0 .. e -> Nat] /\ h[0] = b /\ \A n \in 1 .. e : h[n] = F[<<n, h[n - 1]>>]
      BY <2>2 DEF Iterates
    <2>4. \A n \in 1 .. e : h[n] = Square(h[n - 1])
      <3>1. \A n \in 1 .. e : h[n - 1] \in Nat
        BY <2>3
      <3>2. \A n \in 1 .. e : F[<<n, h[n - 1]>>] = Square(h[n - 1])
        BY <3>1
      <3>. QED
        BY <2>3, <3>2
    <2>5. FactorIs(h)
      BY <2>3, <2>4
    <2>6. FactorIs(factor)
      <3>. HIDE DEF FactorIs
      <3>. QED
        BY <2>5
    <2>. HIDE DEF factor
    <2>7. factor[0] \in Nat /\ \A n \in 1 .. e : factor[n - 1] \in Nat => factor[n] \in Nat
      <3>1. factor[0] = b /\ \A n \in 1 .. e : factor[n] = Square(factor[n - 1])
        BY <2>6
      <3>. QED
        BY <1>3, <3>1
    <2>. QED
      BY <2>7, IteratesStay
  <1>. HIDE DEF factor, Odd
  <1>5. \A n \in 1 .. e : \A x \in Nat : On(n, x) \in Nat
    <2>. TAKE n \in 1 .. e
    <2>. TAKE x \in Nat
    <2>. DEFINE y == factor[n - 1]
    <2>1. y \in Nat
      BY <1>4
    <2>. HIDE DEF y
    <2>2. x * y \in Nat
      BY <2>1
    <2>3. (x * y) \div CurveQ \in Nat
      BY <1>2, <2>2, Quotient
    <2>. QED
      BY <2>3 DEF y
  <1>6. power[e] \in Nat
    <2>. HIDE DEF On
    <2>. DEFINE F == [p \in (1 .. e) \X Nat |-> On(p[1], p[2])]
    <2>1. F \in [(1 .. e) \X Nat -> Nat]
      BY <1>5
    <2>2. PICK h : Iterates(h, e, Nat, CurveQ, F)
      <3>. HIDE DEF F
      <3>1. CurveQ \in Nat
        BY <1>2
      <3>. QED
        BY <2>1, <3>1, Iterated, Zenon
    <2>3. h \in [0 .. e -> Nat] /\ h[0] = CurveQ /\ \A n \in 1 .. e : h[n] = F[<<n, h[n - 1]>>]
      BY <2>2 DEF Iterates
    <2>4. \A n \in 1 .. e : h[n] = On(n, h[n - 1])
      <3>1. \A n \in 1 .. e : h[n - 1] \in Nat
        BY <2>3
      <3>2. \A n \in 1 .. e : F[<<n, h[n - 1]>>] = On(n, h[n - 1])
        BY <3>1
      <3>. QED
        BY <2>3, <3>2
    <2>5. PowerIs(h)
      BY <2>3, <2>4
    <2>6. PowerIs(power)
      <3>. HIDE DEF PowerIs
      <3>. QED
        BY <2>5
    <2>. HIDE DEF power
    <2>7. power[0] \in Nat /\ \A n \in 1 .. e : power[n - 1] \in Nat => power[n] \in Nat
      <3>1. power[0] = CurveQ /\ \A n \in 1 .. e : power[n] = On(n, power[n - 1])
        BY <2>6
      <3>. QED
        BY <1>2, <1>5, <3>1
    <2>8. \A n \in 0 .. e : power[n] \in Nat
      BY <2>7, IteratesStay
    <2>. QED
      BY <2>8
  <1>. HIDE DEF power
  <1>. QED
    BY <1>1, <1>6

\* What the fees of a dynamic bonding curve are computed from
DbcFees(m) ==
    /\ {m.fee.cliff, m.fee.reduction, m.fee.frequency, m.fee.periods} \subseteq Nat
    /\ {m.current_point, m.activation_point, m.volatility, m.bin_step,
        m.variable_fee_control} \subseteq Nat

\* Linear, exponential or flat: the base fee is a number.
LEMMA DbcBaseFeeIs ==
    ASSUME NEW m, DbcFees(m)
    PROVE  DbcBaseFee(m) \in Nat
  <1>. DEFINE f == m.fee
              cliff == m.fee.cliff
              reduction == m.fee.reduction
              elapsed == (m.current_point - m.activation_point) \div f.frequency
              period == Min({elapsed, f.periods})
              cut == (f.reduction * CurveQ) \div 10000
              kept == Max({0, CurveQ - cut})
              linear == Max({0, f.cliff - f.reduction * period})
              exponential == (PowQ(kept, period) * f.cliff) \div CurveQ
              early == f.frequency = 0 \/ m.current_point = 0 \/ m.current_point < m.activation_point
  <1>1. /\ cliff \in Nat /\ reduction \in Nat /\ f.frequency \in Nat /\ f.periods \in Nat
        /\ m.current_point \in Nat /\ m.activation_point \in Nat /\ CurveQ \in Nat \ {0}
    BY UnitAssumption DEF DbcFees
  <1>2. DbcBaseFee(m) \in {f.cliff, linear, exponential}
        /\ (early => DbcBaseFee(m) = f.cliff)
    <2>. DEFINE fee == DbcBaseFee(m)
    <2>1. fee = IF early THEN f.cliff
                ELSE CASE f.mode = "linear" -> linear
                       [] f.mode = "exponential" -> exponential
                       [] OTHER -> f.cliff
      BY DEF DbcBaseFee
    <2>. HIDE DEF linear, exponential, early, fee, f
    <2>2. CASE early
      BY <2>1, <2>2 DEF fee, f
    <2>3. CASE ~early
      BY <2>1, <2>3 DEF fee, f
    <2>. QED
      BY <2>2, <2>3
  <1>3. CASE early
    BY <1>1, <1>2, <1>3
  <1>4. CASE ~early
    <2>1. elapsed \in Nat
      <3>1. m.current_point - m.activation_point \in Nat /\ f.frequency \in Nat \ {0}
        BY <1>1, <1>4
      <3>. QED
        BY <3>1, Quotient
    <2>. HIDE DEF elapsed
    <2>2. period \in Nat
      <3>1. Min({elapsed, f.periods}) = IF elapsed <= f.periods THEN elapsed ELSE f.periods
        BY <1>1, <2>1, MinOfTwo
      <3>. QED
        BY <1>1, <2>1, <3>1
    <2>. HIDE DEF period
    <2>3. kept \in Nat
      <3>1. cut \in Int
        <4>1. f.reduction * CurveQ \in Nat
          BY <1>1
        <4>. QED
          BY <4>1, Quotient
      <3>. HIDE DEF cut
      <3>2. kept = IF 0 >= CurveQ - cut THEN 0 ELSE CurveQ - cut
        BY <1>1, <3>1, MaxOfTwo
      <3>. QED
        BY <1>1, <3>1, <3>2
    <2>. HIDE DEF kept
    <2>4. linear \in Nat
      <3>. DEFINE z == f.cliff - f.reduction * period
      <3>1. z \in Int
        BY <1>1, <2>2
      <3>. HIDE DEF z
      <3>2. Max({0, z}) = IF 0 >= z THEN 0 ELSE z
        BY <3>1, MaxOfTwo
      <3>3. Max({0, z}) \in Nat
        BY <3>1, <3>2
      <3>. QED
        BY <3>3 DEF z
    <2>5. exponential \in Nat
      <3>. DEFINE w == PowQ(kept, period)
      <3>1. w \in Nat
        BY <2>2, <2>3, PowQIs
      <3>. HIDE DEF w
      <3>2. w * f.cliff \in Nat
        BY <1>1, <3>1
      <3>3. (w * f.cliff) \div CurveQ \in Nat
        BY <1>1, <3>2, Quotient
      <3>. QED
        BY <3>3 DEF w
    <2>. HIDE DEF linear, exponential
    <2>. QED
      BY <1>1, <1>2, <2>4, <2>5
  <1>. QED
    BY <1>3, <1>4

\* fee_on_amount takes no more than there is.
LEMMA DbcFeeIs ==
    ASSUME NEW m, DbcFees(m), NEW amount \in Nat
    PROVE  DbcFeeOn(m, amount) \in Nat /\ DbcFeeOn(m, amount) <= amount
  <1>. DEFINE moved == m.volatility * m.bin_step
              x == moved * moved * m.variable_fee_control
              variable == CeilDiv(x, DbcVolatilityUnit)
              base == DbcBaseFee(m)
              fee == DbcFee(m)
  <1>1. /\ DbcMaxFee \in Nat /\ DbcFeeUnit \in Nat \ {0} /\ DbcMaxFee <= DbcFeeUnit
        /\ DbcVolatilityUnit \in Nat \ {0}
    BY UnitAssumption
  <1>2. fee = Min({DbcMaxFee, base + variable})
    BY DEF DbcFee
  <1>3. variable \in Nat
    <2>1. m.volatility \in Nat /\ m.bin_step \in Nat /\ m.variable_fee_control \in Nat
      BY DEF DbcFees
    <2>2. moved \in Nat
      BY <2>1
    <2>. HIDE DEF moved
    <2>3. moved * moved \in Nat
      BY <2>2
    <2>4. x \in Nat
      BY <2>1, <2>3
    <2>. HIDE DEF x
    <2>. QED
      BY <1>1, <2>4, CeilIs
  <1>4. base \in Nat
    BY DbcBaseFeeIs
  <1>. HIDE DEF variable, base
  <1>5. Min({DbcMaxFee, base + variable})
          = IF DbcMaxFee <= base + variable THEN DbcMaxFee ELSE base + variable
    BY <1>1, <1>3, <1>4, MinOfTwo
  <1>6. fee \in Nat /\ fee <= DbcFeeUnit
    BY <1>1, <1>2, <1>3, <1>4, <1>5
  <1>7. DbcFeeOn(m, amount) = CeilDiv(amount * fee, DbcFeeUnit)
    BY DEF DbcFeeOn
  <1>. HIDE DEF fee
  <1>8. amount * fee \in Nat /\ amount * fee <= amount * DbcFeeUnit
    BY <1>1, <1>6, ProductGrows
  <1>. DEFINE k == amount * fee
  <1>. HIDE DEF k
  <1>9. k \in Nat /\ k <= amount * DbcFeeUnit
    BY <1>8 DEF k
  <1>10. CeilDiv(k, DbcFeeUnit) \in Nat /\ CeilDiv(k, DbcFeeUnit) <= amount
    BY <1>1, <1>9, CeilIs
  <1>. QED
    BY <1>7, <1>10 DEF k

\* The prices between the segments
Rungs(m) == [i \in 1 .. Len(m.curve) |-> Rung(m, i)]

\* A dynamic bonding curve at a price of its ladder, with reserves for it
OnLadder(m, p, q, b) ==
    /\ p \in Nat \ {0} /\ Rung(m, 0) <= p /\ p <= Rung(m, Len(m.curve))
    /\ q \in Nat /\ CostTo(m, p) <= q * CurveQ2
    /\ b \in Nat /\ Between(m, p, Rungs(m)) <= b

\* The same curve
SameLadder(m, o) ==
    /\ o.curve = m.curve /\ o.start_price = m.start_price /\ o.migration_price = m.migration_price
    /\ o.fee = m.fee /\ o.fee_in_quote = m.fee_in_quote
    /\ o.current_point = m.current_point /\ o.activation_point = m.activation_point
    /\ o.volatility = m.volatility /\ o.bin_step = m.bin_step
    /\ o.variable_fee_control = m.variable_fee_control

\* The fields a trade reads or writes
DbcFields == {"sqrt_price", "quote_reserve", "base_reserve", "curve", "start_price", "migration_price",
              "fee", "current_point", "activation_point", "volatility", "bin_step",
              "variable_fee_control", "fee_in_quote"}

\* A DBC market, by parts
LEMMA DbcMarketIs ==
    ASSUME NEW m
    PROVE  DbcMarket(m) <=>
              /\ DbcFields \subseteq DOMAIN m /\ Ladder(m) /\ DbcFees(m) /\ m.fee_in_quote \in BOOLEAN
              /\ OnLadder(m, m.sqrt_price, m.quote_reserve, m.base_reserve)
  <1>. DEFINE p == m.sqrt_price
              N == Len(m.curve)
              QQ == CurveQ * CurveQ
  <1>1. Climbed(m) = CostTo(m, p)
    BY DEF Climbed, CostTo
  <1>2. ForSale(m) = Between(m, p, Rungs(m))
    <2>1. \A i \in 1 .. N : DeltaBase(Reached(m, i, p), Rung(m, i), m.curve[i].liquidity, TRUE)
                              = Part(m.curve[i].liquidity, Reached(m, i, p), Rungs(m)[i])
      BY DEF DeltaBase, Part, Rungs
    <2>. QED
      BY <2>1 DEF ForSale, Between
  <1>3. ASSUME Ladder(m)
        PROVE  /\ Rung(m, 0) = m.start_price /\ m.start_price \in Nat \ {0} /\ Rung(m, N) \in Nat
    <2>1. N \in 0 .. N
      BY <1>3, LadderIs
    <2>2. Rung(m, N) \in Nat
      BY <1>3, <2>1, LadderIs
    <2>3. Rung(m, 0) = m.start_price
      BY <1>3, LadderIs
    <2>. QED
      BY <1>3, <2>2, <2>3 DEF Ladder
  <1>4. ASSUME Ladder(m)
        PROVE  p \in m.start_price .. Rung(m, N) <=> p \in Nat \ {0} /\ Rung(m, 0) <= p /\ p <= Rung(m, N)
    <2>. HIDE DEF p, N
    <2>. QED
      BY <1>3, <1>4
  <1>5. m.quote_reserve \in Nat => QQ * m.quote_reserve = m.quote_reserve * CurveQ2
    <2>1. QQ \in Nat /\ CurveQ2 = QQ
      BY UnitAssumption DEF CurveQ2
    <2>. HIDE DEF QQ
    <2>. QED
      BY <2>1
  <1>6. DbcMarket(m) <=>
          /\ DbcFields \subseteq DOMAIN m /\ Ladder(m) /\ DbcFees(m) /\ m.fee_in_quote \in BOOLEAN
          /\ p \in m.start_price .. Rung(m, N)
          /\ m.quote_reserve \in Nat /\ Climbed(m) <= QQ * m.quote_reserve
          /\ m.base_reserve \in Nat /\ ForSale(m) <= m.base_reserve
    <2>. HIDE DEF QQ
    <2>. QED
      BY Zenon DEF DbcMarket, Ladder, DbcFees, DbcFields, QQ
  <1>. HIDE DEF p, N, QQ
  <1>7. OnLadder(m, p, m.quote_reserve, m.base_reserve) <=>
          /\ p \in Nat \ {0} /\ Rung(m, 0) <= p /\ p <= Rung(m, N)
          /\ m.quote_reserve \in Nat /\ CostTo(m, p) <= m.quote_reserve * CurveQ2
          /\ m.base_reserve \in Nat /\ Between(m, p, Rungs(m)) <= m.base_reserve
    BY DEF OnLadder, N
  <1>8. DbcMarket(m) <=>
              /\ DbcFields \subseteq DOMAIN m /\ Ladder(m) /\ DbcFees(m) /\ m.fee_in_quote \in BOOLEAN
              /\ OnLadder(m, p, m.quote_reserve, m.base_reserve)
    BY <1>1, <1>2, <1>4, <1>5, <1>6, <1>7, Zenon
  <1>. QED
    BY <1>8 DEF p

\* On the same curve all is the same.
LEMMA LadderSame ==
    ASSUME NEW m, NEW o, SameLadder(m, o)
    PROVE  /\ Ladder(m) => Ladder(o)
           /\ DbcFees(m) => DbcFees(o)
           /\ \A i : Rung(o, i) = Rung(m, i)
           /\ Rungs(o) = Rungs(m)
           /\ \A p : CostTo(o, p) = CostTo(m, p)
           /\ \A p, a : Between(o, p, a) = Between(m, p, a)
           /\ \A p, q, b : OnLadder(m, p, q, b) => OnLadder(o, p, q, b)
  <1>1. /\ o.curve = m.curve /\ o.start_price = m.start_price /\ o.migration_price = m.migration_price
        /\ o.fee = m.fee
        /\ o.current_point = m.current_point /\ o.activation_point = m.activation_point
        /\ o.volatility = m.volatility /\ o.bin_step = m.bin_step
        /\ o.variable_fee_control = m.variable_fee_control
    BY DEF SameLadder
  <1>2. \A i : Rung(o, i) = Rung(m, i)
    BY <1>1, Zenon DEF Rung
  <1>3. \A i, p : Reached(o, i, p) = Reached(m, i, p)
    <2>. TAKE i, p
    <2>1. Rung(o, i) = Rung(m, i) /\ Rung(o, i - 1) = Rung(m, i - 1)
      BY <1>2
    <2>. QED
      BY <2>1, Zenon DEF Reached
  <1>4. Rungs(o) = Rungs(m)
    BY <1>1, <1>2, Zenon DEF Rungs
  <1>5. ASSUME NEW p PROVE CostTo(o, p) = CostTo(m, p)
    <2>. DEFINE f == [i \in 1 .. Len(m.curve) |->
                        m.curve[i].liquidity * (Reached(m, i, p) - Rung(m, i - 1))]
                g == [i \in 1 .. Len(o.curve) |->
                        o.curve[i].liquidity * (Reached(o, i, p) - Rung(o, i - 1))]
    <2>1. f = g
      BY <1>1, <1>2, <1>3, Zenon
    <2>. QED
      BY <2>1, Zenon DEF CostTo
  <1>6. ASSUME NEW p, NEW a PROVE Between(o, p, a) = Between(m, p, a)
    <2>. DEFINE f == [i \in 1 .. Len(m.curve) |->
                        Part(m.curve[i].liquidity, Reached(m, i, p), a[i])]
                g == [i \in 1 .. Len(o.curve) |->
                        Part(o.curve[i].liquidity, Reached(o, i, p), a[i])]
    <2>1. f = g
      BY <1>1, <1>2, <1>3, Zenon
    <2>. QED
      BY <2>1, Zenon DEF Between
  <1>7. Ladder(m) => Ladder(o)
    BY <1>1, Zenon DEF Ladder
  <1>8. DbcFees(m) => DbcFees(o)
    BY <1>1, Zenon DEF DbcFees
  <1>9. \A p, q, b : OnLadder(m, p, q, b) => OnLadder(o, p, q, b)
    BY <1>1, <1>2, <1>4, <1>5, <1>6, Zenon DEF OnLadder
  <1>. QED
    BY <1>2, <1>4, <1>5, <1>6, <1>7, <1>8, <1>9, Zenon

\* A trade on the curve
DbcMoved(m, p, dq, db) ==
    [m EXCEPT !.sqrt_price = p, !.quote_reserve = @ + dq, !.base_reserve = @ + db]

\* It leaves a DBC market, if there are reserves for the price.
LEMMA DbcStays ==
    ASSUME NEW m, DbcMarket(m), NEW p, NEW dq, NEW db, NEW o, o = DbcMoved(m, p, dq, db),
           OnLadder(m, p, m.quote_reserve + dq, m.base_reserve + db)
    PROVE  DbcMarket(o) /\ SameLadder(m, o) /\ o.sqrt_price = p
  <1>1. /\ DbcFields \subseteq DOMAIN m /\ Ladder(m) /\ DbcFees(m) /\ m.fee_in_quote \in BOOLEAN
    BY DbcMarketIs
  <1>2. DOMAIN o = DOMAIN m
    BY DEF DbcMoved
  <1>3. /\ o.sqrt_price = p /\ o.quote_reserve = m.quote_reserve + dq
        /\ o.base_reserve = m.base_reserve + db
    <2>1. "sqrt_price" \in DOMAIN m /\ "quote_reserve" \in DOMAIN m /\ "base_reserve" \in DOMAIN m
      BY <1>1 DEF DbcFields
    <2>. QED
      BY <2>1 DEF DbcMoved
  <1>4. SameLadder(m, o)
    <2>1. {"curve", "start_price", "migration_price", "fee", "current_point", "activation_point",
           "volatility", "bin_step", "variable_fee_control", "fee_in_quote"} \subseteq DOMAIN m
      BY <1>1 DEF DbcFields
    <2>. QED
      BY <2>1 DEF DbcMoved, SameLadder
  <1>5. Ladder(o) /\ DbcFees(o) /\ o.fee_in_quote \in BOOLEAN
        /\ OnLadder(o, o.sqrt_price, o.quote_reserve, o.base_reserve)
    <2>1. o.fee_in_quote = m.fee_in_quote
      BY <1>4, Zenon DEF SameLadder
    <2>2. Ladder(o) /\ DbcFees(o)
      BY <1>1, <1>4, LadderSame, Zenon
    <2>3. \A x, y, z : OnLadder(m, x, y, z) => OnLadder(o, x, y, z)
      BY <1>4, LadderSame, Zenon
    <2>4. OnLadder(o, p, m.quote_reserve + dq, m.base_reserve + db)
      BY <2>3
    <2>. QED
      BY <1>1, <1>3, <2>1, <2>2, <2>4, Zenon
  <1>. QED
    BY <1>1, <1>2, <1>3, <1>4, <1>5, DbcMarketIs, Zenon

\* Nothing is got that the ladder has not.
Gained(m, p0, p, q, b) ==
    /\ q * CurveQ2 + CostTo(m, p) <= CostTo(m, p0)
    /\ \A a \in [1 .. Len(m.curve) -> Nat \ {0}] : b + Between(m, p, a) <= Between(m, p0, a)

\* There is no less than nothing to be sold up to the migration, and climbing
\* never earned anything.
LEMMA ReservesCount ==
    ASSUME NEW m, Ladder(m), NEW p \in Nat \ {0}
    PROVE  /\ Rungs(m) \in [1 .. Len(m.curve) -> Nat \ {0}]
           /\ CostTo(m, p) \in Nat /\ Between(m, p, Rungs(m)) \in Nat
  <1>. DEFINE S == 1 .. Len(m.curve)
              f == [i \in S |-> m.curve[i].liquidity * (Reached(m, i, p) - Rung(m, i - 1))]
              g == [i \in S |-> Part(m.curve[i].liquidity, Reached(m, i, p), Rungs(m)[i])]
  <1>1. IsFiniteSet(S)
    <2>1. Len(m.curve) \in Int /\ 1 \in Int
      BY LadderIs
    <2>. QED
      BY <2>1, FS_Interval
  <1>2. ASSUME NEW i \in S
        PROVE  /\ m.curve[i].liquidity \in Nat \ {0} /\ Reached(m, i, p) \in Nat \ {0}
               /\ Rung(m, i - 1) \in Nat \ {0} /\ Rung(m, i) \in Nat \ {0}
               /\ Rung(m, i - 1) <= Reached(m, i, p) /\ Reached(m, i, p) <= Rung(m, i)
               /\ Rungs(m)[i] = Rung(m, i)
    <2>1. /\ i - 1 \in 0 .. Len(m.curve) /\ i \in 0 .. Len(m.curve)
          /\ Reached(m, i, p) \in Nat \ {0}
          /\ Rung(m, i - 1) <= Reached(m, i, p) /\ Reached(m, i, p) <= Rung(m, i)
      BY ReachedIs
    <2>2. Rung(m, i - 1) \in Nat \ {0} /\ Rung(m, i) \in Nat \ {0} /\ m.curve[i].liquidity \in Nat \ {0}
      BY <2>1, LadderIs
    <2>. QED
      BY <2>1, <2>2 DEF Rungs
  <1>3. Rungs(m) \in [S -> Nat \ {0}]
    <2>1. \A i \in S : Rungs(m)[i] \in Nat \ {0}
      BY <1>2
    <2>. QED
      BY <2>1 DEF Rungs
  <1>4. ASSUME NEW i \in S PROVE f[i] \in Nat /\ g[i] \in Nat
    <2>. DEFINE l == m.curve[i].liquidity
                x == Reached(m, i, p)
                lo == Rung(m, i - 1)
                hi == Rung(m, i)
    <2>1. /\ l \in Nat /\ x \in Nat \ {0} /\ lo \in Nat /\ hi \in Nat \ {0} /\ lo <= x /\ x <= hi
          /\ f[i] = l * (x - lo) /\ g[i] = Part(l, x, hi)
      BY <1>2
    <2>. HIDE DEF l, x, lo, hi, f, g
    <2>2. l * (x - lo) \in Nat /\ l * (hi - x) \in Nat /\ x * hi \in Nat \ {0}
      BY <2>1
    <2>3. CeilDiv(l * (hi - x), x * hi) \in Nat
      BY <2>2, CeilIs
    <2>. QED
      BY <2>1, <2>2, <2>3 DEF Part
  <1>5. f \in [S -> Nat] /\ g \in [S -> Nat]
    BY <1>4
  <1>6. CostTo(m, p) = SumFunction(f) /\ Between(m, p, Rungs(m)) = SumFunction(g)
    BY DEF CostTo, Between
  <1>. HIDE DEF f, g
  <1>7. SumFunction(f) \in Nat /\ SumFunction(g) \in Nat
    <2>. HIDE DEF S
    <2>. QED
      BY <1>1, <1>5, SumNat
  <1>. QED
    BY <1>3, <1>6, <1>7

\* What a quote is made of
LEMMA QuotedIs == \A out, m : Quoted(out, m).out = out /\ Quoted(out, m).market = m
  BY DEF Quoted

\* A purchase from a dynamic bonding curve
LEMMA DbcBuys ==
    ASSUME NEW m, DbcMarket(m), NEW amount \in Nat, NEW q, q = DbcQuote(m, TRUE, amount), q.out > 0
    PROVE  /\ q.out \in Nat /\ DbcMarket(q.market) /\ SameLadder(m, q.market)
           /\ Gained(m, m.sqrt_price, q.market.sqrt_price, -amount, q.out)
  <1>. DEFINE net == IF m.fee_in_quote THEN amount - DbcFeeOn(m, amount) ELSE amount
              walk == Climb(m, net)
              out == IF m.fee_in_quote THEN walk.out ELSE walk.out - DbcFeeOn(m, walk.out)
              p0 == m.sqrt_price
              p == walk.price
              N == Len(m.curve)
              dq == net
              db == -walk.out
  <1>1. Ladder(m) /\ DbcFees(m) /\ OnLadder(m, p0, m.quote_reserve, m.base_reserve) /\ m.fee_in_quote \in BOOLEAN
    BY DbcMarketIs
  <1>2. /\ p0 \in Nat \ {0} /\ Rung(m, 0) <= p0 /\ p0 <= Rung(m, N)
        /\ m.quote_reserve \in Nat /\ CostTo(m, p0) <= m.quote_reserve * CurveQ2
        /\ m.base_reserve \in Nat /\ Between(m, p0, Rungs(m)) <= m.base_reserve
    BY <1>1 DEF OnLadder
  <1>3. net \in Nat /\ net <= amount
    BY <1>1, DbcFeeIs
  <1>. HIDE DEF net
  <1>4. Upward(m, p0, net, N, walk)
    BY <1>1, <1>2, <1>3, ClimbIs
  <1>5. /\ walk \in Walk /\ walk.left <= net /\ p0 <= p /\ p <= Rung(m, N)
        /\ CostTo(m, p) <= CostTo(m, p0) + (net - walk.left) * CurveQ2
        /\ \A a \in [1 .. N -> Nat \ {0}] : Between(m, p, a) + walk.out <= Between(m, p0, a)
    BY <1>4 DEF Upward
  <1>6. p \in Nat \ {0} /\ walk.left \in Nat /\ walk.out \in Nat
    BY <1>5 DEF Walk
  <1>8. q.out = out /\ q.market = DbcMoved(m, p, dq, db)
    <2>. DEFINE moved == DbcMoved(m, p, dq, db)
                refused == m.migrated \/ m.quote_reserve >= m.migration_threshold
    <2>1. q = IF refused THEN NoQuote(m) ELSE Quoted(out, moved)
      BY DEF DbcQuote, DbcMoved, net
    <2>2. NoQuote(m).out = 0
      BY DEF NoQuote
    <2>. HIDE DEF out, p, dq, db, moved, refused, walk
    <2>3. q = Quoted(out, moved)
      <3>1. CASE refused
        <4>1. q.out = 0
          BY <2>1, <2>2, <3>1
        <4>2. ~(0 > 0)
          OBVIOUS
        <4>. QED
          BY <4>1, <4>2, Zenon
      <3>2. CASE ~refused
        BY <2>1, <3>2
      <3>. QED
        BY <3>1, <3>2
    <2>4. q.out = out /\ q.market = moved
      BY <2>3, QuotedIs, Zenon
    <2>. QED
      BY <2>4 DEF moved
  <1>. HIDE DEF walk
  <1>9. out \in Nat /\ out <= walk.out
    BY <1>1, <1>6, DbcFeeIs
  <1>. HIDE DEF out, p0, p, N
  <1>10. CurveQ2 \in Nat /\ CostTo(m, p) \in Nat /\ CostTo(m, p0) \in Nat
    <2>1. CurveQ2 \in Nat
      BY UnitAssumption DEF CurveQ2
    <2>. QED
      BY <1>1, <1>2, <1>6, <2>1, ReservesCount
  <1>11. (net - walk.left) * CurveQ2 <= net * CurveQ2 /\ net * CurveQ2 <= amount * CurveQ2
    BY <1>3, <1>5, <1>6, <1>10, TimesKeepsOrder
  <1>12. /\ (net - walk.left) * CurveQ2 \in Int /\ net * CurveQ2 \in Int /\ amount * CurveQ2 \in Int
         /\ (-amount) * CurveQ2 = -(amount * CurveQ2)
         /\ (m.quote_reserve + net) * CurveQ2 = m.quote_reserve * CurveQ2 + net * CurveQ2
         /\ m.quote_reserve * CurveQ2 \in Int
    BY <1>2, <1>3, <1>6, <1>10
  <1>13. OnLadder(m, p, m.quote_reserve + dq, m.base_reserve + db)
    <2>1. Between(m, p, Rungs(m)) \in Nat /\ Rungs(m) \in [1 .. N -> Nat \ {0}]
      BY <1>1, <1>6, ReservesCount DEF N
    <2>2. Between(m, p, Rungs(m)) + walk.out <= Between(m, p0, Rungs(m))
      BY <1>5, <2>1
    <2>3. Between(m, p0, Rungs(m)) \in Int
      BY <1>1, <1>2, ReservesCount
    <2>4. m.base_reserve + db \in Nat /\ Between(m, p, Rungs(m)) <= m.base_reserve + db
      <3>1. Between(m, p, Rungs(m)) \in Nat
        BY <2>1
      <3>2. m.base_reserve \in Nat /\ Between(m, p0, Rungs(m)) <= m.base_reserve
        BY <1>2
      <3>3. db = -walk.out /\ walk.out \in Nat
        BY <1>6
      <3>. HIDE DEF db
      <3>. QED
        BY <2>2, <2>3, <3>1, <3>2, <3>3
    <2>5. m.quote_reserve + dq \in Nat /\ CostTo(m, p) <= (m.quote_reserve + dq) * CurveQ2
      <3>1. CostTo(m, p0) <= m.quote_reserve * CurveQ2
        BY <1>2
      <3>2. CostTo(m, p) <= CostTo(m, p0) + (net - walk.left) * CurveQ2
        BY <1>5
      <3>3. CostTo(m, p) <= m.quote_reserve * CurveQ2 + net * CurveQ2
        BY <1>10, <1>11, <1>12, <3>1, <3>2
      <3>. QED
        BY <1>2, <1>3, <1>12, <3>3
    <2>6. Rung(m, 0) <= p
      <3>1. Rung(m, 0) \in Int
        BY <1>1, LadderIs
      <3>. QED
        BY <1>2, <1>5, <1>6, <3>1
    <2>. HIDE DEF dq, db
    <2>. QED
      BY <1>5, <1>6, <2>4, <2>5, <2>6 DEF OnLadder, N
  <1>14. DbcMarket(q.market) /\ SameLadder(m, q.market) /\ q.market.sqrt_price = p
    <2>. HIDE DEF dq, db
    <2>. DEFINE o == q.market
    <2>1. o = DbcMoved(m, p, dq, db)
      BY <1>8
    <2>. HIDE DEF o
    <2>2. DbcMarket(o) /\ SameLadder(m, o) /\ o.sqrt_price = p
      BY <1>13, <2>1, DbcStays, Zenon
    <2>. QED
      BY <2>2 DEF o
  <1>15. Gained(m, p0, p, -amount, q.out)
    <2>1. (-amount) * CurveQ2 + CostTo(m, p) <= CostTo(m, p0)
      BY <1>5, <1>10, <1>11, <1>12
    <2>2. ASSUME NEW a \in [1 .. Len(m.curve) -> Nat \ {0}]
          PROVE  out + Between(m, p, a) <= Between(m, p0, a)
      <3>1. Between(m, p, a) + walk.out <= Between(m, p0, a)
        BY <1>5 DEF N
      <3>2. Between(m, p, a) \in Int /\ Between(m, p0, a) \in Int
        BY <1>1, <1>2, <1>6, LadderSums
      <3>. QED
        BY <1>6, <1>9, <3>1, <3>2
    <2>. QED
      BY <1>8, <2>1, <2>2 DEF Gained
  <1>. QED
    BY <1>8, <1>9, <1>14, <1>15 DEF p0

\* A sale to it
LEMMA DbcSells ==
    ASSUME NEW m, DbcMarket(m), NEW amount \in Nat, NEW q, q = DbcQuote(m, FALSE, amount), q.out > 0
    PROVE  /\ q.out \in Nat /\ DbcMarket(q.market) /\ SameLadder(m, q.market)
           /\ Gained(m, m.sqrt_price, q.market.sqrt_price, q.out, -amount)
  <1>. DEFINE walk == Descend(m, amount)
              out == walk.out - DbcFeeOn(m, walk.out)
              p0 == m.sqrt_price
              p == walk.price
              N == Len(m.curve)
              dq == -walk.out
              db == amount
  <1>1. Ladder(m) /\ DbcFees(m) /\ OnLadder(m, p0, m.quote_reserve, m.base_reserve)
    BY DbcMarketIs
  <1>2. /\ p0 \in Nat \ {0} /\ Rung(m, 0) <= p0 /\ p0 <= Rung(m, N)
        /\ m.quote_reserve \in Nat /\ CostTo(m, p0) <= m.quote_reserve * CurveQ2
        /\ m.base_reserve \in Nat /\ Between(m, p0, Rungs(m)) <= m.base_reserve
    BY <1>1 DEF OnLadder
  <1>4. Downward(m, p0, amount, 0, walk)
    BY <1>1, <1>2, DescendIs
  <1>5. /\ walk \in Walk /\ walk.left <= amount /\ p <= p0 /\ Rung(m, 0) <= p
        /\ CostTo(m, p) + walk.out * CurveQ2 <= CostTo(m, p0)
        /\ \A a \in [1 .. N -> Nat \ {0}] : Between(m, p, a) <= Between(m, p0, a) + (amount - walk.left)
    BY <1>4 DEF Downward
  <1>6. p \in Nat \ {0} /\ walk.left \in Nat /\ walk.out \in Nat
    BY <1>5 DEF Walk
  <1>8. q.out = out /\ q.market = DbcMoved(m, p, dq, db)
    <2>. DEFINE moved == DbcMoved(m, p, dq, db)
                refused == m.migrated \/ m.quote_reserve >= m.migration_threshold
    <2>1. q = IF refused THEN NoQuote(m) ELSE Quoted(out, moved)
      BY DEF DbcQuote, DbcMoved
    <2>2. NoQuote(m).out = 0
      BY DEF NoQuote
    <2>. HIDE DEF out, p, dq, db, moved, refused, walk
    <2>3. q = Quoted(out, moved)
      <3>1. CASE refused
        <4>1. q.out = 0
          BY <2>1, <2>2, <3>1
        <4>2. ~(0 > 0)
          OBVIOUS
        <4>. QED
          BY <4>1, <4>2, Zenon
      <3>2. CASE ~refused
        BY <2>1, <3>2
      <3>. QED
        BY <3>1, <3>2
    <2>4. q.out = out /\ q.market = moved
      BY <2>3, QuotedIs, Zenon
    <2>. QED
      BY <2>4 DEF moved
  <1>. HIDE DEF walk
  <1>9. out \in Nat /\ out <= walk.out
    BY <1>1, <1>6, DbcFeeIs
  <1>. HIDE DEF out, p0, p, N
  <1>10. CurveQ2 \in Nat \ {0} /\ CostTo(m, p) \in Nat /\ CostTo(m, p0) \in Nat
    <2>1. CurveQ2 \in Nat \ {0}
      BY UnitAssumption DEF CurveQ2
    <2>. QED
      BY <1>1, <1>2, <1>6, <2>1, ReservesCount
  <1>11. out * CurveQ2 <= walk.out * CurveQ2
    BY <1>6, <1>9, <1>10, TimesKeepsOrder
  <1>12. /\ out * CurveQ2 \in Int /\ walk.out * CurveQ2 \in Int
         /\ (m.quote_reserve - walk.out) * CurveQ2 = m.quote_reserve * CurveQ2 - walk.out * CurveQ2
         /\ m.quote_reserve * CurveQ2 \in Int
    BY <1>2, <1>6, <1>9, <1>10
  <1>13. OnLadder(m, p, m.quote_reserve + dq, m.base_reserve + db)
    <2>1. Rungs(m) \in [1 .. N -> Nat \ {0}] /\ Between(m, p, Rungs(m)) \in Int
      BY <1>1, <1>6, ReservesCount DEF N
    <2>2. Between(m, p, Rungs(m)) <= Between(m, p0, Rungs(m)) + (amount - walk.left)
      BY <1>5, <2>1
    <2>3. Between(m, p0, Rungs(m)) \in Int
      BY <1>1, <1>2, ReservesCount
    <2>4. m.base_reserve + db \in Nat /\ Between(m, p, Rungs(m)) <= m.base_reserve + db
      <3>1. Between(m, p, Rungs(m)) \in Int
        BY <2>1
      <3>2. m.base_reserve \in Nat /\ Between(m, p0, Rungs(m)) <= m.base_reserve
        BY <1>2
      <3>3. db = amount /\ walk.left \in Nat
        BY <1>6
      <3>. HIDE DEF db
      <3>. QED
        BY <2>2, <2>3, <3>1, <3>2, <3>3
    <2>5. CostTo(m, p) <= (m.quote_reserve + dq) * CurveQ2
      <3>1. CostTo(m, p0) <= m.quote_reserve * CurveQ2
        BY <1>2
      <3>2. CostTo(m, p) + walk.out * CurveQ2 <= CostTo(m, p0)
        BY <1>5
      <3>3. CostTo(m, p) <= m.quote_reserve * CurveQ2 - walk.out * CurveQ2
        BY <1>10, <1>12, <3>1, <3>2
      <3>4. m.quote_reserve + dq = m.quote_reserve - walk.out
        BY <1>2, <1>6
      <3>. QED
        BY <1>12, <3>3, <3>4
    <2>6. m.quote_reserve + dq \in Nat
      <3>1. walk.out * CurveQ2 <= m.quote_reserve * CurveQ2
        BY <1>2, <1>5, <1>10, <1>12
      <3>2. walk.out <= m.quote_reserve
        BY <1>2, <1>6, <1>10, <3>1, CancelFactor
      <3>. QED
        BY <1>2, <1>6, <3>2
    <2>7. p <= Rung(m, N)
      <3>1. N \in 0 .. Len(m.curve)
        BY <1>1, LadderIs DEF N
      <3>2. Rung(m, N) \in Int
        BY <1>1, <3>1, LadderIs
      <3>. QED
        BY <1>2, <1>5, <1>6, <3>2
    <2>. HIDE DEF dq, db
    <2>. QED
      BY <1>5, <1>6, <2>4, <2>5, <2>6, <2>7 DEF OnLadder, N
  <1>14. DbcMarket(q.market) /\ SameLadder(m, q.market) /\ q.market.sqrt_price = p
    <2>. HIDE DEF dq, db
    <2>. DEFINE o == q.market
    <2>1. o = DbcMoved(m, p, dq, db)
      BY <1>8
    <2>. HIDE DEF o
    <2>2. DbcMarket(o) /\ SameLadder(m, o) /\ o.sqrt_price = p
      BY <1>13, <2>1, DbcStays, Zenon
    <2>. QED
      BY <2>2 DEF o
  <1>15. Gained(m, p0, p, q.out, -amount)
    <2>1. out * CurveQ2 + CostTo(m, p) <= CostTo(m, p0)
      BY <1>5, <1>10, <1>11, <1>12
    <2>2. ASSUME NEW a \in [1 .. Len(m.curve) -> Nat \ {0}]
          PROVE  (-amount) + Between(m, p, a) <= Between(m, p0, a)
      <3>1. Between(m, p, a) <= Between(m, p0, a) + (amount - walk.left)
        BY <1>5 DEF N
      <3>2. Between(m, p, a) \in Int /\ Between(m, p0, a) \in Int
        BY <1>1, <1>2, <1>6, LadderSums
      <3>. QED
        BY <1>6, <3>1, <3>2
    <2>. QED
      BY <1>8, <2>1, <2>2 DEF Gained
  <1>. QED
    BY <1>8, <1>9, <1>14, <1>15 DEF p0

\* A price below the last rung lies in a segment.
LEMMA SegmentOf ==
    ASSUME NEW m, Ladder(m), NEW p \in Nat \ {0}, Rung(m, 0) <= p, p < Rung(m, Len(m.curve))
    PROVE  \E i \in 1 .. Len(m.curve) : Rung(m, i - 1) <= p /\ p < Rung(m, i)
  <1>. DEFINE N == Len(m.curve)
              Found == \E i \in 1 .. N : Rung(m, i - 1) <= p /\ p < Rung(m, i)
              T == {n \in Nat : n <= N => (p < Rung(m, n) => Found)}
  <1>1. N \in Nat
    BY LadderIs
  <1>2. \A n \in 0 .. N : Rung(m, n) \in Nat
    BY LadderIs
  <1>. HIDE DEF N
  <1>3. 0 \in T
    <2>1. ~(p < Rung(m, 0))
      <3>1. 0 \in 0 .. N
        BY <1>1
      <3>. QED
        BY <1>2, <3>1
    <2>. HIDE DEF Found
    <2>. QED
      BY <2>1
  <1>4. ASSUME NEW n \in Nat, n \in T PROVE n + 1 \in T
    <2>. DEFINE j == n + 1
    <2>. SUFFICES ASSUME j <= N, p < Rung(m, j) PROVE Found
      OBVIOUS
    <2>1. j \in 1 .. N /\ j - 1 = n /\ n \in 0 .. N /\ n <= N
      BY <1>1
    <2>2. Rung(m, n) \in Nat
      BY <1>2, <2>1
    <2>. HIDE DEF j
    <2>3. CASE p < Rung(m, n)
      <3>. HIDE DEF Found
      <3>. QED
        BY <1>4, <2>1, <2>3
    <2>4. CASE Rung(m, n) <= p
      BY <2>1, <2>4
    <2>. QED
      BY <2>2, <2>3, <2>4
  <1>. HIDE DEF T
  <1>5. Nat \subseteq T
    BY <1>3, <1>4, NatSetInduction
  <1>6. p < Rung(m, N)
    BY DEF N
  <1>7. Found
    <2>. HIDE DEF Found
    <2>. QED
      BY <1>1, <1>5, <1>6 DEF T
  <1>. QED
    BY <1>7 DEF N

\* A higher price costs more to climb to, and leaves less to be sold up to
\* what is reached at it.
LEMMA LadderRises ==
    ASSUME NEW m, Ladder(m), NEW p \in Nat \ {0}, NEW q \in Nat \ {0},
           Rung(m, 0) <= p, p < q, q <= Rung(m, Len(m.curve))
    PROVE  /\ CostTo(m, p) < CostTo(m, q)
           /\ \E a \in [1 .. Len(m.curve) -> Nat \ {0}] : Between(m, q, a) < Between(m, p, a)
  <1>. DEFINE S == 1 .. Len(m.curve)
              a == [j \in S |-> Reached(m, j, q)]
              f == [j \in S |-> m.curve[j].liquidity * (Reached(m, j, p) - Rung(m, j - 1))]
              g == [j \in S |-> m.curve[j].liquidity * (Reached(m, j, q) - Rung(m, j - 1))]
              u == [j \in S |-> Part(m.curve[j].liquidity, Reached(m, j, p), a[j])]
              v == [j \in S |-> Part(m.curve[j].liquidity, Reached(m, j, q), a[j])]
  <1>1. Len(m.curve) \in Nat /\ Rung(m, Len(m.curve)) \in Nat
    <2>1. Len(m.curve) \in Nat
      BY LadderIs
    <2>2. Len(m.curve) \in 0 .. Len(m.curve)
      BY <2>1
    <2>. QED
      BY <2>1, <2>2, LadderIs
  <1>2. IsFiniteSet(S)
    <2>1. Len(m.curve) \in Int /\ 1 \in Int
      BY <1>1
    <2>. QED
      BY <2>1, FS_Interval
  <1>3. p < Rung(m, Len(m.curve))
    BY <1>1
  <1>4. PICK i \in S : Rung(m, i - 1) <= p /\ p < Rung(m, i)
    BY <1>3, SegmentOf
  <1>5. ASSUME NEW j \in S
        PROVE  /\ m.curve[j].liquidity \in Nat \ {0} /\ Rung(m, j - 1) \in Nat \ {0}
               /\ Reached(m, j, p) \in Nat \ {0} /\ Reached(m, j, q) \in Nat \ {0}
               /\ Reached(m, j, p) <= Reached(m, j, q)
               /\ j = i => Reached(m, j, p) < Reached(m, j, q)
    <2>. DEFINE lo == Rung(m, j - 1)
                hi == Rung(m, j)
                x == Reached(m, j, p)
                y == Reached(m, j, q)
    <2>1. /\ j - 1 \in 0 .. Len(m.curve) /\ j \in 0 .. Len(m.curve) /\ x \in Nat \ {0}
          /\ lo <= x /\ x <= hi
          /\ x = IF p <= lo THEN lo ELSE IF p <= hi THEN p ELSE hi
      BY ReachedIs
    <2>2. /\ y \in Nat \ {0} /\ lo <= y /\ y <= hi
          /\ y = IF q <= lo THEN lo ELSE IF q <= hi THEN q ELSE hi
      BY ReachedIs
    <2>3. lo \in Nat \ {0} /\ hi \in Nat \ {0}
      BY <2>1, LadderIs
    <2>4. m.curve[j].liquidity \in Nat \ {0}
      BY LadderIs
    <2>5. j = i => lo <= p /\ p < hi
      BY <1>4
    <2>. HIDE DEF lo, hi, x, y
    <2>6. x <= y /\ (j = i => x < y)
      BY <2>1, <2>2, <2>3, <2>5
    <2>. QED
      BY <2>1, <2>2, <2>3, <2>4, <2>6 DEF lo, x, y
  <1>6. ASSUME NEW j \in S
        PROVE  /\ f[j] \in Int /\ g[j] \in Int /\ f[j] <= g[j] /\ (j = i => f[j] < g[j])
               /\ u[j] \in Int /\ v[j] \in Int /\ v[j] <= u[j] /\ (j = i => v[j] < u[j])
    <2>. DEFINE l == m.curve[j].liquidity
                lo == Rung(m, j - 1)
                x == Reached(m, j, p)
                y == Reached(m, j, q)
    <2>1. /\ f[j] = l * (x - lo) /\ g[j] = l * (y - lo) /\ u[j] = Part(l, x, y) /\ v[j] = Part(l, y, y)
      OBVIOUS
    <2>2. /\ l \in Nat \ {0} /\ lo \in Nat \ {0} /\ x \in Nat \ {0} /\ y \in Nat \ {0}
          /\ x <= y /\ (j = i => x < y)
      BY <1>5
    <2>. HIDE DEF l, lo, x, y, f, g, u, v
    <2>3. /\ l * (y - lo) = l * (x - lo) + l * (y - x) /\ l * (x - lo) \in Int /\ l * (y - x) \in Nat
          /\ (x < y => l * (y - x) > 0)
      BY <2>2
    <2>. DEFINE k == l * (y - x)
                n == x * y
    <2>4. k \in Nat /\ n \in Nat \ {0} /\ (x < y => k > 0)
      BY <2>2, <2>3
    <2>5. u[j] = CeilDiv(k, n)
      BY <2>1 DEF Part
    <2>6. v[j] = CeilDiv(0, y * y) /\ y * y \in Nat \ {0}
      <3>1. l * (y - y) = 0
        BY <2>2
      <3>. QED
        BY <2>1, <2>2, <3>1 DEF Part
    <2>. HIDE DEF k, n
    <2>7. CeilDiv(k, n) \in Nat /\ k <= CeilDiv(k, n) * n
      BY <2>4, CeilIs
    <2>8. CeilDiv(0, y * y) = 0
      <3>. DEFINE w == y * y
      <3>1. w \in Nat \ {0}
        BY <2>6
      <3>. HIDE DEF w
      <3>2. 0 <= 0 * w
        BY <3>1
      <3>3. CeilDiv(0, w) \in Nat /\ CeilDiv(0, w) <= 0
        BY <3>1, <3>2, CeilIs
      <3>. QED
        BY <3>3 DEF w
    <2>9. ASSUME x < y PROVE CeilDiv(k, n) > 0
      <3>. SUFFICES ASSUME CeilDiv(k, n) = 0 PROVE FALSE
        BY <2>7
      <3>. QED
        BY <2>4, <2>7, <2>9
    <2>. QED
      BY <2>1, <2>2, <2>3, <2>5, <2>6, <2>7, <2>8, <2>9
  <1>7. a \in [S -> Nat \ {0}]
    BY <1>5
  <1>8. CostTo(m, p) = SumFunction(f) /\ CostTo(m, q) = SumFunction(g)
    BY DEF CostTo
  <1>9. Between(m, p, a) = SumFunction(u) /\ Between(m, q, a) = SumFunction(v)
    BY DEF Between
  <1>10. f \in [S -> Int] /\ g \in [S -> Int] /\ u \in [S -> Int] /\ v \in [S -> Int]
    <2>1. \A j \in S : f[j] \in Int /\ g[j] \in Int /\ u[j] \in Int /\ v[j] \in Int
      <3>. HIDE DEF f, g, u, v
      <3>. QED
        BY <1>6
    <2>. QED
      BY <2>1
  <1>. HIDE DEF f, g, u, v, a
  <1>11. /\ \A j \in S : f[j] <= g[j] /\ v[j] <= u[j]
         /\ f[i] < g[i] /\ v[i] < u[i]
    BY <1>6
  <1>12. SumFunction(f) < SumFunction(g) /\ SumFunction(v) < SumFunction(u)
    <2>. HIDE DEF S
    <2>. QED
      BY <1>2, <1>10, <1>11, SumStrict
  <1>. QED
    BY <1>7, <1>8, <1>9, <1>12

\* On the ladder nothing is gained.
LEMMA LadderNoGain ==
    ASSUME NEW m, Ladder(m), NEW p0 \in Nat \ {0}, NEW p \in Nat \ {0},
           Rung(m, 0) <= p0, p0 <= Rung(m, Len(m.curve)), Rung(m, 0) <= p, p <= Rung(m, Len(m.curve)),
           NEW q \in Int, NEW b \in Int, Gained(m, p0, p, q, b), q >= 0, b >= 0
    PROVE  q = 0 /\ b = 0
  <1>1. CurveQ2 \in Nat \ {0} /\ CostTo(m, p) \in Int /\ CostTo(m, p0) \in Int
    <2>1. CurveQ2 \in Nat \ {0}
      BY UnitAssumption DEF CurveQ2
    <2>. QED
      BY <2>1, CostInt
  <1>2. /\ q * CurveQ2 + CostTo(m, p) <= CostTo(m, p0)
        /\ \A a \in [1 .. Len(m.curve) -> Nat \ {0}] : b + Between(m, p, a) <= Between(m, p0, a)
    BY DEF Gained
  <1>3. q * CurveQ2 \in Nat /\ (q > 0 => q * CurveQ2 > 0)
    BY <1>1
  <1>4. ~(p0 < p)
    <2>. SUFFICES ASSUME p0 < p PROVE FALSE
      OBVIOUS
    <2>1. CostTo(m, p0) < CostTo(m, p)
      BY LadderRises
    <2>. QED
      BY <1>1, <1>2, <1>3, <2>1
  <1>5. ~(p < p0)
    <2>. SUFFICES ASSUME p < p0 PROVE FALSE
      OBVIOUS
    <2>1. PICK a \in [1 .. Len(m.curve) -> Nat \ {0}] : Between(m, p0, a) < Between(m, p, a)
      BY LadderRises
    <2>2. b + Between(m, p, a) <= Between(m, p0, a)
      BY <1>2
    <2>3. Between(m, p, a) \in Int /\ Between(m, p0, a) \in Int
      BY LadderSums
    <2>. QED
      BY <2>1, <2>2, <2>3
  <1>6. p = p0
    BY <1>4, <1>5
  <1>7. b = 0
    <2>1. Rungs(m) \in [1 .. Len(m.curve) -> Nat \ {0}] /\ Between(m, p, Rungs(m)) \in Nat
      BY ReservesCount
    <2>2. b + Between(m, p, Rungs(m)) <= Between(m, p, Rungs(m))
      BY <1>2, <1>6, <2>1
    <2>. QED
      BY <2>1, <2>2
  <1>8. q = 0
    BY <1>1, <1>2, <1>3, <1>6
  <1>. QED
    BY <1>7, <1>8

\* What is gained adds up.
LEMMA GainedTwice ==
    ASSUME NEW m, NEW o, Ladder(m), SameLadder(m, o),
           NEW p0 \in Nat \ {0}, NEW p \in Nat \ {0}, NEW p2 \in Nat \ {0},
           NEW q \in Int, NEW b \in Int, NEW q2 \in Int, NEW b2 \in Int,
           Gained(m, p0, p, q, b), Gained(o, p, p2, q2, b2)
    PROVE  Gained(m, p0, p2, q + q2, b + b2)
  <1>1. /\ q * CurveQ2 + CostTo(m, p) <= CostTo(m, p0)
        /\ \A a \in [1 .. Len(m.curve) -> Nat \ {0}] : b + Between(m, p, a) <= Between(m, p0, a)
    BY DEF Gained
  <1>2. /\ \A x : CostTo(o, x) = CostTo(m, x)
        /\ \A x, a : Between(o, x, a) = Between(m, x, a)
    BY LadderSame, Zenon
  <1>3. o.curve = m.curve
    BY DEF SameLadder
  <1>4. /\ q2 * CurveQ2 + CostTo(m, p2) <= CostTo(m, p)
        /\ \A a \in [1 .. Len(m.curve) -> Nat \ {0}] : b2 + Between(m, p2, a) <= Between(m, p, a)
    <2>1. /\ q2 * CurveQ2 + CostTo(o, p2) <= CostTo(o, p)
          /\ \A a \in [1 .. Len(o.curve) -> Nat \ {0}] : b2 + Between(o, p2, a) <= Between(o, p, a)
      BY DEF Gained
    <2>2. CostTo(o, p2) = CostTo(m, p2) /\ CostTo(o, p) = CostTo(m, p)
      BY <1>2
    <2>3. \A a : Between(o, p2, a) = Between(m, p2, a) /\ Between(o, p, a) = Between(m, p, a)
      BY <1>2
    <2>4. q2 * CurveQ2 + CostTo(m, p2) <= CostTo(m, p)
      BY <2>1, <2>2, Zenon
    <2>5. ASSUME NEW a \in [1 .. Len(m.curve) -> Nat \ {0}]
          PROVE  b2 + Between(m, p2, a) <= Between(m, p, a)
      <3>1. b2 + Between(o, p2, a) <= Between(o, p, a)
        BY <1>3, <2>1, Zenon
      <3>2. Between(o, p2, a) = Between(m, p2, a) /\ Between(o, p, a) = Between(m, p, a)
        BY <2>3
      <3>. QED
        BY <3>1, <3>2, Zenon
    <2>. QED
      BY <2>4, <2>5
  <1>5. CurveQ2 \in Int /\ CostTo(m, p) \in Int /\ CostTo(m, p0) \in Int /\ CostTo(m, p2) \in Int
    <2>1. CurveQ2 \in Int
      BY UnitAssumption DEF CurveQ2
    <2>. QED
      BY <2>1, CostInt
  <1>6. (q + q2) * CurveQ2 + CostTo(m, p2) <= CostTo(m, p0)
    <2>1. (q + q2) * CurveQ2 = q * CurveQ2 + q2 * CurveQ2 /\ q * CurveQ2 \in Int /\ q2 * CurveQ2 \in Int
      BY <1>5
    <2>. QED
      BY <1>1, <1>4, <1>5, <2>1
  <1>7. ASSUME NEW a \in [1 .. Len(m.curve) -> Nat \ {0}]
        PROVE  b + b2 + Between(m, p2, a) <= Between(m, p0, a)
    <2>1. b + Between(m, p, a) <= Between(m, p0, a) /\ b2 + Between(m, p2, a) <= Between(m, p, a)
      BY <1>1, <1>4
    <2>2. Between(m, p, a) \in Int /\ Between(m, p0, a) \in Int /\ Between(m, p2, a) \in Int
      BY LadderSums
    <2>. QED
      BY <2>1, <2>2
  <1>. QED
    BY <1>6, <1>7 DEF Gained

-----------------------------------------------------------------------------
(* What is kept at each venue, from the first market f to the market m      *)
(* after trades by which the trader is up q of quote and b of base.         *)

\* Nothing was traded, or the product of the sides was not 0, never shrank, and
\* all that the trader is up left the sides.
Fair(q0, b0, q1, b1, q, b) ==
    \/ q1 = q0 /\ b1 = b0 /\ q = 0 /\ b = 0
    \/ q0 \in Nat /\ b0 \in Nat /\ q0 * b0 # 0 /\ Paid(q0, b0, q1, b1, q, b)

\* A trade from one side to the other, in either direction
LEMMA FairAfterSwap ==
    \A q0, b0, q1, b1, q, b, q2, b2, amount, out :
        Fair(q0, b0, q1, b1, q, b) /\ amount \in Nat =>
            /\ Swapped(q1, b1, q2, b2, amount, out) => Fair(q0, b0, q2, b2, q - amount, b + out)
            /\ Swapped(b1, q1, b2, q2, amount, out) => Fair(q0, b0, q2, b2, q + out, b - amount)
  <1>. TAKE q0, b0, q1, b1, q, b, q2, b2, amount, out
  <1>. HAVE Fair(q0, b0, q1, b1, q, b) /\ amount \in Nat
  <1>1. ASSUME q1 \in Nat, b1 \in Nat, q1 * b1 # 0
        PROVE  q0 \in Nat /\ b0 \in Nat /\ q0 * b0 # 0 /\ Paid(q0, b0, q1, b1, q, b)
    <2>1. CASE q1 = q0 /\ b1 = b0 /\ q = 0 /\ b = 0
      <3>1. q0 * b0 \in Int
        BY <1>1, <2>1
      <3>. QED
        BY <1>1, <2>1, <3>1 DEF Paid
    <2>. QED
      BY <2>1 DEF Fair
  <1>2. ASSUME Swapped(q1, b1, q2, b2, amount, out)
        PROVE  Fair(q0, b0, q2, b2, q - amount, b + out)
    <2>1. /\ q1 \in Nat /\ b1 \in Nat /\ q2 \in Nat /\ b2 \in Nat /\ out \in Nat
          /\ q1 * b1 # 0 /\ q1 * b1 <= q2 * b2
          /\ q2 <= q1 + amount /\ b2 <= b1 - out
      BY <1>2 DEF Swapped
    <2>2. Paid(q0, b0, q2, b2, q - amount, b + out)
      BY <1>1, <2>1, PaidStill
    <2>. QED
      BY <1>1, <2>1, <2>2 DEF Fair
  <1>3. ASSUME Swapped(b1, q1, b2, q2, amount, out)
        PROVE  Fair(q0, b0, q2, b2, q + out, b - amount)
    <2>1. /\ q1 \in Nat /\ b1 \in Nat /\ q2 \in Nat /\ b2 \in Nat /\ out \in Nat
          /\ b1 * q1 # 0 /\ b1 * q1 <= b2 * q2
          /\ b2 <= b1 + amount /\ q2 <= q1 - out
      BY <1>3 DEF Swapped
    <2>2. b1 * q1 = q1 * b1 /\ b2 * q2 = q2 * b2
      BY <2>1
    <2>3. Paid(q0, b0, q2, b2, q + out, b - amount)
      BY <1>1, <2>1, <2>2, PaidStill
    <2>. QED
      BY <1>1, <2>1, <2>2, <2>3 DEF Fair
  <1>. QED
    BY <1>2, <1>3

\* Nothing gained on one side without a loss on the other
LEMMA FairNoGain ==
    ASSUME NEW q0, NEW b0, NEW q1, NEW b1, NEW q, NEW b, Fair(q0, b0, q1, b1, q, b), q >= 0, b >= 0
    PROVE  q = 0 /\ b = 0
  BY PaidNoGain DEF Fair

\* Raydium AMM V4
PoolKept(f, m, q, b) == PoolMarket(m) /\ Fair(f.quote, f.base, m.quote, m.base, q, b)

\* A pool's trade keeps it.
LEMMA PoolKeeps ==
    ASSUME NEW f, NEW m, NEW q, NEW b, PoolKept(f, m, q, b), NEW amount \in Nat
    PROVE  /\ LET t == PoolQuote(m, TRUE, amount)
              IN  t.out > 0 => t.out \in Nat /\ PoolKept(f, t.market, q - amount, b + t.out)
           /\ LET t == PoolQuote(m, FALSE, amount)
              IN  t.out > 0 => t.out \in Nat /\ PoolKept(f, t.market, q + t.out, b - amount)
  <1>1. PoolMarket(m) /\ Fair(f.quote, f.base, m.quote, m.base, q, b)
    BY DEF PoolKept
  <1>2. ASSUME NEW t, t = PoolQuote(m, TRUE, amount), t.out > 0
        PROVE  t.out \in Nat /\ PoolKept(f, t.market, q - amount, b + t.out)
    <2>1. Swapped(m.quote, m.base, t.market.quote, t.market.base, amount, t.out) /\ PoolMarket(t.market)
      BY <1>1, <1>2, PoolTrades, Zenon
    <2>2. t.out \in Nat
      BY <2>1 DEF Swapped
    <2>3. Fair(f.quote, f.base, t.market.quote, t.market.base, q - amount, b + t.out)
      BY <1>1, <2>1, FairAfterSwap, Zenon
    <2>. QED
      BY <2>1, <2>2, <2>3, Zenon DEF PoolKept
  <1>3. ASSUME NEW t, t = PoolQuote(m, FALSE, amount), t.out > 0
        PROVE  t.out \in Nat /\ PoolKept(f, t.market, q + t.out, b - amount)
    <2>1. Swapped(m.base, m.quote, t.market.base, t.market.quote, amount, t.out) /\ PoolMarket(t.market)
      BY <1>1, <1>3, PoolTrades, Zenon
    <2>2. t.out \in Nat
      BY <2>1 DEF Swapped
    <2>3. Fair(f.quote, f.base, t.market.quote, t.market.base, q + t.out, b - amount)
      BY <1>1, <2>1, FairAfterSwap, Zenon
    <2>. QED
      BY <2>1, <2>2, <2>3, Zenon DEF PoolKept
  <1>. QED
    BY <1>2, <1>3, Zenon

\* Pumpfun's bonding curve, with the coins that are outside of it
BondingKept(f, m, q, b) ==
    /\ f.outside + b \in Nat /\ BondingCurveMarket(m, f.outside + b)
    /\ Fair(f.virtual_sol, f.virtual_token,
              m.virtual_sol, m.virtual_token, q, b)

\* A trade of it keeps it; what is sold is outside.
LEMMA BondingKeeps ==
    ASSUME NEW f, f.outside \in Nat, NEW m, NEW q, NEW b, BondingKept(f, m, q, b), NEW amount \in Nat
    PROVE  /\ LET t == BondingCurveQuote(m, TRUE, amount)
              IN  t.out > 0 => t.out \in Nat /\ BondingKept(f, t.market, q - amount, b + t.out)
           /\ LET t == BondingCurveQuote(m, FALSE, amount)
              IN  t.out > 0 /\ amount <= f.outside + b =>
                    t.out \in Nat /\ BondingKept(f, t.market, q + t.out, b - amount)
  <1>. DEFINE left == f.outside + b
  <1>1. /\ left \in Nat /\ BondingCurveMarket(m, left)
        /\ Fair(f.virtual_sol, f.virtual_token,
              m.virtual_sol, m.virtual_token, q, b)
    BY DEF BondingKept
  <1>2. b \in Int
    BY <1>1 DEF Fair, Paid
  <1>3. ASSUME NEW t, t = BondingCurveQuote(m, TRUE, amount), t.out > 0
        PROVE  t.out \in Nat /\ BondingKept(f, t.market, q - amount, b + t.out)
    <2>1. /\ Swapped(m.virtual_sol, m.virtual_token,
                 t.market.virtual_sol, t.market.virtual_token, amount, t.out)
          /\ BondingCurveMarket(t.market, left + t.out)
      <3>. HIDE DEF left
      <3>. QED
        BY <1>1, <1>3, BondingCurveTrades, Zenon
    <2>2. t.out \in Nat
      BY <2>1 DEF Swapped
    <2>3. Fair(f.virtual_sol, f.virtual_token,
              t.market.virtual_sol, t.market.virtual_token, q - amount, b + t.out)
      BY <1>1, <2>1, FairAfterSwap, Zenon
    <2>4. left + t.out = f.outside + (b + t.out) /\ left + t.out \in Nat
      BY <1>1, <1>2, <2>2
    <2>5. /\ f.outside + (b + t.out) \in Nat
          /\ BondingCurveMarket(t.market, f.outside + (b + t.out))
      BY <2>1, <2>4, Zenon
    <2>. QED
      BY <2>2, <2>3, <2>5, Zenon DEF BondingKept
  <1>4. ASSUME NEW t, t = BondingCurveQuote(m, FALSE, amount), t.out > 0, amount <= f.outside + b
        PROVE  t.out \in Nat /\ BondingKept(f, t.market, q + t.out, b - amount)
    <2>1. /\ Swapped(m.virtual_token, m.virtual_sol,
                 t.market.virtual_token, t.market.virtual_sol, amount, t.out)
          /\ BondingCurveMarket(t.market, left - amount)
      <3>1. amount <= left
        BY <1>4
      <3>. HIDE DEF left
      <3>. QED
        BY <1>1, <1>4, <3>1, BondingCurveTrades, Zenon
    <2>2. t.out \in Nat
      BY <2>1 DEF Swapped
    <2>3. Fair(f.virtual_sol, f.virtual_token,
              t.market.virtual_sol, t.market.virtual_token, q + t.out, b - amount)
      BY <1>1, <2>1, FairAfterSwap, Zenon
    <2>4. left - amount = f.outside + (b - amount) /\ left - amount \in Nat
      BY <1>1, <1>2, <1>4
    <2>5. /\ f.outside + (b - amount) \in Nat
          /\ BondingCurveMarket(t.market, f.outside + (b - amount))
      BY <2>1, <2>4, Zenon
    <2>. QED
      BY <2>2, <2>3, <2>5, Zenon DEF BondingKept
  <1>. QED
    BY <1>3, <1>4, Zenon

\* Bonk's, likewise
LaunchKept(f, m, q, b) ==
    /\ f.outside + b \in Nat /\ BonkMarket(m, f.outside + b)
    /\ Fair(f.virtual_quote + f.real_quote, f.virtual_base - f.real_base,
              m.virtual_quote + m.real_quote, m.virtual_base - m.real_base, q, b)

\* A trade of it keeps it; what is sold is outside.
LEMMA LaunchKeeps ==
    ASSUME NEW f, f.outside \in Nat, NEW m, NEW q, NEW b, LaunchKept(f, m, q, b), NEW amount \in Nat
    PROVE  /\ LET t == BonkQuote(m, TRUE, amount)
              IN  t.out > 0 => t.out \in Nat /\ LaunchKept(f, t.market, q - amount, b + t.out)
           /\ LET t == BonkQuote(m, FALSE, amount)
              IN  t.out > 0 /\ amount <= f.outside + b =>
                    t.out \in Nat /\ LaunchKept(f, t.market, q + t.out, b - amount)
  <1>. DEFINE left == f.outside + b
  <1>1. /\ left \in Nat /\ BonkMarket(m, left)
        /\ Fair(f.virtual_quote + f.real_quote, f.virtual_base - f.real_base,
              m.virtual_quote + m.real_quote, m.virtual_base - m.real_base, q, b)
    BY DEF LaunchKept
  <1>2. b \in Int
    BY <1>1 DEF Fair, Paid
  <1>3. ASSUME NEW t, t = BonkQuote(m, TRUE, amount), t.out > 0
        PROVE  t.out \in Nat /\ LaunchKept(f, t.market, q - amount, b + t.out)
    <2>1. /\ Swapped(m.virtual_quote + m.real_quote, m.virtual_base - m.real_base,
                 t.market.virtual_quote + t.market.real_quote, t.market.virtual_base - t.market.real_base, amount, t.out)
          /\ BonkMarket(t.market, left + t.out)
      <3>. HIDE DEF left
      <3>. QED
        BY <1>1, <1>3, LaunchTrades, Zenon
    <2>2. t.out \in Nat
      BY <2>1 DEF Swapped
    <2>3. Fair(f.virtual_quote + f.real_quote, f.virtual_base - f.real_base,
              t.market.virtual_quote + t.market.real_quote, t.market.virtual_base - t.market.real_base, q - amount, b + t.out)
      BY <1>1, <2>1, FairAfterSwap, Zenon
    <2>4. left + t.out = f.outside + (b + t.out) /\ left + t.out \in Nat
      BY <1>1, <1>2, <2>2
    <2>5. /\ f.outside + (b + t.out) \in Nat
          /\ BonkMarket(t.market, f.outside + (b + t.out))
      BY <2>1, <2>4, Zenon
    <2>. QED
      BY <2>2, <2>3, <2>5, Zenon DEF LaunchKept
  <1>4. ASSUME NEW t, t = BonkQuote(m, FALSE, amount), t.out > 0, amount <= f.outside + b
        PROVE  t.out \in Nat /\ LaunchKept(f, t.market, q + t.out, b - amount)
    <2>1. /\ Swapped(m.virtual_base - m.real_base, m.virtual_quote + m.real_quote,
                 t.market.virtual_base - t.market.real_base, t.market.virtual_quote + t.market.real_quote, amount, t.out)
          /\ BonkMarket(t.market, left - amount)
      <3>1. amount <= left
        BY <1>4
      <3>. HIDE DEF left
      <3>. QED
        BY <1>1, <1>4, <3>1, LaunchTrades, Zenon
    <2>2. t.out \in Nat
      BY <2>1 DEF Swapped
    <2>3. Fair(f.virtual_quote + f.real_quote, f.virtual_base - f.real_base,
              t.market.virtual_quote + t.market.real_quote, t.market.virtual_base - t.market.real_base, q + t.out, b - amount)
      BY <1>1, <2>1, FairAfterSwap, Zenon
    <2>4. left - amount = f.outside + (b - amount) /\ left - amount \in Nat
      BY <1>1, <1>2, <1>4
    <2>5. /\ f.outside + (b - amount) \in Nat
          /\ BonkMarket(t.market, f.outside + (b - amount))
      BY <2>1, <2>4, Zenon
    <2>. QED
      BY <2>2, <2>3, <2>5, Zenon DEF LaunchKept
  <1>. QED
    BY <1>3, <1>4, Zenon

\* A DAMM V1 pool without vault accounts; quote is token a of a flipped one
OfflineKept(f, m, q, b) ==
    /\ OfflineMarket(m) /\ f.flipped \in BOOLEAN /\ m.flipped = f.flipped /\ m.amp = f.amp
    /\ f.amp = 0 =>
          IF f.flipped THEN Fair(f.a, f.b, m.a, m.b, q, b)
          ELSE Fair(f.b, f.a, m.b, m.a, q, b)

\* A trade of it keeps it.
LEMMA OfflineKeeps ==
    ASSUME NEW f, NEW m, NEW q, NEW b, OfflineKept(f, m, q, b), NEW amount \in Nat
    PROVE  /\ LET t == DammOffline(m, TRUE, amount)
              IN  t.out > 0 => t.out \in Nat /\ OfflineKept(f, t.market, q - amount, b + t.out)
           /\ LET t == DammOffline(m, FALSE, amount)
              IN  t.out > 0 => t.out \in Nat /\ OfflineKept(f, t.market, q + t.out, b - amount)
  <1>1. /\ OfflineMarket(m) /\ (f.flipped = TRUE \/ f.flipped = FALSE)
        /\ m.flipped = f.flipped /\ m.amp = f.amp
        /\ f.amp = 0 =>
              IF f.flipped THEN Fair(f.a, f.b, m.a, m.b, q, b)
              ELSE Fair(f.b, f.a, m.b, m.a, q, b)
    BY DEF OfflineKept
  <1>2. \A buy, t : t = DammOffline(m, buy, amount) /\ t.out > 0 =>
            /\ OfflineMarket(t.market) /\ t.market.flipped = m.flipped /\ t.out \in Nat
            /\ t.market.amp = m.amp
            /\ m.amp = 0 /\ buy = m.flipped =>
                  Swapped(m.a, m.b, t.market.a, t.market.b, amount, t.out)
            /\ m.amp = 0 /\ buy # m.flipped =>
                  Swapped(m.b, m.a, t.market.b, t.market.a, amount, t.out)
    <2>. TAKE buy, t
    <2>. HAVE t = DammOffline(m, buy, amount) /\ t.out > 0
    <2>1. /\ OfflineMarket(t.market) /\ t.market.flipped = m.flipped /\ t.out \in Nat
          /\ t.market.amp = m.amp
          /\ m.amp = 0 =>
                IF buy = m.flipped
                THEN Swapped(m.a, m.b, t.market.a, t.market.b, amount, t.out)
                ELSE Swapped(m.b, m.a, t.market.b, t.market.a, amount, t.out)
      BY <1>1, OfflineTrades
    <2>. QED
      BY <2>1
  <1>3. ASSUME NEW t, t = DammOffline(m, TRUE, amount), t.out > 0
        PROVE  t.out \in Nat /\ OfflineKept(f, t.market, q - amount, b + t.out)
    <2>1. /\ OfflineMarket(t.market) /\ t.market.flipped = m.flipped /\ t.out \in Nat
          /\ t.market.amp = m.amp
          /\ m.amp = 0 /\ m.flipped = TRUE =>
                Swapped(m.a, m.b, t.market.a, t.market.b, amount, t.out)
          /\ m.amp = 0 /\ m.flipped = FALSE =>
                Swapped(m.b, m.a, t.market.b, t.market.a, amount, t.out)
      BY <1>2, <1>3, Zenon
    <2>2. ASSUME f.amp = 0, f.flipped = TRUE
          PROVE  Fair(f.a, f.b, t.market.a, t.market.b, q - amount, b + t.out)
      <3>1. Fair(f.a, f.b, m.a, m.b, q, b)
        BY <1>1, <2>2, Zenon
      <3>2. Swapped(m.a, m.b, t.market.a, t.market.b, amount, t.out)
        BY <1>1, <2>1, <2>2, Zenon
      <3>. QED
        BY <3>1, <3>2, FairAfterSwap, Zenon
    <2>3. ASSUME f.amp = 0, f.flipped = FALSE
          PROVE  Fair(f.b, f.a, t.market.b, t.market.a, q - amount, b + t.out)
      <3>1. Fair(f.b, f.a, m.b, m.a, q, b)
        BY <1>1, <2>3, Zenon
      <3>2. Swapped(m.b, m.a, t.market.b, t.market.a, amount, t.out)
        BY <1>1, <2>1, <2>3, Zenon
      <3>. QED
        BY <3>1, <3>2, FairAfterSwap, Zenon
    <2>4. t.market.flipped = f.flipped /\ t.market.amp = f.amp
      BY <1>1, <2>1, Zenon
    <2>. QED
      BY <1>1, <2>1, <2>2, <2>3, <2>4, Zenon DEF OfflineKept
  <1>4. ASSUME NEW t, t = DammOffline(m, FALSE, amount), t.out > 0
        PROVE  t.out \in Nat /\ OfflineKept(f, t.market, q + t.out, b - amount)
    <2>1. /\ OfflineMarket(t.market) /\ t.market.flipped = m.flipped /\ t.out \in Nat
          /\ t.market.amp = m.amp
          /\ m.amp = 0 /\ m.flipped = TRUE =>
                Swapped(m.b, m.a, t.market.b, t.market.a, amount, t.out)
          /\ m.amp = 0 /\ m.flipped = FALSE =>
                Swapped(m.a, m.b, t.market.a, t.market.b, amount, t.out)
      BY <1>2, <1>4, Zenon
    <2>2. ASSUME f.amp = 0, f.flipped = TRUE
          PROVE  Fair(f.a, f.b, t.market.a, t.market.b, q + t.out, b - amount)
      <3>1. Fair(f.a, f.b, m.a, m.b, q, b)
        BY <1>1, <2>2, Zenon
      <3>2. Swapped(m.b, m.a, t.market.b, t.market.a, amount, t.out)
        BY <1>1, <2>1, <2>2, Zenon
      <3>. QED
        BY <3>1, <3>2, FairAfterSwap, Zenon
    <2>3. ASSUME f.amp = 0, f.flipped = FALSE
          PROVE  Fair(f.b, f.a, t.market.b, t.market.a, q + t.out, b - amount)
      <3>1. Fair(f.b, f.a, m.b, m.a, q, b)
        BY <1>1, <2>3, Zenon
      <3>2. Swapped(m.a, m.b, t.market.a, t.market.b, amount, t.out)
        BY <1>1, <2>1, <2>3, Zenon
      <3>. QED
        BY <3>1, <3>2, FairAfterSwap, Zenon
    <2>4. t.market.flipped = f.flipped /\ t.market.amp = f.amp
      BY <1>1, <2>1, Zenon
    <2>. QED
      BY <1>1, <2>1, <2>2, <2>3, <2>4, Zenon DEF OfflineKept
  <1>. QED
    BY <1>3, <1>4, Zenon

\* A DAMM V1 pool over its two vaults
DammKept(f, m, q, b) ==
    /\ DammMarket(m) /\ f.flipped \in BOOLEAN /\ m.flipped = f.flipped /\ m.amp = f.amp
    /\ f.amp = 0 =>
          IF f.flipped THEN Fair(Reserve(f, f.a), Reserve(f, f.b), Reserve(m, m.a), Reserve(m, m.b), q, b)
          ELSE Fair(Reserve(f, f.b), Reserve(f, f.a), Reserve(m, m.b), Reserve(m, m.a), q, b)

\* A trade of it keeps it.
LEMMA DammKeeps ==
    ASSUME NEW f, NEW m, NEW q, NEW b, DammKept(f, m, q, b), NEW amount \in Nat
    PROVE  /\ LET t == DammQuote(m, TRUE, amount)
              IN  t.out > 0 => t.out \in Nat /\ DammKept(f, t.market, q - amount, b + t.out)
           /\ LET t == DammQuote(m, FALSE, amount)
              IN  t.out > 0 => t.out \in Nat /\ DammKept(f, t.market, q + t.out, b - amount)
  <1>1. /\ DammMarket(m) /\ (f.flipped = TRUE \/ f.flipped = FALSE)
        /\ m.flipped = f.flipped /\ m.amp = f.amp
        /\ f.amp = 0 =>
              IF f.flipped THEN Fair(Reserve(f, f.a), Reserve(f, f.b), Reserve(m, m.a), Reserve(m, m.b), q, b)
              ELSE Fair(Reserve(f, f.b), Reserve(f, f.a), Reserve(m, m.b), Reserve(m, m.a), q, b)
    BY DEF DammKept
  <1>2. \A buy, t : t = DammQuote(m, buy, amount) /\ t.out > 0 =>
            /\ DammMarket(t.market) /\ t.market.flipped = m.flipped /\ t.out \in Nat
            /\ t.market.amp = m.amp
            /\ m.amp = 0 /\ buy = m.flipped =>
                  Swapped(Reserve(m, m.a), Reserve(m, m.b), Reserve(t.market, t.market.a), Reserve(t.market, t.market.b), amount, t.out)
            /\ m.amp = 0 /\ buy # m.flipped =>
                  Swapped(Reserve(m, m.b), Reserve(m, m.a), Reserve(t.market, t.market.b), Reserve(t.market, t.market.a), amount, t.out)
    <2>. TAKE buy, t
    <2>. HAVE t = DammQuote(m, buy, amount) /\ t.out > 0
    <2>1. /\ DammMarket(t.market) /\ t.market.flipped = m.flipped /\ t.out \in Nat
          /\ t.market.amp = m.amp
          /\ m.amp = 0 =>
                IF buy = m.flipped
                THEN Swapped(Reserve(m, m.a), Reserve(m, m.b), Reserve(t.market, t.market.a), Reserve(t.market, t.market.b), amount, t.out)
                ELSE Swapped(Reserve(m, m.b), Reserve(m, m.a), Reserve(t.market, t.market.b), Reserve(t.market, t.market.a), amount, t.out)
      BY <1>1, DammTrades
    <2>. QED
      BY <2>1
  <1>3. ASSUME NEW t, t = DammQuote(m, TRUE, amount), t.out > 0
        PROVE  t.out \in Nat /\ DammKept(f, t.market, q - amount, b + t.out)
    <2>1. /\ DammMarket(t.market) /\ t.market.flipped = m.flipped /\ t.out \in Nat
          /\ t.market.amp = m.amp
          /\ m.amp = 0 /\ m.flipped = TRUE =>
                Swapped(Reserve(m, m.a), Reserve(m, m.b), Reserve(t.market, t.market.a), Reserve(t.market, t.market.b), amount, t.out)
          /\ m.amp = 0 /\ m.flipped = FALSE =>
                Swapped(Reserve(m, m.b), Reserve(m, m.a), Reserve(t.market, t.market.b), Reserve(t.market, t.market.a), amount, t.out)
      BY <1>2, <1>3, Zenon
    <2>2. ASSUME f.amp = 0, f.flipped = TRUE
          PROVE  Fair(Reserve(f, f.a), Reserve(f, f.b), Reserve(t.market, t.market.a), Reserve(t.market, t.market.b), q - amount, b + t.out)
      <3>1. Fair(Reserve(f, f.a), Reserve(f, f.b), Reserve(m, m.a), Reserve(m, m.b), q, b)
        BY <1>1, <2>2, Zenon
      <3>2. Swapped(Reserve(m, m.a), Reserve(m, m.b), Reserve(t.market, t.market.a), Reserve(t.market, t.market.b), amount, t.out)
        BY <1>1, <2>1, <2>2, Zenon
      <3>. QED
        BY <3>1, <3>2, FairAfterSwap, Zenon
    <2>3. ASSUME f.amp = 0, f.flipped = FALSE
          PROVE  Fair(Reserve(f, f.b), Reserve(f, f.a), Reserve(t.market, t.market.b), Reserve(t.market, t.market.a), q - amount, b + t.out)
      <3>1. Fair(Reserve(f, f.b), Reserve(f, f.a), Reserve(m, m.b), Reserve(m, m.a), q, b)
        BY <1>1, <2>3, Zenon
      <3>2. Swapped(Reserve(m, m.b), Reserve(m, m.a), Reserve(t.market, t.market.b), Reserve(t.market, t.market.a), amount, t.out)
        BY <1>1, <2>1, <2>3, Zenon
      <3>. QED
        BY <3>1, <3>2, FairAfterSwap, Zenon
    <2>4. t.market.flipped = f.flipped /\ t.market.amp = f.amp
      BY <1>1, <2>1, Zenon
    <2>. QED
      BY <1>1, <2>1, <2>2, <2>3, <2>4, Zenon DEF DammKept
  <1>4. ASSUME NEW t, t = DammQuote(m, FALSE, amount), t.out > 0
        PROVE  t.out \in Nat /\ DammKept(f, t.market, q + t.out, b - amount)
    <2>1. /\ DammMarket(t.market) /\ t.market.flipped = m.flipped /\ t.out \in Nat
          /\ t.market.amp = m.amp
          /\ m.amp = 0 /\ m.flipped = TRUE =>
                Swapped(Reserve(m, m.b), Reserve(m, m.a), Reserve(t.market, t.market.b), Reserve(t.market, t.market.a), amount, t.out)
          /\ m.amp = 0 /\ m.flipped = FALSE =>
                Swapped(Reserve(m, m.a), Reserve(m, m.b), Reserve(t.market, t.market.a), Reserve(t.market, t.market.b), amount, t.out)
      BY <1>2, <1>4, Zenon
    <2>2. ASSUME f.amp = 0, f.flipped = TRUE
          PROVE  Fair(Reserve(f, f.a), Reserve(f, f.b), Reserve(t.market, t.market.a), Reserve(t.market, t.market.b), q + t.out, b - amount)
      <3>1. Fair(Reserve(f, f.a), Reserve(f, f.b), Reserve(m, m.a), Reserve(m, m.b), q, b)
        BY <1>1, <2>2, Zenon
      <3>2. Swapped(Reserve(m, m.b), Reserve(m, m.a), Reserve(t.market, t.market.b), Reserve(t.market, t.market.a), amount, t.out)
        BY <1>1, <2>1, <2>2, Zenon
      <3>. QED
        BY <3>1, <3>2, FairAfterSwap, Zenon
    <2>3. ASSUME f.amp = 0, f.flipped = FALSE
          PROVE  Fair(Reserve(f, f.b), Reserve(f, f.a), Reserve(t.market, t.market.b), Reserve(t.market, t.market.a), q + t.out, b - amount)
      <3>1. Fair(Reserve(f, f.b), Reserve(f, f.a), Reserve(m, m.b), Reserve(m, m.a), q, b)
        BY <1>1, <2>3, Zenon
      <3>2. Swapped(Reserve(m, m.a), Reserve(m, m.b), Reserve(t.market, t.market.a), Reserve(t.market, t.market.b), amount, t.out)
        BY <1>1, <2>1, <2>3, Zenon
      <3>. QED
        BY <3>1, <3>2, FairAfterSwap, Zenon
    <2>4. t.market.flipped = f.flipped /\ t.market.amp = f.amp
      BY <1>1, <2>1, Zenon
    <2>. QED
      BY <1>1, <2>1, <2>2, <2>3, <2>4, Zenon DEF DammKept
  <1>. QED
    BY <1>3, <1>4, Zenon

\* PumpSwap: the curve is the one the pool was loaded with; each trade gives
\* away less than a unit at its rounding.  An empty side quotes nothing.
CurveKept(f, m, q, b, t) ==
    /\ m = f /\ PumpSwapMarket(m) /\ q \in Int /\ b \in Int /\ t \in Nat
    /\ UpOnCurve(m, q, b) <= t * (m.virtual_sol + m.virtual_token - 1)
    /\ m.virtual_sol * m.virtual_token = 0 => q = 0 /\ b = 0 /\ t = 0

\* A trade keeps it.
LEMMA CurveKeeps ==
    ASSUME NEW f, NEW m, NEW q, NEW b, NEW n, CurveKept(f, m, q, b, n), NEW amount \in Nat
    PROVE  /\ LET t == PumpSwapQuote(m, TRUE, amount)
              IN  t.out > 0 => t.out \in Nat /\ CurveKept(f, t.market, q - amount, b + t.out, n + 1)
           /\ LET t == PumpSwapQuote(m, FALSE, amount)
              IN  t.out > 0 => t.out \in Nat /\ CurveKept(f, t.market, q + t.out, b - amount, n + 1)
  <1>. DEFINE s == m.virtual_sol + m.virtual_token - 1
              up == UpOnCurve(m, q, b)
  <1>1. /\ m = f /\ PumpSwapMarket(m) /\ q \in Int /\ b \in Int /\ n \in Nat
        /\ up <= n * s
    BY DEF CurveKept
  <1>2. m.virtual_sol \in Nat /\ m.virtual_token \in Nat
    BY <1>1 DEF PumpSwapMarket
  <1>3. \A buy : PumpSwapQuote(m, buy, amount).out > 0 => m.virtual_sol * m.virtual_token # 0
    BY DEF PumpSwapQuote, NoQuote, Quoted
  <1>4. s \in Int /\ (n + 1) * s = n * s + s /\ n * s \in Int
    <2>1. s \in Int
      BY <1>2
    <2>. HIDE DEF s
    <2>. QED
      BY <1>1, <2>1
  <1>5. up \in Int
    BY <1>1, <1>2 DEF UpOnCurve
  <1>6. \A q2, b2 \in Int : UpOnCurve(m, q2, b2) <= up + s => UpOnCurve(m, q2, b2) <= (n + 1) * s
    <2>1. \A q2, b2 \in Int : UpOnCurve(m, q2, b2) \in Int
      BY <1>2 DEF UpOnCurve
    <2>. HIDE DEF s, up
    <2>. QED
      BY <1>1, <1>4, <1>5, <2>1
  <1>7. ASSUME NEW t, t = PumpSwapQuote(m, TRUE, amount), t.out > 0
        PROVE  t.out \in Nat /\ CurveKept(f, t.market, q - amount, b + t.out, n + 1)
    <2>1. /\ t.out \in Nat /\ t.market = m
          /\ UpOnCurve(m, q - amount, b + t.out) <= UpOnCurve(m, q, b) + m.virtual_sol + m.virtual_token - 1
      BY <1>1, <1>7, PumpSwapTrades, Zenon
    <2>2. q - amount \in Int /\ b + t.out \in Int /\ n + 1 \in Nat
      BY <1>1, <2>1
    <2>3. up + m.virtual_sol + m.virtual_token - 1 = up + s
      BY <1>2, <1>5
    <2>4. UpOnCurve(m, q - amount, b + t.out) <= (n + 1) * s
      BY <1>6, <2>1, <2>2, <2>3, Zenon
    <2>5. m.virtual_sol * m.virtual_token # 0
      BY <1>3, <1>7, Zenon
    <2>. QED
      BY <1>1, <2>1, <2>2, <2>4, <2>5, Zenon DEF CurveKept
  <1>8. ASSUME NEW t, t = PumpSwapQuote(m, FALSE, amount), t.out > 0
        PROVE  t.out \in Nat /\ CurveKept(f, t.market, q + t.out, b - amount, n + 1)
    <2>1. /\ t.out \in Nat /\ t.market = m
          /\ UpOnCurve(m, q + t.out, b - amount) <= UpOnCurve(m, q, b) + m.virtual_sol + m.virtual_token - 1
      BY <1>1, <1>8, PumpSwapTrades, Zenon
    <2>2. q + t.out \in Int /\ b - amount \in Int /\ n + 1 \in Nat
      BY <1>1, <2>1
    <2>3. up + m.virtual_sol + m.virtual_token - 1 = up + s
      BY <1>2, <1>5
    <2>4. UpOnCurve(m, q + t.out, b - amount) <= (n + 1) * s
      BY <1>6, <2>1, <2>2, <2>3, Zenon
    <2>5. m.virtual_sol * m.virtual_token # 0
      BY <1>3, <1>8, Zenon
    <2>. QED
      BY <1>1, <2>1, <2>2, <2>4, <2>5, Zenon DEF CurveKept
  <1>. QED
    BY <1>7, <1>8, Zenon

\* A pool quoted at its price: at that price the trader is not up.
SpotKept(m, q, b) == SpotMarket(m) /\ q \in Int /\ b \in Int /\ Worth(m, q, b) <= 0

\* A trade keeps it.
LEMMA SpotKeeps ==
    ASSUME NEW m, {"venue", "outside"} \subseteq DOMAIN m, m.venue \in SpotVenues,
           NEW q, NEW b, SpotKept(m, q, b), NEW amount \in Nat
    PROVE  /\ LET t == MarketQuote(m, TRUE, amount)
              IN  t.out \in Nat /\ SpotKept(t.market, q - amount, b + t.out)
           /\ LET t == MarketQuote(m, FALSE, amount)
              IN  t.out \in Nat /\ SpotKept(t.market, q + t.out, b - amount)
  <1>1. SpotMarket(m) /\ q \in Int /\ b \in Int /\ Worth(m, q, b) <= 0
    BY DEF SpotKept
  <1>2. \A n : SpotMarket(n) => \A x, y \in Int : Worth(n, x, y) \in Int
    <2>. SUFFICES ASSUME NEW n, SpotMarket(n), NEW x \in Int, NEW y \in Int PROVE Worth(n, x, y) \in Int
      OBVIOUS
    <2>1. SpotPrice(n).a \in Nat /\ SpotPrice(n).b \in Nat
      BY SpotPriceIs
    <2>2. \A z \in Int : z * SpotPrice(n).a \in Int /\ z * SpotPrice(n).b \in Int
      BY <2>1
    <2>. QED
      BY <2>2 DEF Worth
  <1>3. ASSUME NEW t, t = MarketQuote(m, TRUE, amount)
        PROVE  t.out \in Nat /\ SpotKept(t.market, q - amount, b + t.out)
    <2>1. /\ t.out \in Nat /\ SpotMarket(t.market)
          /\ Worth(t.market, q - amount, b + t.out) <= Worth(m, q, b)
      <3>1. \A buy \in BOOLEAN, x \in Nat :
                LET r == MarketQuote(m, buy, x)
                IN  /\ r.out \in Nat /\ SpotMarket(r.market)
                    /\ IF buy THEN Worth(r.market, q - x, b + r.out) <= Worth(m, q, b)
                       ELSE Worth(r.market, q + r.out, b - x) <= Worth(m, q, b)
        BY <1>1, SpotTradeIsFair
      <3>. QED
        BY <1>3, <3>1
    <2>2. q - amount \in Int /\ b + t.out \in Int
      BY <1>1, <2>1
    <2>3. Worth(t.market, q - amount, b + t.out) \in Int /\ Worth(m, q, b) \in Int
      BY <1>1, <1>2, <2>1, <2>2, Zenon
    <2>4. Worth(t.market, q - amount, b + t.out) <= 0
      BY <1>1, <2>1, <2>3
    <2>. QED
      BY <2>1, <2>2, <2>4, Zenon DEF SpotKept
  <1>4. ASSUME NEW t, t = MarketQuote(m, FALSE, amount)
        PROVE  t.out \in Nat /\ SpotKept(t.market, q + t.out, b - amount)
    <2>1. /\ t.out \in Nat /\ SpotMarket(t.market)
          /\ Worth(t.market, q + t.out, b - amount) <= Worth(m, q, b)
      <3>1. \A buy \in BOOLEAN, x \in Nat :
                LET r == MarketQuote(m, buy, x)
                IN  /\ r.out \in Nat /\ SpotMarket(r.market)
                    /\ IF buy THEN Worth(r.market, q - x, b + r.out) <= Worth(m, q, b)
                       ELSE Worth(r.market, q + r.out, b - x) <= Worth(m, q, b)
        BY <1>1, SpotTradeIsFair
      <3>. QED
        BY <1>4, <3>1
    <2>2. q + t.out \in Int /\ b - amount \in Int
      BY <1>1, <2>1
    <2>3. Worth(t.market, q + t.out, b - amount) \in Int /\ Worth(m, q, b) \in Int
      BY <1>1, <1>2, <2>1, <2>2, Zenon
    <2>4. Worth(t.market, q + t.out, b - amount) <= 0
      BY <1>1, <2>1, <2>3
    <2>. QED
      BY <2>1, <2>2, <2>4, Zenon DEF SpotKept
  <1>. QED
    BY <1>3, <1>4, Zenon

\* A dynamic bonding curve: what the trader is up, the ladder has moved.
DbcKept(f, m, q, b) ==
    /\ DbcMarket(f) /\ DbcMarket(m) /\ SameLadder(f, m) /\ q \in Int /\ b \in Int
    /\ Gained(f, f.sqrt_price, m.sqrt_price, q, b)

\* What stays the same from one ladder to the next and on stays the same.
LEMMA LadderStays ==
    ASSUME NEW f, NEW m, NEW o, SameLadder(f, m), SameLadder(m, o)
    PROVE  SameLadder(f, o)
  BY Zenon DEF SameLadder

\* A trade keeps it.
LEMMA DbcKeeps ==
    ASSUME NEW f, NEW m, NEW q, NEW b, DbcKept(f, m, q, b), NEW amount \in Nat
    PROVE  /\ LET t == DbcQuote(m, TRUE, amount)
              IN  t.out > 0 => t.out \in Nat /\ DbcKept(f, t.market, q - amount, b + t.out)
           /\ LET t == DbcQuote(m, FALSE, amount)
              IN  t.out > 0 => t.out \in Nat /\ DbcKept(f, t.market, q + t.out, b - amount)
  <1>1. /\ DbcMarket(f) /\ DbcMarket(m) /\ SameLadder(f, m) /\ q \in Int /\ b \in Int
        /\ Gained(f, f.sqrt_price, m.sqrt_price, q, b)
    BY Zenon DEF DbcKept
  <1>2. \A n : DbcMarket(n) => Ladder(n) /\ n.sqrt_price \in Nat \ {0}
    <2>1. \A n : DbcMarket(n) => Ladder(n) /\ OnLadder(n, n.sqrt_price, n.quote_reserve, n.base_reserve)
      BY DbcMarketIs, Zenon
    <2>. QED
      BY <2>1, Zenon DEF OnLadder
  <1>3. ASSUME NEW n, DbcMarket(n), SameLadder(m, n), NEW dq \in Int, NEW db \in Int,
               Gained(m, m.sqrt_price, n.sqrt_price, dq, db)
        PROVE  DbcKept(f, n, q + dq, b + db)
    <2>1. SameLadder(f, n)
      BY <1>1, <1>3, LadderStays, Zenon
    <2>2. Ladder(f) /\ f.sqrt_price \in Nat \ {0} /\ m.sqrt_price \in Nat \ {0} /\ n.sqrt_price \in Nat \ {0}
      BY <1>1, <1>2, <1>3, Zenon
    <2>3. Gained(f, f.sqrt_price, n.sqrt_price, q + dq, b + db)
      BY <1>1, <1>3, <2>2, GainedTwice, Zenon
    <2>4. q + dq \in Int /\ b + db \in Int
      BY <1>1
    <2>. QED
      BY <1>1, <1>3, <2>1, <2>3, <2>4, Zenon DEF DbcKept
  <1>4. ASSUME NEW t, t = DbcQuote(m, TRUE, amount), t.out > 0
        PROVE  t.out \in Nat /\ DbcKept(f, t.market, q - amount, b + t.out)
    <2>1. /\ t.out \in Nat /\ DbcMarket(t.market) /\ SameLadder(m, t.market)
          /\ Gained(m, m.sqrt_price, t.market.sqrt_price, -amount, t.out)
      BY <1>1, <1>4, DbcBuys, Zenon
    <2>2. -amount \in Int /\ t.out \in Int /\ q + (-amount) = q - amount
      BY <1>1, <2>1
    <2>3. DbcKept(f, t.market, q + (-amount), b + t.out)
      BY <1>3, <2>1, <2>2, Zenon
    <2>. QED
      BY <2>1, <2>2, <2>3, Zenon
  <1>5. ASSUME NEW t, t = DbcQuote(m, FALSE, amount), t.out > 0
        PROVE  t.out \in Nat /\ DbcKept(f, t.market, q + t.out, b - amount)
    <2>1. /\ t.out \in Nat /\ DbcMarket(t.market) /\ SameLadder(m, t.market)
          /\ Gained(m, m.sqrt_price, t.market.sqrt_price, t.out, -amount)
      BY <1>1, <1>5, DbcSells, Zenon
    <2>2. -amount \in Int /\ t.out \in Int /\ b + (-amount) = b - amount
      BY <1>1, <2>1
    <2>3. DbcKept(f, t.market, q + t.out, b + (-amount))
      BY <1>3, <2>1, <2>2, Zenon
    <2>. QED
      BY <2>1, <2>2, <2>3, Zenon
  <1>. QED
    BY <1>4, <1>5, Zenon

\* What is kept, by venue
Kept(f, m, q, b, n) ==
    /\ m.venue \in SpotVenues => SpotKept(m, q, b)
    /\ m.venue = "Raydium AMM V4" => PoolKept(f, m, q, b)
    /\ m.venue = "Pumpfun AMM" => CurveKept(f, m, q, b, n)
    /\ m.venue = "Pumpfun BC" => BondingKept(f, m, q, b)
    /\ m.venue = "Bonk" => LaunchKept(f, m, q, b)
    /\ m.venue = "Meteora DBC" => DbcKept(f, m, q, b)
    /\ m.venue = "Meteora DAMM V1" => DammKept(f, m, q, b)
    /\ m.venue = "Meteora DAMM V1 offline" => OfflineKept(f, m, q, b)

\* A market is of one venue.
LEMMA VenueKeeps ==
    ASSUME NEW f, NEW m, NEW q, NEW b, NEW n
    PROVE  /\ m.venue \in SpotVenues => (SpotKept(m, q, b) <=> Kept(f, m, q, b, n))
           /\ m.venue = "Raydium AMM V4" => (PoolKept(f, m, q, b) <=> Kept(f, m, q, b, n))
           /\ m.venue = "Pumpfun AMM" => (CurveKept(f, m, q, b, n) <=> Kept(f, m, q, b, n))
           /\ m.venue = "Pumpfun BC" => (BondingKept(f, m, q, b) <=> Kept(f, m, q, b, n))
           /\ m.venue = "Bonk" => (LaunchKept(f, m, q, b) <=> Kept(f, m, q, b, n))
           /\ m.venue = "Meteora DBC" => (DbcKept(f, m, q, b) <=> Kept(f, m, q, b, n))
           /\ m.venue = "Meteora DAMM V1" => (DammKept(f, m, q, b) <=> Kept(f, m, q, b, n))
           /\ m.venue = "Meteora DAMM V1 offline" => (OfflineKept(f, m, q, b) <=> Kept(f, m, q, b, n))
  <1>1. ASSUME m.venue = "Raydium AMM V4" PROVE PoolKept(f, m, q, b) <=> Kept(f, m, q, b, n)
    BY <1>1, Zenon DEF Kept, SpotVenues
  <1>2. ASSUME m.venue = "Pumpfun AMM" PROVE CurveKept(f, m, q, b, n) <=> Kept(f, m, q, b, n)
    BY <1>2, Zenon DEF Kept, SpotVenues
  <1>3. ASSUME m.venue = "Pumpfun BC" PROVE BondingKept(f, m, q, b) <=> Kept(f, m, q, b, n)
    BY <1>3, Zenon DEF Kept, SpotVenues
  <1>4. ASSUME m.venue = "Bonk" PROVE LaunchKept(f, m, q, b) <=> Kept(f, m, q, b, n)
    BY <1>4, Zenon DEF Kept, SpotVenues
  <1>5. ASSUME m.venue = "Meteora DBC" PROVE DbcKept(f, m, q, b) <=> Kept(f, m, q, b, n)
    BY <1>5, Zenon DEF Kept, SpotVenues
  <1>6. ASSUME m.venue = "Meteora DAMM V1" PROVE DammKept(f, m, q, b) <=> Kept(f, m, q, b, n)
    BY <1>6, Zenon DEF Kept, SpotVenues
  <1>7. ASSUME m.venue = "Meteora DAMM V1 offline" PROVE OfflineKept(f, m, q, b) <=> Kept(f, m, q, b, n)
    BY <1>7, Zenon DEF Kept, SpotVenues
  <1>8. ASSUME m.venue \in SpotVenues PROVE SpotKept(m, q, b) <=> Kept(f, m, q, b, n)
    BY <1>8, Zenon DEF Kept, SpotVenues
  <1>. QED
    BY <1>1, <1>2, <1>3, <1>4, <1>5, <1>6, <1>7, <1>8, Zenon

\* Whatever a market books, it stays at its venue, and what was outside was.
LEMMA QuoteStays ==
    ASSUME NEW m, {"venue", "outside"} \subseteq DOMAIN m, m.venue \in CurveVenues,
           m.venue \in SpotVenues => SpotMarket(m), NEW buy \in BOOLEAN, NEW amount \in Nat
    PROVE  SameVenue(MarketQuote(m, buy, amount).market, m)
  <1>1. CASE m.venue \in SpotVenues
    BY <1>1, SpotTradeIsFair DEF SamePool
  <1>2. CASE m.venue \notin SpotVenues
    BY <1>2, VenueStays
  <1>. QED
    BY <1>1, <1>2

\* A trade at a venue, in the direction of buy, leaves the trader up q2 and b2.
TradeKeeps(f, t, q2, b2, n2) == t.out \in Nat /\ Kept(f, t.market, q2, b2, n2)

\* A quote that is executed keeps what is kept, at every venue.
LEMMA QuoteKeeps ==
    ASSUME NEW f, f.outside \in Nat, NEW m, SameVenue(m, f), m.venue \in CurveVenues,
           NEW q, NEW b, NEW n, Kept(f, m, q, b, n), NEW amount \in Nat
    PROVE  /\ LET t == MarketQuote(m, TRUE, amount)
              IN  t.out > 0 => TradeKeeps(f, t, q - amount, b + t.out, n + 1)
           /\ LET t == MarketQuote(m, FALSE, amount)
              IN  t.out > 0 /\ amount <= f.outside + b => TradeKeeps(f, t, q + t.out, b - amount, n + 1)
  <1>. DEFINE bought == MarketQuote(m, TRUE, amount)
              sold == MarketQuote(m, FALSE, amount)
  <1>0. bought.market.venue = m.venue /\ sold.market.venue = m.venue
    <2>1. m.venue \in SpotVenues => SpotMarket(m)
      BY VenueKeeps, Zenon DEF SpotKept
    <2>2. \A buy \in BOOLEAN : SameVenue(MarketQuote(m, buy, amount).market, m)
      BY <2>1, QuoteStays, Zenon DEF SameVenue
    <2>3. SameVenue(bought.market, m) /\ SameVenue(sold.market, m)
      BY <2>2, Zenon
    <2>. QED
      BY <2>3, Zenon DEF SameVenue
  <1>1. CASE m.venue = "Raydium AMM V4"
    <2>1. PoolKept(f, m, q, b)
      BY <1>1, VenueKeeps, Zenon
    <2>2. bought = PoolQuote(m, TRUE, amount) /\ sold = PoolQuote(m, FALSE, amount)
      BY <1>1, Zenon DEF MarketQuote
    <2>. HIDE DEF bought, sold
    <2>3. bought.out > 0 => bought.out \in Nat /\ PoolKept(f, bought.market, q - amount, b + bought.out)
      BY <2>1, <2>2, PoolKeeps, Zenon
    <2>4. sold.out > 0 /\ amount <= f.outside + b => sold.out \in Nat /\ PoolKept(f, sold.market, q + sold.out, b - amount)
      BY <2>1, <2>2, PoolKeeps, Zenon
    <2>5. bought.market.venue = "Raydium AMM V4" /\ sold.market.venue = "Raydium AMM V4"
      BY <1>0, <1>1, Zenon
    <2>6. bought.out > 0 => TradeKeeps(f, bought, q - amount, b + bought.out, n + 1)
      BY <2>3, <2>5, VenueKeeps, Zenon DEF TradeKeeps
    <2>7. sold.out > 0 /\ amount <= f.outside + b => TradeKeeps(f, sold, q + sold.out, b - amount, n + 1)
      BY <2>4, <2>5, VenueKeeps, Zenon DEF TradeKeeps
    <2>. QED
      BY <2>6, <2>7, Zenon DEF bought, sold
  <1>2. CASE m.venue = "Pumpfun AMM"
    <2>1. CurveKept(f, m, q, b, n)
      BY <1>2, VenueKeeps, Zenon
    <2>2. bought = PumpSwapQuote(m, TRUE, amount) /\ sold = PumpSwapQuote(m, FALSE, amount)
      BY <1>2, Zenon DEF MarketQuote
    <2>. HIDE DEF bought, sold
    <2>3. bought.out > 0 => bought.out \in Nat /\ CurveKept(f, bought.market, q - amount, b + bought.out, n + 1)
      BY <2>1, <2>2, CurveKeeps, Zenon
    <2>4. sold.out > 0 /\ amount <= f.outside + b => sold.out \in Nat /\ CurveKept(f, sold.market, q + sold.out, b - amount, n + 1)
      BY <2>1, <2>2, CurveKeeps, Zenon
    <2>5. bought.market.venue = "Pumpfun AMM" /\ sold.market.venue = "Pumpfun AMM"
      BY <1>0, <1>2, Zenon
    <2>6. bought.out > 0 => TradeKeeps(f, bought, q - amount, b + bought.out, n + 1)
      BY <2>3, <2>5, VenueKeeps, Zenon DEF TradeKeeps
    <2>7. sold.out > 0 /\ amount <= f.outside + b => TradeKeeps(f, sold, q + sold.out, b - amount, n + 1)
      BY <2>4, <2>5, VenueKeeps, Zenon DEF TradeKeeps
    <2>. QED
      BY <2>6, <2>7, Zenon DEF bought, sold
  <1>3. CASE m.venue = "Pumpfun BC"
    <2>1. BondingKept(f, m, q, b)
      BY <1>3, VenueKeeps, Zenon
    <2>2. bought = BondingCurveQuote(m, TRUE, amount) /\ sold = BondingCurveQuote(m, FALSE, amount)
      BY <1>3, Zenon DEF MarketQuote
    <2>. HIDE DEF bought, sold
    <2>3. bought.out > 0 => bought.out \in Nat /\ BondingKept(f, bought.market, q - amount, b + bought.out)
      BY <2>1, <2>2, BondingKeeps, Zenon
    <2>4. sold.out > 0 /\ amount <= f.outside + b => sold.out \in Nat /\ BondingKept(f, sold.market, q + sold.out, b - amount)
      BY <2>1, <2>2, BondingKeeps, Zenon
    <2>5. bought.market.venue = "Pumpfun BC" /\ sold.market.venue = "Pumpfun BC"
      BY <1>0, <1>3, Zenon
    <2>6. bought.out > 0 => TradeKeeps(f, bought, q - amount, b + bought.out, n + 1)
      BY <2>3, <2>5, VenueKeeps, Zenon DEF TradeKeeps
    <2>7. sold.out > 0 /\ amount <= f.outside + b => TradeKeeps(f, sold, q + sold.out, b - amount, n + 1)
      BY <2>4, <2>5, VenueKeeps, Zenon DEF TradeKeeps
    <2>. QED
      BY <2>6, <2>7, Zenon DEF bought, sold
  <1>4. CASE m.venue = "Bonk"
    <2>1. LaunchKept(f, m, q, b)
      BY <1>4, VenueKeeps, Zenon
    <2>2. bought = BonkQuote(m, TRUE, amount) /\ sold = BonkQuote(m, FALSE, amount)
      BY <1>4, Zenon DEF MarketQuote
    <2>. HIDE DEF bought, sold
    <2>3. bought.out > 0 => bought.out \in Nat /\ LaunchKept(f, bought.market, q - amount, b + bought.out)
      BY <2>1, <2>2, LaunchKeeps, Zenon
    <2>4. sold.out > 0 /\ amount <= f.outside + b => sold.out \in Nat /\ LaunchKept(f, sold.market, q + sold.out, b - amount)
      BY <2>1, <2>2, LaunchKeeps, Zenon
    <2>5. bought.market.venue = "Bonk" /\ sold.market.venue = "Bonk"
      BY <1>0, <1>4, Zenon
    <2>6. bought.out > 0 => TradeKeeps(f, bought, q - amount, b + bought.out, n + 1)
      BY <2>3, <2>5, VenueKeeps, Zenon DEF TradeKeeps
    <2>7. sold.out > 0 /\ amount <= f.outside + b => TradeKeeps(f, sold, q + sold.out, b - amount, n + 1)
      BY <2>4, <2>5, VenueKeeps, Zenon DEF TradeKeeps
    <2>. QED
      BY <2>6, <2>7, Zenon DEF bought, sold
  <1>5. CASE m.venue = "Meteora DBC"
    <2>1. DbcKept(f, m, q, b)
      BY <1>5, VenueKeeps, Zenon
    <2>2. bought = DbcQuote(m, TRUE, amount) /\ sold = DbcQuote(m, FALSE, amount)
      BY <1>5, Zenon DEF MarketQuote
    <2>. HIDE DEF bought, sold
    <2>3. bought.out > 0 => bought.out \in Nat /\ DbcKept(f, bought.market, q - amount, b + bought.out)
      BY <2>1, <2>2, DbcKeeps, Zenon
    <2>4. sold.out > 0 /\ amount <= f.outside + b => sold.out \in Nat /\ DbcKept(f, sold.market, q + sold.out, b - amount)
      BY <2>1, <2>2, DbcKeeps, Zenon
    <2>5. bought.market.venue = "Meteora DBC" /\ sold.market.venue = "Meteora DBC"
      BY <1>0, <1>5, Zenon
    <2>6. bought.out > 0 => TradeKeeps(f, bought, q - amount, b + bought.out, n + 1)
      BY <2>3, <2>5, VenueKeeps, Zenon DEF TradeKeeps
    <2>7. sold.out > 0 /\ amount <= f.outside + b => TradeKeeps(f, sold, q + sold.out, b - amount, n + 1)
      BY <2>4, <2>5, VenueKeeps, Zenon DEF TradeKeeps
    <2>. QED
      BY <2>6, <2>7, Zenon DEF bought, sold
  <1>6. CASE m.venue = "Meteora DAMM V1"
    <2>1. DammKept(f, m, q, b)
      BY <1>6, VenueKeeps, Zenon
    <2>2. bought = DammQuote(m, TRUE, amount) /\ sold = DammQuote(m, FALSE, amount)
      BY <1>6, Zenon DEF MarketQuote
    <2>. HIDE DEF bought, sold
    <2>3. bought.out > 0 => bought.out \in Nat /\ DammKept(f, bought.market, q - amount, b + bought.out)
      BY <2>1, <2>2, DammKeeps, Zenon
    <2>4. sold.out > 0 /\ amount <= f.outside + b => sold.out \in Nat /\ DammKept(f, sold.market, q + sold.out, b - amount)
      BY <2>1, <2>2, DammKeeps, Zenon
    <2>5. bought.market.venue = "Meteora DAMM V1" /\ sold.market.venue = "Meteora DAMM V1"
      BY <1>0, <1>6, Zenon
    <2>6. bought.out > 0 => TradeKeeps(f, bought, q - amount, b + bought.out, n + 1)
      BY <2>3, <2>5, VenueKeeps, Zenon DEF TradeKeeps
    <2>7. sold.out > 0 /\ amount <= f.outside + b => TradeKeeps(f, sold, q + sold.out, b - amount, n + 1)
      BY <2>4, <2>5, VenueKeeps, Zenon DEF TradeKeeps
    <2>. QED
      BY <2>6, <2>7, Zenon DEF bought, sold
  <1>7. CASE m.venue = "Meteora DAMM V1 offline"
    <2>1. OfflineKept(f, m, q, b)
      BY <1>7, VenueKeeps, Zenon
    <2>2. bought = DammOffline(m, TRUE, amount) /\ sold = DammOffline(m, FALSE, amount)
      BY <1>7, Zenon DEF MarketQuote
    <2>. HIDE DEF bought, sold
    <2>3. bought.out > 0 => bought.out \in Nat /\ OfflineKept(f, bought.market, q - amount, b + bought.out)
      BY <2>1, <2>2, OfflineKeeps, Zenon
    <2>4. sold.out > 0 /\ amount <= f.outside + b => sold.out \in Nat /\ OfflineKept(f, sold.market, q + sold.out, b - amount)
      BY <2>1, <2>2, OfflineKeeps, Zenon
    <2>5. bought.market.venue = "Meteora DAMM V1 offline" /\ sold.market.venue = "Meteora DAMM V1 offline"
      BY <1>0, <1>7, Zenon
    <2>6. bought.out > 0 => TradeKeeps(f, bought, q - amount, b + bought.out, n + 1)
      BY <2>3, <2>5, VenueKeeps, Zenon DEF TradeKeeps
    <2>7. sold.out > 0 /\ amount <= f.outside + b => TradeKeeps(f, sold, q + sold.out, b - amount, n + 1)
      BY <2>4, <2>5, VenueKeeps, Zenon DEF TradeKeeps
    <2>. QED
      BY <2>6, <2>7, Zenon DEF bought, sold
  <1>8. CASE m.venue \in SpotVenues
    <2>1. SpotKept(m, q, b) /\ {"venue", "outside"} \subseteq DOMAIN m
      BY <1>8, VenueKeeps, Zenon DEF SameVenue
    <2>2. /\ bought.out \in Nat /\ SpotKept(bought.market, q - amount, b + bought.out)
          /\ sold.out \in Nat /\ SpotKept(sold.market, q + sold.out, b - amount)
      BY <1>8, <2>1, SpotKeeps, Zenon
    <2>. HIDE DEF bought, sold
    <2>3. bought.market.venue \in SpotVenues /\ sold.market.venue \in SpotVenues
      BY <1>0, <1>8, Zenon
    <2>4. TradeKeeps(f, bought, q - amount, b + bought.out, n + 1)
      BY <2>2, <2>3, VenueKeeps, Zenon DEF TradeKeeps
    <2>5. TradeKeeps(f, sold, q + sold.out, b - amount, n + 1)
      BY <2>2, <2>3, VenueKeeps, Zenon DEF TradeKeeps
    <2>. QED
      BY <2>4, <2>5, Zenon DEF bought, sold
  <1>. QED
    BY <1>1, <1>2, <1>3, <1>4, <1>5, <1>6, <1>7, <1>8, Zenon DEF CurveVenues

\* Every market there is keeps what it keeps before the first trade.
LEMMA FirstKept ==
    ASSUME NEW f \in Markets
    PROVE  /\ f.outside \in Nat /\ f.venue \in CurveVenues /\ SameVenue(f, f)
           /\ Kept(f, f, 0, 0, 0)
  <1>1. /\ {"venue", "outside"} \subseteq DOMAIN f /\ f.venue \in CurveVenues /\ f.outside \in Nat
        /\ SoundMarket(f, f.outside)
    BY MarketAssumption, Zenon
  <1>. DEFINE o == f.outside
  <1>2. o + 0 = o /\ o \in Nat
    BY <1>1
  <1>. HIDE DEF o
  <1>3. SameVenue(f, f)
    BY <1>1, Zenon DEF SameVenue
  <1>4. ASSUME SpotMarket(f) PROVE SpotKept(f, 0, 0)
    <2>1. SpotPrice(f).a \in Nat /\ SpotPrice(f).b \in Nat
      BY <1>4, SpotPriceIs
    <2>2. 0 * SpotPrice(f).a = 0 /\ 0 * SpotPrice(f).b = 0
      BY <2>1
    <2>3. Worth(f, 0, 0) <= 0
      BY <2>2 DEF Worth
    <2>. QED
      BY <1>4, <2>3 DEF SpotKept
  <1>5. ASSUME PoolMarket(f) PROVE PoolKept(f, f, 0, 0)
    BY <1>5 DEF PoolKept, Fair
  <1>6. ASSUME PumpSwapMarket(f) PROVE CurveKept(f, f, 0, 0, 0)
    <2>1. f.virtual_sol \in Nat /\ f.virtual_token \in Nat
      BY <1>6 DEF PumpSwapMarket
    <2>2. UpOnCurve(f, 0, 0) <= 0 * (f.virtual_sol + f.virtual_token - 1)
      BY <2>1 DEF UpOnCurve
    <2>. QED
      BY <1>6, <2>2 DEF CurveKept
  <1>7. ASSUME BondingCurveMarket(f, o) PROVE BondingKept(f, f, 0, 0)
    <2>1. f.outside + 0 \in Nat /\ BondingCurveMarket(f, f.outside + 0)
      BY <1>2, <1>7, Zenon DEF o
    <2>. QED
      BY <2>1, Zenon DEF BondingKept, Fair
  <1>8. ASSUME BonkMarket(f, o) PROVE LaunchKept(f, f, 0, 0)
    <2>1. f.outside + 0 \in Nat /\ BonkMarket(f, f.outside + 0)
      BY <1>2, <1>8, Zenon DEF o
    <2>. QED
      BY <2>1, Zenon DEF LaunchKept, Fair
  <1>9. ASSUME DbcMarket(f) PROVE DbcKept(f, f, 0, 0)
    <2>1. Ladder(f) /\ f.sqrt_price \in Nat \ {0}
      <3>1. Ladder(f) /\ OnLadder(f, f.sqrt_price, f.quote_reserve, f.base_reserve)
        BY <1>9, DbcMarketIs, Zenon
      <3>. QED
        BY <3>1, Zenon DEF OnLadder
    <2>2. SameLadder(f, f)
      BY Zenon DEF SameLadder
    <2>3. Gained(f, f.sqrt_price, f.sqrt_price, 0, 0)
      <3>1. CurveQ2 \in Nat \ {0}
        BY UnitAssumption DEF CurveQ2
      <3>2. \A a \in [1 .. Len(f.curve) -> Nat \ {0}] : Between(f, f.sqrt_price, a) \in Int
        BY <2>1, LadderSums
      <3>3. CostTo(f, f.sqrt_price) \in Int
        BY <2>1, CostInt
      <3>. QED
        BY <3>1, <3>2, <3>3 DEF Gained
    <2>. QED
      BY <1>9, <2>2, <2>3 DEF DbcKept
  <1>10. ASSUME DammMarket(f) PROVE DammKept(f, f, 0, 0)
    BY <1>10 DEF DammKept, DammMarket, Fair
  <1>11. ASSUME OfflineMarket(f) PROVE OfflineKept(f, f, 0, 0)
    BY <1>11 DEF OfflineKept, OfflineMarket, Fair
  <1>12. Kept(f, f, 0, 0, 0)
    BY <1>1, <1>4, <1>5, <1>6, <1>7, <1>8, <1>9, <1>10, <1>11, Zenon DEF Kept, SoundMarket, o
  <1>. QED
    BY <1>1, <1>3, <1>12

\* From the market first traded to what it is now, what its venue keeps is kept.
CurveInv ==
    /\ net_quote \in Int /\ net_base \in Int /\ trades \in Nat
    /\ \E first \in Markets : /\ SameVenue(market, first)
                              /\ Kept(first, market, net_quote, net_base, trades)

\* The trader starts with nothing.
LEMMA CurveInvInit == CurveInit => CurveInv
  <1>. SUFFICES ASSUME CurveInit PROVE CurveInv
    OBVIOUS
  <1>1. market \in Markets /\ net_quote = 0 /\ net_base = 0 /\ trades = 0
    BY DEF CurveInit
  <1>2. SameVenue(market, market) /\ Kept(market, market, net_quote, net_base, trades)
    BY <1>1, FirstKept, Zenon
  <1>. QED
    BY <1>1, <1>2 DEF CurveInv

\* Every trade keeps it.
LEMMA CurveInvStep == CurveInv /\ [CurveNext]_curve_vars => CurveInv'
  <1>. SUFFICES ASSUME CurveInv, [CurveNext]_curve_vars PROVE CurveInv'
    OBVIOUS
  <1>1. net_quote \in Int /\ net_base \in Int /\ trades \in Nat
    BY DEF CurveInv
  <1>2. PICK first \in Markets : /\ SameVenue(market, first)
                                 /\ Kept(first, market, net_quote, net_base, trades)
    BY DEF CurveInv
  <1>3. /\ first.outside \in Nat /\ first.venue \in CurveVenues
        /\ {"venue", "outside"} \subseteq DOMAIN market
        /\ market.venue \in CurveVenues /\ market.venue = first.venue /\ market.outside = first.outside
    BY <1>2, FirstKept, Zenon DEF SameVenue
  <1>4. \A buy \in BOOLEAN, amount \in Nat : SameVenue(MarketQuote(market, buy, amount).market, first)
    <2>1. market.venue \in SpotVenues => SpotMarket(market)
      BY <1>2, VenueKeeps, Zenon DEF SpotKept
    <2>2. \A buy \in BOOLEAN, amount \in Nat : SameVenue(MarketQuote(market, buy, amount).market, market)
      BY <1>3, <2>1, QuoteStays, Zenon
    <2>. QED
      BY <1>3, <2>2, Zenon DEF SameVenue
  <1>5. ASSUME NEW amount \in Nat, Buy(amount) PROVE CurveInv'
    <2>. DEFINE t == MarketQuote(market, TRUE, amount)
    <2>1. /\ t.out > 0 /\ market' = t.market
          /\ net_quote' = net_quote - amount /\ net_base' = net_base + t.out /\ trades' = trades + 1
      BY <1>5, Zenon DEF Buy
    <2>2. TradeKeeps(first, t, net_quote - amount, net_base + t.out, trades + 1)
      BY <1>2, <1>3, <2>1, QuoteKeeps, Zenon
    <2>3. SameVenue(t.market, first)
      BY <1>4, Zenon
    <2>. HIDE DEF t
    <2>4. t.out \in Nat /\ Kept(first, market', net_quote', net_base', trades')
      BY <2>1, <2>2, Zenon DEF TradeKeeps
    <2>5. net_quote' \in Int /\ net_base' \in Int /\ trades' \in Nat
      BY <1>1, <2>1, <2>4
    <2>. QED
      BY <2>1, <2>3, <2>4, <2>5, Zenon DEF CurveInv
  <1>6. ASSUME NEW amount \in Nat, Sell(amount) PROVE CurveInv'
    <2>. DEFINE t == MarketQuote(market, FALSE, amount)
    <2>1. /\ amount <= market.outside + net_base /\ t.out > 0 /\ market' = t.market
          /\ net_base' = net_base - amount /\ net_quote' = net_quote + t.out /\ trades' = trades + 1
      BY <1>6, Zenon DEF Sell
    <2>2. amount <= first.outside + net_base
      BY <1>3, <2>1, Zenon
    <2>3. TradeKeeps(first, t, net_quote + t.out, net_base - amount, trades + 1)
      BY <1>2, <1>3, <2>1, <2>2, QuoteKeeps, Zenon
    <2>4. SameVenue(t.market, first)
      BY <1>4, Zenon
    <2>. HIDE DEF t
    <2>5. t.out \in Nat /\ Kept(first, market', net_quote', net_base', trades')
      BY <2>1, <2>3, Zenon DEF TradeKeeps
    <2>6. net_quote' \in Int /\ net_base' \in Int /\ trades' \in Nat
      BY <1>1, <2>1, <2>5
    <2>. QED
      BY <2>1, <2>4, <2>5, <2>6, Zenon DEF CurveInv
  <1>7. CASE SellHolding
    <2>1. net_base \in Nat /\ Sell(net_base)
      BY <1>1, <1>7 DEF SellHolding
    <2>. QED
      BY <1>6, <2>1, Zenon
  <1>8. CASE UNCHANGED curve_vars
    BY <1>1, <1>2, <1>8, Zenon DEF curve_vars, CurveInv
  <1>9. TradeAmounts \subseteq Nat
    BY MarketAssumption, Zenon
  <1>. QED
    BY <1>5, <1>6, <1>7, <1>8, <1>9, Zenon DEF CurveNext

\* Of what is kept, WorseThanRawPrice follows.
LEMMA CurveInvIsFair == CurveInv => WorseThanRawPrice
  <1>. SUFFICES ASSUME CurveInv, market.venue \in SpotVenues,
                       market.venue = "Meteora DAMM V2" => market.decimals_a = market.decimals_b
                PROVE  ValueGained(market) <= 0
    BY DEF WorseThanRawPrice
  <1>1. SpotKept(market, net_quote, net_base)
    BY VenueKeeps, Zenon DEF CurveInv
  <1>2. SpotMarket(market) /\ net_quote \in Int /\ net_base \in Int /\ Worth(market, net_quote, net_base) <= 0
    BY <1>1, Zenon DEF SpotKept
  <1>3. PICK u \in Nat \ {0} : /\ SpotPrice(market).a = market.price.a * u
                               /\ SpotPrice(market).b = market.price.b * u
    BY <1>2, SpotPriceIs, Zenon
  <1>4. (IF QuoteIsA(market) THEN net_quote * market.price.b + net_base * market.price.a
         ELSE net_base * market.price.b + net_quote * market.price.a) <= 0
    BY <1>2, <1>3, WorthAtRawPrice, Zenon
  <1>. QED
    BY <1>4, Zenon DEF ValueGained

\* What a market that keeps what its venue keeps has to pay from
LEMMA HeldAtVenue ==
    ASSUME NEW f, NEW m, NEW q, NEW b, NEW n, Kept(f, m, q, b, n), m.venue \in HeldVenues,
           NEW held \in Holding(m)
    PROVE  held >= 0
  <1>1. /\ \A x \in Nat : x >= 0
        /\ PoolMarket(m) => m.quote >= 0 /\ m.base >= 0
        /\ \A o : BondingCurveMarket(m, o) => m.real_sol >= 0 /\ m.real_token >= 0
        /\ \A o : BonkMarket(m, o) => m.real_quote >= 0
        /\ OfflineMarket(m) \/ SpotMarket(m) => m.a >= 0 /\ m.b >= 0
    BY DEF PoolMarket, BondingCurveMarket, BonkMarket, OfflineMarket, SpotMarket
  <1>2. CASE m.venue = "Raydium AMM V4"
    <2>1. PoolMarket(m)
      BY <1>2, VenueKeeps, Zenon DEF PoolKept
    <2>2. Holding(m) = {m.quote, m.base}
      BY <1>2, Zenon DEF Holding, SpotVenues
    <2>. QED
      BY <1>1, <2>1, <2>2, Zenon
  <1>4. CASE m.venue = "Pumpfun BC"
    <2>1. BondingCurveMarket(m, f.outside + b)
      BY <1>4, VenueKeeps, Zenon DEF BondingKept
    <2>2. Holding(m) = {m.real_sol, m.real_token}
      BY <1>4, Zenon DEF Holding, SpotVenues
    <2>. QED
      BY <1>1, <2>1, <2>2, Zenon
  <1>5. CASE m.venue = "Bonk"
    <2>1. BonkMarket(m, f.outside + b)
      BY <1>5, VenueKeeps, Zenon DEF LaunchKept
    <2>2. Holding(m) = {m.real_quote}
      BY <1>5, Zenon DEF Holding, SpotVenues
    <2>. QED
      BY <1>1, <2>1, <2>2, Zenon
  <1>6. CASE m.venue = "Meteora DBC"
    <2>1. DbcMarket(m)
      BY <1>6, VenueKeeps, Zenon DEF DbcKept
    <2>2. Holding(m) = {m.quote_reserve, m.base_reserve}
      BY <1>6, Zenon DEF Holding, SpotVenues
    <2>3. m.quote_reserve \in Nat /\ m.base_reserve \in Nat
      BY <2>1, Zenon DEF DbcMarket
    <2>. QED
      BY <1>1, <2>2, <2>3, Zenon
  <1>7. CASE m.venue = "Meteora DAMM V1"
    <2>1. DammMarket(m)
      BY <1>7, VenueKeeps, Zenon DEF DammKept
    <2>2. Holding(m) = {m.a.liquid, m.b.liquid}
      BY <1>7, Zenon DEF Holding, SpotVenues
    <2>3. m.a.liquid \in Nat /\ m.b.liquid \in Nat
      <3>1. m.a \in VaultSide /\ m.b \in VaultSide
        BY <2>1, Zenon DEF DammMarket
      <3>2. \A v \in VaultSide : v.liquid \in Nat
        BY DEF VaultSide
      <3>. QED
        BY <3>1, <3>2, Zenon
    <2>. QED
      BY <1>1, <2>2, <2>3, Zenon
  <1>8. CASE m.venue = "Meteora DAMM V1 offline"
    <2>1. OfflineMarket(m)
      BY <1>8, VenueKeeps, Zenon DEF OfflineKept
    <2>2. Holding(m) = {m.a, m.b}
      BY <1>8, Zenon DEF Holding, SpotVenues
    <2>. QED
      BY <1>1, <2>1, <2>2, Zenon
  <1>9. CASE m.venue \in SpotVenues
    <2>1. SpotMarket(m)
      BY <1>9, VenueKeeps, Zenon DEF SpotKept
    <2>2. Holding(m) = {m.a, m.b}
      BY <1>9, Zenon DEF Holding, SpotVenues
    <2>. QED
      BY <1>1, <2>1, <2>2, Zenon
  <1>. QED
    BY <1>2, <1>4, <1>5, <1>6, <1>7, <1>8, <1>9, Zenon DEF HeldVenues, CurveVenues

\* calculate_output_live of the venues without arrays, PumpSwap apart: whatever
\* was traded before, a quote is never more than the reserve of the side that
\* pays, where that is a pool's balance, a bonding curve's real SOL or tokens,
\* LaunchLab's real quote, a ladder's reserve or a vault's liquid tokens.
THEOREM OutputHeld == CurveSpec => []OutputIsHeld
  <1>1. CurveInv => OutputIsHeld
    <2>. SUFFICES ASSUME CurveInv, market.venue \in HeldVenues, NEW held \in Holding(market)
                  PROVE  held >= 0
      BY DEF OutputIsHeld
    <2>1. PICK first \in Markets : /\ SameVenue(market, first)
                                   /\ Kept(first, market, net_quote, net_base, trades)
      BY DEF CurveInv
    <2>. QED
      BY <2>1, HeldAtVenue, Zenon
  <1>. QED
    BY <1>1, CurveInvInit, CurveInvStep, PTL DEF CurveSpec

\* The market of a stable curve, whose invariant Newton's method approximates
OnStableCurve == market.venue = "Meteora DAMM V1" /\ market.amp # 0

\* Nothing gained on one side without a loss on the other, but for PumpSwap's
\* unit a trade
LEMMA NoGainAtVenue ==
    ASSUME NEW f, NEW m, NEW q \in Int, NEW b \in Int, NEW n \in Nat, Kept(f, m, q, b, n),
           m.venue \in CurveVenues, m.venue # "Pumpfun AMM",
           m.venue \in {"Meteora DAMM V1", "Meteora DAMM V1 offline"} => m.amp = 0,
           q >= 0, b >= 0
    PROVE  q = 0 /\ b = 0
  <1>1. CASE m.venue = "Raydium AMM V4"
    <2>1. Fair(f.quote, f.base, m.quote, m.base, q, b)
      BY <1>1, VenueKeeps, Zenon DEF PoolKept
    <2>. QED
      BY <2>1, FairNoGain, Zenon
  <1>2. CASE m.venue = "Pumpfun BC"
    <2>1. Fair(f.virtual_sol, f.virtual_token, m.virtual_sol, m.virtual_token, q, b)
      BY <1>2, VenueKeeps, Zenon DEF BondingKept
    <2>. QED
      BY <2>1, FairNoGain, Zenon
  <1>3. CASE m.venue = "Bonk"
    <2>1. Fair(f.virtual_quote + f.real_quote, f.virtual_base - f.real_base,
               m.virtual_quote + m.real_quote, m.virtual_base - m.real_base, q, b)
      BY <1>3, VenueKeeps, Zenon DEF LaunchKept
    <2>. QED
      BY <2>1, FairNoGain, Zenon
  <1>4. CASE m.venue = "Meteora DBC"
    <2>1. /\ DbcMarket(f) /\ DbcMarket(m) /\ SameLadder(f, m)
          /\ Gained(f, f.sqrt_price, m.sqrt_price, q, b)
      BY <1>4, VenueKeeps, Zenon DEF DbcKept
    <2>2. Ladder(f) /\ OnLadder(f, f.sqrt_price, f.quote_reserve, f.base_reserve)
      BY <2>1, DbcMarketIs, Zenon
    <2>3. SameLadder(m, f)
      BY <2>1, Zenon DEF SameLadder
    <2>4. OnLadder(f, m.sqrt_price, m.quote_reserve, m.base_reserve)
      BY <2>1, <2>3, DbcMarketIs, LadderSame, Zenon
    <2>5. /\ f.sqrt_price \in Nat \ {0} /\ Rung(f, 0) <= f.sqrt_price
          /\ f.sqrt_price <= Rung(f, Len(f.curve))
          /\ m.sqrt_price \in Nat \ {0} /\ Rung(f, 0) <= m.sqrt_price
          /\ m.sqrt_price <= Rung(f, Len(f.curve))
      BY <2>2, <2>4, Zenon DEF OnLadder
    <2>. QED
      BY <2>1, <2>2, <2>5, LadderNoGain, Zenon
  <1>5. CASE m.venue = "Meteora DAMM V1"
    <2>1. DammKept(f, m, q, b) /\ m.amp = 0
      BY <1>5, VenueKeeps, Zenon
    <2>2. \/ Fair(Reserve(f, f.a), Reserve(f, f.b), Reserve(m, m.a), Reserve(m, m.b), q, b)
          \/ Fair(Reserve(f, f.b), Reserve(f, f.a), Reserve(m, m.b), Reserve(m, m.a), q, b)
      BY <2>1, Zenon DEF DammKept
    <2>. QED
      BY <2>2, FairNoGain, Zenon
  <1>6. CASE m.venue = "Meteora DAMM V1 offline"
    <2>1. OfflineKept(f, m, q, b) /\ m.amp = 0
      BY <1>6, VenueKeeps, Zenon
    <2>2. \/ Fair(f.a, f.b, m.a, m.b, q, b)
          \/ Fair(f.b, f.a, m.b, m.a, q, b)
      BY <2>1, Zenon DEF OfflineKept
    <2>. QED
      BY <2>2, FairNoGain, Zenon
  <1>7. CASE m.venue \in SpotVenues
    <2>1. SpotMarket(m) /\ Worth(m, q, b) <= 0
      BY <1>7, VenueKeeps, Zenon DEF SpotKept
    <2>. QED
      BY <2>1, WorthlessGain, Zenon
  <1>. QED
    BY <1>1, <1>2, <1>3, <1>4, <1>5, <1>6, <1>7, Zenon DEF CurveVenues

\* calculate_output_live of every venue without arrays: no sequence of trades
\* at the quoted outputs makes something from nothing.  A stable curve of
\* DAMM V1 is left to the runs.
THEOREM NoLunchIsFree == CurveSpec => [](~OnStableCurve => NoFreeLunch)
  <1>1. CurveInv => (~OnStableCurve => NoFreeLunch)
    <2>. DEFINE given == IF market.venue = "Pumpfun AMM" THEN trades ELSE 0
    <2>. SUFFICES ASSUME CurveInv, ~OnStableCurve,
                         market.venue = "Meteora DAMM V1 offline" => market.amp = 0,
                         net_quote >= given, net_base >= given
                  PROVE  net_quote = given /\ net_base = given
      BY DEF NoFreeLunch
    <2>1. PICK first \in Markets : /\ SameVenue(market, first)
                                   /\ Kept(first, market, net_quote, net_base, trades)
      BY DEF CurveInv
    <2>2. market.venue \in CurveVenues /\ net_quote \in Int /\ net_base \in Int /\ trades \in Nat
      BY <2>1, FirstKept, Zenon DEF SameVenue, CurveInv
    <2>3. CASE market.venue = "Pumpfun AMM"
      <3>1. CurveKept(first, market, net_quote, net_base, trades)
        BY <2>1, <2>3, VenueKeeps, Zenon
      <3>2. given = trades
        BY <2>3, Zenon
      <3>3. net_quote >= trades /\ net_base >= trades
        BY <3>2, Zenon
      <3>4. net_quote = trades /\ net_base = trades
        BY <3>1, <3>3, CurveNoGain, Zenon DEF CurveKept
      <3>. QED
        BY <3>2, <3>4, Zenon
    <2>4. CASE market.venue # "Pumpfun AMM"
      <3>1. given = 0
        BY <2>4, Zenon
      <3>2. net_quote >= 0 /\ net_base >= 0
        BY <3>1, Zenon
      <3>3. market.venue \in {"Meteora DAMM V1", "Meteora DAMM V1 offline"} => market.amp = 0
        BY Zenon DEF OnStableCurve
      <3>4. net_quote = 0 /\ net_base = 0
        BY <2>1, <2>2, <2>4, <3>2, <3>3, NoGainAtVenue, Zenon
      <3>. QED
        BY <3>1, <3>4, Zenon
    <2>. QED
      BY <2>3, <2>4, Zenon
  <1>. QED
    BY <1>1, CurveInvInit, CurveInvStep, PTL DEF CurveSpec

-----------------------------------------------------------------------------
(* Fairness *)

\* One quote after another: each part keeps what it keeps on its own.
QuotesInv == TickInv /\ TickSums /\ BinInv /\ CurveInv

\* compute_swap_step, quote_at_bin and the single-price formulas: no quote is
\* better than the price it starts from, for every pool, amount and direction.
THEOREM QuotesFair == QuotesSpec => []QuotesAreFair
  <1>1. QuotesInit => QuotesInv
    <2>1. QuotesInit => TickInit /\ BinInit /\ CurveInit
      BY DEF QuotesInit, TickParked, BinParked, CurveParked
    <2>. QED
      BY <2>1, TickInvInit, TickSumsInit, BinInvInit, CurveInvInit DEF QuotesInv
  <1>2. QuotesInv /\ [QuotesNext]_quotes_vars => QuotesInv'
    <2>1. [QuotesNext]_quotes_vars => [TickNext]_tick_vars /\ [BinNext]_bin_vars /\ [CurveNext]_curve_vars
      BY DEF QuotesNext, AskTicks, AskBins, AskCurve, quotes_vars
    <2>. QED
      BY <2>1, TickInvStep, TickSumsStep, BinInvStep, CurveInvStep DEF QuotesInv
  <1>3. QuotesInv => QuotesAreFair
    BY CurveInvIsFair DEF QuotesInv, QuotesAreFair, TickSums, BinInv
  <1>. QED
    BY <1>1, <1>2, <1>3, PTL DEF QuotesSpec

=============================================================================

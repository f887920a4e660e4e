-------------------------- MODULE ConstantProduct --------------------------
(***************************************************************************)
(* The x * y = k swap of crates/core/src/traits.rs and the market that     *)
(* uses it most plainly, crates/raydium-amm-v4/src/lib.rs.  0 stands for   *)
(* an error as well as for no output: the callers drop both.               *)
(***************************************************************************)
EXTENDS Integers

\* constant_product_swap
ConstantProductSwap(reserve_in, reserve_out, amount_in, fee_bps) ==
    LET with_fee == (amount_in * (10000 - fee_bps)) \div 10000
    IN  IF reserve_in = 0 \/ reserve_out = 0 THEN 0
        ELSE (with_fee * reserve_out) \div (reserve_in + with_fee)

\* calculate_output_live of a Raydium AMM V4 pool: until the pool account is
\* in the store the balances the pool was loaded with are used.
AmmV4Output(buy, amount_in, account, loaded, fee_bps) ==
    LET from == IF account.data THEN account ELSE loaded
    IN  IF buy
        THEN ConstantProductSwap(from.quote, from.base, amount_in, fee_bps)
        ELSE ConstantProductSwap(from.base, from.quote, amount_in, fee_bps)
=============================================================================

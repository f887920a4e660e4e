---------------------------- MODULE SwapBuilders ----------------------------
(***************************************************************************)
(* The instruction builders of crates/executor/src, one build_swap per     *)
(* venue, and the account helpers of ata.rs.                               *)
(*                                                                         *)
(* A builder turns a leg into a list of instructions: prepare the user's   *)
(* token accounts, swap, and perhaps close the wrapped-SOL account.  What  *)
(* tells the builders apart is a record each: the legs it accepts, the     *)
(* token program it addresses accounts with, how it lists the user's       *)
(* accounts, when it wraps SOL and which accounts it closes.  Of the       *)
(* accounts that are the pool's own only those are kept whose list depends *)
(* on the state of the pool, by kind: which arrays are the ones around the *)
(* price is in TickWalk and BinWalk.  Constants of a program and PDAs of   *)
(* the pool are left out.                                                  *)
(***************************************************************************)
EXTENDS Integers, Sequences

CONSTANTS
    Wsol, Usdc,        \* the mints builders know by name
    Mints,
    TokenProgram       \* the token program that owns each mint

ASSUME MintAssumption ==
    /\ {Wsol, Usdc} \subseteq Mints
    /\ TokenProgram \in [Mints -> {"spl", "t22"}] /\ TokenProgram[Wsol] = "spl"

(* program: "spl" for a builder that addresses every account under the     *)
(*   legacy SPL Token program, "resolved" for one that takes it from the   *)
(*   caller.                                                               *)
(* checks: the mints of the leg that must be the pool's.                   *)
(* quotes: the quote mints it accepts.                                     *)
(* lists: the user's accounts by direction, or by the pool's orientation   *)
(*   with the direction in the instruction data.                           *)
(* wraps: an input of WSOL, only when WSOL is the quote, or never because  *)
(*   the program settles SOL natively.                                     *)
(* closes: each side that is WSOL; one side that is; the quote account     *)
(*   when the quote is WSOL; the quote account when either side is; none.  *)
Builder(name, program, checks, quotes, lists, wraps, closes) ==
    [name |-> name, program |-> program, checks |-> checks, quotes |-> quotes,
     lists |-> lists, wraps |-> wraps, closes |-> closes]

RaydiumAmmV4 == Builder("Raydium AMM V4", "spl", "both", Mints, "direction", "input", "each")
RaydiumClmm == Builder("Raydium CLMM", "resolved", "input", Mints, "direction", "input", "each")
MeteoraDammV1 == Builder("Meteora DAMM V1", "spl", "input", Mints, "direction", "input", "each")
MeteoraDammV2 == Builder("Meteora DAMM V2", "resolved", "input", Mints, "direction", "input", "each")
MeteoraDlmm == Builder("Meteora DLMM", "resolved", "input", Mints, "direction", "input", "each")
OrcaWhirlpool == Builder("Orca Whirlpool", "spl", "input", Mints, "orientation", "input", "each")
PumpSwap == Builder("Pumpfun AMM", "resolved", "distinct", {Wsol, Usdc}, "orientation", "input",
                    "quote account")
Bonk == Builder("Bonk", "resolved", "distinct", Mints, "orientation", "quote", "quote")
MeteoraDbc == Builder("Meteora DBC", "resolved", "distinct", Mints, "direction", "input", "one")
PumpfunBc == Builder("Pumpfun BC", "resolved", "distinct", {Wsol}, "natively", "never", "none")

Venues == {RaydiumAmmV4, RaydiumClmm, MeteoraDammV1, MeteoraDammV2, MeteoraDlmm, OrcaWhirlpool,
           PumpSwap, Bonk, MeteoraDbc, PumpfunBc}

\* The venues whose builder lists arrays around the price of the cached pool
WalksArrays == {RaydiumClmm, MeteoraDlmm, OrcaWhirlpool}

\* What a swap program may ask for beyond what every swap names: the arrays
\* around the cached price and those past them, the stake accounts of a
\* depegged pool, the accounts of a cashback or mayhem coin.  Which of these,
\* the pool decides when the swap runs.
MayAsk(venue) ==
    CASE venue \in WalksArrays -> {"near", "far"}
      [] venue = MeteoraDammV1 -> {"depeg"}
      [] venue \in {PumpSwap, PumpfunBc} -> {"flagged"}
      [] OTHER -> {}

\* What the builder lists of it: the bitmap without its extension, an array to
\* either side, three Whirlpool arrays; of the rest nothing, is_cashback and
\* is_mayhem being FALSE and the metas of DAMM V1 fixed.
Listed(venue) == IF venue \in WalksArrays THEN {"near"} ELSE {}

\* A launchpad's base is the coin it launches.
Launchpads == {Bonk, MeteoraDbc, PumpfunBc}

\* A pool's base and quote are its token 0/a/x and token 1/b/y where the
\* program calls them so.
Both(pool) == {pool.base, pool.quote}

Native == [mint |-> Wsol, program |-> "system"]   \* the wallet's own lamports, no token account

\* ata: the user's account for a mint under a token program
Ata(mint, program) == [mint |-> mint, program |-> program]

\* The account a builder addresses: prog is what the caller resolved from the
\* mint accounts.
Address(pool, mint, prog) ==
    Ata(mint, IF pool.venue.program = "spl" THEN "spl" ELSE prog[mint])

\* create_ata_idempotent
CreateAta(account) == [op |-> "create", account |-> account]

\* close_account_ix
CloseAccount(account, program) ==
    [op |-> "close", account |-> account, program |-> program]

\* wrap_sol_ixs: create, transfer and sync_native
WrapSol(lamports) ==
    <<CreateAta(Ata(Wsol, "spl")),
      [op |-> "fund", account |-> Ata(Wsol, "spl"), amount |-> lamports]>>

-----------------------------------------------------------------------------

\* The checks at the head of every builder.
LegFits(pool, leg) ==
    /\ leg.amount_in > 0
    /\ leg.input_mint \in Both(pool)
    /\ pool.venue.checks # "input" => leg.output_mint \in Both(pool)
    /\ pool.venue.checks = "distinct" => leg.input_mint # leg.output_mint
    /\ pool.quote \in pool.venue.quotes

\* Input side: wrap SOL, or create the account.  LaunchLab wraps only when the
\* quote is WSOL; a bonding curve takes lamports and prepares nothing.
InputSetup(pool, leg, prog, opts) ==
    IF pool.venue.wraps = "never" THEN <<>>
    ELSE IF /\ opts.wrap_input_sol /\ leg.input_mint = Wsol
            /\ pool.venue.wraps = "quote" => pool.quote = Wsol
    THEN WrapSol(leg.amount_in)
    ELSE IF opts.create_input_ata
    THEN <<CreateAta(Address(pool, leg.input_mint, prog))>>
    ELSE <<>>

\* Output side: a bonding curve's only token account is the coin's.
OutputSetup(pool, leg, prog, opts) ==
    IF ~opts.create_output_ata THEN <<>>
    ELSE <<CreateAta(Address(pool, IF pool.venue.lists = "natively" THEN pool.base
                                   ELSE leg.output_mint, prog))>>

\* What a program reads from accounts listed by orientation: base_in is the
\* direction flag (a_to_b) or the choice of the sell instruction.
Oriented(pool, user_base, user_quote, base_in) ==
    [from |-> IF base_in THEN user_base ELSE user_quote,
     to   |-> IF base_in THEN user_quote ELSE user_base,
     takes |-> IF base_in THEN pool.base ELSE pool.quote,
     gives |-> IF base_in THEN pool.quote ELSE pool.base]

\* Accounts listed by direction: the program takes the mint of the source
\* account and gives the pool's other token.
Directed(pool, user_source, user_destination) ==
    [from |-> user_source, to |-> user_destination,
     takes |-> user_source.mint,
     gives |-> IF user_source.mint = pool.base THEN pool.quote ELSE pool.base]

\* Mutant of OrientedAccounts: the accounts are listed by the leg.
OrientedByLeg(pool, leg, prog) ==
    Oriented(pool, Address(pool, leg.input_mint, prog), Address(pool, leg.output_mint, prog),
             leg.input_mint = pool.base)

\* owner_a and owner_b of Whirlpool, user_base and user_quote of PumpSwap and
\* LaunchLab, with the direction taken from the leg's input mint.
OrientedAccounts(pool, leg, prog) ==
    LET base_in == leg.input_mint = pool.base
        user_in == Address(pool, leg.input_mint, prog)
        user_out == Address(pool, leg.output_mint, prog)
    IN  Oriented(pool, IF base_in THEN user_in ELSE user_out,
                 IF base_in THEN user_out ELSE user_in, base_in)

CurveAccounts(pool, leg, prog) ==
    Oriented(pool, Address(pool, pool.base, prog), Native, leg.input_mint = pool.base)

SwapAccounts(pool, leg, prog) ==
    CASE pool.venue.lists = "natively" -> CurveAccounts(pool, leg, prog)
      [] pool.venue.lists = "orientation" -> OrientedAccounts(pool, leg, prog)
      [] pool.venue.lists = "direction" ->
            Directed(pool, Address(pool, leg.input_mint, prog),
                     Address(pool, leg.output_mint, prog))

SwapIx(pool, leg, prog) ==
    [op |-> "swap", pool |-> pool, accounts |-> SwapAccounts(pool, leg, prog),
     listed |-> Listed(pool.venue),
     amount_in |-> leg.amount_in, min_amount_out |-> leg.min_amount_out]

CloseWsol(pool, leg, prog) ==
    LET user(m) == Address(pool, m, prog)
        side(m, account) ==
            IF m = Wsol THEN <<CloseAccount(account, user(m).program)>> ELSE <<>>
    IN  CASE pool.venue.closes = "none" -> <<>>
          [] pool.venue.closes = "quote" -> side(pool.quote, user(pool.quote))
          [] pool.venue.closes = "one" ->
                IF Wsol \notin {leg.input_mint, leg.output_mint} THEN <<>>
                ELSE <<CloseAccount(user(Wsol), user(pool.quote).program)>>
          [] pool.venue.closes = "quote account" ->
                side(leg.input_mint, user(pool.quote)) \o
                side(leg.output_mint, user(pool.quote))
          [] pool.venue.closes = "each" -> side(leg.input_mint, user(leg.input_mint)) \o
                                           side(leg.output_mint, user(leg.output_mint))

\* build_swap, assemble_swap: the instructions of a leg that fits
BuildSwap(pool, leg, prog, opts) ==
    InputSetup(pool, leg, prog, opts) \o OutputSetup(pool, leg, prog, opts) \o
    <<SwapIx(pool, leg, prog)>> \o
    (IF opts.close_wsol THEN CloseWsol(pool, leg, prog) ELSE <<>>)

\* A user account as collect_addresses sees it; the wallet itself is excluded.
Key(account) ==
    IF account = Native THEN {} ELSE {<<"account", account.mint, account.program>>}

\* The accounts and programs an instruction names.
Named(ix) ==
    IF ix.op # "swap" THEN Key(ix.account)
    ELSE {<<"program", ix.pool.venue.name>>, <<"pool", ix.pool.venue.name, ix.pool.base, ix.pool.quote>>}
         \cup Key(ix.accounts.from) \cup Key(ix.accounts.to)
=============================================================================

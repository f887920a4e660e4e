------------------------------ MODULE Execution ------------------------------
(***************************************************************************)
(* Executing a route: crates/aggregator/src/execute.rs with alt.rs and     *)
(* submit.rs of crates/executor/src.                                       *)
(*                                                                         *)
(* execute_route builds every hop in turn (each hop resolves its token     *)
(* programs and fetches what else it needs from the RPC), decides whether  *)
(* the transaction needs an address lookup table, sets one up on chain in  *)
(* several confirmed transactions, and sends the route.  The chain then    *)
(* runs the instructions in order and undoes them all when one fails.      *)
(* What the chain does (Chain* below, the clock) is external: it is        *)
(* modelled from what the instructions ask of it.  Rent and transaction    *)
(* fees are left out; amounts are small numbers.                           *)
(***************************************************************************)
EXTENDS SwapBuilders, FiniteSets, FiniteSetsExt

CONSTANTS
    Trades,         \* bound: [hops, slippage_bps, lookup_table] to execute
    Wallets,        \* bound: wallets they are executed with
    Fills(_),       \* bound: what a swap quoted q may give
    MaxStatic,      \* accounts that fit under TX_SIZE_LIMIT without a table
    ExtendChunk,    \* EXTEND_CHUNK
    MaxPolls,       \* the 40 polls for the slot to advance
    MaxSlot         \* bound: slots that pass

Accounts == [mint : Mints, program : {"spl", "t22"}]

ASSUME ExecutionAssumption ==
    /\ ExtendChunk \in Nat \ {0} /\ MaxPolls \in Nat /\ MaxStatic \in Nat
    /\ MaxSlot \in Nat \ {0}
    /\ \A t \in Trades :
         /\ t.slippage_bps \in Nat
         /\ \A i \in DOMAIN t.hops : Fills(t.hops[i].output_amount) \subseteq Nat

\* A hop of the router is a pool with its two mints, in either direction.  What
\* its program asks for when the swap runs is up to the chain.
RouteHop(h) ==
    /\ h.pool.venue \in Venues
    /\ Both(h.pool) \subseteq Mints /\ h.pool.base # h.pool.quote
    /\ h.pool.venue \in Launchpads => h.pool.base # Wsol
    /\ {h.input_mint, h.output_mint} = Both(h.pool)
    /\ h.input_amount \in Nat /\ h.output_amount \in Nat
    /\ h.asks \subseteq MayAsk(h.pool.venue)

\* A hop puts in no more than the one before it is quoted to give: as much in a
\* route of the router (Router: RoutesAreWalkable), less after the haircut of
\* bin/multihop.rs.
ASSUME RouteAssumption ==
    \A t \in Trades :
        /\ Len(t.hops) \in Nat \ {0} /\ DOMAIN t.hops = 1 .. Len(t.hops)
        /\ \A i \in DOMAIN t.hops : RouteHop(t.hops[i])
        /\ \A i \in 1 .. Len(t.hops) - 1 :
             /\ t.hops[i + 1].input_mint = t.hops[i].output_mint
             /\ t.hops[i + 1].input_amount <= t.hops[i].output_amount

\* A token account is created under the program of its mint, or not at all.
Holdable == {Ata(m, TokenProgram[m]) : m \in Mints}

SoundWallet(w) ==
    /\ w = [lamports |-> w.lamports, held |-> w.held] /\ w.lamports \in Nat
    /\ DOMAIN w.held \subseteq Holdable /\ w.held \in [DOMAIN w.held -> Nat]

ASSUME WalletAssumption == \A w \in Wallets : SoundWallet(w)

VARIABLES
    trade,     \* what execute_route was called with
    start,     \* the wallet when it was called
    wallet,    \* lamports, and the balance of each token account that exists
    pc,        \* where execute_route, and then the chain, is
    hop,       \* the hop being built, then the instruction being run
    ixs,       \* the instructions built so far
    fills,     \* what each swap of the transaction gave
    misread,   \* some token program could not be resolved
    addresses, \* what collect_addresses gathered
    table,     \* the lookup table on chain: its entries, its last extension
    slot,      \* the chain's slot
    polls      \* polls made, and the slot read after the last extension

vars == <<trade, start, wallet, pc, hop, ixs, fills, misread, addresses, table, slot, polls>>
building == <<hop, ixs, misread>>
setup == <<addresses, table, polls>>
chain == <<wallet, fills>>
call == <<trade, start>>

Last == Len(trade.hops)
NoTable == [entries |-> {}, extended |-> 0]

\* Mutant of MinOutWithSlippage: the tolerance is taken twice.
MinOutTwice(quoted_out, slippage_bps) ==
    (quoted_out * (10000 - Min({2 * slippage_bps, 10000}))) \div 10000

\* min_out_with_slippage
MinOutWithSlippage(quoted_out, slippage_bps) ==
    (quoted_out * (10000 - Min({slippage_bps, 10000}))) \div 10000

\* Mutant of Options: the account is closed after the first hop.
OptionsCloseFirst(i) ==
    [create_input_ata |-> i = 1, wrap_input_sol |-> i = 1,
     create_output_ata |-> TRUE, close_wsol |-> i = 1]

\* build_route_instructions: what hop i asks its builder to do around the swap
Options(i) ==
    [create_input_ata |-> i = 1, wrap_input_sol |-> i = 1,
     create_output_ata |-> TRUE, close_wsol |-> i = Last]

\* build_hop_instructions: the leg is the router's simulated hop
Leg(h) ==
    [input_mint |-> h.input_mint, output_mint |-> h.output_mint,
     amount_in |-> h.input_amount,
     min_amount_out |-> MinOutWithSlippage(h.output_amount, trade.slippage_bps)]

\* resolve_token_programs: one request for the mints of a pool; when it fails
\* every mint falls back to the legacy program.
Resolved(answered) ==
    [m \in Mints |-> IF answered THEN TokenProgram[m] ELSE "spl"]

ExecutionInit ==
    /\ trade \in Trades
    /\ start \in Wallets /\ wallet = start
    /\ pc = "build" /\ hop = 1 /\ ixs = <<>> /\ misread = FALSE
    /\ fills = <<>> /\ addresses = {} /\ table = NoTable
    /\ slot = 1 /\ polls = [made |-> 0, extended_at |-> 0]

\* One iteration of build_route_instructions.
BuildHop ==
    /\ pc = "build" /\ hop <= Last
    /\ LET h == trade.hops[hop]
       IN  /\ LegFits(h.pool, Leg(h))
           /\ \E answered \in BOOLEAN :
                /\ ixs' = ixs \o BuildSwap(h.pool, Leg(h), Resolved(answered), Options(hop))
                /\ misread' = (misread \/ (~answered /\ \E m \in Both(h.pool) : TokenProgram[m] # "spl"))
    /\ hop' = hop + 1
    /\ UNCHANGED <<call, chain, setup, pc, slot>>

\* A hop that cannot be built ends the call with an error: its leg does not
\* fit, its pool has left the index or does not decode, an array cannot be
\* derived, or what the RPC has to answer (the Serum market, the dynamic vaults,
\* the fee vaults of a recent swap) is missing.
BuildFails ==
    /\ pc = "build" /\ hop <= Last
    /\ pc' = "refused"
    /\ UNCHANGED <<call, chain, setup, building, slot>>

\* The three encodings: the caller's table, none, or one made on the fly from
\* collect_addresses.
AllNamed == UNION {Named(ixs[k]) : k \in DOMAIN ixs}

Encode ==
    /\ pc = "build" /\ hop > Last
    /\ IF trade.lookup_table \/ Cardinality(AllNamed) <= MaxStatic
       THEN pc' = "send" /\ UNCHANGED addresses
       ELSE pc' = "create" /\ addresses' = AllNamed
    /\ hop' = 1
    /\ UNCHANGED <<call, chain, ixs, misread, table, polls, slot>>

-----------------------------------------------------------------------------

\* create_and_extend_lookup_table.  Every transaction of the setup is sent and
\* confirmed; one that fails, or a slot that cannot be read, ends the call with
\* an error and leaves the table as it is.
CreateTable ==
    /\ pc = "create"
    /\ pc' = "extend"
    /\ UNCHANGED <<call, chain, setup, building, slot>>

ExtendTable ==
    /\ pc = "extend" /\ addresses \ table.entries # {}
    /\ LET rest == addresses \ table.entries
           chunk == CHOOSE c \in kSubset(Min({ExtendChunk, Cardinality(rest)}), rest) : TRUE
       IN  table' = [entries |-> table.entries \cup chunk, extended |-> slot]
    /\ UNCHANGED <<call, chain, building, pc, addresses, polls, slot>>

SetupFails ==
    /\ pc \in {"create", "extend", "wait"}
    /\ pc' = "refused"
    /\ UNCHANGED <<call, chain, setup, building, slot>>

Extended ==
    /\ pc = "extend" /\ addresses \subseteq table.entries
    /\ pc' = "wait"
    /\ polls' = [made |-> 0, extended_at |-> slot]
    /\ UNCHANGED <<call, chain, building, addresses, table, slot>>

\* Mutant of Poll: one poll more than allowed.
PollOnceMore ==
    /\ pc = "wait" /\ polls.made <= MaxPolls
    /\ polls' = [polls EXCEPT !.made = @ + 1]
    /\ pc' = IF slot > polls.extended_at THEN "send" ELSE "wait"
    /\ UNCHANGED <<call, chain, building, addresses, table, slot>>

\* Mutant of Poll: the slot of the extension is good enough.
PollSameSlot ==
    /\ pc = "wait" /\ polls.made < MaxPolls
    /\ polls' = [polls EXCEPT !.made = @ + 1]
    /\ pc' = IF slot >= polls.extended_at THEN "send" ELSE "wait"
    /\ UNCHANGED <<call, chain, building, addresses, table, slot>>

\* The bounded poll: it ends when the slot has advanced or the polls are used
\* up, and the table is returned either way.
Poll ==
    /\ pc = "wait" /\ polls.made < MaxPolls
    /\ polls' = [polls EXCEPT !.made = @ + 1]
    /\ pc' = IF slot > polls.extended_at THEN "send" ELSE "wait"
    /\ UNCHANGED <<call, chain, building, addresses, table, slot>>

GiveUpPolling ==
    /\ pc = "wait" /\ polls.made = MaxPolls
    /\ pc' = "send"
    /\ UNCHANGED <<call, chain, setup, building, slot>>

NewSlot ==
    /\ pc \in {"create", "extend", "wait"} /\ slot < MaxSlot
    /\ slot' = slot + 1
    /\ UNCHANGED <<call, chain, setup, building, pc>>

-----------------------------------------------------------------------------

\* The chain, external.  A transaction whose table is not active yet, or does
\* not hold an account it refers to, is not loaded.
Usable ==
    addresses # {} => addresses \subseteq table.entries /\ table.extended < slot

Send ==
    /\ pc = "send"
    /\ pc' = IF Usable THEN "run" ELSE "failed"
    /\ UNCHANGED <<call, chain, setup, building, slot>>

\* No blockhash, or the RPC refuses the transaction.
SendFails ==
    /\ pc = "send"
    /\ pc' = "refused"
    /\ UNCHANGED <<call, chain, setup, building, slot>>

Exists(account) == account = Native \/ account \in DOMAIN wallet.held

Balance(account) == IF account = Native THEN wallet.lamports ELSE wallet.held[account]

Pay(w, account, amount) ==
    IF account = Native THEN [w EXCEPT !.lamports = @ + amount]
    ELSE [w EXCEPT !.held[account] = @ + amount]

ChainCreate(ix) ==
    /\ ix.op = "create" /\ ix.account.program = TokenProgram[ix.account.mint]
    /\ wallet' = IF Exists(ix.account) THEN wallet
                 ELSE [wallet EXCEPT !.held =
                        [a \in DOMAIN @ \cup {ix.account} |->
                            IF a = ix.account THEN 0 ELSE @[a]]]
    /\ UNCHANGED fills

ChainFund(ix) ==
    /\ ix.op = "fund" /\ Exists(ix.account) /\ wallet.lamports >= ix.amount
    /\ wallet' = Pay(Pay(wallet, Native, -ix.amount), ix.account, ix.amount)
    /\ UNCHANGED fills

\* The swap program: the user's accounts must be of the mints it takes and
\* gives, the accounts it asks for must be listed, and what it gives must reach
\* the floor.
Swappable(ix) ==
    LET acc == ix.accounts
    IN  /\ ix.op = "swap" /\ Exists(acc.from) /\ Exists(acc.to)
        /\ acc.from.mint = acc.takes /\ acc.to.mint = acc.gives
        /\ trade.hops[Len(fills) + 1].asks \subseteq ix.listed
        /\ Balance(acc.from) >= ix.amount_in

Quoted == trade.hops[Len(fills) + 1].output_amount

ChainSwap(ix) ==
    /\ Swappable(ix)
    /\ \E got \in Fills(Quoted) :
        /\ got >= ix.min_amount_out
        /\ fills' = Append(fills, got)
        /\ wallet' = Pay(Pay(wallet, ix.accounts.from, -ix.amount_in), ix.accounts.to, got)

\* A token account must be empty to be closed, a WSOL account is unwrapped.
ChainClose(ix) ==
    /\ ix.op = "close" /\ ix.account \in DOMAIN wallet.held
    /\ ix.program = ix.account.program
    /\ ix.account.mint = Wsol \/ Balance(ix.account) = 0
    /\ wallet' = [lamports |-> wallet.lamports + Balance(ix.account),
                  held |-> [a \in DOMAIN wallet.held \ {ix.account} |-> wallet.held[a]]]
    /\ UNCHANGED fills

ChainRuns(ix) == ChainCreate(ix) \/ ChainFund(ix) \/ ChainSwap(ix) \/ ChainClose(ix)

Run ==
    /\ pc = "run" /\ hop <= Len(ixs)
    /\ ChainRuns(ixs[hop])
    /\ hop' = hop + 1
    /\ UNCHANGED <<call, setup, ixs, misread, pc, slot>>

\* An instruction that fails undoes the transaction; fills keeps what the
\* swaps before it, and the one that fell below its floor, would have given.
CanRun(ix) ==
    CASE ix.op = "create" -> ix.account.program = TokenProgram[ix.account.mint]
      [] ix.op = "fund" -> Exists(ix.account) /\ wallet.lamports >= ix.amount
      [] ix.op = "swap" -> Swappable(ix)
      [] ix.op = "close" -> /\ Exists(ix.account) /\ ix.program = ix.account.program
                            /\ ix.account.mint = Wsol \/ Balance(ix.account) = 0

RunFails ==
    /\ pc = "run" /\ hop <= Len(ixs)
    /\ \/ ~CanRun(ixs[hop]) /\ UNCHANGED fills
       \/ /\ ixs[hop].op = "swap" /\ CanRun(ixs[hop])
          /\ \E got \in Fills(Quoted) : got < ixs[hop].min_amount_out /\ fills' = Append(fills, got)
    /\ wallet' = start /\ pc' = "failed"
    /\ UNCHANGED <<call, setup, building, slot>>

Land ==
    /\ pc = "run" /\ hop > Len(ixs)
    /\ pc' = "landed"
    /\ UNCHANGED <<call, chain, setup, building, slot>>

ExecutionNext ==
    \/ BuildHop \/ BuildFails \/ Encode
    \/ CreateTable \/ ExtendTable \/ SetupFails \/ Extended
    \/ Poll \/ GiveUpPolling \/ NewSlot
    \/ Send \/ SendFails \/ Run \/ RunFails \/ Land

ExecutionSpec == ExecutionInit /\ [][ExecutionNext]_vars

-----------------------------------------------------------------------------

\* Type invariant of the whole module.
ExecutionTypeOK ==
    /\ trade \in Trades /\ start \in Wallets
    /\ wallet.lamports \in Nat
    /\ DOMAIN wallet.held \subseteq Accounts
    /\ \A a \in DOMAIN wallet.held : wallet.held[a] \in Nat
    /\ pc \in {"build", "create", "extend", "wait", "send", "run", "landed", "failed", "refused"}
    /\ hop \in 1 .. Len(ixs) + Last + 1
    /\ fills \in Seq(Nat) /\ Len(fills) <= Last
    /\ misread \in BOOLEAN
    /\ table.entries \subseteq addresses /\ table.extended \in 0 .. slot
    /\ slot \in 1 .. MaxSlot /\ polls.made \in 0 .. MaxPolls

\* What a wallet holds of a mint, wrapped or not.
Worth(w, m) ==
    (IF m = Wsol THEN w.lamports ELSE 0) +
    SumFunction([a \in {b \in DOMAIN w.held : b.mint = m} |-> w.held[a]])

\* What hop i of a route at least leaves of a mint, in ten thousandths: the
\* slippage floor of what it gives, less what it takes.
Granted(t, m, i) ==
    LET h == t.hops[i]
    IN  (IF h.output_mint = m THEN Max({0, h.output_amount * (10000 - t.slippage_bps) - 9999}) ELSE 0)
        - (IF h.input_mint = m THEN 10000 * h.input_amount ELSE 0)

\* A landed trade costs no more than the route says: of every mint the wallet
\* loses at most what the hops put in, less the slippage floor of the hops
\* that give it.  So an intermediate token the owner already had is used up
\* by at most one hop's slippage, and a mint off the route is untouched
\* (build_route_instructions, every build_swap).
LossIsBounded ==
    pc = "landed" =>
        \A m \in Mints :
            10000 * (Worth(wallet, m) - Worth(start, m))
                >= SumFunction([i \in 1 .. Last |-> Granted(trade, m, i)])

\* A bonding curve settles SOL natively, the others through the WSOL account:
\* a hop to or from one inside a route does not find the SOL of its neighbour.
SettlesApart(i) ==
    /\ trade.hops[i].output_mint = Wsol
    /\ (trade.hops[i].pool.venue = PumpfunBc) # (trade.hops[i + 1].pool.venue = PumpfunBc)

\* PumpSwap's builder closes the quote account, so a pool whose base is WSOL
\* has the wrong account closed (pumpswap.rs:255).
ClosesWrongSide(h) == h.pool.venue = PumpSwap /\ h.pool.base = Wsol

\* A swap gave less than its floor, or than the next hop puts in.
FellShort(i) ==
    \/ fills[i] < MinOutWithSlippage(trade.hops[i].output_amount, trade.slippage_bps)
    \/ i < Last /\ fills[i] < trade.hops[i + 1].input_amount

\* The instruction that failed is a swap whose program asks for an account that
\* its builder does not list.
LacksAccounts ==
    /\ hop <= Len(ixs) /\ ixs[hop].op = "swap" /\ Len(fills) < Last
    /\ ~(trade.hops[Len(fills) + 1].asks \subseteq ixs[hop].listed)

\* When a transaction that was sent fails on chain, one of these holds.  Of the
\* market and the wallet: a swap fell short, or the wallet lacks the input.  Of
\* the RPC: a token program was not resolved, or the polls for the table ran
\* out.  Of the builders, their known gaps: a program asks for accounts they do
\* not list (arrays past those around the cached price, README.md:58 and
\* meteora_dlmm.rs:8; a depegged DAMM V1 pool, README.md:59; a cashback or
\* mayhem coin, execute.rs:188, pumpfun_bc.rs:16), a legacy builder meets a Token-2022 mint, WSOL
\* and native SOL meet inside the route, PumpSwap closes the wrong account.  So
\* what the ten builders do to the user's token accounts, which they create,
\* wrap, draw from, fill and close, and in which direction, fits together in
\* every other case, also across hops.
FailureIsExplained ==
    pc = "failed" =>
        \/ \E i \in DOMAIN fills : FellShort(i)
        \/ LacksAccounts
        \/ misread
        \/ \E i \in 1 .. Last : LET p == trade.hops[i].pool
                                IN  /\ p.venue.program = "spl"
                                    /\ \E m \in Both(p) : TokenProgram[m] # "spl"
        \/ \E i \in 1 .. Last - 1 : SettlesApart(i)
        \/ ClosesWrongSide(trade.hops[Last])
        \/ Worth(start, trade.hops[1].input_mint) < trade.hops[1].input_amount
        \/ trade.hops[1].input_mint = Wsol /\ start.lamports < trade.hops[1].input_amount
        \/ addresses # {} /\ polls.made = MaxPolls

\* WSOL does not stay behind after a route whose last hop trades it: the
\* account is closed and the lamports are the wallet's again (close_wsol of
\* build_route_instructions; bonding curves never touch the account).
WsolIsUnwrapped ==
    LET h == trade.hops[Last]
    IN  (/\ pc = "landed" /\ Wsol \in {h.input_mint, h.output_mint}
         /\ h.pool.venue # PumpfunBc /\ ~ClosesWrongSide(h))
            => Ata(Wsol, "spl") \notin DOMAIN wallet.held

\* The route is sent through a table made on the fly only when the table holds
\* every account the route names, and the last extension is a slot old unless
\* the polls ran out (create_and_extend_lookup_table).
TableIsComplete ==
    (pc \in {"send", "run", "landed"} /\ addresses # {}) =>
        /\ addresses \subseteq table.entries
        /\ table.extended < slot \/ polls.made = MaxPolls
=============================================================================

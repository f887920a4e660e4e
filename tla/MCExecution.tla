---------------------------- MODULE MCExecution ----------------------------
(* Small trades for Execution: one pool or two of every venue over SOL, a    *)
(* legacy token and a Token-2022 coin, single hops in both directions and    *)
(* two-hop routes, some with a bonding curve on one side of the SOL, with a  *)
(* haircut between the hops, or with a swap that asks for accounts its       *)
(* builder does not list.                                                    *)
EXTENDS Execution, TLC

CONSTANTS c            \* a Token-2022 coin

Programs == Wsol :> "spl" @@ Usdc :> "spl" @@ c :> "t22"

Pool(venue, base, quote) == [venue |-> venue, base |-> base, quote |-> quote]

Pools ==
    {Pool(RaydiumAmmV4, Usdc, Wsol), Pool(RaydiumClmm, c, Wsol),
     Pool(MeteoraDammV1, Wsol, Usdc), Pool(MeteoraDammV2, c, Usdc),
     Pool(MeteoraDlmm, c, Wsol), Pool(OrcaWhirlpool, Wsol, Usdc),
     Pool(OrcaWhirlpool, c, Usdc), Pool(PumpSwap, c, Wsol),
     Pool(PumpSwap, Wsol, Usdc), Pool(Bonk, c, Wsol),
     Pool(MeteoraDbc, c, Wsol), Pool(PumpfunBc, c, Wsol)}

Quote == 4

Hop(p, from) ==
    [pool |-> p, input_mint |-> from,
     output_mint |-> IF from = p.base THEN p.quote ELSE p.base,
     input_amount |-> Quote, output_amount |-> Quote, asks |-> Listed(p.venue)]

Legs == UNION {{Hop(p, m) : m \in Both(p)} : p \in Pools}

\* Legs whose program asks for all it may, and legs after a haircut
Needy == {[h EXCEPT !.asks = MayAsk(h.pool.venue)] : h \in Legs} \ Legs
Cut == {[h EXCEPT !.input_amount = Quote - 1] : h \in Legs}

Single(legs) == {<<h>> : h \in legs}
Chained(first, second) ==
    {r \in first \X second : /\ r[1].output_mint = r[2].input_mint
                             /\ r[1].input_mint # r[2].output_mint}

Routes == Single(Legs \cup Needy) \cup Chained(Legs, Legs \cup Cut \cup Needy)

SmallTrades ==
    [hops : Routes, slippage_bps : {2500}, lookup_table : {FALSE}] \cup
    [hops : Single(Legs), slippage_bps : {0, 20000}, lookup_table : {TRUE}]

\* A wallet with the input and nothing else, and one with a little of all.
Rich(extra) ==
    [lamports |-> Quote + extra,
     held |-> Ata(Usdc, "spl") :> Quote + extra @@ Ata(c, "t22") :> Quote + extra]

SomeWallets ==
    {Rich(0), [lamports |-> Quote, held |-> <<>>],
     [lamports |-> Quote - 1, held |-> Ata(Wsol, "spl") :> 1 @@ Ata(Usdc, "spl") :> Quote + 1]}

\* The market moves by one up, by two down.
Near(q) == {q - 2, q - 1, q, q + 1} \cap Nat
=============================================================================

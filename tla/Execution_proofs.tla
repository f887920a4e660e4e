-------------------------- MODULE Execution_proofs --------------------------
(***************************************************************************)
(* Executing a route, for any routes and wallets, any fills of the swaps,  *)
(* any size of a chunk and any number of polls.                            *)
(*                                                                         *)
(* The lookup table comes first: an invariant follows it from its creation *)
(* over the extensions to the last poll.  The rest is about the            *)
(* instructions.  What the ten builders make of a hop is brought to one    *)
(* form (BuiltIs), the place of every instruction in the route follows     *)
(* from it (Layout, kept by HopBuilt), and so what the chain runs at each  *)
(* step (RouteInv, RunDoes).  Over that, one invariant per question: what  *)
(* the wallet is owed (MoneyInv), whether the WSOL account is gone         *)
(* (ClosedInv), and that the next instruction can be run unless the trade  *)
(* itself says why not (ReadyInv).                                         *)
(***************************************************************************)
EXTENDS Execution, Sums

\* The shape of the table and of the polls
Shapes ==
    /\ table = [entries |-> table.entries, extended |-> table.extended]
    /\ polls = [made |-> polls.made, extended_at |-> polls.extended_at]
    /\ table.extended \in Nat /\ slot \in Nat /\ polls.made \in Nat /\ polls.extended_at \in Nat

\* Before the encoding is chosen no table is wanted.
NoneWanted == pc = "build" => addresses = {}

\* While the slot is awaited the table is complete, and no older than the slot
\* that the polls compare with.
Awaited == pc = "wait" => addresses \subseteq table.entries /\ table.extended <= polls.extended_at

ExecutionInv == Shapes /\ NoneWanted /\ Awaited /\ TableIsComplete

-----------------------------------------------------------------------------

\* The invariant of the table holds when the call begins.
LEMMA ExecutionInvInit == ExecutionInit => ExecutionInv
  <1>. SUFFICES ASSUME ExecutionInit PROVE ExecutionInv
    OBVIOUS
  <1>1. /\ table = [entries |-> {}, extended |-> 0]
        /\ polls = [made |-> 0, extended_at |-> 0]
        /\ slot = 1 /\ pc = "build" /\ addresses = {}
    BY DEF ExecutionInit, NoTable
  <1>. QED
    BY <1>1 DEF ExecutionInv, Shapes, NoneWanted, Awaited, TableIsComplete

\* Steps of the call that leave table, polls, slot and wallet alone, and do
\* not go on to a place where the table counts
LEMMA QuietInv ==
    ASSUME ExecutionInv, UNCHANGED <<call, wallet, table, polls, slot>>,
           pc' \in {"build", "create", "extend", "refused", "failed"},
           pc' = "build" => UNCHANGED addresses /\ pc = "build"
    PROVE  ExecutionInv'
  BY DEF ExecutionInv, Shapes, NoneWanted, Awaited, TableIsComplete, call

\* Steps after the table was found complete
LEMMA SentInv ==
    ASSUME ExecutionInv, UNCHANGED <<start, addresses, table, polls, slot>>,
           pc \in {"send", "run"}, pc' \in {"run", "landed", "failed", "refused"}
    PROVE  ExecutionInv'
  BY DEF ExecutionInv, Shapes, NoneWanted, Awaited, TableIsComplete

\* Choosing an encoding keeps it,
LEMMA EncodeInv == ExecutionInv /\ Encode => ExecutionInv'
  BY DEF Encode, ExecutionInv, Shapes, NoneWanted, Awaited, TableIsComplete, call, chain

\* an extension keeps it,
LEMMA ExtendInv == ExecutionInv /\ ExtendTable => ExecutionInv'
  <1>. SUFFICES ASSUME ExecutionInv, ExtendTable PROVE ExecutionInv'
    OBVIOUS
  <1>1. PICK chunk : table' = [entries |-> table.entries \cup chunk, extended |-> slot]
    BY DEF ExtendTable
  <1>2. pc = "extend" /\ pc' = "extend" /\ UNCHANGED <<call, chain, polls, slot>>
    BY DEF ExtendTable
  <1>. QED
    BY <1>1, <1>2
       DEF ExecutionInv, Shapes, NoneWanted, Awaited, TableIsComplete, call, chain

\* The slot that the polls compare with is read after the last extension.
LEMMA ExtendedInv ==
    ASSUME ExecutionInv, Extended, table.extended <= slot
    PROVE  ExecutionInv'
  BY DEF Extended, ExecutionInv, Shapes, NoneWanted, Awaited, TableIsComplete, call,
         chain

\* a poll keeps it,
LEMMA PollInv == ExecutionInv /\ Poll => ExecutionInv'
  <1>. SUFFICES ASSUME ExecutionInv, Poll PROVE ExecutionInv'
    OBVIOUS
  <1>1. /\ pc = "wait" /\ polls' = [polls EXCEPT !.made = @ + 1]
        /\ pc' = IF slot > polls.extended_at THEN "send" ELSE "wait"
        /\ UNCHANGED <<call, chain, addresses, table, slot>>
    BY DEF Poll
  <1>2. polls' = [made |-> polls.made + 1, extended_at |-> polls.extended_at]
    BY <1>1 DEF ExecutionInv, Shapes
  <1>. QED
    BY <1>1, <1>2
       DEF ExecutionInv, Shapes, NoneWanted, Awaited, TableIsComplete, call, chain

\* giving up the polls keeps it,
LEMMA GiveUpInv == ExecutionInv /\ GiveUpPolling => ExecutionInv'
  BY DEF GiveUpPolling, ExecutionInv, Shapes, NoneWanted, Awaited, TableIsComplete,
         call, chain, setup

\* the clock of the chain keeps it,
LEMMA NewSlotInv == ExecutionInv /\ NewSlot => ExecutionInv'
  BY DEF NewSlot, ExecutionInv, Shapes, NoneWanted, Awaited, TableIsComplete,
         call, chain, setup

\* No extension is younger than the chain.
ExtendedBefore == table.extended \in Nat /\ slot \in Nat /\ table.extended <= slot

\* Every step keeps the extensions in the past,
LEMMA ExtendedBeforeStep ==
    ExtendedBefore /\ [ExecutionNext]_vars => ExtendedBefore'
  <1>. SUFFICES ASSUME ExtendedBefore, [ExecutionNext]_vars PROVE ExtendedBefore'
    OBVIOUS
  <1>1. CASE ExtendTable
    BY <1>1 DEF ExtendTable, ExtendedBefore
  <1>2. CASE NewSlot
    BY <1>2 DEF NewSlot, setup, ExtendedBefore
  <1>3. CASE UNCHANGED <<table, slot>>
    BY <1>3 DEF ExtendedBefore
  <1>. QED
    BY <1>1, <1>2, <1>3
       DEF ExecutionNext, vars, setup, BuildHop, BuildFails, Encode, CreateTable, SetupFails,
           Extended, Poll, GiveUpPolling, Send, SendFails, Run, RunFails, Land

\* and the invariant of the table.
LEMMA ExecutionInvStep ==
    ExtendedBefore /\ ExecutionInv /\ [ExecutionNext]_vars => ExecutionInv'
  <1>. SUFFICES ASSUME ExtendedBefore, ExecutionInv, [ExecutionNext]_vars PROVE ExecutionInv'
    OBVIOUS
  <1>1. CASE BuildHop
    BY <1>1, QuietInv DEF BuildHop, setup, chain
  <1>2. CASE BuildFails
    BY <1>2, QuietInv DEF BuildFails, setup, chain
  <1>3. CASE Encode
    BY <1>3, EncodeInv
  <1>4. CASE CreateTable
    BY <1>4, QuietInv DEF CreateTable, setup, chain
  <1>5. CASE ExtendTable
    BY <1>5, ExtendInv
  <1>6. CASE SetupFails
    BY <1>6, QuietInv DEF SetupFails, setup, chain
  <1>7. CASE Extended
    BY <1>7, ExtendedInv DEF ExtendedBefore
  <1>8. CASE Poll
    BY <1>8, PollInv
  <1>9. CASE GiveUpPolling
    BY <1>9, GiveUpInv
  <1>10. CASE NewSlot
    BY <1>10, NewSlotInv
  <1>11. CASE Send
    BY <1>11, SentInv DEF Send, setup, chain, call, ExecutionInv
  <1>12. CASE SendFails
    BY <1>12, SentInv DEF SendFails, setup, chain, call, ExecutionInv
  <1>13. CASE Run
    BY <1>13, SentInv DEF Run, setup, call
  <1>14. CASE RunFails
    BY <1>14, SentInv DEF RunFails, setup, call
  <1>15. CASE Land
    BY <1>15, SentInv DEF Land, setup, call
  <1>16. CASE UNCHANGED vars
    BY <1>16 DEF vars, ExecutionInv, Shapes, NoneWanted, Awaited, TableIsComplete
  <1>. QED
    BY <1>1, <1>2, <1>3, <1>4, <1>5, <1>6, <1>7, <1>8, <1>9, <1>10, <1>11, <1>12, <1>13, <1>14,
       <1>15, <1>16
       DEF ExecutionNext

\* The table is followed through the whole call (create_and_extend_lookup_table,
\* alt.rs:40-117).
THEOREM ExecutionInvariance == ExecutionSpec => [](ExtendedBefore /\ ExecutionInv)
  <1>1. ExecutionInit => ExtendedBefore
    <2>. SUFFICES ASSUME ExecutionInit PROVE ExtendedBefore
      OBVIOUS
    <2>1. table = [entries |-> {}, extended |-> 0] /\ slot = 1
      BY DEF ExecutionInit, NoTable
    <2>. QED
      BY <2>1 DEF ExtendedBefore
  <1>. QED
    BY <1>1, ExecutionInvInit, ExtendedBeforeStep, ExecutionInvStep, PTL DEF ExecutionSpec

\* Whatever the route, the chunks and the number of polls: a route sent
\* through a table of its own finds all its accounts there, and a slot has
\* passed since the last extension unless the polls ran out (alt.rs:78-117).
THEOREM TablesAreComplete == ExecutionSpec => []TableIsComplete
  <1>1. ExtendedBefore /\ ExecutionInv => TableIsComplete
    BY DEF ExecutionInv
  <1>. QED
    BY ExecutionInvariance, <1>1, PTL

-----------------------------------------------------------------------------
(* What the builders make of a hop. *)

\* What a mint's program may be resolved to: the WSOL program is the legacy
\* one whether or not the RPC answers.
Resolutions == {p \in [Mints -> {"spl", "t22"}] : p[Wsol] = "spl"}

\* Whatever the RPC answers to resolve_token_programs, WSOL is a legacy mint.
LEMMA ResolvedIs == \A answered \in BOOLEAN : Resolved(answered) \in Resolutions
  BY MintAssumption DEF Resolved, Resolutions

\* What the proofs need to know of the ten builders: which accounts they list,
\* what they wrap and what they close (build_swap of each venue).
LEMMA VenueKinds ==
    ASSUME NEW v \in Venues
    PROVE  /\ v.program \in {"spl", "resolved"}
           /\ v.lists \in {"direction", "orientation", "natively"}
           /\ v.lists = "natively" <=> v = PumpfunBc
           /\ v.wraps = IF v = PumpfunBc THEN "never" ELSE IF v = Bonk THEN "quote" ELSE "input"
           /\ v.closes \in {"none", "quote", "one", "quote account", "each"}
           /\ v.closes = "none" <=> v = PumpfunBc
           /\ v.closes = "quote" <=> v = Bonk
           /\ v.closes = "one" <=> v = MeteoraDbc
           /\ v.closes = "quote account" <=> v = PumpSwap
           /\ v = PumpfunBc => v.quotes = {Wsol}
  <1>1. /\ PumpSwap.name = "Pumpfun AMM" /\ Bonk.name = "Bonk" /\ MeteoraDbc.name = "Meteora DBC"
        /\ PumpfunBc.name = "Pumpfun BC"
    BY DEF Builder, PumpSwap, Bonk, MeteoraDbc, PumpfunBc
  <1>2. CASE v = RaydiumAmmV4
    <2>1. /\ v.name = "Raydium AMM V4" /\ v.program = "spl" /\ v.lists = "direction"
          /\ v.wraps = "input" /\ v.closes = "each" /\ v.quotes = Mints
      BY <1>2 DEF Builder, RaydiumAmmV4
    <2>. QED
      BY <1>1, <1>2, <2>1
  <1>3. CASE v = RaydiumClmm
    <2>1. /\ v.name = "Raydium CLMM" /\ v.program = "resolved" /\ v.lists = "direction"
          /\ v.wraps = "input" /\ v.closes = "each" /\ v.quotes = Mints
      BY <1>3 DEF Builder, RaydiumClmm
    <2>. QED
      BY <1>1, <1>3, <2>1
  <1>4. CASE v = MeteoraDammV1
    <2>1. /\ v.name = "Meteora DAMM V1" /\ v.program = "spl" /\ v.lists = "direction"
          /\ v.wraps = "input" /\ v.closes = "each" /\ v.quotes = Mints
      BY <1>4 DEF Builder, MeteoraDammV1
    <2>. QED
      BY <1>1, <1>4, <2>1
  <1>5. CASE v = MeteoraDammV2
    <2>1. /\ v.name = "Meteora DAMM V2" /\ v.program = "resolved" /\ v.lists = "direction"
          /\ v.wraps = "input" /\ v.closes = "each" /\ v.quotes = Mints
      BY <1>5 DEF Builder, MeteoraDammV2
    <2>. QED
      BY <1>1, <1>5, <2>1
  <1>6. CASE v = MeteoraDlmm
    <2>1. /\ v.name = "Meteora DLMM" /\ v.program = "resolved" /\ v.lists = "direction"
          /\ v.wraps = "input" /\ v.closes = "each" /\ v.quotes = Mints
      BY <1>6 DEF Builder, MeteoraDlmm
    <2>. QED
      BY <1>1, <1>6, <2>1
  <1>7. CASE v = OrcaWhirlpool
    <2>1. /\ v.name = "Orca Whirlpool" /\ v.program = "spl" /\ v.lists = "orientation"
          /\ v.wraps = "input" /\ v.closes = "each" /\ v.quotes = Mints
      BY <1>7 DEF Builder, OrcaWhirlpool
    <2>. QED
      BY <1>1, <1>7, <2>1
  <1>8. CASE v = PumpSwap
    <2>1. /\ v.name = "Pumpfun AMM" /\ v.program = "resolved" /\ v.lists = "orientation"
          /\ v.wraps = "input" /\ v.closes = "quote account" /\ v.quotes = {Wsol, Usdc}
      BY <1>8 DEF Builder, PumpSwap
    <2>. QED
      BY <1>1, <1>8, <2>1
  <1>9. CASE v = Bonk
    <2>1. /\ v.name = "Bonk" /\ v.program = "resolved" /\ v.lists = "orientation"
          /\ v.wraps = "quote" /\ v.closes = "quote" /\ v.quotes = Mints
      BY <1>9 DEF Builder, Bonk
    <2>. QED
      BY <1>1, <1>9, <2>1
  <1>10. CASE v = MeteoraDbc
    <2>1. /\ v.name = "Meteora DBC" /\ v.program = "resolved" /\ v.lists = "direction"
          /\ v.wraps = "input" /\ v.closes = "one" /\ v.quotes = Mints
      BY <1>10 DEF Builder, MeteoraDbc
    <2>. QED
      BY <1>1, <1>10, <2>1
  <1>11. CASE v = PumpfunBc
    <2>1. /\ v.name = "Pumpfun BC" /\ v.program = "resolved" /\ v.lists = "natively"
          /\ v.wraps = "never" /\ v.closes = "none" /\ v.quotes = {Wsol}
      BY <1>11 DEF Builder, PumpfunBc
    <2>. QED
      BY <1>1, <1>11, <2>1
  <1>. QED
    BY <1>2, <1>3, <1>4, <1>5, <1>6, <1>7, <1>8, <1>9, <1>10, <1>11 DEF Venues

\* The legs a builder accepts in a route
LegOf(h, leg) ==
    /\ RouteHop(h) /\ LegFits(h.pool, leg)
    /\ leg.input_mint = h.input_mint /\ leg.output_mint = h.output_mint

\* Where the user's side of a mint is
Side(pool, m, prog) ==
    IF pool.venue = PumpfunBc /\ m = Wsol THEN Native ELSE Address(pool, m, prog)

\* A hop that a builder accepts trades the two mints of its pool, one for the
\* other; a launchpad does not sell WSOL, and a bonding curve is paid in it.
LEMMA Sides ==
    ASSUME NEW h, NEW leg, LegOf(h, leg)
    PROVE  /\ h.pool.venue \in Venues
           /\ h.input_mint \in Mints /\ h.output_mint \in Mints
           /\ h.input_mint # h.output_mint
           /\ \/ h.input_mint = h.pool.base /\ h.output_mint = h.pool.quote
              \/ h.input_mint = h.pool.quote /\ h.output_mint = h.pool.base
           /\ h.pool.venue \in Launchpads => h.pool.base # Wsol
           /\ h.pool.venue = PumpfunBc => h.pool.quote = Wsol
  <1>1. RouteHop(h) /\ h.pool.quote \in h.pool.venue.quotes
    BY DEF LegOf, LegFits
  <1>2. h.pool.venue \in Venues /\ (h.pool.venue \in Launchpads => h.pool.base # Wsol)
    BY <1>1 DEF RouteHop
  <1>3. /\ {h.pool.base, h.pool.quote} \subseteq Mints /\ h.pool.base # h.pool.quote
        /\ {h.input_mint, h.output_mint} = {h.pool.base, h.pool.quote}
    BY <1>1 DEF RouteHop, Both
  <1>4. ASSUME h.pool.venue = PumpfunBc PROVE h.pool.quote = Wsol
    <2>1. h.pool.venue.quotes = {Wsol}
      BY <1>2, <1>4, VenueKinds
    <2>. QED
      BY <1>1, <2>1
  <1>. QED
    BY <1>2, <1>3, <1>4

\* The swap takes the leg's input from where the user has it, and gives the output to
\* where the user has that.
LEMMA SwapsTheLeg ==
    ASSUME NEW h, NEW leg, LegOf(h, leg), NEW prog
    PROVE  SwapAccounts(h.pool, leg, prog) =
             [from |-> Side(h.pool, h.input_mint, prog),
              to |-> Side(h.pool, h.output_mint, prog),
              takes |-> h.input_mint, gives |-> h.output_mint]
  <1>. DEFINE pool == h.pool
              Acc(from, to) == [from |-> from, to |-> to,
                                takes |-> h.input_mint, gives |-> h.output_mint]
  <1>1. leg.input_mint = h.input_mint /\ leg.output_mint = h.output_mint
    BY DEF LegOf
  <1>2. /\ pool.venue \in Venues /\ h.input_mint # h.output_mint
        /\ \/ h.input_mint = pool.base /\ h.output_mint = pool.quote
           \/ h.input_mint = pool.quote /\ h.output_mint = pool.base
    BY Sides
  <1>. HIDE DEF pool
  <1>3. CASE pool.venue = PumpfunBc
    <2>1. pool.venue.lists = "natively"
      BY <1>2, <1>3, VenueKinds
    <2>2. pool.quote = Wsol /\ pool.base # Wsol
      BY <1>3, Sides DEF pool, Launchpads
    <2>3. SwapAccounts(pool, leg, prog) = CurveAccounts(pool, leg, prog)
      BY <2>1 DEF SwapAccounts
    <2>4. Side(pool, pool.base, prog) = Address(pool, pool.base, prog)
          /\ Side(pool, pool.quote, prog) = Native
      BY <1>3, <2>2 DEF Side
    <2>. QED
      BY <1>1, <1>2, <2>3, <2>4 DEF CurveAccounts, Oriented, pool
  <1>4. CASE pool.venue # PumpfunBc /\ pool.venue.lists = "orientation"
    <2>1. SwapAccounts(pool, leg, prog) = OrientedAccounts(pool, leg, prog)
      BY <1>4 DEF SwapAccounts
    <2>2. \A m : Side(pool, m, prog) = Address(pool, m, prog)
      BY <1>4 DEF Side
    <2>. QED
      BY <1>1, <1>2, <2>1, <2>2 DEF OrientedAccounts, Oriented, pool
  <1>5. CASE pool.venue # PumpfunBc /\ pool.venue.lists = "direction"
    <2>1. SwapAccounts(pool, leg, prog) =
            Directed(pool, Address(pool, h.input_mint, prog), Address(pool, h.output_mint, prog))
      BY <1>1, <1>5 DEF SwapAccounts
    <2>2. \A m : Side(pool, m, prog) = Address(pool, m, prog) /\ Address(pool, m, prog).mint = m
      BY <1>5 DEF Side, Address, Ata
    <2>. QED
      BY <1>2, <2>1, <2>2 DEF Directed, pool
  <1>. QED
    BY <1>2, <1>3, <1>4, <1>5, VenueKinds DEF pool

\* What is done before the swap of the first hop
LEMMA FirstSetup ==
    ASSUME NEW h, NEW leg, LegOf(h, leg), NEW prog
    PROVE  InputSetup(h.pool, leg, prog, Options(1)) =
             IF h.pool.venue = PumpfunBc THEN <<>>
             ELSE IF h.input_mint = Wsol THEN WrapSol(leg.amount_in)
             ELSE <<CreateAta(Address(h.pool, h.input_mint, prog))>>
  <1>1. leg.input_mint = h.input_mint
    BY DEF LegOf
  <1>2. h.pool.venue.wraps = IF h.pool.venue = PumpfunBc THEN "never"
                             ELSE IF h.pool.venue = Bonk THEN "quote" ELSE "input"
    BY Sides, VenueKinds
  <1>3. h.pool.venue = Bonk /\ h.input_mint = Wsol => h.pool.quote = Wsol
    BY Sides DEF Launchpads
  <1>4. Options(1).wrap_input_sol /\ Options(1).create_input_ata
    BY DEF Options
  <1>. QED
    BY <1>1, <1>2, <1>3, <1>4 DEF InputSetup

\* and of every later hop nothing (create_input_ata, wrap_input_sol of
\* build_route_instructions).
LEMMA LaterSetup ==
    ASSUME NEW pool, NEW leg, NEW prog, NEW i \in Nat, i # 1
    PROVE  InputSetup(pool, leg, prog, Options(i)) = <<>>
  <1>1. ~Options(i).wrap_input_sol /\ ~Options(i).create_input_ata
    BY DEF Options
  <1>. QED
    BY <1>1 DEF InputSetup

\* Every hop creates the account it is paid into; a bonding curve creates that
\* of its token, whichever way the hop goes.
LEMMA OutputCreated ==
    ASSUME NEW h, NEW leg, LegOf(h, leg), NEW prog, NEW i \in Nat
    PROVE  OutputSetup(h.pool, leg, prog, Options(i)) =
             <<CreateAta(Address(h.pool, IF h.pool.venue = PumpfunBc THEN h.pool.base ELSE h.output_mint, prog))>>
  BY Sides, VenueKinds DEF OutputSetup, Options, LegOf

\* What is closed after the last
Closed(h, prog) ==
    IF h.pool.venue = PumpfunBc \/ Wsol \notin {h.input_mint, h.output_mint} THEN <<>>
    ELSE <<CloseAccount(Address(h.pool, IF ClosesWrongSide(h) THEN h.pool.quote ELSE Wsol, prog),
                        Address(h.pool, Wsol, prog).program)>>

\* Joining one instruction and none
LEMMA OneOrNone ==
    /\ <<>> \o <<>> = <<>> 
    /\ \A x : <<x>> \o <<>> = <<x>> /\ <<>> \o <<x>> = <<x>>
  <1>1. <<>> \o <<>> = <<>>
    BY ConcatEmptySeq
  <1>2. ASSUME NEW x PROVE <<x>> \o <<>> = <<x>> /\ <<>> \o <<x>> = <<x>>
    <2>1. <<x>> \in Seq({x})
      OBVIOUS
    <2>. QED
      BY <2>1, ConcatEmptySeq
  <1>. QED
    BY <1>1, <1>2

\* A builder that closes WSOL closes one account, or none: the one it takes for
\* the WSOL account of the hop.
LEMMA ClosesOnce ==
    ASSUME NEW h, NEW leg, LegOf(h, leg), NEW prog \in Resolutions
    PROVE  CloseWsol(h.pool, leg, prog) = Closed(h, prog)
  <1>1. leg.input_mint = h.input_mint /\ leg.output_mint = h.output_mint
    BY DEF LegOf
  <1>2. h.pool.venue \in Venues
    BY Sides
  <1>3. CASE h.pool.venue = PumpfunBc
    BY <1>2, <1>3, VenueKinds DEF CloseWsol, Closed
  <1>4. CASE h.pool.venue = Bonk
    <2>1. h.pool.venue.closes = "quote" /\ h.pool.venue # PumpfunBc /\ h.pool.venue # PumpSwap
      BY <1>2, <1>4, VenueKinds
    <2>2. Wsol \in {h.input_mint, h.output_mint} <=> h.pool.quote = Wsol
      BY <1>4, Sides DEF Launchpads
    <2>. QED
      BY <2>1, <2>2 DEF CloseWsol, Closed, ClosesWrongSide
  <1>5. CASE h.pool.venue = MeteoraDbc
    <2>1. h.pool.venue.closes = "one" /\ h.pool.venue # PumpfunBc /\ h.pool.venue # PumpSwap
      BY <1>2, <1>5, VenueKinds
    <2>2. Wsol \in {h.input_mint, h.output_mint} <=> h.pool.quote = Wsol
      BY <1>5, Sides DEF Launchpads
    <2>. QED
      BY <1>1, <2>1, <2>2 DEF CloseWsol, Closed, ClosesWrongSide
  <1>6. CASE h.pool.venue = PumpSwap
    <2>1. h.pool.venue.closes = "quote account" /\ h.pool.venue # PumpfunBc
      BY <1>2, <1>6, VenueKinds
    <2>2. /\ h.input_mint # h.output_mint
          /\ Wsol \in {h.input_mint, h.output_mint} /\ h.pool.base # Wsol => h.pool.quote = Wsol
      BY Sides
    <2>. QED
      BY <1>1, <1>6, <2>1, <2>2, OneOrNone DEF CloseWsol, Closed, ClosesWrongSide
  <1>7. CASE h.pool.venue \notin {PumpfunBc, Bonk, MeteoraDbc, PumpSwap}
    <2>1. h.pool.venue.closes = "each"
      BY <1>2, <1>7, VenueKinds
    <2>2. h.input_mint # h.output_mint
      BY Sides
    <2>. QED
      BY <1>1, <1>7, <2>1, <2>2, OneOrNone DEF CloseWsol, Closed, ClosesWrongSide
  <1>. QED
    BY <1>3, <1>4, <1>5, <1>6, <1>7

\* The setup of hop i
SetupOf(i, h, leg, prog) ==
    IF i # 1 \/ h.pool.venue = PumpfunBc THEN <<>>
    ELSE IF h.input_mint = Wsol THEN WrapSol(leg.amount_in)
    ELSE <<CreateAta(Address(h.pool, h.input_mint, prog))>>

\* The account that hop h creates
CreatedBy(h, prog) ==
    CreateAta(Address(h.pool, IF h.pool.venue = PumpfunBc THEN h.pool.base ELSE h.output_mint, prog))

\* Its swap
SwapOf(h, leg, prog) ==
    [op |-> "swap", pool |-> h.pool,
     accounts |-> [from |-> Side(h.pool, h.input_mint, prog),
                   to |-> Side(h.pool, h.output_mint, prog),
                   takes |-> h.input_mint, gives |-> h.output_mint],
     listed |-> Listed(h.pool.venue),
     amount_in |-> leg.amount_in, min_amount_out |-> leg.min_amount_out]

\* All that a builder does for hop i of a route
LEMMA BuiltIs ==
    ASSUME NEW h, NEW leg, LegOf(h, leg), NEW prog \in Resolutions, NEW i \in Nat
    PROVE  BuildSwap(h.pool, leg, prog, Options(i)) =
             SetupOf(i, h, leg, prog) \o <<CreatedBy(h, prog)>> \o <<SwapOf(h, leg, prog)>> \o
             (IF i = Last THEN Closed(h, prog) ELSE <<>>)
  <1>1. InputSetup(h.pool, leg, prog, Options(i)) = SetupOf(i, h, leg, prog)
    BY FirstSetup, LaterSetup DEF SetupOf
  <1>2. OutputSetup(h.pool, leg, prog, Options(i)) = <<CreatedBy(h, prog)>>
    BY OutputCreated DEF CreatedBy
  <1>3. SwapIx(h.pool, leg, prog) = SwapOf(h, leg, prog)
    BY SwapsTheLeg DEF SwapIx, SwapOf
  <1>4. CloseWsol(h.pool, leg, prog) = Closed(h, prog)
    BY ClosesOnce
  <1>5. Options(i).close_wsol <=> i = Last
    BY DEF Options
  <1>. QED
    BY <1>1, <1>2, <1>3, <1>4, <1>5 DEF BuildSwap

-----------------------------------------------------------------------------
(* Where each part of the route is among the instructions. *)

\* The leg of hop i
LegIn(t, i) ==
    LET h == t.hops[i]
    IN  [input_mint |-> h.input_mint, output_mint |-> h.output_mint, amount_in |-> h.input_amount,
         min_amount_out |-> MinOutWithSlippage(h.output_amount, t.slippage_bps)]

\* How many instructions come before those of the first output account, and
\* after the last swap
Before(t) ==
    IF t.hops[1].pool.venue = PumpfunBc THEN 0 ELSE IF t.hops[1].input_mint = Wsol THEN 2 ELSE 1

After(t) ==
    LET h == t.hops[Len(t.hops)]
    IN  IF h.pool.venue = PumpfunBc \/ Wsol \notin {h.input_mint, h.output_mint} THEN 0 ELSE 1

SwapAt(t, i) == Before(t) + 2 * i

\* Hop i among the instructions s, with the programs prog
Part(t, s, i, prog) ==
    LET h == t.hops[i]
        leg == LegIn(t, i)
    IN  /\ LegOf(h, leg)
        /\ i = 1 => \A k \in 1 .. Before(t) : s[k] = SetupOf(1, h, leg, prog)[k]
        /\ s[SwapAt(t, i) - 1] = CreatedBy(h, prog)
        /\ s[SwapAt(t, i)] = SwapOf(h, leg, prog)
        /\ i = Len(t.hops) => \A k \in 1 .. After(t) : s[SwapAt(t, i) + k] = Closed(h, prog)[k]

\* How long the first n hops are
LengthOf(t, n) ==
    IF n = 0 THEN 0 ELSE IF n = Len(t.hops) THEN SwapAt(t, n) + After(t) ELSE SwapAt(t, n)

\* The first n hops are built; a resolution that failed is a misreading unless
\* every mint of the pool is a legacy one.
Layout(t, s, mis, n) ==
    /\ IsSequence(s) /\ Len(s) = LengthOf(t, n)
    /\ \A i \in 1 .. n : \E answered \in BOOLEAN :
         /\ ~answered /\ ~mis => \A m \in Both(t.hops[i].pool) : TokenProgram[m] = "spl"
         /\ Part(t, s, i, Resolved(answered))

\* How many instructions the setup and the close are
LEMMA SetupLength ==
    ASSUME NEW t, NEW i \in Nat, NEW h, h = t.hops[i], NEW leg, NEW prog
    PROVE  /\ \E S : SetupOf(i, h, leg, prog) \in Seq(S)
           /\ Len(SetupOf(i, h, leg, prog)) = IF i = 1 THEN Before(t) ELSE 0
           /\ \E S : Closed(h, prog) \in Seq(S)
           /\ i = Len(t.hops) => Len(Closed(h, prog)) = After(t)
           /\ Before(t) \in Nat /\ After(t) \in Nat
  <1>1. \A a, b : <<a, b>> \in Seq({a, b}) /\ <<a>> \in Seq({a}) /\ <<>> \in Seq({})
    OBVIOUS
  <1>2. \A a, b : Len(<<a, b>>) = 2 /\ Len(<<a>>) = 1 /\ Len(<<>>) = 0
    OBVIOUS
  <1>3. \E S : SetupOf(i, h, leg, prog) \in Seq(S)
    BY <1>1 DEF SetupOf, WrapSol
  <1>4. Len(SetupOf(i, h, leg, prog)) = IF i = 1 THEN Before(t) ELSE 0
    BY <1>2 DEF SetupOf, WrapSol, Before
  <1>5. \E S : Closed(h, prog) \in Seq(S)
    BY <1>1 DEF Closed
  <1>6. i = Len(t.hops) => Len(Closed(h, prog)) = After(t)
    BY <1>2 DEF Closed, After
  <1>. QED
    BY <1>3, <1>4, <1>5, <1>6 DEF Before, After

\* Building one more hop keeps the layout (build_route_instructions).
LEMMA HopBuilt ==
    ASSUME trade \in Trades, NEW n \in 1 .. Last, NEW mis \in BOOLEAN,
           Layout(trade, ixs, mis, n - 1),
           NEW answered \in BOOLEAN, LegFits(trade.hops[n].pool, Leg(trade.hops[n])),
           NEW new,
           new = ixs \o BuildSwap(trade.hops[n].pool, Leg(trade.hops[n]), Resolved(answered), Options(n)),
           NEW now \in BOOLEAN, mis => now,
           ~answered /\ ~now => \A m \in Both(trade.hops[n].pool) : TokenProgram[m] = "spl"
    PROVE  Layout(trade, new, now, n)
  <1>. DEFINE h == trade.hops[n]
              leg == LegIn(trade, n)
              prog == Resolved(answered)
              I == SetupOf(n, h, leg, prog)
              T == IF n = Last THEN Closed(h, prog) ELSE <<>>
  <1>1. Leg(h) = leg
    BY DEF Leg, LegIn
  <1>2. RouteHop(h) /\ Last \in Nat /\ n \in Nat
    BY RouteAssumption DEF Last
  <1>3. LegOf(h, leg)
    BY <1>1, <1>2 DEF LegOf, LegIn
  <1>4. new = ixs \o (I \o <<CreatedBy(h, prog)>> \o <<SwapOf(h, leg, prog)>> \o T)
    <2>1. prog \in Resolutions
      BY ResolvedIs
    <2>2. BuildSwap(h.pool, leg, prog, Options(n)) =
            SetupOf(n, h, leg, prog) \o <<CreatedBy(h, prog)>> \o <<SwapOf(h, leg, prog)>> \o
            (IF n = Last THEN Closed(h, prog) ELSE <<>>)
      BY <1>2, <1>3, <2>1, BuiltIs, Zenon
    <2>. QED
      BY <1>1, <2>2, Zenon
  <1>5. /\ Len(I) = IF n = 1 THEN Before(trade) ELSE 0
        /\ Len(T) = IF n = Last THEN After(trade) ELSE 0
        /\ Before(trade) \in Nat /\ After(trade) \in Nat
    <2>1. /\ \E S : SetupOf(n, h, leg, prog) \in Seq(S)
          /\ Len(SetupOf(n, h, leg, prog)) = IF n = 1 THEN Before(trade) ELSE 0
          /\ \E S : Closed(h, prog) \in Seq(S)
          /\ n = Len(trade.hops) => Len(Closed(h, prog)) = After(trade)
          /\ Before(trade) \in Nat /\ After(trade) \in Nat
      BY <1>2, SetupLength, Zenon
    <2>2. Len(<<>>) = 0
      OBVIOUS
    <2>. QED
      BY <2>1, <2>2 DEF Last
  <1>6. /\ IsSequence(new)
        /\ Len(new) = Len(ixs) + Len(I) + 2 + Len(T)
        /\ \A k \in 1 .. Len(ixs) : new[k] = ixs[k]
        /\ \A k \in 1 .. Len(I) : new[Len(ixs) + k] = I[k]
        /\ new[Len(ixs) + Len(I) + 1] = CreatedBy(h, prog)
        /\ new[Len(ixs) + Len(I) + 2] = SwapOf(h, leg, prog)
        /\ \A k \in 1 .. Len(T) : new[Len(ixs) + Len(I) + 2 + k] = T[k]
    <2>1. PICK A : ixs \in Seq(A)
      BY DEF Layout, IsSequence
    <2>2. PICK B : I \in Seq(B)
      BY <1>2, SetupLength
    <2>3. PICK C : T \in Seq(C)
      <3>1. <<>> \in Seq({})
        OBVIOUS
      <3>. QED
        BY <1>2, <3>1, SetupLength
    <2>4. Joined(new, ixs, I, CreatedBy(h, prog), SwapOf(h, leg, prog), T)
      <3>. HIDE DEF I, T
      <3>. QED
        BY <1>4, <2>1, <2>2, <2>3, Appended, Zenon
    <2>. HIDE DEF I, T
    <2>. QED
      BY <2>4 DEF Joined
  <1>. HIDE DEF I, T
  <1>7. Len(ixs) + Len(I) + 2 = SwapAt(trade, n) /\ Len(ixs) = LengthOf(trade, n - 1)
    BY <1>2, <1>5 DEF Layout, LengthOf, SwapAt, Last
  <1>8. Len(ixs) \in Nat /\ Len(I) \in Nat /\ Len(T) \in Nat
    BY <1>2, <1>5, <1>7 DEF LengthOf, SwapAt, Last
  <1>9. Len(new) = LengthOf(trade, n)
    BY <1>2, <1>5, <1>6, <1>7, <1>8 DEF LengthOf, SwapAt, Last
  <1>10. Part(trade, new, n, prog)
    <2>1. n = 1 => Len(ixs) = 0
      BY <1>7 DEF LengthOf
    <2>2. n = 1 => \A k \in 1 .. Before(trade) : new[k] = SetupOf(1, h, leg, prog)[k]
      BY <1>5, <1>6, <1>8, <2>1 DEF I
    <2>3. new[SwapAt(trade, n) - 1] = CreatedBy(h, prog) /\ new[SwapAt(trade, n)] = SwapOf(h, leg, prog)
      <3>1. SwapAt(trade, n) - 1 = Len(ixs) + Len(I) + 1
        BY <1>7, <1>8
      <3>. QED
        BY <1>6, <1>7, <3>1, Zenon
    <2>4. n = Last => \A k \in 1 .. After(trade) : new[SwapAt(trade, n) + k] = Closed(h, prog)[k]
      BY <1>5, <1>6, <1>7, <1>8 DEF T
    <2>. QED
      BY <1>3, <2>2, <2>3, <2>4 DEF Part, Last
  <1>11. ASSUME NEW i \in 1 .. n - 1, NEW q, Part(trade, ixs, i, q)
         PROVE  Part(trade, new, i, q)
    <2>1. Before(trade) <= Len(ixs) /\ SwapAt(trade, i) \in 1 .. Len(ixs) /\ SwapAt(trade, i) - 1 \in 1 .. Len(ixs)
      <3>1. n - 1 # 0 /\ n - 1 # Last /\ Len(ixs) = SwapAt(trade, n - 1)
        BY <1>2, <1>7 DEF LengthOf, Last
      <3>. QED
        BY <1>2, <1>5, <3>1 DEF SwapAt
    <2>2. i # Last
      BY <1>2
    <2>. QED
      BY <1>5, <1>6, <1>8, <1>11, <2>1, <2>2 DEF Part, Last
  <1>12. ASSUME NEW i \in 1 .. n
         PROVE  \E a \in BOOLEAN :
                  /\ ~a /\ ~now => \A m \in Both(trade.hops[i].pool) : TokenProgram[m] = "spl"
                  /\ Part(trade, new, i, Resolved(a))
    <2>1. CASE i = n
      BY <1>10, <2>1
    <2>2. CASE i # n
      <3>1. i \in 1 .. n - 1
        BY <1>2, <2>2
      <3>2. PICK a \in BOOLEAN :
               /\ ~a /\ ~mis => \A m \in Both(trade.hops[i].pool) : TokenProgram[m] = "spl"
               /\ Part(trade, ixs, i, Resolved(a))
        BY <3>1 DEF Layout
      <3>. QED
        BY <1>11, <3>1, <3>2
    <2>. QED
      BY <2>1, <2>2
  <1>. QED
    BY <1>6, <1>9, <1>12 DEF Layout

-----------------------------------------------------------------------------
(* What the instructions do to the wallet. *)

\* The wallet's token account of a mint
Home(m) == Ata(m, TokenProgram[m])

Coins(w, m) == IF Home(m) \in DOMAIN w.held THEN w.held[Home(m)] ELSE 0

\* A mint has one account of a wallet, and an account one mint.
LEMMA Homes ==
    /\ \A m \in Mints : Home(m) \in Holdable /\ Home(m).mint = m /\ Home(m) # Native
    /\ \A a \in Holdable : a.mint \in Mints /\ a = Home(a.mint) /\ a.program = TokenProgram[a.mint]
    /\ \A m \in Mints : \A p : Ata(m, p) \in Holdable => p = TokenProgram[m]
    /\ \A m, p : Ata(m, p).mint = m /\ Ata(m, p).program = p
    /\ Home(Wsol) = Ata(Wsol, "spl") /\ Wsol \in Mints /\ Native.mint = Wsol /\ Native \notin Holdable
  <1>1. \A m, p : Ata(m, p).mint = m /\ Ata(m, p).program = p
    BY DEF Ata
  <1>2. \A a \in Holdable : \E m \in Mints : a = Ata(m, TokenProgram[m])
    BY DEF Holdable
  <1>3. \A m \in Mints : TokenProgram[m] # "system"
    BY MintAssumption
  <1>4. Native.program = "system" /\ Native.mint = Wsol
    BY DEF Native
  <1>5. \A m \in Mints : Ata(m, TokenProgram[m]) \in Holdable
    BY DEF Holdable
  <1>6. \A a \in Holdable : a.mint \in Mints /\ a = Ata(a.mint, TokenProgram[a.mint]) /\ a.program = TokenProgram[a.mint]
    BY <1>1, <1>2
  <1>7. Wsol \in Mints /\ TokenProgram[Wsol] = "spl"
    BY MintAssumption
  <1>8. Native \notin Holdable
    BY <1>3, <1>4, <1>6
  <1>. QED
    BY <1>1, <1>4, <1>5, <1>6, <1>7, <1>8 DEF Home

\* What a wallet holds of a mint is in that account, and in the lamports if the
\* mint is WSOL.
LEMMA WorthIs ==
    ASSUME NEW w, SoundWallet(w), NEW m \in Mints
    PROVE  /\ Coins(w, m) \in Nat
           /\ Worth(w, m) = (IF m = Wsol THEN w.lamports ELSE 0) + Coins(w, m)
           /\ Worth(w, m) \in Nat
  <1>. DEFINE D == {b \in DOMAIN w.held : b.mint = m}
              f == [x \in D |-> w.held[x]]
  <1>1. /\ w.lamports \in Nat /\ DOMAIN w.held \subseteq Holdable
        /\ \A x \in DOMAIN w.held : w.held[x] \in Nat
    BY DEF SoundWallet
  <1>2. D = IF Home(m) \in DOMAIN w.held THEN {Home(m)} ELSE {}
    BY <1>1, Homes
  <1>3. SumFunction(f) = Coins(w, m)
    <2>1. CASE D = {}
      <3>1. DOMAIN f = {}
        BY <2>1
      <3>. QED
        BY <1>2, <2>1, <3>1, SumOfNone DEF Coins
    <2>2. CASE D = {Home(m)}
      <3>. DEFINE a == Home(m)
      <3>1. IsFiniteSet(D) /\ f \in [D -> Int] /\ a \in D
        BY <1>1, <2>2, FS_Singleton
      <3>2. SumFunction(f) = f[a] + SumFunction([y \in D \ {a} |-> f[y]])
        <4>. HIDE DEF f, D, a
        <4>. QED
          BY <3>1, SumTerm
      <3>3. SumFunction([y \in D \ {a} |-> f[y]]) = 0
        <4>1. DOMAIN [y \in D \ {a} |-> f[y]] = {}
          BY <2>2
        <4>. HIDE DEF f, D, a
        <4>. QED
          BY <4>1, SumOfNone
      <3>4. f[a] = w.held[Home(m)] /\ a \in DOMAIN w.held
        BY <3>1
      <3>5. f[a] \in Int
        BY <3>1
      <3>. HIDE DEF f, D, a
      <3>. QED
        BY <3>2, <3>3, <3>4, <3>5 DEF Coins, a
    <2>. QED
      BY <1>2, <2>1, <2>2
  <1>4. Coins(w, m) \in Nat
    BY <1>1 DEF Coins
  <1>. QED
    BY <1>1, <1>3, <1>4 DEF Worth

\* What an account holds, the wallet's own lamports included
Has(w, a) == a = Native \/ a \in DOMAIN w.held
Amount(w, a) == IF a = Native THEN w.lamports ELSE w.held[a]

\* A payment changes one account, and what the wallet has of its mint.
LEMMA Paid ==
    ASSUME NEW w, SoundWallet(w), NEW a, Has(w, a), NEW x \in Int, Amount(w, a) + x \in Nat,
           NEW v, v = Pay(w, a, x)
    PROVE  /\ SoundWallet(v) /\ DOMAIN v.held = DOMAIN w.held
           /\ \A b : Has(v, b) <=> Has(w, b)
           /\ Amount(v, a) = Amount(w, a) + x
           /\ \A b : Has(w, b) /\ b # a => Amount(v, b) = Amount(w, b)
           /\ \A m \in Mints : Worth(v, m) = Worth(w, m) + (IF m = a.mint THEN x ELSE 0)
  <1>1. /\ w = [lamports |-> w.lamports, held |-> w.held] /\ w.lamports \in Nat
        /\ DOMAIN w.held \subseteq Holdable /\ w.held \in [DOMAIN w.held -> Nat]
    BY DEF SoundWallet
  <1>2. CASE a = Native
    <2>1. v = [lamports |-> w.lamports + x, held |-> w.held]
      BY <1>1, <1>2 DEF Pay
    <2>2. w.lamports + x \in Nat
      BY <1>2 DEF Amount
    <2>3. SoundWallet(v)
      BY <1>1, <2>1, <2>2 DEF SoundWallet
    <2>4. \A m \in Mints : Coins(v, m) = Coins(w, m)
      BY <2>1 DEF Coins
    <2>5. \A m \in Mints : Worth(v, m) = Worth(w, m) + (IF m = a.mint THEN x ELSE 0)
      <3>. TAKE m \in Mints
      <3>1. a.mint = Wsol
        BY <1>2, Homes
      <3>2. /\ Worth(v, m) = (IF m = Wsol THEN w.lamports + x ELSE 0) + Coins(v, m)
            /\ Worth(w, m) = (IF m = Wsol THEN w.lamports ELSE 0) + Coins(w, m)
            /\ Coins(w, m) \in Nat
        BY <2>1, <2>3, WorthIs
      <3>. QED
        BY <1>1, <2>4, <3>1, <3>2
    <2>. QED
      BY <1>2, <2>1, <2>3, <2>5 DEF Has, Amount
  <1>3. CASE a # Native
    <2>1. v = [lamports |-> w.lamports, held |-> [w.held EXCEPT ![a] = @ + x]]
      <3>1. v = [w EXCEPT !.held = [w.held EXCEPT ![a] = w.held[a] + x]]
        BY <1>3 DEF Pay
      <3>2. PICK l, hd : w = [lamports |-> l, held |-> hd]
        BY <1>1
      <3>. QED
        BY <3>1, <3>2
    <2>2. a \in DOMAIN w.held /\ w.held[a] + x \in Nat
      BY <1>3 DEF Amount, Has
    <2>3. DOMAIN v.held = DOMAIN w.held /\ v.lamports = w.lamports
      BY <2>1
    <2>4. v.held[a] = w.held[a] + x /\ \A b \in DOMAIN w.held : b # a => v.held[b] = w.held[b]
      BY <1>1, <2>1, <2>2
    <2>5. SoundWallet(v)
      <3>1. v.held \in [DOMAIN w.held -> Nat]
        BY <1>1, <2>1, <2>2
      <3>. QED
        BY <1>1, <2>1, <2>3, <3>1 DEF SoundWallet
    <2>6. a \in Holdable /\ a.mint \in Mints /\ a = Home(a.mint) /\ w.held[a] \in Nat
      BY <1>1, <2>2, Homes
    <2>7. \A m \in Mints : Coins(v, m) = Coins(w, m) + (IF m = a.mint THEN x ELSE 0)
      <3>. TAKE m \in Mints
      <3>1. CASE m = a.mint
        BY <2>2, <2>3, <2>4, <2>6, <3>1 DEF Coins
      <3>2. CASE m # a.mint
        <4>1. Home(m) # a
          BY <3>2, Homes
        <4>2. Coins(v, m) = Coins(w, m)
          BY <2>3, <2>4, <4>1 DEF Coins
        <4>3. Coins(w, m) \in Nat
          BY WorthIs
        <4>. QED
          BY <3>2, <4>2, <4>3
      <3>. QED
        BY <3>1, <3>2
    <2>8. \A m \in Mints : Worth(v, m) = Worth(w, m) + (IF m = a.mint THEN x ELSE 0)
      <3>. TAKE m \in Mints
      <3>1. /\ Worth(v, m) = (IF m = Wsol THEN w.lamports ELSE 0) + Coins(v, m)
            /\ Worth(w, m) = (IF m = Wsol THEN w.lamports ELSE 0) + Coins(w, m)
            /\ Coins(w, m) \in Nat
        BY <2>3, <2>5, WorthIs
      <3>. QED
        BY <1>1, <2>7, <3>1
    <2>. QED
      BY <1>3, <2>3, <2>4, <2>5, <2>8 DEF Has, Amount
  <1>. QED
    BY <1>2, <1>3

\* Creating an account changes nothing but that it is there.
LEMMA CreateEffect ==
    ASSUME SoundWallet(wallet), NEW m \in Mints, NEW p, ChainCreate(CreateAta(Ata(m, p)))
    PROVE  /\ p = TokenProgram[m] /\ SoundWallet(wallet') /\ UNCHANGED fills
           /\ wallet'.lamports = wallet.lamports
           /\ Ata(m, p) \in DOMAIN wallet'.held
           /\ \A b \in DOMAIN wallet.held : b \in DOMAIN wallet'.held /\ wallet'.held[b] = wallet.held[b]
           /\ \A k \in Mints : Worth(wallet', k) = Worth(wallet, k)
  <1>. DEFINE a == Ata(m, p)
  <1>1. /\ wallet = [lamports |-> wallet.lamports, held |-> wallet.held] /\ wallet.lamports \in Nat
        /\ DOMAIN wallet.held \subseteq Holdable /\ wallet.held \in [DOMAIN wallet.held -> Nat]
    BY DEF SoundWallet
  <1>2. CreateAta(a).account = a
    BY DEF CreateAta
  <1>3. p = TokenProgram[m] /\ a = Home(m) /\ a \in Holdable /\ a # Native
    BY <1>2, Homes DEF ChainCreate, Home
  <1>4. wallet' = IF a \in DOMAIN wallet.held THEN wallet
                  ELSE [lamports |-> wallet.lamports,
                        held |-> [b \in DOMAIN wallet.held \cup {a} |->
                                    IF b = a THEN 0 ELSE wallet.held[b]]]
    BY <1>1, <1>2, <1>3 DEF ChainCreate, Exists
  <1>7. UNCHANGED fills
    BY DEF ChainCreate
  <1>. HIDE DEF a
  <1>5. CASE a \in DOMAIN wallet.held
    BY <1>3, <1>4, <1>5, <1>7 DEF a
  <1>6. CASE a \notin DOMAIN wallet.held
    <2>1. /\ wallet' = [lamports |-> wallet'.lamports, held |-> wallet'.held]
          /\ wallet'.lamports = wallet.lamports
          /\ DOMAIN wallet'.held = DOMAIN wallet.held \cup {a}
          /\ wallet'.held[a] = 0 /\ \A b \in DOMAIN wallet.held : wallet'.held[b] = wallet.held[b]
          /\ wallet'.held \in [DOMAIN wallet'.held -> Nat]
      BY <1>1, <1>4, <1>6
    <2>2. SoundWallet(wallet')
      BY <1>1, <1>3, <2>1 DEF SoundWallet
    <2>3. \A k \in Mints : Coins(wallet', k) = Coins(wallet, k)
      BY <1>6, <2>1 DEF Coins
    <2>4. \A k \in Mints : Worth(wallet', k) = Worth(wallet, k)
      BY <1>1, <2>1, <2>2, <2>3, WorthIs
    <2>. QED
      BY <1>3, <1>7, <2>1, <2>2, <2>4 DEF a
  <1>. QED
    BY <1>5, <1>6

\* Wrapping moves lamports into the WSOL account.
LEMMA FundEffect ==
    ASSUME SoundWallet(wallet), NEW n \in Nat,
           ChainFund([op |-> "fund", account |-> Ata(Wsol, "spl"), amount |-> n])
    PROVE  /\ SoundWallet(wallet') /\ UNCHANGED fills
           /\ Has(wallet', Home(Wsol)) /\ Amount(wallet', Home(Wsol)) >= n
           /\ \A k \in Mints : Worth(wallet', k) = Worth(wallet, k)
  <1>. DEFINE a == Home(Wsol)
              w == Pay(wallet, Native, -n)
  <1>1. /\ Has(wallet, a) /\ a # Native /\ wallet.lamports >= n
        /\ wallet' = Pay(w, a, n) /\ UNCHANGED fills
    BY Homes DEF ChainFund, Exists, Has
  <1>2. /\ wallet.lamports \in Nat /\ wallet.held[a] \in Nat
    BY <1>1 DEF SoundWallet, Has
  <1>3. Has(wallet, Native) /\ Amount(wallet, Native) + (-n) \in Nat
    BY <1>1, <1>2 DEF Has, Amount
  <1>4. /\ SoundWallet(w) /\ Has(w, a)
        /\ Amount(w, a) = wallet.held[a]
        /\ \A m \in Mints : Worth(w, m) = Worth(wallet, m) + (IF m = Native.mint THEN -n ELSE 0)
    <2>. HIDE DEF a, w
    <2>1. -n \in Int
      OBVIOUS
    <2>2. /\ SoundWallet(w) /\ \A b : Has(w, b) <=> Has(wallet, b)
          /\ \A b : Has(wallet, b) /\ b # Native => Amount(w, b) = Amount(wallet, b)
          /\ \A m \in Mints : Worth(w, m) = Worth(wallet, m) + (IF m = Native.mint THEN -n ELSE 0)
      BY <1>3, <2>1, Paid DEF w
    <2>. QED
      BY <1>1, <2>2 DEF Amount
  <1>5. /\ SoundWallet(wallet') /\ Has(wallet', a)
        /\ Amount(wallet', a) = wallet.held[a] + n
        /\ \A m \in Mints : Worth(wallet', m) = Worth(w, m) + (IF m = a.mint THEN n ELSE 0)
    <2>. HIDE DEF a, w
    <2>1. Amount(w, a) + n \in Nat
      BY <1>2, <1>4
    <2>. QED
      BY <1>1, <1>4, <2>1, Paid
  <1>6. \A k \in Mints : Worth(wallet', k) = Worth(wallet, k)
    <2>. TAKE k \in Mints
    <2>1. Worth(wallet, k) \in Nat /\ a.mint = Wsol /\ Native.mint = Wsol
      BY WorthIs, Homes
    <2>2. Worth(w, k) = Worth(wallet, k) + (IF k = Native.mint THEN -n ELSE 0)
      BY <1>4
    <2>3. Worth(wallet', k) = Worth(w, k) + (IF k = a.mint THEN n ELSE 0)
      BY <1>5
    <2>. HIDE DEF a, w
    <2>. QED
      BY <2>1, <2>2, <2>3
  <1>. QED
    BY <1>1, <1>2, <1>5, <1>6

\* A swap moves its input out of the wallet, and what it gave in.
LEMMA SwapEffect ==
    ASSUME SoundWallet(wallet), NEW ix, ChainSwap(ix), ix.accounts.takes # ix.accounts.gives,
           ix.amount_in \in Nat, Fills(Quoted) \subseteq Nat
    PROVE  \E got \in Nat :
             /\ got \in Fills(Quoted) /\ got >= ix.min_amount_out /\ fills' = Append(fills, got)
             /\ SoundWallet(wallet') /\ \A b : Has(wallet', b) <=> Has(wallet, b)
             /\ Has(wallet', ix.accounts.from)
             /\ Has(wallet', ix.accounts.to) /\ Amount(wallet', ix.accounts.to) >= got
             /\ \A k \in Mints :
                  Worth(wallet', k) = Worth(wallet, k) - (IF k = ix.accounts.takes THEN ix.amount_in ELSE 0)
                                                       + (IF k = ix.accounts.gives THEN got ELSE 0)
  <1>. DEFINE from == ix.accounts.from
              to == ix.accounts.to
              n == ix.amount_in
              w == Pay(wallet, from, -n)
  <1>1. /\ Has(wallet, from) /\ Has(wallet, to) /\ from.mint = ix.accounts.takes
        /\ to.mint = ix.accounts.gives /\ Amount(wallet, from) >= n
    BY DEF ChainSwap, Swappable, Exists, Balance, Has, Amount
  <1>2. PICK got \in Fills(Quoted) :
          got >= ix.min_amount_out /\ fills' = Append(fills, got) /\ wallet' = Pay(w, to, got)
    BY DEF ChainSwap
  <1>3. got \in Nat /\ from # to /\ n \in Nat
    BY <1>1
  <1>4. \A b : Has(wallet, b) => Amount(wallet, b) \in Nat
    BY DEF SoundWallet, Has, Amount
  <1>. HIDE DEF from, to, n
  <1>5. Amount(wallet, from) + (-n) \in Nat /\ -n \in Int
    <2>1. Amount(wallet, from) \in Nat
      BY <1>1, <1>4
    <2>. QED
      BY <1>1, <1>3, <2>1
  <1>. HIDE DEF w
  <1>6. /\ SoundWallet(w)
        /\ \A b : Has(w, b) <=> Has(wallet, b)
        /\ \A b : Has(wallet, b) /\ b # from => Amount(w, b) = Amount(wallet, b)
        /\ \A m \in Mints : Worth(w, m) = Worth(wallet, m) + (IF m = from.mint THEN -n ELSE 0)
    BY <1>1, <1>5, Paid DEF w
  <1>7. Amount(w, to) + got \in Nat /\ Has(w, to) /\ Amount(w, to) + got >= got
    <2>1. Amount(w, to) \in Nat
      BY <1>1, <1>3, <1>4, <1>6
    <2>. QED
      BY <1>1, <1>3, <1>6, <2>1
  <1>8. /\ SoundWallet(wallet')
        /\ \A b : Has(wallet', b) <=> Has(w, b)
        /\ Amount(wallet', to) = Amount(w, to) + got
        /\ \A m \in Mints : Worth(wallet', m) = Worth(w, m) + (IF m = to.mint THEN got ELSE 0)
    BY <1>2, <1>3, <1>6, <1>7, Paid
  <1>9. \A k \in Mints :
          Worth(wallet', k) = Worth(wallet, k) - (IF k = ix.accounts.takes THEN n ELSE 0)
                                               + (IF k = ix.accounts.gives THEN got ELSE 0)
    <2>. TAKE k \in Mints
    <2>1. Worth(wallet, k) \in Nat
      BY WorthIs
    <2>2. Worth(w, k) = Worth(wallet, k) + (IF k = from.mint THEN -n ELSE 0)
      BY <1>6
    <2>3. Worth(wallet', k) = Worth(w, k) + (IF k = to.mint THEN got ELSE 0)
      BY <1>8
    <2>. QED
      BY <1>1, <1>3, <2>1, <2>2, <2>3
  <1>. QED
    BY <1>1, <1>2, <1>3, <1>6, <1>7, <1>8, <1>9 DEF from, to, n

\* Closing an account loses nothing: it was empty, or its SOL comes back.
LEMMA CloseEffect ==
    ASSUME SoundWallet(wallet), NEW a, NEW p, ChainClose(CloseAccount(a, p))
    PROVE  /\ SoundWallet(wallet') /\ UNCHANGED fills
           /\ a \notin DOMAIN wallet'.held
           /\ \A k \in Mints : Worth(wallet', k) = Worth(wallet, k)
  <1>1. /\ wallet.lamports \in Nat /\ DOMAIN wallet.held \subseteq Holdable
        /\ \A b \in DOMAIN wallet.held : wallet.held[b] \in Nat
    BY DEF SoundWallet
  <1>2. CloseAccount(a, p).account = a
    BY DEF CloseAccount
  <1>3. a \in DOMAIN wallet.held /\ a # Native
    BY <1>1, <1>2, Homes DEF ChainClose
  <1>4. /\ a.mint = Wsol \/ wallet.held[a] = 0
        /\ wallet' = [lamports |-> wallet.lamports + wallet.held[a],
                      held |-> [b \in DOMAIN wallet.held \ {a} |-> wallet.held[b]]]
        /\ UNCHANGED fills
    BY <1>2, <1>3 DEF ChainClose, Balance
  <1>5. /\ wallet' = [lamports |-> wallet'.lamports, held |-> wallet'.held]
        /\ wallet'.lamports = wallet.lamports + wallet.held[a]
        /\ DOMAIN wallet'.held = DOMAIN wallet.held \ {a}
        /\ \A b \in DOMAIN wallet'.held : wallet'.held[b] = wallet.held[b]
        /\ wallet'.held \in [DOMAIN wallet'.held -> Nat]
        /\ wallet'.lamports \in Nat
    BY <1>1, <1>3, <1>4
  <1>6. SoundWallet(wallet')
    BY <1>1, <1>5 DEF SoundWallet
  <1>7. a.mint \in Mints /\ a = Home(a.mint)
    BY <1>1, <1>3, Homes
  <1>8. \A k \in Mints : Worth(wallet', k) = Worth(wallet, k)
    <2>. TAKE k \in Mints
    <2>1. /\ Worth(wallet, k) = (IF k = Wsol THEN wallet.lamports ELSE 0) + Coins(wallet, k)
          /\ Worth(wallet', k) = (IF k = Wsol THEN wallet'.lamports ELSE 0) + Coins(wallet', k)
          /\ Coins(wallet, k) \in Nat
      BY <1>6, WorthIs
    <2>2. CASE k = a.mint
      <3>1. Coins(wallet, k) = wallet.held[a] /\ Coins(wallet', k) = 0
        BY <1>3, <1>5, <1>7, <2>2 DEF Coins
      <3>. QED
        BY <1>1, <1>3, <1>4, <1>5, <2>1, <2>2, <3>1
    <2>3. CASE k # a.mint
      <3>1. Home(k) # a
        BY <2>3, Homes
      <3>2. Coins(wallet', k) = Coins(wallet, k)
        BY <1>5, <3>1 DEF Coins
      <3>3. k = Wsol => wallet'.lamports = wallet.lamports
        BY <1>1, <1>4, <1>5, <2>3
      <3>. QED
        BY <2>1, <3>2, <3>3
    <2>. QED
      BY <2>2, <2>3
  <1>. QED
    BY <1>4, <1>5, <1>6, <1>8

-----------------------------------------------------------------------------
(* Where the chain is. *)

\* The chain has done as many swaps as there are fills, and is between the
\* last of them and the next.
Progress ==
    LET f == Len(fills)
    IN  /\ hop \in 1 .. Len(ixs) + 1
        /\ f # 0 => hop > SwapAt(trade, f)
        /\ f # Last => hop <= SwapAt(trade, f + 1)

RouteData ==
    /\ trade \in Trades /\ start \in Wallets /\ misread \in BOOLEAN
    /\ IsSequence(ixs) /\ SoundWallet(wallet)
    /\ fills \in Seq(Nat) /\ Len(fills) <= Last
    /\ hop \in Nat \ {0}

\* What is so at the place p of the call
RouteAt(p) ==
    /\ p \in {"build", "create", "extend", "wait", "send", "run", "landed", "failed", "refused"}
    /\ p = "build" => hop \in 1 .. Last + 1 /\ Layout(trade, ixs, misread, hop - 1)
    /\ p \notin {"build", "refused"} => Layout(trade, ixs, misread, Last)
    /\ p \in {"build", "create", "extend", "wait", "send"} => wallet = start /\ fills = <<>>
    /\ p \in {"create", "extend", "wait", "send"} => hop = 1
    /\ p \in {"run", "landed"} => Progress
    /\ p = "landed" => hop > Len(ixs)
    /\ p = "failed" => hop <= Len(ixs) + 1
    /\ p = "refused" => hop <= Last + 1

RouteInv == RouteData /\ RouteAt(pc)

\* The route has a hop or more, and all are hops of the router.
LEMMA RouteIs ==
    ASSUME trade \in Trades
    PROVE  /\ Last \in Nat \ {0} /\ DOMAIN trade.hops = 1 .. Last
           /\ \A i \in 1 .. Last : RouteHop(trade.hops[i]) /\ Fills(trade.hops[i].output_amount) \subseteq Nat
           /\ Before(trade) \in 0 .. 2 /\ After(trade) \in 0 .. 1
  BY RouteAssumption, ExecutionAssumption DEF Last, Before, After

\* The four places where the chain can be: before the first hop's account, at
\* one of the two instructions of the next hop, or at the close.
AtSetup(leg, prog) ==
    /\ Len(fills) = 0 /\ hop \in 1 .. Before(trade)
    /\ ixs[hop] = SetupOf(1, trade.hops[1], leg, prog)[hop]
AtCreate(n, prog) ==
    /\ n = Len(fills) + 1 /\ hop = SwapAt(trade, n) - 1
    /\ ixs[hop] = CreatedBy(trade.hops[n], prog)
AtSwap(n, prog) ==
    /\ n = Len(fills) + 1 /\ hop = SwapAt(trade, n)
    /\ ixs[hop] = SwapOf(trade.hops[n], LegIn(trade, n), prog)
AtClose(prog) ==
    /\ Len(fills) = Last /\ hop = SwapAt(trade, Last) + 1
    /\ After(trade) = 1 /\ ixs[hop] = Closed(trade.hops[Last], prog)[1]

\* The instruction the chain comes to is one of these.
LEMMA Where ==
    ASSUME RouteInv, pc = "run", hop <= Len(ixs)
    PROVE  \E answered \in BOOLEAN, n \in 1 .. Last :
             LET prog == Resolved(answered)
             IN  /\ ~answered /\ ~misread => \A m \in Both(trade.hops[n].pool) : TokenProgram[m] = "spl"
                 /\ LegOf(trade.hops[n], LegIn(trade, n))
                 /\ \/ n = 1 /\ AtSetup(LegIn(trade, 1), prog)
                    \/ AtCreate(n, prog) \/ AtSwap(n, prog)
                    \/ n = Last /\ AtClose(prog)
  <1>. DEFINE f == Len(fills)
              n == IF f = Last THEN Last ELSE f + 1
  <1>1. /\ Layout(trade, ixs, misread, Last) /\ Progress /\ trade \in Trades
        /\ f \in Nat /\ f <= Last
    BY DEF RouteInv, RouteData, RouteAt
  <1>2. Last \in Nat \ {0} /\ Before(trade) \in 0 .. 2 /\ After(trade) \in 0 .. 1
    BY <1>1, RouteIs
  <1>3. n \in 1 .. Last
    BY <1>1, <1>2
  <1>4. PICK answered \in BOOLEAN :
          /\ ~answered /\ ~misread => \A m \in Both(trade.hops[n].pool) : TokenProgram[m] = "spl"
          /\ Part(trade, ixs, n, Resolved(answered))
    BY <1>1, <1>3 DEF Layout
  <1>5. Len(ixs) = SwapAt(trade, Last) + After(trade)
    BY <1>1, <1>2 DEF Layout, LengthOf, Last
  <1>6. /\ hop \in Nat \ {0} /\ hop <= SwapAt(trade, Last) + After(trade)
        /\ f # 0 => hop > SwapAt(trade, f)
        /\ f # Last => hop <= SwapAt(trade, f + 1)
    BY <1>1, <1>5 DEF Progress, RouteInv, RouteData, RouteAt
  <1>. DEFINE prog == Resolved(answered)
  <1>. HIDE DEF prog
  <1>7. CASE f = Last
    <2>1. hop = SwapAt(trade, Last) + 1 /\ After(trade) = 1
      BY <1>2, <1>6, <1>7 DEF SwapAt
    <2>2. AtClose(prog) /\ LegOf(trade.hops[n], LegIn(trade, n))
      BY <1>2, <1>4, <1>7, <2>1 DEF Part, AtClose, Last, prog
    <2>. QED
      BY <1>3, <1>4, <1>7, <2>2 DEF prog
  <1>8. CASE f # Last
    <2>1. n = f + 1 /\ LegOf(trade.hops[n], LegIn(trade, n))
      BY <1>4, <1>8 DEF Part
    <2>2. CASE f = 0 /\ hop <= Before(trade)
      <3>1. AtSetup(LegIn(trade, 1), prog)
        BY <1>2, <1>4, <1>6, <1>8, <2>2 DEF Part, AtSetup, prog
      <3>. QED
        BY <1>3, <1>4, <2>1, <2>2, <3>1 DEF prog
    <2>3. CASE hop = SwapAt(trade, n) - 1
      <3>1. AtCreate(n, prog)
        BY <1>4, <2>1, <2>3 DEF Part, AtCreate, prog
      <3>. QED
        BY <1>3, <1>4, <2>1, <3>1 DEF prog
    <2>4. CASE hop = SwapAt(trade, n)
      <3>1. AtSwap(n, prog)
        BY <1>4, <2>1, <2>4 DEF Part, AtSwap, prog
      <3>. QED
        BY <1>3, <1>4, <2>1, <3>1 DEF prog
    <2>5. (f = 0 /\ hop <= Before(trade)) \/ hop = SwapAt(trade, n) - 1 \/ hop = SwapAt(trade, n)
      BY <1>1, <1>2, <1>6, <1>8, <2>1 DEF SwapAt
    <2>. QED
      BY <2>2, <2>3, <2>4, <2>5
  <1>. QED
    BY <1>7, <1>8

\* The setup is the account of the input, and after it the wrapped lamports.
LEMMA SetupIs ==
    ASSUME trade \in Trades, NEW leg, LegOf(trade.hops[1], leg), NEW prog \in Resolutions,
           NEW k \in 1 .. Before(trade)
    PROVE  SetupOf(1, trade.hops[1], leg, prog)[k] =
             IF k = 2 THEN [op |-> "fund", account |-> Ata(Wsol, "spl"), amount |-> leg.amount_in]
             ELSE CreateAta(Address(trade.hops[1].pool, trade.hops[1].input_mint, prog))
  <1>. DEFINE h == trade.hops[1]
  <1>1. CASE h.pool.venue = PumpfunBc
    BY <1>1 DEF Before
  <1>2. CASE h.pool.venue # PumpfunBc /\ h.input_mint = Wsol
    <2>1. Address(h.pool, Wsol, prog) = Ata(Wsol, "spl")
      BY DEF Address, Resolutions
    <2>2. SetupOf(1, h, leg, prog) = WrapSol(leg.amount_in) /\ k \in 1 .. 2
      BY <1>2 DEF SetupOf, Before
    <2>. QED
      BY <1>2, <2>1, <2>2 DEF WrapSol
  <1>3. CASE h.pool.venue # PumpfunBc /\ h.input_mint # Wsol
    <2>1. SetupOf(1, h, leg, prog) = <<CreateAta(Address(h.pool, h.input_mint, prog))>> /\ k = 1
      BY <1>3 DEF SetupOf, Before
    <2>. QED
      BY <2>1
  <1>. QED
    BY <1>1, <1>2, <1>3

\* What an instruction of the route did
Kept == UNCHANGED fills /\ \A k \in Mints : Worth(wallet', k) = Worth(wallet, k)

Creates(a) ==
    /\ Kept /\ wallet'.lamports = wallet.lamports /\ a \in DOMAIN wallet'.held
    /\ \A b \in DOMAIN wallet.held : b \in DOMAIN wallet'.held /\ wallet'.held[b] = wallet.held[b]

Wraps(n) == Kept /\ Has(wallet', Home(Wsol)) /\ Amount(wallet', Home(Wsol)) >= n

Swaps(h, leg, prog) ==
    \E got \in Nat :
       /\ got >= leg.min_amount_out /\ fills' = Append(fills, got)
       /\ Has(wallet', Side(h.pool, h.input_mint, prog))
       /\ Has(wallet', Side(h.pool, h.output_mint, prog))
       /\ Amount(wallet', Side(h.pool, h.output_mint, prog)) >= got
       /\ \A k \in Mints :
            Worth(wallet', k) = Worth(wallet, k) - (IF k = h.input_mint THEN h.input_amount ELSE 0)
                                                 + (IF k = h.output_mint THEN got ELSE 0)

Closes(a) == Kept /\ a \notin DOMAIN wallet'.held

CreatedMint(h) == IF h.pool.venue = PumpfunBc THEN h.pool.base ELSE h.output_mint
ClosedMint(h) == IF ClosesWrongSide(h) THEN h.pool.quote ELSE Wsol

\* A step of the chain, by the place where it is taken: what it does to the
\* wallet and to the fills.
LEMMA RunDoes ==
    ASSUME RouteInv, Run
    PROVE  /\ SoundWallet(wallet') /\ pc = "run" /\ pc' = "run" /\ hop' = hop + 1 /\ hop <= Len(ixs)
           /\ UNCHANGED <<call, setup, ixs, misread, slot>>
           /\ \E answered \in BOOLEAN, n \in 1 .. Last :
                LET prog == Resolved(answered)
                    h == trade.hops[n]
                    leg == LegIn(trade, n)
                IN  /\ ~answered /\ ~misread => \A m \in Both(h.pool) : TokenProgram[m] = "spl"
                    /\ LegOf(h, leg)
                    /\ \/ n = 1 /\ AtSetup(leg, prog) /\ hop # 2 /\ Creates(Address(h.pool, h.input_mint, prog))
                       \/ n = 1 /\ AtSetup(leg, prog) /\ hop = 2 /\ Wraps(h.input_amount)
                       \/ AtCreate(n, prog) /\ Creates(Address(h.pool, CreatedMint(h), prog))
                       \/ AtSwap(n, prog) /\ Swaps(h, leg, prog)
                       \/ n = Last /\ AtClose(prog) /\ Closes(Address(h.pool, ClosedMint(h), prog))
  <1>1. /\ pc = "run" /\ hop <= Len(ixs) /\ ChainRuns(ixs[hop]) /\ hop' = hop + 1 /\ pc' = "run"
        /\ UNCHANGED <<call, setup, ixs, misread, slot>>
    BY DEF Run
  <1>2. trade \in Trades /\ SoundWallet(wallet)
    BY DEF RouteInv, RouteData
  <1>3. PICK answered \in BOOLEAN, n \in 1 .. Last :
             LET prog == Resolved(answered)
             IN  /\ ~answered /\ ~misread => \A m \in Both(trade.hops[n].pool) : TokenProgram[m] = "spl"
                 /\ LegOf(trade.hops[n], LegIn(trade, n))
                 /\ \/ n = 1 /\ AtSetup(LegIn(trade, 1), prog)
                    \/ AtCreate(n, prog) \/ AtSwap(n, prog)
                    \/ n = Last /\ AtClose(prog)
    BY <1>1, Where
  <1>. DEFINE prog == Resolved(answered)
              h == trade.hops[n]
              leg == LegIn(trade, n)
              a(m) == Address(h.pool, m, prog)
  <1>4. prog \in Resolutions
    BY ResolvedIs
  <1>5. h.input_mint \in Mints /\ h.output_mint \in Mints /\ h.pool.base \in Mints /\ h.pool.quote \in Mints
        /\ h.input_mint # h.output_mint
    BY <1>3, Sides
  <1>6. leg.amount_in = h.input_amount /\ h.input_amount \in Nat
    BY <1>2, RouteIs DEF LegIn, RouteHop
  <1>7. \A m : \E p : a(m) = Ata(m, p)
    BY DEF Address
  <1>8. ASSUME NEW m \in Mints, ixs[hop] = CreateAta(a(m))
        PROVE  SoundWallet(wallet') /\ Creates(a(m))
    <2>1. PICK p : a(m) = Ata(m, p)
      BY <1>7
    <2>2. ChainCreate(CreateAta(Ata(m, p)))
      <3>1. CreateAta(Ata(m, p)).op = "create"
        BY DEF CreateAta
      <3>2. ixs[hop] = CreateAta(Ata(m, p))
        BY <1>8, <2>1
      <3>. QED
        BY <1>1, <3>1, <3>2 DEF ChainRuns, ChainFund, ChainSwap, ChainClose, Swappable
    <2>. QED
      BY <1>2, <2>1, <2>2, CreateEffect DEF Creates, Kept
  <1>9. CASE n = 1 /\ AtSetup(leg, prog)
    <2>1. hop \in 1 .. Before(trade)
          /\ ixs[hop] = IF hop = 2 THEN [op |-> "fund", account |-> Ata(Wsol, "spl"), amount |-> leg.amount_in]
                        ELSE CreateAta(a(h.input_mint))
      <3>1. /\ LegOf(trade.hops[1], leg) /\ h = trade.hops[1]
            /\ hop \in 1 .. Before(trade) /\ ixs[hop] = SetupOf(1, h, leg, prog)[hop]
        BY <1>3, <1>9 DEF AtSetup
      <3>. HIDE DEF leg, prog, h
      <3>2. SetupOf(1, trade.hops[1], leg, prog)[hop] =
              IF hop = 2 THEN [op |-> "fund", account |-> Ata(Wsol, "spl"), amount |-> leg.amount_in]
              ELSE CreateAta(Address(trade.hops[1].pool, trade.hops[1].input_mint, prog))
        <4>1. trade \in Trades /\ LegOf(trade.hops[1], leg) /\ prog \in Resolutions
              /\ hop \in 1 .. Before(trade)
          BY <1>2, <1>4, <3>1
        <4>. QED
          BY <4>1, SetupIs
      <3>. QED
        BY <3>1, <3>2
    <2>2. CASE hop = 2
      <3>. DEFINE ix == [op |-> "fund", account |-> Ata(Wsol, "spl"), amount |-> h.input_amount]
      <3>1. ixs[hop] = ix
        BY <1>6, <2>1, <2>2
      <3>2. ix.op = "fund"
        OBVIOUS
      <3>3. ChainFund(ix)
        <4>. HIDE DEF ix
        <4>. QED
          BY <1>1, <3>1, <3>2 DEF ChainRuns, ChainCreate, ChainSwap, ChainClose, Swappable
      <3>4. SoundWallet(wallet') /\ Wraps(h.input_amount)
        BY <1>2, <1>6, <3>3, FundEffect DEF Wraps, Kept
      <3>. QED
        BY <1>1, <1>3, <1>9, <2>2, <3>4
    <2>3. CASE hop # 2
      BY <1>1, <1>3, <1>5, <1>8, <1>9, <2>1, <2>3
    <2>. QED
      BY <2>2, <2>3
  <1>10. CASE AtCreate(n, prog)
    <2>1. CreatedMint(h) \in Mints /\ ixs[hop] = CreateAta(a(CreatedMint(h)))
      BY <1>5, <1>10 DEF AtCreate, CreatedBy, CreatedMint
    <2>. QED
      BY <1>1, <1>3, <1>8, <1>10, <2>1
  <1>11. CASE AtSwap(n, prog)
    <2>. DEFINE ix == SwapOf(h, leg, prog)
    <2>1. /\ ixs[hop] = ix /\ ix.op = "swap" /\ ix.amount_in = h.input_amount
          /\ ix.accounts.from = Side(h.pool, h.input_mint, prog)
          /\ ix.accounts.to = Side(h.pool, h.output_mint, prog)
          /\ ix.accounts.takes = h.input_mint /\ ix.accounts.gives = h.output_mint
          /\ ix.min_amount_out = leg.min_amount_out
      BY <1>6, <1>11 DEF AtSwap, SwapOf
    <2>2. Fills(Quoted) \subseteq Nat
      BY <1>2, <1>11, RouteIs DEF AtSwap, Quoted
    <2>. HIDE DEF ix
    <2>3. ChainSwap(ix)
      BY <1>1, <2>1 DEF ChainRuns, ChainCreate, ChainFund, ChainClose
    <2>4. \E got \in Nat :
             /\ got \in Fills(Quoted) /\ got >= ix.min_amount_out /\ fills' = Append(fills, got)
             /\ SoundWallet(wallet') /\ \A b : Has(wallet', b) <=> Has(wallet, b)
             /\ Has(wallet', ix.accounts.from)
             /\ Has(wallet', ix.accounts.to) /\ Amount(wallet', ix.accounts.to) >= got
             /\ \A k \in Mints :
                  Worth(wallet', k) = Worth(wallet, k) - (IF k = ix.accounts.takes THEN ix.amount_in ELSE 0)
                                                       + (IF k = ix.accounts.gives THEN got ELSE 0)
      BY <1>2, <1>5, <1>6, <2>1, <2>2, <2>3, SwapEffect
    <2>5. SoundWallet(wallet') /\ Swaps(h, leg, prog)
      BY <2>1, <2>4 DEF Swaps
    <2>. QED
      BY <1>1, <1>3, <1>11, <2>5
  <1>12. CASE n = Last /\ AtClose(prog)
    <2>. DEFINE c == CloseAccount(a(ClosedMint(h)), a(Wsol).program)
    <2>1. ixs[hop] = c
      <3>1. Closed(h, prog) = <<c>>
        BY <1>12 DEF AtClose, After, Closed, ClosedMint, Last
      <3>. HIDE DEF c
      <3>. QED
        BY <1>12, <3>1 DEF AtClose
    <2>2. ChainClose(c)
      <3>1. c.op = "close"
        BY DEF CloseAccount
      <3>. HIDE DEF c
      <3>. QED
        BY <1>1, <2>1, <3>1 DEF ChainRuns, ChainCreate, ChainFund, ChainSwap, Swappable
    <2>3. SoundWallet(wallet') /\ Closes(a(ClosedMint(h)))
      BY <1>2, <2>2, CloseEffect DEF Closes, Kept
    <2>. QED
      BY <1>1, <1>3, <1>12, <2>3
  <1>. QED
    BY <1>3, <1>9, <1>10, <1>11, <1>12

\* The invariant of the route holds when the call begins,
LEMMA RouteInvInit == ExecutionInit => RouteInv
  <1>. SUFFICES ASSUME ExecutionInit PROVE RouteInv
    OBVIOUS
  <1>1. /\ trade \in Trades /\ start \in Wallets /\ wallet = start /\ pc = "build" /\ hop = 1
        /\ ixs = <<>> /\ misread = FALSE /\ fills = <<>>
    BY DEF ExecutionInit
  <1>2. Last \in Nat \ {0}
    BY <1>1, RouteIs
  <1>3. Len(<<>>) = 0 /\ <<>> \in Seq(Nat)
    OBVIOUS
  <1>4. Layout(trade, ixs, misread, hop - 1)
    BY <1>1, <1>3 DEF Layout, LengthOf, IsSequence
  <1>5. IsSequence(ixs) /\ SoundWallet(wallet) /\ Len(fills) <= Last /\ fills \in Seq(Nat)
    BY <1>1, <1>2, <1>3, WalletAssumption DEF IsSequence
  <1>6. hop \in 1 .. Last + 1 /\ misread \in BOOLEAN
    <2>1. 1 \in 1 .. Last + 1
      BY <1>2
    <2>. QED
      BY <1>1, <2>1
  <1>. QED
    BY <1>1, <1>4, <1>5, <1>6 DEF RouteInv, RouteData, RouteAt

\* Steps that leave the instructions and the wallet alone
LEMMA QuietRoute ==
    ASSUME RouteInv, UNCHANGED <<call, chain, building>>,
           \/ pc' = pc
           \/ pc = "build" /\ hop <= Last /\ pc' = "refused"
           \/ pc \in {"create", "extend", "wait", "send"} /\ pc' \in {"create", "extend", "wait", "send", "refused"}
           \/ pc = "run" /\ hop > Len(ixs) /\ pc' = "landed"
    PROVE  RouteInv'
  <1>1. trade' = trade /\ start' = start /\ wallet' = wallet /\ fills' = fills /\ hop' = hop /\ ixs' = ixs
        /\ misread' = misread
    BY DEF call, chain, building
  <1>2. Last' = Last /\ (Progress' <=> Progress)
    BY <1>1 DEF Last, Progress
  <1>3. RouteData'
    BY <1>1, <1>2 DEF RouteInv, RouteData
  <1>4. RouteAt(pc)' <=> RouteAt(pc')
    BY <1>1, <1>2 DEF RouteAt
  <1>5. Last \in Nat \ {0}
    BY RouteIs DEF RouteInv, RouteData
  <1>6. RouteAt(pc')
    BY <1>5 DEF RouteInv, RouteData, RouteAt
  <1>. QED
    BY <1>3, <1>4, <1>6 DEF RouteInv, RouteData, RouteAt

\* Building a hop keeps it,
LEMMA BuildRoute == RouteInv /\ BuildHop => RouteInv'
  <1>. SUFFICES ASSUME RouteInv, BuildHop PROVE RouteInv'
    OBVIOUS
  <1>1. /\ pc = "build" /\ hop <= Last /\ pc' = pc /\ hop' = hop + 1
        /\ trade' = trade /\ start' = start /\ wallet' = wallet /\ fills' = fills
    BY DEF BuildHop, call, chain
  <1>2. PICK answered \in BOOLEAN :
          /\ LegFits(trade.hops[hop].pool, Leg(trade.hops[hop]))
          /\ ixs' = ixs \o BuildSwap(trade.hops[hop].pool, Leg(trade.hops[hop]), Resolved(answered), Options(hop))
          /\ misread' = (misread \/ (~answered /\ \E m \in Both(trade.hops[hop].pool) : TokenProgram[m] # "spl"))
    BY DEF BuildHop
  <1>3. /\ trade \in Trades /\ misread \in BOOLEAN /\ Layout(trade, ixs, misread, hop - 1)
        /\ hop \in 1 .. Last
    BY <1>1 DEF RouteInv, RouteData, RouteAt
  <1>4. Last' = Last /\ Last \in Nat
    BY <1>1, <1>3, RouteIs DEF Last
  <1>5. misread' \in BOOLEAN /\ (misread => misread')
        /\ (~answered /\ ~misread' => \A m \in Both(trade.hops[hop].pool) : TokenProgram[m] = "spl")
    BY <1>2, <1>3
  <1>6. Layout(trade, ixs', misread', hop)
    BY <1>2, <1>3, <1>5, HopBuilt
  <1>7. hop' - 1 = hop
    BY <1>1, <1>3
  <1>8. Layout(trade', ixs', misread', hop' - 1) /\ IsSequence(ixs')
    BY <1>1, <1>6, <1>7 DEF Layout
  <1>. QED
    BY <1>1, <1>3, <1>4, <1>5, <1>8 DEF RouteInv, RouteData, RouteAt

\* choosing an encoding keeps it,
LEMMA EncodeRoute == RouteInv /\ Encode => RouteInv'
  <1>. SUFFICES ASSUME RouteInv, Encode PROVE RouteInv'
    OBVIOUS
  <1>1. /\ pc = "build" /\ hop > Last /\ pc' \in {"send", "create"} /\ hop' = 1
        /\ trade' = trade /\ start' = start /\ wallet' = wallet /\ fills' = fills
        /\ ixs' = ixs /\ misread' = misread
    BY DEF Encode, call, chain
  <1>2. Last' = Last /\ Last \in Nat
    BY <1>1, RouteIs DEF Last, RouteInv, RouteData, RouteAt
  <1>3. hop - 1 = Last
    BY <1>1, <1>2 DEF RouteInv, RouteData, RouteAt
  <1>4. Layout(trade, ixs, misread, Last)
    BY <1>1, <1>3 DEF RouteInv, RouteData, RouteAt
  <1>. QED
    BY <1>1, <1>2, <1>4 DEF RouteInv, RouteData, RouteAt

\* sending keeps it,
LEMMA SendRoute == RouteInv /\ Send => RouteInv'
  <1>. SUFFICES ASSUME RouteInv, Send PROVE RouteInv'
    OBVIOUS
  <1>1. /\ pc = "send" /\ pc' \in {"run", "failed"} /\ hop' = hop
        /\ trade' = trade /\ start' = start /\ wallet' = wallet /\ fills' = fills
        /\ ixs' = ixs /\ misread' = misread
    BY DEF Send, call, chain, building
  <1>2. Last' = Last /\ Last \in Nat \ {0} /\ Before(trade) \in 0 .. 2
    BY <1>1, RouteIs DEF Last, RouteInv, RouteData, RouteAt
  <1>3. hop = 1 /\ Len(fills) = 0 /\ Layout(trade, ixs, misread, Last)
    BY <1>1 DEF RouteInv, RouteData, RouteAt
  <1>4. Len(ixs) \in Nat
    BY DEF RouteInv, RouteData, RouteAt, IsSequence
  <1>5. Progress /\ hop <= Len(ixs) + 1
    BY <1>2, <1>3, <1>4 DEF Progress, SwapAt
  <1>6. Progress' <=> Progress
    BY <1>1, <1>2 DEF Progress
  <1>. QED
    BY <1>1, <1>2, <1>3, <1>5, <1>6 DEF RouteInv, RouteData, RouteAt

\* an instruction that is run keeps it,
LEMMA RunRoute == RouteInv /\ Run => RouteInv'
  <1>. SUFFICES ASSUME RouteInv, Run PROVE RouteInv'
    OBVIOUS
  <1>1. /\ SoundWallet(wallet') /\ pc = "run" /\ pc' = "run" /\ hop' = hop + 1 /\ hop <= Len(ixs)
        /\ trade' = trade /\ start' = start /\ ixs' = ixs /\ misread' = misread
    BY RunDoes DEF call
  <1>2. /\ Last' = Last /\ Last \in Nat \ {0} /\ Before(trade) \in 0 .. 2 /\ trade \in Trades
        /\ Len(fills) \in Nat /\ fills \in Seq(Nat) /\ Len(fills) <= Last /\ Progress /\ hop \in Nat \ {0}
        /\ Len(ixs) \in Nat /\ Layout(trade, ixs, misread, Last)
    BY <1>1, RouteIs DEF Last, RouteInv, RouteData, RouteAt, IsSequence
  <1>3. PICK answered \in BOOLEAN, n \in 1 .. Last :
          \/ AtSetup(LegIn(trade, n), Resolved(answered)) /\ UNCHANGED fills
          \/ AtCreate(n, Resolved(answered)) /\ UNCHANGED fills
          \/ AtSwap(n, Resolved(answered)) /\ \E got \in Nat : fills' = Append(fills, got)
          \/ AtClose(Resolved(answered)) /\ UNCHANGED fills
    BY RunDoes DEF Creates, Wraps, Closes, Kept, Swaps
  <1>4. fills' \in Seq(Nat) /\ Len(fills') <= Last /\ Progress'
    <2>0. Progress' <=> /\ hop + 1 \in 1 .. Len(ixs) + 1
                        /\ Len(fills') # 0 => hop + 1 > SwapAt(trade, Len(fills'))
                        /\ Len(fills') # Last => hop + 1 <= SwapAt(trade, Len(fills') + 1)
      BY <1>1, <1>2 DEF Progress
    <2>1. CASE AtSetup(LegIn(trade, n), Resolved(answered)) /\ UNCHANGED fills
      <3>1. Len(fills') = 0 /\ hop <= Before(trade)
        BY <2>1 DEF AtSetup
      <3>2. Len(fills') + 1 = 1 /\ SwapAt(trade, 1) = Before(trade) + 2
        BY <1>2, <3>1 DEF SwapAt
      <3>3. fills' \in Seq(Nat) /\ Len(fills') <= Last
        BY <1>2, <2>1
      <3>4. Len(fills') # Last => hop + 1 <= SwapAt(trade, Len(fills') + 1)
        BY <1>2, <3>1, <3>2
      <3>5. hop + 1 \in 1 .. Len(ixs) + 1
        BY <1>1, <1>2
      <3>6. Progress'
        BY <2>0, <3>1, <3>4, <3>5, Zenon
      <3>. QED
        BY <3>3, <3>6
    <2>2. CASE AtCreate(n, Resolved(answered)) /\ UNCHANGED fills
      <3>1. n = Len(fills) + 1 /\ hop = Before(trade) + 2 * n - 1
        BY <1>2, <2>2 DEF AtCreate, SwapAt
      <3>2. SwapAt(trade, Len(fills')) = Before(trade) + 2 * (n - 1)
            /\ SwapAt(trade, Len(fills') + 1) = Before(trade) + 2 * n
        BY <1>2, <2>2, <3>1 DEF SwapAt
      <3>3. Progress'
        BY <1>1, <1>2, <2>0, <3>1, <3>2
      <3>. QED
        BY <1>2, <2>2, <3>3
    <2>3. CASE AtSwap(n, Resolved(answered)) /\ \E got \in Nat : fills' = Append(fills, got)
      <3>1. fills' \in Seq(Nat) /\ Len(fills') = Len(fills) + 1
        BY <1>2, <2>3
      <3>2. n = Len(fills) + 1 /\ hop = SwapAt(trade, n)
        BY <2>3 DEF AtSwap
      <3>. QED
        BY <1>1, <1>2, <2>0, <3>1, <3>2 DEF SwapAt
    <2>4. CASE AtClose(Resolved(answered)) /\ UNCHANGED fills
      BY <1>1, <1>2, <2>4 DEF AtClose, Progress, SwapAt
    <2>. QED
      BY <1>3, <2>1, <2>2, <2>3, <2>4
  <1>. QED
    BY <1>1, <1>2, <1>4 DEF RouteInv, RouteData, RouteAt

\* Only a swap of the route is a swap.
LEMMA SwapPlace ==
    ASSUME RouteInv, pc = "run", hop <= Len(ixs), ixs[hop].op = "swap"
    PROVE  \E answered \in BOOLEAN, n \in 1 .. Last : AtSwap(n, Resolved(answered))
  <1>1. PICK answered \in BOOLEAN, n \in 1 .. Last :
          \/ n = 1 /\ LegOf(trade.hops[n], LegIn(trade, n)) /\ AtSetup(LegIn(trade, n), Resolved(answered))
          \/ AtCreate(n, Resolved(answered)) \/ AtSwap(n, Resolved(answered)) \/ AtClose(Resolved(answered))
    BY Where
  <1>2. AtSwap(n, Resolved(answered))
    <2>1. ~AtCreate(n, Resolved(answered))
      BY DEF AtCreate, CreatedBy, CreateAta
    <2>2. ASSUME AtClose(Resolved(answered)) PROVE FALSE
      <3>1. ixs[hop] = Closed(trade.hops[Last], Resolved(answered))[1] /\ After(trade) = 1
        BY <2>2 DEF AtClose
      <3>. QED
        BY <3>1 DEF After, Closed, CloseAccount, Last
    <2>3. ASSUME n = 1, LegOf(trade.hops[n], LegIn(trade, n)), AtSetup(LegIn(trade, n), Resolved(answered)) PROVE FALSE
      <3>. DEFINE leg == LegIn(trade, n)
                  prog == Resolved(answered)
      <3>1. /\ LegOf(trade.hops[1], leg) /\ prog \in Resolutions
            /\ hop \in 1 .. Before(trade) /\ ixs[hop] = SetupOf(1, trade.hops[1], leg, prog)[hop]
        BY <2>3, ResolvedIs DEF AtSetup
      <3>. HIDE DEF leg, prog
      <3>2. ixs[hop] = IF hop = 2 THEN [op |-> "fund", account |-> Ata(Wsol, "spl"), amount |-> leg.amount_in]
                       ELSE CreateAta(Address(trade.hops[1].pool, trade.hops[1].input_mint, prog))
        BY <3>1, SetupIs DEF RouteInv, RouteData
      <3>. QED
        BY <3>2 DEF CreateAta
    <2>. QED
      BY <1>1, <2>1, <2>2, <2>3
  <1>. QED
    BY <1>2

\* one that fails keeps it,
LEMMA FailRoute == RouteInv /\ RunFails => RouteInv'
  <1>. SUFFICES ASSUME RouteInv, RunFails PROVE RouteInv'
    OBVIOUS
  <1>1. /\ pc = "run" /\ pc' = "failed" /\ hop' = hop /\ hop <= Len(ixs) /\ wallet' = start
        /\ trade' = trade /\ start' = start /\ ixs' = ixs /\ misread' = misread
    BY DEF RunFails, call, building
  <1>2. /\ Last' = Last /\ Last \in Nat \ {0} /\ trade \in Trades /\ start \in Wallets
        /\ fills \in Seq(Nat) /\ Len(fills) <= Last /\ hop \in Nat \ {0}
        /\ Len(ixs) \in Nat /\ Layout(trade, ixs, misread, Last)
    BY <1>1, RouteIs DEF Last, RouteInv, RouteData, RouteAt, IsSequence
  <1>3. fills' \in Seq(Nat) /\ Len(fills') <= Last
    <2>1. CASE UNCHANGED fills
      BY <1>2, <2>1
    <2>2. CASE ixs[hop].op = "swap" /\ \E got \in Fills(Quoted) : fills' = Append(fills, got)
      <3>1. PICK answered \in BOOLEAN, n \in 1 .. Last : AtSwap(n, Resolved(answered))
        BY <1>1, <2>2, SwapPlace
      <3>3. Len(fills) + 1 <= Last /\ Fills(Quoted) \subseteq Nat
        BY <1>2, <3>1, RouteIs DEF AtSwap, Quoted
      <3>. QED
        BY <1>2, <2>2, <3>3
    <2>. QED
      BY <2>1, <2>2 DEF RunFails
  <1>4. SoundWallet(wallet')
    BY <1>1, <1>2, WalletAssumption
  <1>. QED
    BY <1>1, <1>2, <1>3, <1>4 DEF RouteInv, RouteData, RouteAt

\* and so does every step.
LEMMA RouteInvStep == RouteInv /\ [ExecutionNext]_vars => RouteInv'
  <1>. SUFFICES ASSUME RouteInv, [ExecutionNext]_vars PROVE RouteInv'
    OBVIOUS
  <1>1. CASE BuildHop
    BY <1>1, BuildRoute
  <1>2. CASE BuildFails
    BY <1>2, QuietRoute DEF BuildFails
  <1>3. CASE Encode
    BY <1>3, EncodeRoute
  <1>4. CASE CreateTable
    BY <1>4, QuietRoute DEF CreateTable
  <1>5. CASE ExtendTable
    BY <1>5, QuietRoute DEF ExtendTable
  <1>6. CASE SetupFails
    BY <1>6, QuietRoute DEF SetupFails
  <1>7. CASE Extended
    BY <1>7, QuietRoute DEF Extended
  <1>8. CASE Poll
    BY <1>8, QuietRoute DEF Poll
  <1>9. CASE GiveUpPolling
    BY <1>9, QuietRoute DEF GiveUpPolling
  <1>10. CASE NewSlot
    BY <1>10, QuietRoute DEF NewSlot
  <1>11. CASE Send
    BY <1>11, SendRoute
  <1>12. CASE SendFails
    BY <1>12, QuietRoute DEF SendFails
  <1>13. CASE Run
    BY <1>13, RunRoute
  <1>14. CASE RunFails
    BY <1>14, FailRoute
  <1>15. CASE Land
    BY <1>15, QuietRoute DEF Land
  <1>16. CASE UNCHANGED vars
    BY <1>16, QuietRoute DEF vars, call, chain, building
  <1>. QED
    BY <1>1, <1>2, <1>3, <1>4, <1>5, <1>6, <1>7, <1>8, <1>9, <1>10, <1>11, <1>12, <1>13, <1>14,
       <1>15, <1>16
       DEF ExecutionNext

\* What is built hop by hop and run one instruction after the other is the same
\* route: the n-th swap is the swap of hop n, with its accounts and its floor
\* (build_route_instructions, execute.rs:118-158).
THEOREM RouteInvariance == ExecutionSpec => []RouteInv
  BY RouteInvInit, RouteInvStep, PTL DEF ExecutionSpec

-----------------------------------------------------------------------------
(* What a landed route cost. *)

\* What the first n hops at least leave of m
Due(t, m, n) == SumFunction([i \in 1 .. n |-> Granted(t, m, i)])

\* What is granted is an integer,
LEMMA GrantedInt ==
    ASSUME NEW t \in Trades, NEW i \in 1 .. Len(t.hops), NEW m
    PROVE  Granted(t, m, i) \in Int
  <1>. DEFINE h == t.hops[i]
              x == h.output_amount * (10000 - t.slippage_bps) - 9999
  <1>1. h.input_amount \in Nat /\ h.output_amount \in Nat /\ t.slippage_bps \in Nat
    BY RouteAssumption, ExecutionAssumption DEF RouteHop
  <1>2. x \in Int
    BY <1>1
  <1>3. Max({0, x}) \in Int
    <2>. HIDE DEF x
    <2>. QED
      BY <1>2, MaxOfTwo
  <1>4. 10000 * h.input_amount \in Int
    BY <1>1
  <1>. QED
    BY <1>3, <1>4 DEF Granted

\* and adds up hop by hop.
LEMMA DueStep ==
    ASSUME NEW t \in Trades, NEW m
    PROVE  /\ Due(t, m, 0) = 0
           /\ \A n \in 1 .. Len(t.hops) : Due(t, m, n) = Granted(t, m, n) + Due(t, m, n - 1)
           /\ \A n \in 0 .. Len(t.hops) : Due(t, m, n) \in Int
  <1>0. Len(t.hops) \in Nat
    BY RouteAssumption
  <1>. DEFINE D(n) == [i \in 1 .. n |-> Granted(t, m, i)]
  <1>1. Due(t, m, 0) = 0
    <2>1. DOMAIN D(0) = {}
      OBVIOUS
    <2>. HIDE DEF D
    <2>2. SumFunction(D(0)) = 0
      BY <2>1, SumOfNone
    <2>. QED
      BY <2>2 DEF Due, D
  <1>2. ASSUME NEW n \in 0 .. Len(t.hops)
        PROVE  IsFiniteSet(1 .. n) /\ D(n) \in [1 .. n -> Int]
    <2>1. IsFiniteSet(1 .. n)
      BY FS_Interval
    <2>2. \A i \in 1 .. n : Granted(t, m, i) \in Int
      BY <1>0, GrantedInt
    <2>. QED
      BY <2>1, <2>2
  <1>3. ASSUME NEW n \in 0 .. Len(t.hops) PROVE Due(t, m, n) \in Int
    <2>. HIDE DEF D
    <2>1. SumFunction(D(n)) \in Int
      BY <1>2, SumInt, Zenon
    <2>. QED
      BY <2>1 DEF Due, D
  <1>4. ASSUME NEW n \in 1 .. Len(t.hops)
        PROVE  Due(t, m, n) = Granted(t, m, n) + Due(t, m, n - 1)
    <2>1. n \in 0 .. Len(t.hops) /\ n \in 1 .. n
      OBVIOUS
    <2>2. SumFunction(D(n)) = D(n)[n] + SumFunction([i \in (1 .. n) \ {n} |-> D(n)[i]])
      <3>1. IsFiniteSet(1 .. n) /\ D(n) \in [1 .. n -> Int]
        BY <1>2, <2>1
      <3>. HIDE DEF D
      <3>. QED
        BY <2>1, <3>1, SumTerm, Zenon
    <2>3. [i \in (1 .. n) \ {n} |-> D(n)[i]] = D(n - 1)
      <3>1. (1 .. n) \ {n} = 1 .. n - 1
        OBVIOUS
      <3>. QED
        BY <3>1
    <2>4. D(n)[n] = Granted(t, m, n)
      BY <2>1
    <2>. QED
      BY <2>2, <2>3, <2>4 DEF Due
  <1>. QED
    BY <1>1, <1>3, <1>4

\* A swap that reaches its floor gives what is granted.
LEMMA FloorIsGranted ==
    ASSUME NEW q \in Nat, NEW s \in Nat, NEW got \in Nat, got >= MinOutWithSlippage(q, s)
    PROVE  10000 * got >= Max({0, q * (10000 - s) - 9999})
  <1>. DEFINE x == 10000 - Min({s, 10000})
  <1>1. x = IF s <= 10000 THEN 10000 - s ELSE 0
    BY MinOfTwo
  <1>. HIDE DEF x
  <1>2. x \in Nat /\ q * x \in Nat
    BY <1>1, ProductSign
  <1>3. got >= (q * x) \div 10000
    BY DEF MinOutWithSlippage, x
  <1>4. 10000 * got >= q * x - 9999
    <2>. DEFINE p == q * x
    <2>1. p \in Nat /\ got >= p \div 10000
      BY <1>2, <1>3
    <2>. HIDE DEF p
    <2>2. 10000 * got >= p - 9999
      BY <2>1
    <2>. QED
      BY <2>2 DEF p
  <1>. DEFINE y == q * (10000 - s)
  <1>5. y \in Int /\ (s <= 10000 => y = q * x) /\ (s > 10000 => y <= 0)
    <2>1. y \in Int
      OBVIOUS
    <2>2. s <= 10000 => y = q * x
      BY <1>1
    <2>3. s > 10000 => y <= 0
      <3>1. s > 10000 => 10000 - s \in Int /\ 10000 - s <= 0
        OBVIOUS
      <3>. QED
        BY <3>1, ProductSign
    <2>. QED
      BY <2>1, <2>2, <2>3
  <1>. HIDE DEF y
  <1>6. 10000 * got >= y - 9999 /\ 10000 * got >= 0
    BY <1>4, <1>5
  <1>7. Max({0, y - 9999}) = IF 0 >= y - 9999 THEN 0 ELSE y - 9999
    BY <1>5, MaxOfTwo
  <1>. QED
    BY <1>6, <1>7 DEF y

\* The wallet is never behind what the swaps so far were granted.
MoneyInv ==
    pc \in {"run", "landed"} =>
        \A m \in Mints : 10000 * (Worth(wallet, m) - Worth(start, m)) >= Due(trade, m, Len(fills))

\* An instruction keeps the wallet up with it,
LEMMA MoneyRun == RouteInv /\ MoneyInv /\ Run => MoneyInv'
  <1>. SUFFICES ASSUME RouteInv, MoneyInv, Run, NEW m \in Mints
                PROVE  10000 * (Worth(wallet', m) - Worth(start', m)) >= Due(trade', m, Len(fills'))
    BY DEF MoneyInv
  <1>1. /\ SoundWallet(wallet') /\ pc = "run" /\ trade' = trade /\ start' = start
    BY RunDoes DEF call
  <1>2. /\ trade \in Trades /\ start \in Wallets /\ SoundWallet(wallet) /\ SoundWallet(start)
        /\ Len(fills) \in Nat /\ fills \in Seq(Nat) /\ Last \in Nat
    BY WalletAssumption, RouteIs DEF RouteInv, RouteData
  <1>3. Worth(wallet, m) \in Nat /\ Worth(wallet', m) \in Nat /\ Worth(start, m) \in Nat
    BY <1>1, <1>2, WorthIs
  <1>4. 10000 * (Worth(wallet, m) - Worth(start, m)) >= Due(trade, m, Len(fills))
    BY <1>1 DEF MoneyInv
  <1>5. Kept \/ \E answered \in BOOLEAN, n \in 1 .. Last :
                   LET prog == Resolved(answered)
                   IN  AtSwap(n, prog) /\ Swaps(trade.hops[n], LegIn(trade, n), prog)
    BY RunDoes DEF Creates, Wraps, Closes
  <1>6. CASE Kept
    BY <1>1, <1>3, <1>4, <1>6 DEF Kept
  <1>7. ASSUME NEW answered \in BOOLEAN, NEW n \in 1 .. Last,
               AtSwap(n, Resolved(answered)), Swaps(trade.hops[n], LegIn(trade, n), Resolved(answered))
        PROVE  10000 * (Worth(wallet', m) - Worth(start', m)) >= Due(trade', m, Len(fills'))
    <2>. DEFINE h == trade.hops[n]
                q == h.output_amount
                s == trade.slippage_bps
    <2>1. n = Len(fills) + 1
      BY <1>7 DEF AtSwap
    <2>2. PICK got \in Nat :
            /\ got >= LegIn(trade, n).min_amount_out /\ fills' = Append(fills, got)
            /\ Worth(wallet', m) = Worth(wallet, m) - (IF m = h.input_mint THEN h.input_amount ELSE 0)
                                                    + (IF m = h.output_mint THEN got ELSE 0)
      BY <1>7 DEF Swaps
    <2>3. Len(fills') = n
      BY <1>2, <2>1, <2>2
    <2>4. h.input_amount \in Nat /\ q \in Nat /\ s \in Nat
      BY <1>2, RouteIs, ExecutionAssumption DEF RouteHop
    <2>5. got >= MinOutWithSlippage(q, s)
      BY <2>2 DEF LegIn
    <2>. DEFINE floor == Max({0, q * (10000 - s) - 9999})
    <2>6. 10000 * got >= floor
      <3>. HIDE DEF q, s
      <3>1. 10000 * got >= Max({0, q * (10000 - s) - 9999})
        BY <2>4, <2>5, FloorIsGranted
      <3>. QED
        BY <3>1
    <2>7. Granted(trade, m, n) = (IF h.output_mint = m THEN floor ELSE 0)
                                 - (IF h.input_mint = m THEN 10000 * h.input_amount ELSE 0)
      BY DEF Granted
    <2>8. floor \in Int
      <3>. DEFINE x == q * (10000 - s) - 9999
      <3>1. x \in Int
        BY <2>4
      <3>. HIDE DEF x
      <3>2. Max({0, x}) \in Int
        BY <3>1, MaxOfTwo
      <3>. QED
        BY <3>2 DEF x
    <2>9. Due(trade, m, n) = Granted(trade, m, n) + Due(trade, m, Len(fills))
          /\ Due(trade, m, Len(fills)) \in Int
      <3>1. n \in 1 .. Len(trade.hops) /\ n - 1 = Len(fills) /\ Len(fills) \in 0 .. Len(trade.hops)
        BY <1>2, <2>1 DEF Last
      <3>. QED
        BY <1>2, <3>1, DueStep
    <2>. DEFINE took == IF m = h.input_mint THEN h.input_amount ELSE 0
                gave == IF m = h.output_mint THEN got ELSE 0
    <2>10. took \in Nat /\ gave \in Nat /\ Granted(trade, m, n) <= 10000 * gave - 10000 * took
      <3>. HIDE DEF floor, h, q, s
      <3>. QED
        BY <2>4, <2>6, <2>7, <2>8
    <2>11. Worth(wallet', m) = Worth(wallet, m) - took + gave
      BY <2>2
    <2>12. Granted(trade, m, n) \in Int
      <3>. HIDE DEF floor, h, q, s
      <3>. QED
        BY <2>4, <2>7, <2>8
    <2>. HIDE DEF floor, h, q, s, took, gave
    <2>13. 10000 * (Worth(wallet', m) - Worth(start, m)) =
             10000 * (Worth(wallet, m) - Worth(start, m)) - 10000 * took + 10000 * gave
      BY <1>3, <2>10, <2>11
    <2>14. 10000 * (Worth(wallet', m) - Worth(start, m)) >= Due(trade, m, n)
      <3>. DEFINE owed == 10000 * (Worth(wallet, m) - Worth(start, m))
      <3>1. owed \in Int /\ owed >= Due(trade, m, Len(fills))
        BY <1>3, <1>4
      <3>. HIDE DEF owed
      <3>2. owed - 10000 * took + 10000 * gave >= Due(trade, m, n)
        BY <2>9, <2>10, <2>12, <3>1
      <3>. QED
        BY <2>13, <3>2 DEF owed
    <2>. QED
      BY <1>1, <2>3, <2>14
  <1>. QED
    BY <1>5, <1>6, <1>7

\* and so does every step.
LEMMA MoneyStep == RouteInv /\ MoneyInv /\ [ExecutionNext]_vars => MoneyInv'
  <1>. SUFFICES ASSUME RouteInv, MoneyInv, [ExecutionNext]_vars PROVE MoneyInv'
    OBVIOUS
  <1>1. CASE Run
    BY <1>1, MoneyRun
  <1>2. CASE pc' \notin {"run", "landed"}
    BY <1>2 DEF MoneyInv
  <1>3. CASE UNCHANGED <<call, chain>> /\ pc \in {"run", "landed"}
    BY <1>3 DEF call, chain, MoneyInv
  <1>4. CASE Send
    <2>1. UNCHANGED <<call, chain>> /\ pc = "send"
      BY <1>4 DEF Send
    <2>2. /\ wallet' = start' /\ fills' = <<>> /\ trade' \in Trades /\ start' \in Wallets
      BY <2>1 DEF RouteInv, RouteData, RouteAt, call, chain
    <2>3. SoundWallet(start') /\ Len(fills') = 0
      BY <2>2, WalletAssumption
    <2>4. ASSUME NEW m \in Mints
          PROVE  10000 * (Worth(wallet', m) - Worth(start', m)) >= Due(trade', m, Len(fills'))
      <3>1. Worth(start', m) \in Nat /\ Due(trade', m, 0) = 0
        BY <2>2, <2>3, WorthIs, DueStep
      <3>. QED
        BY <2>2, <2>3, <3>1
    <2>. QED
      BY <2>4 DEF MoneyInv
  <1>5. \/ Send \/ Run \/ pc' \notin {"run", "landed"}
        \/ UNCHANGED <<call, chain>> /\ pc \in {"run", "landed"}
    BY DEF ExecutionNext, BuildHop, BuildFails, Encode, CreateTable, ExtendTable, SetupFails, Extended, Poll,
           GiveUpPolling, NewSlot, SendFails, RunFails, Land, vars, call, chain
  <1>. QED
    BY <1>1, <1>2, <1>3, <1>4, <1>5

\* A transaction that landed has swapped every hop.
LEMMA LandedIsWhole == RouteInv /\ pc = "landed" => Len(fills) = Last
  <1>. SUFFICES ASSUME RouteInv, pc = "landed", Len(fills) # Last PROVE FALSE
    OBVIOUS
  <1>1. /\ Last \in Nat \ {0} /\ Before(trade) \in 0 .. 2 /\ After(trade) \in 0 .. 1
        /\ fills \in Seq(Nat) /\ Len(fills) <= Last /\ Layout(trade, ixs, misread, Last)
        /\ hop > Len(ixs) /\ hop <= SwapAt(trade, Len(fills) + 1) /\ hop \in Nat
    BY RouteIs DEF RouteInv, RouteData, RouteAt, Progress
  <1>2. Len(ixs) = SwapAt(trade, Last) + After(trade)
    BY <1>1 DEF Layout, LengthOf, Last
  <1>. QED
    BY <1>1, <1>2 DEF SwapAt

\* When all hops have swapped, what the wallet is owed is the bound.
LEMMA MoneyIsLossBound == RouteInv /\ MoneyInv => LossIsBounded
  <1>1. LossIsBounded <=>
          (pc = "landed" =>
             \A m \in Mints : 10000 * (Worth(wallet, m) - Worth(start, m)) >= Due(trade, m, Last))
    BY Zenon DEF LossIsBounded, Due
  <1>. QED
    BY <1>1, LandedIsWhole DEF MoneyInv

\* Whatever the route, the wallet and what the swaps give: a landed trade costs
\* of no mint more than the inputs of its hops, less the slippage floors of the
\* hops that give it (min_out_with_slippage, build_route_instructions).
THEOREM LossBounded == ExecutionSpec => []LossIsBounded
  <1>1. ExecutionInit => MoneyInv
    BY DEF ExecutionInit, MoneyInv
  <1>. QED
    BY <1>1, RouteInvariance, MoneyStep, MoneyIsLossBound, PTL DEF ExecutionSpec

-----------------------------------------------------------------------------
(* What becomes of the WSOL account. *)

\* After the close the account is gone.
ClosedInv ==
    (/\ pc \in {"run", "landed"} /\ After(trade) = 1 /\ ~ClosesWrongSide(trade.hops[Last])
     /\ hop > SwapAt(trade, Last) + 1)
        => Ata(Wsol, "spl") \notin DOMAIN wallet.held

\* The close removes the WSOL account, and nothing after it is run,
LEMMA ClosedRun == RouteInv /\ ClosedInv /\ Run => ClosedInv'
  <1>. SUFFICES ASSUME RouteInv, Run, After(trade) = 1, ~ClosesWrongSide(trade.hops[Last]),
                       hop + 1 > SwapAt(trade, Last) + 1
                PROVE  Ata(Wsol, "spl") \notin DOMAIN wallet'.held
    <2>1. Run => hop' = hop + 1 /\ trade' = trade /\ Last' = Last
      BY DEF Run, call, Last
    <2>. QED
      BY <2>1 DEF ClosedInv
  <1>1. /\ Last \in Nat \ {0} /\ Before(trade) \in 0 .. 2 /\ hop \in Nat /\ Len(fills) \in Nat
    BY RouteIs DEF RouteInv, RouteData
  <1>2. PICK answered \in BOOLEAN, n \in 1 .. Last :
             LET prog == Resolved(answered)
                 h == trade.hops[n]
                 leg == LegIn(trade, n)
             IN  \/ n = 1 /\ AtSetup(leg, prog)
                 \/ AtCreate(n, prog) \/ AtSwap(n, prog)
                 \/ n = Last /\ AtClose(prog) /\ Closes(Address(h.pool, ClosedMint(h), prog))
    BY RunDoes
  <1>. DEFINE prog == Resolved(answered)
              h == trade.hops[n]
  <1>3. ~AtSetup(LegIn(trade, n), prog) /\ ~AtCreate(n, prog) /\ ~AtSwap(n, prog)
    BY <1>1 DEF AtSetup, AtCreate, AtSwap, SwapAt
  <1>4. n = Last /\ Closes(Address(h.pool, ClosedMint(h), prog))
    BY <1>2, <1>3
  <1>5. ClosedMint(h) = Wsol
    BY <1>4 DEF ClosedMint
  <1>6. Address(h.pool, Wsol, prog) = Ata(Wsol, "spl")
    BY ResolvedIs DEF Address, Resolutions
  <1>. QED
    BY <1>4, <1>5, <1>6 DEF Closes

\* so it stays removed.
LEMMA ClosedStep == RouteInv /\ ClosedInv /\ [ExecutionNext]_vars => ClosedInv'
  <1>. SUFFICES ASSUME RouteInv, ClosedInv, [ExecutionNext]_vars PROVE ClosedInv'
    OBVIOUS
  <1>1. CASE Run
    BY <1>1, ClosedRun
  <1>2. CASE pc' \notin {"run", "landed"}
    BY <1>2 DEF ClosedInv
  <1>3. CASE UNCHANGED <<call, chain, building>> /\ pc \in {"run", "landed"}
    BY <1>3 DEF call, chain, building, ClosedInv, Last
  <1>4. CASE Send
    <2>1. hop' = 1 /\ trade' \in Trades
      BY <1>4 DEF RouteInv, RouteData, RouteAt, Send, building, call
    <2>2. Last' \in Nat \ {0} /\ Before(trade') \in 0 .. 2
      BY <2>1, RouteAssumption DEF Last, Before
    <2>3. ~(hop' > SwapAt(trade', Last') + 1)
      BY <2>1, <2>2 DEF SwapAt
    <2>. QED
      BY <2>3 DEF ClosedInv
  <1>5. \/ Send \/ Run \/ pc' \notin {"run", "landed"}
        \/ UNCHANGED <<call, chain, building>> /\ pc \in {"run", "landed"}
    BY DEF ExecutionNext, BuildHop, BuildFails, Encode, CreateTable, ExtendTable, SetupFails, Extended, Poll,
           GiveUpPolling, NewSlot, SendFails, RunFails, Land, vars, call, chain, building
  <1>. QED
    BY <1>1, <1>2, <1>3, <1>4, <1>5

\* A route whose last hop trades WSOL has the close.
LEMMA ClosedIsUnwrapped == RouteInv /\ ClosedInv => WsolIsUnwrapped
  <1>. SUFFICES ASSUME RouteInv, ClosedInv, pc = "landed",
                       Wsol \in {trade.hops[Last].input_mint, trade.hops[Last].output_mint},
                       trade.hops[Last].pool.venue # PumpfunBc, ~ClosesWrongSide(trade.hops[Last])
                PROVE  Ata(Wsol, "spl") \notin DOMAIN wallet.held
    BY DEF WsolIsUnwrapped
  <1>1. After(trade) = 1
    BY DEF After, Last
  <1>2. /\ Last \in Nat \ {0} /\ Before(trade) \in 0 .. 2 /\ Layout(trade, ixs, misread, Last)
        /\ hop > Len(ixs) /\ hop \in Nat
    BY RouteIs DEF RouteInv, RouteData, RouteAt
  <1>3. Len(ixs) = SwapAt(trade, Last) + 1
    BY <1>1, <1>2 DEF Layout, LengthOf, Last
  <1>. QED
    BY <1>1, <1>2, <1>3 DEF ClosedInv

\* Whatever the route and the wallet: when the last hop trades WSOL outside a
\* bonding curve, no WSOL account stays behind (close_wsol, execute.rs:143;
\* pumpswap.rs:255 is the exception).
THEOREM WsolUnwrapped == ExecutionSpec => []WsolIsUnwrapped
  <1>1. ExecutionInit => ClosedInv
    BY DEF ExecutionInit, ClosedInv
  <1>. QED
    BY <1>1, RouteInvariance, ClosedStep, ClosedIsUnwrapped, PTL DEF ExecutionSpec

-----------------------------------------------------------------------------
(* Why a route fails. *)

\* None of the reasons of FailureIsExplained that lie in the call
Clean ==
    /\ ~misread
    /\ \A i \in 1 .. Last : trade.hops[i].pool.venue.program = "spl" =>
                              \A m \in Both(trade.hops[i].pool) : TokenProgram[m] = "spl"
    /\ \A i \in 1 .. Last - 1 : ~SettlesApart(i)
    /\ ~ClosesWrongSide(trade.hops[Last])
    /\ Worth(start, trade.hops[1].input_mint) >= trade.hops[1].input_amount
    /\ trade.hops[1].input_mint = Wsol => start.lamports >= trade.hops[1].input_amount

\* nor in what the swaps gave
AllFilled == \A i \in DOMAIN fills : ~FellShort(i)

\* Where a hop takes a mint from, or gives it to
Purse(h, m) == IF h.pool.venue = PumpfunBc /\ m = Wsol THEN Native ELSE Home(m)
From(i) == Purse(trade.hops[i], trade.hops[i].input_mint)
To(i) == Purse(trade.hops[i], trade.hops[i].output_mint)

\* What can be drawn from an account, which need not be there yet
Reach(w, a) == IF a = Native THEN w.lamports ELSE IF a \in DOMAIN w.held THEN w.held[a] ELSE 0

\* In a clean trade every builder finds the accounts where the wallet has them.
LEMMA CleanHomes ==
    ASSUME Clean, NEW i \in 1 .. Last, NEW leg, LegOf(trade.hops[i], leg), NEW answered \in BOOLEAN,
           ~answered /\ ~misread => \A m \in Both(trade.hops[i].pool) : TokenProgram[m] = "spl"
    PROVE  LET h == trade.hops[i]
           IN  \A m \in {h.input_mint, h.output_mint, h.pool.base, h.pool.quote} :
                 /\ m \in Mints
                 /\ Address(h.pool, m, Resolved(answered)) = Home(m)
                 /\ Side(h.pool, m, Resolved(answered)) = Purse(h, m)
  <1>. DEFINE h == trade.hops[i]
  <1>1. /\ h.input_mint \in Both(h.pool) /\ h.output_mint \in Both(h.pool)
        /\ h.pool.base \in Both(h.pool) /\ h.pool.quote \in Both(h.pool)
        /\ Both(h.pool) \subseteq Mints
    BY DEF LegOf, RouteHop, Both
  <1>2. ASSUME NEW m \in Both(h.pool) PROVE Address(h.pool, m, Resolved(answered)) = Home(m)
    <2>1. h.pool.venue.program = "spl" => TokenProgram[m] = "spl"
      BY DEF Clean
    <2>2. Resolved(answered)[m] = TokenProgram[m]
      BY <1>1 DEF Resolved, Clean
    <2>3. TokenProgram[Wsol] = "spl"
      BY MintAssumption
    <2>. QED
      BY <2>1, <2>2, <2>3 DEF Address, Home
  <1>. QED
    BY <1>1, <1>2 DEF Side, Purse

\* Before the first account is created the wallet has the input; then the
\* account from which the next swap draws does.
Endowed(w, f, k) ==
    LET m == trade.hops[1].input_mint
    IN  f = 0 /\ k <= Before(trade) =>
          /\ m = Wsol => w.lamports >= trade.hops[1].input_amount /\ (k = 2 => Has(w, Home(Wsol)))
          /\ m # Wsol => Reach(w, Home(m)) >= trade.hops[1].input_amount

Stocked(w, f, k) ==
    f < Last /\ k > Before(trade) =>
        /\ Reach(w, From(f + 1)) >= trade.hops[f + 1].input_amount
        /\ (f = 0 /\ trade.hops[1].pool.venue = PumpfunBc) \/ Has(w, From(f + 1))

\* At a swap, and at the close, both accounts of the hop exist.
Seated(w, f, k) ==
    /\ f < Last /\ k = SwapAt(trade, f + 1) => Has(w, From(f + 1)) /\ Has(w, To(f + 1))
    /\ f = Last /\ k = SwapAt(trade, Last) + 1 => Has(w, From(Last)) /\ Has(w, To(Last))

ReadyInv ==
    pc = "run" /\ Clean /\ AllFilled =>
        Endowed(wallet, Len(fills), hop) /\ Stocked(wallet, Len(fills), hop) /\ Seated(wallet, Len(fills), hop)

\* Then the chain can run the next instruction,
LEMMA ReadyCanRun ==
    RouteInv /\ ReadyInv /\ pc = "run" /\ hop <= Len(ixs) /\ Clean /\ AllFilled /\ ~LacksAccounts
        => CanRun(ixs[hop])
  <1>. SUFFICES ASSUME RouteInv, ReadyInv, pc = "run", hop <= Len(ixs), Clean, AllFilled, ~LacksAccounts
                PROVE  CanRun(ixs[hop])
    OBVIOUS
  <1>0. /\ Last \in Nat \ {0} /\ Before(trade) \in 0 .. 2 /\ hop \in Nat /\ Len(fills) \in Nat
        /\ SoundWallet(wallet) /\ trade \in Trades
    BY RouteIs DEF RouteInv, RouteData
  <1>1. PICK answered \in BOOLEAN, n \in 1 .. Last :
             LET prog == Resolved(answered)
             IN  /\ ~answered /\ ~misread => \A m \in Both(trade.hops[n].pool) : TokenProgram[m] = "spl"
                 /\ LegOf(trade.hops[n], LegIn(trade, n))
                 /\ \/ n = 1 /\ AtSetup(LegIn(trade, 1), prog)
                    \/ AtCreate(n, prog) \/ AtSwap(n, prog)
                    \/ n = Last /\ AtClose(prog)
    BY Where
  <1>. DEFINE prog == Resolved(answered)
              h == trade.hops[n]
              leg == LegIn(trade, n)
  <1>2. \A m \in {h.input_mint, h.output_mint, h.pool.base, h.pool.quote} :
           m \in Mints /\ Address(h.pool, m, prog) = Home(m) /\ Side(h.pool, m, prog) = Purse(h, m)
    BY <1>1, CleanHomes
  <1>3. Endowed(wallet, Len(fills), hop) /\ Stocked(wallet, Len(fills), hop) /\ Seated(wallet, Len(fills), hop)
    BY DEF ReadyInv
  <1>4. ASSUME NEW m \in Mints, ixs[hop] = CreateAta(Home(m)) PROVE CanRun(ixs[hop])
    <2>1. ixs[hop].op = "create" /\ ixs[hop].account = Home(m)
      BY <1>4 DEF CreateAta
    <2>2. Home(m).program = TokenProgram[Home(m).mint]
      BY Homes DEF Home
    <2>. QED
      BY <2>1, <2>2 DEF CanRun
  <1>5. CASE n = 1 /\ AtSetup(LegIn(trade, 1), prog)
    <2>1. hop \in 1 .. Before(trade) /\ Len(fills) = 0
          /\ ixs[hop] = IF hop = 2 THEN [op |-> "fund", account |-> Ata(Wsol, "spl"), amount |-> leg.amount_in]
                        ELSE CreateAta(Address(h.pool, h.input_mint, prog))
      <3>1. /\ LegOf(trade.hops[1], leg) /\ h = trade.hops[1] /\ Len(fills) = 0
            /\ hop \in 1 .. Before(trade) /\ ixs[hop] = SetupOf(1, h, leg, prog)[hop] /\ prog \in Resolutions
        BY <1>1, <1>5, ResolvedIs DEF AtSetup
      <3>. HIDE DEF leg, prog, h
      <3>2. SetupOf(1, trade.hops[1], leg, prog)[hop] =
              IF hop = 2 THEN [op |-> "fund", account |-> Ata(Wsol, "spl"), amount |-> leg.amount_in]
              ELSE CreateAta(Address(trade.hops[1].pool, trade.hops[1].input_mint, prog))
        <4>1. trade \in Trades /\ LegOf(trade.hops[1], leg) /\ prog \in Resolutions
              /\ hop \in 1 .. Before(trade)
          BY <1>0, <3>1
        <4>. QED
          BY <4>1, SetupIs
      <3>. QED
        BY <3>1, <3>2
    <2>2. CASE hop = 2
      <3>1. h.input_mint = Wsol /\ h = trade.hops[1]
        BY <1>5, <2>1, <2>2 DEF Before
      <3>2. wallet.lamports >= h.input_amount /\ Has(wallet, Home(Wsol))
        BY <1>3, <2>1, <2>2, <3>1 DEF Endowed
      <3>3. Exists(Ata(Wsol, "spl")) /\ leg.amount_in = h.input_amount
        BY <3>2, Homes DEF Exists, Has, LegIn
      <3>4. ixs[hop].op = "fund" /\ ixs[hop].account = Ata(Wsol, "spl") /\ ixs[hop].amount = leg.amount_in
        BY <2>1, <2>2
      <3>. QED
        BY <3>2, <3>3, <3>4 DEF CanRun
    <2>3. CASE hop # 2
      BY <1>2, <1>4, <2>1, <2>3
    <2>. QED
      BY <2>2, <2>3
  <1>6. CASE AtCreate(n, prog)
    <2>1. ixs[hop] = CreateAta(Address(h.pool, CreatedMint(h), prog))
          /\ CreatedMint(h) \in {h.output_mint, h.pool.base}
      BY <1>6 DEF AtCreate, CreatedBy, CreatedMint
    <2>. QED
      BY <1>2, <1>4, <2>1
  <1>7. CASE AtSwap(n, prog)
    <2>. DEFINE ix == SwapOf(h, leg, prog)
    <2>1. /\ ixs[hop] = ix /\ ix.op = "swap" /\ ix.amount_in = h.input_amount
          /\ ix.accounts.from = Side(h.pool, h.input_mint, prog)
          /\ ix.accounts.to = Side(h.pool, h.output_mint, prog)
          /\ ix.accounts.takes = h.input_mint /\ ix.accounts.gives = h.output_mint
      BY <1>7 DEF AtSwap, SwapOf, LegIn
    <2>2. n = Len(fills) + 1 /\ hop = SwapAt(trade, n) /\ Len(fills) < Last /\ hop > Before(trade)
      BY <1>0, <1>7 DEF AtSwap, SwapAt
    <2>3. /\ Has(wallet, From(n)) /\ Has(wallet, To(n)) /\ Reach(wallet, From(n)) >= h.input_amount
      BY <1>3, <2>2 DEF Seated, Stocked
    <2>4. ix.accounts.from = From(n) /\ ix.accounts.to = To(n)
      BY <1>2, <2>1 DEF From, To
    <2>5. From(n).mint = h.input_mint /\ To(n).mint = h.output_mint
      BY <1>2, Homes DEF From, To, Purse
    <2>. HIDE DEF ix
    <2>7. trade.hops[Len(fills) + 1].asks \subseteq ix.listed
      BY <2>1, <2>2, Zenon DEF LacksAccounts
    <2>6. Swappable(ix)
      BY <2>1, <2>3, <2>4, <2>5, <2>7 DEF Swappable, Exists, Balance, Has, Reach
    <2>. QED
      BY <2>1, <2>6 DEF CanRun
  <1>8. CASE n = Last /\ AtClose(prog)
    <2>. DEFINE c == CloseAccount(Address(h.pool, ClosedMint(h), prog), Address(h.pool, Wsol, prog).program)
    <2>1. ixs[hop] = c /\ h.pool.venue # PumpfunBc /\ Wsol \in {h.input_mint, h.output_mint}
      <3>1. Closed(h, prog) = <<c>> /\ h.pool.venue # PumpfunBc /\ Wsol \in {h.input_mint, h.output_mint}
        BY <1>8 DEF AtClose, After, Closed, ClosedMint, Last
      <3>. HIDE DEF c
      <3>. QED
        BY <1>8, <3>1 DEF AtClose
    <2>2. ClosedMint(h) = Wsol
      BY <1>8 DEF Clean, ClosedMint
    <2>3. Address(h.pool, Wsol, prog) = Home(Wsol)
      BY <1>2, <2>1
    <2>4. c.op = "close" /\ c.account = Home(Wsol) /\ c.program = Home(Wsol).program
      BY <2>2, <2>3 DEF CloseAccount
    <2>5. Has(wallet, Home(Wsol))
      <3>1. Has(wallet, From(n)) /\ Has(wallet, To(n))
        BY <1>3, <1>8 DEF Seated, AtClose
      <3>. QED
        BY <2>1, <3>1 DEF From, To, Purse
    <2>. HIDE DEF c
    <2>. QED
      BY <2>1, <2>4, <2>5, Homes DEF CanRun, Exists, Has
  <1>. QED
    BY <1>1, <1>5, <1>6, <1>7, <1>8

\* and is ready for the one after it.
LEMMA ReadyRun == RouteInv /\ ReadyInv /\ Run => ReadyInv'
  <1>. SUFFICES ASSUME RouteInv, ReadyInv, Run, Clean', AllFilled'
                PROVE  (Endowed(wallet, Len(fills), hop) /\ Stocked(wallet, Len(fills), hop)
                        /\ Seated(wallet, Len(fills), hop))'
    BY DEF ReadyInv
  <1>0. /\ Last \in Nat \ {0} /\ Before(trade) \in 0 .. 2 /\ hop \in Nat /\ Len(fills) \in Nat
        /\ SoundWallet(wallet) /\ trade \in Trades /\ fills \in Seq(Nat) /\ Len(fills) <= Last
    BY RouteIs DEF RouteInv, RouteData
  <1>1. /\ SoundWallet(wallet') /\ pc = "run" /\ hop' = hop + 1
        /\ trade' = trade /\ start' = start /\ misread' = misread
    BY RunDoes DEF call
  <1>2. PICK answered \in BOOLEAN, n \in 1 .. Last :
                LET prog == Resolved(answered)
                    h == trade.hops[n]
                    leg == LegIn(trade, n)
                IN  /\ ~answered /\ ~misread => \A m \in Both(h.pool) : TokenProgram[m] = "spl"
                    /\ LegOf(h, leg)
                    /\ \/ n = 1 /\ AtSetup(leg, prog) /\ hop # 2 /\ Creates(Address(h.pool, h.input_mint, prog))
                       \/ n = 1 /\ AtSetup(leg, prog) /\ hop = 2 /\ Wraps(h.input_amount)
                       \/ AtCreate(n, prog) /\ Creates(Address(h.pool, CreatedMint(h), prog))
                       \/ AtSwap(n, prog) /\ Swaps(h, leg, prog)
                       \/ n = Last /\ AtClose(prog) /\ Closes(Address(h.pool, ClosedMint(h), prog))
    BY RunDoes
  <1>. DEFINE prog == Resolved(answered)
              h == trade.hops[n]
              leg == LegIn(trade, n)
              f == Len(fills)
              g == Len(fills')
  <1>3. Clean
    BY <1>1 DEF Clean, Last, SettlesApart
  <1>4. \A m \in {h.input_mint, h.output_mint, h.pool.base, h.pool.quote} :
           m \in Mints /\ Address(h.pool, m, prog) = Home(m) /\ Side(h.pool, m, prog) = Purse(h, m)
    BY <1>2, <1>3, CleanHomes
  <1>5. /\ Last' = Last
        /\ \A i : From(i)' = From(i) /\ To(i)' = To(i)
    BY <1>1 DEF Last, From, To
  <1>6. ASSUME Endowed(wallet', g, hop + 1), Stocked(wallet', g, hop + 1), Seated(wallet', g, hop + 1)
        PROVE  (Endowed(wallet, Len(fills), hop) /\ Stocked(wallet, Len(fills), hop)
                /\ Seated(wallet, Len(fills), hop))'
    BY <1>1, <1>5, <1>6 DEF Endowed, Stocked, Seated
  <1>7. fills' = fills => AllFilled
    BY <1>1 DEF AllFilled, FellShort, Last
  <1>8. AllFilled => Endowed(wallet, f, hop) /\ Stocked(wallet, f, hop) /\ Seated(wallet, f, hop)
    BY <1>1, <1>3 DEF ReadyInv
  <1>9. \A m \in Mints : Home(m) # Native /\ Home(m).mint = m
    BY Homes
  <1>11. \A a : Has(wallet', a) => Reach(wallet', a) = Amount(wallet', a)
    BY DEF Has, Reach, Amount
  <1>12. \A a \in Holdable \cup {Native} : Reach(wallet', a) \in Nat /\ Reach(wallet, a) \in Nat
    BY <1>0, <1>1 DEF SoundWallet, Reach
  <1>13. ASSUME NEW m \in Mints, Creates(Home(m))
         PROVE  /\ wallet'.lamports = wallet.lamports /\ Has(wallet', Home(m))
                /\ \A a : Has(wallet, a) => Has(wallet', a)
                /\ \A a \in Holdable \cup {Native} : Reach(wallet', a) >= Reach(wallet, a)
                /\ fills' = fills
    <2>1. /\ fills' = fills /\ wallet'.lamports = wallet.lamports /\ Home(m) \in DOMAIN wallet'.held
          /\ \A b \in DOMAIN wallet.held : b \in DOMAIN wallet'.held /\ wallet'.held[b] = wallet.held[b]
      BY <1>13 DEF Creates, Kept
    <2>. QED
      BY <1>12, <2>1 DEF Has, Reach
  <1>14. h.input_mint \in Mints /\ h.output_mint \in Mints /\ h.input_mint # h.output_mint
         /\ \/ h.input_mint = h.pool.base /\ h.output_mint = h.pool.quote
            \/ h.input_mint = h.pool.quote /\ h.output_mint = h.pool.base
    BY <1>2, Sides
  <1>15. \A i \in 1 .. Last : From(i) \in Holdable \cup {Native}
    <2>. SUFFICES ASSUME NEW i \in 1 .. Last PROVE From(i) \in Holdable \cup {Native}
      OBVIOUS
    <2>1. trade.hops[i].input_mint \in Mints
      BY <1>0, RouteIs DEF RouteHop
    <2>. QED
      BY <2>1, Homes DEF From, Purse
  <1>16. CASE n = 1 /\ AtSetup(leg, prog) /\ hop # 2 /\ Creates(Address(h.pool, h.input_mint, prog))
    <2>1. /\ f = 0 /\ hop = 1 /\ Before(trade) # 0 /\ h = trade.hops[1] /\ h.pool.venue # PumpfunBc
          /\ (h.input_mint = Wsol <=> Before(trade) = 2)
      BY <1>0, <1>16 DEF AtSetup, Before
    <2>2. Creates(Home(h.input_mint))
      BY <1>4, <1>16
    <2>3. /\ wallet'.lamports = wallet.lamports /\ Has(wallet', Home(h.input_mint)) /\ fills' = fills /\ g = 0
          /\ Reach(wallet', Home(h.input_mint)) >= Reach(wallet, Home(h.input_mint))
          /\ From(1) = Home(h.input_mint)
      BY <1>13, <1>14, <2>1, <2>2, Homes DEF From, Purse
    <2>4. Endowed(wallet, 0, 1)
      BY <1>7, <1>8, <2>1, <2>3
    <2>5. Endowed(wallet', g, hop + 1)
      BY <1>0, <2>1, <2>3, <2>4 DEF Endowed
    <2>6. Stocked(wallet', g, hop + 1)
      <3>1. CASE Before(trade) = 2
        BY <2>1, <3>1 DEF Stocked
      <3>2. CASE Before(trade) = 1
        <4>1. Reach(wallet, Home(h.input_mint)) >= h.input_amount
          BY <2>1, <2>4, <3>2 DEF Endowed
        <4>2. h.input_amount \in Nat /\ Reach(wallet, Home(h.input_mint)) \in Nat
              /\ Reach(wallet', Home(h.input_mint)) \in Nat
          BY <1>0, <1>12, <1>14, <2>1, RouteIs, Homes DEF RouteHop
        <4>. QED
          BY <2>1, <2>3, <4>1, <4>2 DEF Stocked
      <3>. QED
        BY <1>0, <2>1, <3>1, <3>2
    <2>7. Seated(wallet', g, hop + 1)
      BY <1>0, <2>1, <2>3 DEF Seated, SwapAt
    <2>. QED
      BY <1>6, <2>5, <2>6, <2>7
  <1>17. CASE n = 1 /\ AtSetup(leg, prog) /\ hop = 2 /\ Wraps(h.input_amount)
    <2>1. /\ f = 0 /\ hop = 2 /\ Before(trade) = 2 /\ h = trade.hops[1] /\ h.pool.venue # PumpfunBc
          /\ h.input_mint = Wsol
      BY <1>0, <1>17 DEF AtSetup, Before
    <2>2. /\ fills' = fills /\ g = 0 /\ Has(wallet', Home(Wsol)) /\ Amount(wallet', Home(Wsol)) >= h.input_amount
          /\ From(1) = Home(Wsol)
      BY <1>17, <2>1 DEF Wraps, Kept, From, Purse
    <2>3. Endowed(wallet', g, hop + 1)
      BY <2>1 DEF Endowed
    <2>4. Stocked(wallet', g, hop + 1)
      BY <1>11, <2>1, <2>2 DEF Stocked
    <2>5. Seated(wallet', g, hop + 1)
      BY <1>0, <2>1, <2>2 DEF Seated, SwapAt
    <2>. QED
      BY <1>6, <2>3, <2>4, <2>5
  <1>18. CASE AtCreate(n, prog) /\ Creates(Address(h.pool, CreatedMint(h), prog))
    <2>1. n = f + 1 /\ hop = SwapAt(trade, n) - 1 /\ f < Last /\ hop + 1 = SwapAt(trade, n) /\ hop > Before(trade)
      BY <1>0, <1>18 DEF AtCreate, SwapAt
    <2>2. CreatedMint(h) \in Mints /\ Creates(Home(CreatedMint(h)))
          /\ CreatedMint(h) = IF h.pool.venue = PumpfunBc THEN h.pool.base ELSE h.output_mint
      BY <1>4, <1>18 DEF CreatedMint
    <2>3. /\ Has(wallet', Home(CreatedMint(h))) /\ fills' = fills /\ g = f
          /\ \A a : Has(wallet, a) => Has(wallet', a)
          /\ Reach(wallet', From(n)) >= Reach(wallet, From(n))
      BY <1>13, <1>15, <2>2
    <2>4. Stocked(wallet, f, hop)
      BY <1>7, <1>8, <2>3
    <2>5. Reach(wallet, From(n)) >= h.input_amount
          /\ ((f = 0 /\ trade.hops[1].pool.venue = PumpfunBc) \/ Has(wallet, From(n)))
      BY <2>1, <2>4 DEF Stocked
    <2>6. Has(wallet', From(n)) /\ Has(wallet', To(n))
      <3>1. CASE h.pool.venue = PumpfunBc
        <4>1. h.pool.quote = Wsol /\ h.pool.base # Wsol
          BY <1>2, <3>1, Sides DEF Launchpads
        <4>. QED
          BY <1>14, <2>2, <2>3, <3>1, <4>1 DEF From, To, Purse, Has
      <3>2. CASE h.pool.venue # PumpfunBc
        <4>1. To(n) = Home(h.output_mint)
          BY <3>2 DEF To, Purse
        <4>2. Has(wallet, From(n))
          BY <2>1, <2>5, <3>2
        <4>. QED
          BY <2>2, <2>3, <3>2, <4>1, <4>2
      <3>. QED
        BY <3>1, <3>2
    <2>7. Reach(wallet', From(n)) >= h.input_amount
      <3>1. h.input_amount \in Nat /\ Reach(wallet, From(n)) \in Nat /\ Reach(wallet', From(n)) \in Nat
        BY <1>0, <1>12, <1>15, RouteIs DEF RouteHop
      <3>. QED
        BY <2>3, <2>5, <3>1
    <2>8. Endowed(wallet', g, hop + 1)
      BY <1>0, <2>1 DEF Endowed
    <2>9. Stocked(wallet', g, hop + 1)
      BY <2>1, <2>3, <2>6, <2>7 DEF Stocked
    <2>10. Seated(wallet', g, hop + 1)
      BY <1>0, <2>1, <2>3, <2>6 DEF Seated
    <2>. QED
      BY <1>6, <2>8, <2>9, <2>10
  <1>19. CASE AtSwap(n, prog) /\ Swaps(h, leg, prog)
    <2>1. n = f + 1 /\ hop = SwapAt(trade, n)
      BY <1>19 DEF AtSwap
    <2>2. PICK got \in Nat :
            /\ fills' = Append(fills, got)
            /\ Has(wallet', Side(h.pool, h.input_mint, prog))
            /\ Has(wallet', Side(h.pool, h.output_mint, prog))
            /\ Amount(wallet', Side(h.pool, h.output_mint, prog)) >= got
      BY <1>19 DEF Swaps
    <2>3. Has(wallet', From(n)) /\ Has(wallet', To(n)) /\ Amount(wallet', To(n)) >= got
      BY <1>4, <2>2 DEF From, To
    <2>4. g = n /\ (n < Last => ~(got < trade.hops[n + 1].input_amount))
      <3>1. Len(fills') = n /\ fills'[n] = got /\ n \in DOMAIN fills'
        BY <1>0, <2>1, <2>2
      <3>. QED
        BY <1>1, <1>5, <3>1 DEF AllFilled, FellShort
    <2>5. ASSUME n < Last
          PROVE  From(n + 1) = To(n)
      <3>1. trade.hops[n + 1].input_mint = h.output_mint
        BY <1>0, <2>5, RouteAssumption DEF Last
      <3>2. ~SettlesApart(n)
        BY <1>0, <1>3, <2>5 DEF Clean
      <3>. QED
        BY <3>1, <3>2 DEF SettlesApart, From, To, Purse
    <2>6. Endowed(wallet', g, hop + 1)
      BY <1>0, <2>1, <2>4 DEF Endowed
    <2>7. Stocked(wallet', g, hop + 1)
      <3>. SUFFICES ASSUME n < Last PROVE Reach(wallet', To(n)) >= trade.hops[n + 1].input_amount
        BY <2>3, <2>4, <2>5 DEF Stocked
      <3>1. trade.hops[n + 1].input_amount \in Nat
        BY <1>0, RouteIs DEF RouteHop
      <3>2. Reach(wallet', To(n)) \in Nat
        <4>1. To(n) \in Holdable \cup {Native}
          BY <1>14, Homes DEF To, Purse
        <4>. QED
          BY <1>12, <4>1
      <3>. QED
        BY <1>11, <2>3, <2>4, <3>1, <3>2
    <2>8. Seated(wallet', g, hop + 1)
      BY <1>0, <2>1, <2>3, <2>4 DEF Seated, SwapAt
    <2>. QED
      BY <1>6, <2>6, <2>7, <2>8
  <1>20. CASE n = Last /\ AtClose(prog) /\ Closes(Address(h.pool, ClosedMint(h), prog))
    <2>1. fills' = fills /\ f = Last /\ hop = SwapAt(trade, Last) + 1 /\ g = f
      BY <1>20 DEF AtClose, Closes, Kept
    <2>2. hop + 1 > Before(trade) /\ hop + 1 # SwapAt(trade, Last) + 1
      BY <1>0, <2>1 DEF SwapAt
    <2>3. Endowed(wallet', g, hop + 1) /\ Stocked(wallet', g, hop + 1) /\ Seated(wallet', g, hop + 1)
      BY <1>0, <2>1, <2>2 DEF Endowed, Stocked, Seated
    <2>. QED
      BY <1>6, <2>3
  <1>. QED
    BY <1>2, <1>16, <1>17, <1>18, <1>19, <1>20

\* A call that fails has none of the reasons but the last.
FailInv ==
    pc = "failed" /\ Clean /\ AllFilled /\ ~LacksAccounts => addresses # {} /\ polls.made = MaxPolls

\* A clean route is ready when it is sent; a table that is not usable then has
\* used up the polls.
LEMMA SendReady == RouteInv /\ ExecutionInv /\ Send => ReadyInv' /\ FailInv'
  <1>. SUFFICES ASSUME RouteInv, ExecutionInv, Send PROVE ReadyInv' /\ FailInv'
    OBVIOUS
  <1>1. /\ pc = "send" /\ pc' = (IF Usable THEN "run" ELSE "failed") /\ hop' = hop
        /\ trade' = trade /\ start' = start /\ wallet' = wallet /\ fills' = fills
        /\ ixs' = ixs /\ misread' = misread /\ addresses' = addresses /\ table' = table /\ polls' = polls
        /\ slot' = slot
    BY DEF Send, call, chain, building, setup
  <1>2. FailInv'
    <2>. SUFFICES ASSUME ~Usable PROVE addresses # {} /\ polls.made = MaxPolls
      BY <1>1 DEF FailInv
    <2>. QED
      BY <1>1 DEF Usable, ExecutionInv, TableIsComplete
  <1>3. ReadyInv'
    <2>. SUFFICES ASSUME Clean PROVE (Endowed(wallet, Len(fills), hop) /\ Stocked(wallet, Len(fills), hop)
                                      /\ Seated(wallet, Len(fills), hop))'
      BY <1>1 DEF ReadyInv, Clean, Last, SettlesApart
    <2>1. /\ hop = 1 /\ Len(fills) = 0 /\ wallet = start /\ SoundWallet(start) /\ trade \in Trades
          /\ Last \in Nat \ {0} /\ Before(trade) \in 0 .. 2
      BY <1>1, RouteIs DEF RouteInv, RouteData, RouteAt
    <2>. DEFINE h == trade.hops[1]
    <2>2. RouteHop(h) /\ h.input_mint \in Mints /\ h.input_amount \in Nat
      <3>1. RouteHop(h)
        BY <2>1, RouteIs
      <3>. QED
        BY <3>1 DEF RouteHop
    <2>3. /\ Worth(start, h.input_mint) >= h.input_amount
          /\ h.input_mint = Wsol => start.lamports >= h.input_amount
      BY DEF Clean
    <2>4. h.input_mint # Wsol => Reach(start, Home(h.input_mint)) >= h.input_amount
      <3>1. ASSUME h.input_mint # Wsol PROVE Coins(start, h.input_mint) = Worth(start, h.input_mint)
        BY <2>1, <2>2, <3>1, WorthIs
      <3>2. Coins(start, h.input_mint) = Reach(start, Home(h.input_mint))
        BY <2>2, Homes DEF Coins, Reach
      <3>. QED
        BY <2>3, <3>1, <3>2
    <2>5. Endowed(start, 0, 1)
      BY <2>3, <2>4 DEF Endowed
    <2>6. Stocked(start, 0, 1)
      <3>. SUFFICES ASSUME Before(trade) = 0 PROVE Reach(start, From(1)) >= h.input_amount /\ h.pool.venue = PumpfunBc
        BY <2>1 DEF Stocked
      <3>1. h.pool.venue = PumpfunBc
        BY DEF Before
      <3>. QED
        BY <2>3, <2>4, <3>1 DEF From, Purse, Reach
    <2>7. Seated(start, 0, 1)
      BY <2>1 DEF Seated, SwapAt
    <2>8. Last' = Last /\ From(1)' = From(1) /\ To(1)' = To(1) /\ Before(trade') = Before(trade)
      BY <1>1 DEF Last, From, To
    <2>9. Endowed(start, 0, 1)' /\ Stocked(start, 0, 1)' /\ Seated(start, 0, 1)'
      <3>1. (Endowed(start, 0, 1) <=> Endowed(start, 0, 1)')
        BY <1>1 DEF Endowed
      <3>2. (Stocked(start, 0, 1) <=> Stocked(start, 0, 1)')
        BY <1>1, <2>8 DEF Stocked
      <3>3. Seated(start, 0, 1)'
        BY <1>1, <2>1, <2>8 DEF Seated, SwapAt
      <3>. QED
        BY <2>5, <2>6, <3>1, <3>2, <3>3
    <2>. QED
      BY <1>1, <2>1, <2>9 DEF Endowed, Stocked, Seated
  <1>. QED
    BY <1>2, <1>3

\* The chain refuses no instruction of a clean route.
LEMMA FailsFilled == RouteInv /\ ReadyInv /\ RunFails => FailInv'
  <1>. SUFFICES ASSUME RouteInv, ReadyInv, RunFails, Clean', AllFilled', ~LacksAccounts' PROVE FALSE
    BY DEF FailInv
  <1>1. /\ pc = "run" /\ hop <= Len(ixs) /\ trade' = trade /\ start' = start /\ misread' = misread
        /\ hop' = hop /\ ixs' = ixs /\ Last' = Last
    BY DEF RunFails, call, building, Last
  <1>2. Clean
    BY <1>1 DEF Clean, Last, SettlesApart
  <1>3. CASE ~CanRun(ixs[hop]) /\ UNCHANGED fills
    <2>1. AllFilled
      BY <1>1, <1>3 DEF AllFilled, FellShort
    <2>2. ~LacksAccounts
      BY <1>1, <1>3 DEF LacksAccounts
    <2>. QED
      BY <1>1, <1>2, <1>3, <2>1, <2>2, ReadyCanRun
  <1>4. ASSUME ixs[hop].op = "swap", NEW got \in Fills(Quoted), got < ixs[hop].min_amount_out,
               fills' = Append(fills, got)
        PROVE  FALSE
    <2>1. PICK answered \in BOOLEAN, n \in 1 .. Last : AtSwap(n, Resolved(answered))
      BY <1>1, <1>4, SwapPlace
    <2>2. /\ fills \in Seq(Nat) /\ n = Len(fills) + 1
          /\ ixs[hop] = SwapOf(trade.hops[n], LegIn(trade, n), Resolved(answered))
      BY <2>1 DEF AtSwap, RouteInv, RouteData
    <2>3. ixs[hop].min_amount_out
            = MinOutWithSlippage(trade.hops[n].output_amount, trade.slippage_bps)
      BY <2>2 DEF SwapOf, LegIn
    <2>4. n \in DOMAIN fills' /\ fills'[n] = got
      BY <1>4, <2>2
    <2>5. FellShort(n)'
      BY <1>1, <1>4, <2>3, <2>4, Zenon DEF FellShort
    <2>. QED
      BY <2>4, <2>5 DEF AllFilled
  <1>. QED
    BY <1>3, <1>4 DEF RunFails

\* Every step of the call and of the chain keeps both.
LEMMA ReadyStep ==
    RouteInv /\ ExecutionInv /\ ReadyInv /\ FailInv /\ [ExecutionNext]_vars => ReadyInv' /\ FailInv'
  <1>. SUFFICES ASSUME RouteInv, ExecutionInv, ReadyInv, FailInv, [ExecutionNext]_vars PROVE ReadyInv' /\ FailInv'
    OBVIOUS
  <1>1. CASE Run
    <2>1. pc' # "failed"
      BY <1>1 DEF Run
    <2>. QED
      BY <1>1, <2>1, ReadyRun DEF FailInv
  <1>2. CASE Send
    BY <1>2, SendReady
  <1>3. CASE RunFails
    <2>1. pc' # "run"
      BY <1>3 DEF RunFails
    <2>. QED
      BY <1>3, <2>1, FailsFilled DEF ReadyInv
  <1>4. CASE pc' \notin {"run", "failed"}
    BY <1>4 DEF ReadyInv, FailInv
  <1>5. CASE UNCHANGED vars
    <2>1. /\ pc' = pc /\ trade' = trade /\ start' = start /\ misread' = misread /\ fills' = fills
          /\ wallet' = wallet /\ hop' = hop /\ ixs' = ixs /\ addresses' = addresses /\ polls' = polls
      BY <1>5 DEF vars
    <2>2. (Clean' <=> Clean) /\ (AllFilled' <=> AllFilled) /\ (LacksAccounts' <=> LacksAccounts)
      BY <2>1 DEF Clean, Last, SettlesApart, AllFilled, FellShort, LacksAccounts
    <2>3. FailInv'
      BY <2>1, <2>2 DEF FailInv
    <2>4. ReadyInv'
      BY <2>1, <2>2 DEF ReadyInv, Endowed, Stocked, Seated, Last, From, To
    <2>. QED
      BY <2>3, <2>4
  <1>6. Run \/ Send \/ RunFails \/ UNCHANGED vars \/ pc' \notin {"run", "failed"}
    BY DEF ExecutionNext, BuildHop, BuildFails, Encode, CreateTable, ExtendTable, SetupFails, Extended, Poll,
           GiveUpPolling, NewSlot, SendFails, Land
  <1>. QED
    BY <1>1, <1>2, <1>3, <1>4, <1>5, <1>6

\* Without the last reason, one of the others holds.
LEMMA ReasonsAreAll == RouteInv /\ FailInv => FailureIsExplained
  <1>. SUFFICES ASSUME RouteInv, FailInv, pc = "failed", ~FailureIsExplained PROVE FALSE
    BY DEF FailureIsExplained
  <1>1. ~(addresses # {} /\ polls.made = MaxPolls)
    BY DEF FailureIsExplained
  <1>2. /\ trade \in Trades /\ start \in Wallets /\ SoundWallet(start) /\ fills \in Seq(Nat)
        /\ Last \in Nat \ {0} /\ Len(fills) <= Last
    BY RouteIs, WalletAssumption DEF RouteInv, RouteData
  <1>3. AllFilled /\ ~LacksAccounts
    BY DEF AllFilled, FailureIsExplained
  <1>4. Clean
    <2>1. RouteHop(trade.hops[1])
      BY <1>2, RouteIs
    <2>2. trade.hops[1].input_mint \in Mints /\ trade.hops[1].input_amount \in Nat
      BY <2>1 DEF RouteHop
    <2>3. Worth(start, trade.hops[1].input_mint) \in Nat /\ start.lamports \in Nat
      BY <1>2, <2>2, WorthIs DEF SoundWallet
    <2>. QED
      BY <2>2, <2>3 DEF Clean, FailureIsExplained
  <1>. QED
    BY <1>1, <1>3, <1>4 DEF FailInv

\* Whatever the route, the wallet, the table and the fills: when a transaction
\* that was sent fails on chain, one of the causes listed with the property
\* holds, gaps of the builders among them.  What is claimed is about the user's
\* token accounts: outside those cases the ten builders create, wrap, draw from,
\* fill and close them in an order and a direction that fit together, also from
\* hop to hop (build_swap of the ten venues under build_route_instructions).
\* Accounts of the pool matter only as MayAsk and Listed have them.
THEOREM FailuresExplained == ExecutionSpec => []FailureIsExplained
  <1>1. ExecutionInit => ReadyInv /\ FailInv
    BY DEF ExecutionInit, ReadyInv, FailInv
  <1>2. ExecutionSpec => []ExecutionInv
    BY ExecutionInvariance, PTL
  <1>. QED
    BY <1>1, <1>2, RouteInvariance, ReadyStep, ReasonsAreAll, PTL DEF ExecutionSpec

-----------------------------------------------------------------------------
(* The type invariant. *)

\* A route names finitely many accounts.
LEMMA NamedIsFinite ==
    ASSUME IsSequence(ixs)
    PROVE  IsFiniteSet(AllNamed)
  <1>1. \A a : IsFiniteSet(Key(a))
    BY FS_EmptySet, FS_Singleton DEF Key
  <1>2. ASSUME NEW ix PROVE IsFiniteSet(Named(ix))
    <2>. DEFINE A == {<<"program", ix.pool.venue.name>>, <<"pool", ix.pool.venue.name, ix.pool.base, ix.pool.quote>>}
    <2>1. IsFiniteSet(A)
      <3>1. IsFiniteSet({<<"program", ix.pool.venue.name>>})
            /\ IsFiniteSet({<<"pool", ix.pool.venue.name, ix.pool.base, ix.pool.quote>>})
        BY FS_Singleton
      <3>2. A = {<<"program", ix.pool.venue.name>>} \cup {<<"pool", ix.pool.venue.name, ix.pool.base, ix.pool.quote>>}
        OBVIOUS
      <3>. QED
        BY <3>1, <3>2, FS_Union
    <2>. HIDE DEF A
    <2>2. IsFiniteSet(A \cup Key(ix.accounts.from) \cup Key(ix.accounts.to))
      <3>1. IsFiniteSet(A \cup Key(ix.accounts.from))
        BY <1>1, <2>1, FS_Union
      <3>. QED
        BY <1>1, <3>1, FS_Union
    <2>3. CASE ix.op # "swap"
      BY <1>1, <2>3 DEF Named
    <2>4. CASE ix.op = "swap"
      BY <2>2, <2>4 DEF Named, A
    <2>. QED
      BY <2>3, <2>4
  <1>3. IsFiniteSet(DOMAIN ixs)
    <2>1. DOMAIN ixs = 1 .. Len(ixs) /\ Len(ixs) \in Nat
      BY DEF IsSequence
    <2>. QED
      BY <2>1, FS_Interval
  <1>. DEFINE F == {Named(ixs[k]) : k \in DOMAIN ixs}
  <1>4. IsFiniteSet(F)
    <2>. DEFINE g == [k \in DOMAIN ixs |-> Named(ixs[k])]
    <2>1. g \in Surjection(DOMAIN ixs, F)
      BY DEF Surjection
    <2>. QED
      BY <1>3, <2>1, FS_Surjection
  <1>5. \A T \in F : IsFiniteSet(T)
    BY <1>2
  <1>. QED
    BY <1>4, <1>5, FS_UNION DEF AllNamed

\* The parts of the type invariant that the route does not show
SetupTypes ==
    /\ IsFiniteSet(addresses) /\ table.entries \subseteq addresses
    /\ pc = "build" => table.entries = {}
    /\ slot \in 1 .. MaxSlot /\ polls.made \in 0 .. MaxPolls

\* Every step keeps the types of the setup.
LEMMA SetupTypesStep ==
    RouteInv /\ ExecutionInv /\ SetupTypes /\ [ExecutionNext]_vars => SetupTypes'
  <1>. SUFFICES ASSUME RouteInv, ExecutionInv, SetupTypes, [ExecutionNext]_vars PROVE SetupTypes'
    OBVIOUS
  <1>1. CASE Encode
    <2>1. IsFiniteSet(AllNamed)
      BY NamedIsFinite DEF RouteInv, RouteData
    <2>2. pc = "build" /\ pc' # "build" /\ UNCHANGED <<table, polls, slot>> /\ addresses' \in {addresses, AllNamed}
      BY <1>1 DEF Encode
    <2>. QED
      BY <2>1, <2>2 DEF SetupTypes
  <1>2. CASE ExtendTable
    <2>. DEFINE rest == addresses \ table.entries
                k == Min({ExtendChunk, Cardinality(rest)})
                chunk == CHOOSE c \in kSubset(k, rest) : TRUE
    <2>1. pc = "extend" /\ pc' = pc /\ UNCHANGED <<addresses, polls, slot>>
          /\ table' = [entries |-> table.entries \cup chunk, extended |-> slot]
      BY <1>2 DEF ExtendTable
    <2>2. IsFiniteSet(rest) /\ Cardinality(rest) \in Nat
      BY FS_Difference, FS_CardinalityType DEF SetupTypes
    <2>3. k \in 0 .. Cardinality(rest)
      <3>. HIDE DEF rest
      <3>. QED
        BY <2>2, MinOfTwo, ExecutionAssumption
    <2>4. chunk \in kSubset(k, rest)
      <3>. HIDE DEF rest, k
      <3>1. kSubset(k, rest) # {}
        BY <2>2, <2>3, SubsetOfSize
      <3>. QED
        BY <3>1
    <2>5. chunk \subseteq addresses
      <3>. HIDE DEF chunk, k
      <3>. QED
        BY <2>4 DEF kSubset
    <2>6. table'.entries = table.entries \cup chunk
      <3>. HIDE DEF chunk
      <3>. QED
        BY <2>1
    <2>. HIDE DEF chunk, rest, k
    <2>. QED
      BY <2>1, <2>5, <2>6 DEF SetupTypes
  <1>3. CASE Extended
    <2>1. polls'.made = 0 /\ pc' # "build" /\ UNCHANGED <<addresses, table, slot>>
      BY <1>3 DEF Extended
    <2>. QED
      BY <2>1, ExecutionAssumption DEF SetupTypes
  <1>4. CASE Poll
    <2>1. /\ polls.made < MaxPolls /\ pc' # "build" /\ UNCHANGED <<addresses, table, slot>>
          /\ polls' = [polls EXCEPT !.made = @ + 1]
      BY <1>4 DEF Poll
    <2>2. polls'.made = polls.made + 1
      BY <2>1 DEF ExecutionInv, Shapes
    <2>. QED
      BY <2>1, <2>2, ExecutionAssumption DEF SetupTypes
  <1>5. CASE NewSlot
    BY <1>5, ExecutionAssumption DEF NewSlot, setup, SetupTypes
  <1>6. CASE UNCHANGED <<addresses, table, polls, slot>> /\ (pc' = "build" => pc = "build")
    BY <1>6 DEF SetupTypes
  <1>7. \/ Encode \/ ExtendTable \/ Extended \/ Poll \/ NewSlot
        \/ UNCHANGED <<addresses, table, polls, slot>> /\ (pc' = "build" => pc = "build")
    BY DEF ExecutionNext, vars, setup, BuildHop, BuildFails, CreateTable, SetupFails, GiveUpPolling, Send,
           SendFails, Run, RunFails, Land
  <1>. QED
    BY <1>1, <1>2, <1>3, <1>4, <1>5, <1>6, <1>7

\* The invariants of the route, of the table and of the setup together give the
\* type invariant.
LEMMA TypesAreOK == RouteInv /\ ExecutionInv /\ ExtendedBefore /\ SetupTypes => ExecutionTypeOK
  <1>. SUFFICES ASSUME RouteInv, ExecutionInv, ExtendedBefore, SetupTypes PROVE ExecutionTypeOK
    OBVIOUS
  <1>1. /\ trade \in Trades /\ start \in Wallets /\ misread \in BOOLEAN /\ SoundWallet(wallet)
        /\ pc \in {"build", "create", "extend", "wait", "send", "run", "landed", "failed", "refused"}
        /\ fills \in Seq(Nat) /\ Len(fills) <= Last
    BY DEF RouteInv, RouteData, RouteAt
  <1>2. Last \in Nat \ {0} /\ Len(ixs) \in Nat
    BY <1>1, RouteIs DEF RouteInv, RouteData, IsSequence
  <1>3. hop \in 1 .. Len(ixs) + Last + 1
    <2>1. hop \in Nat \ {0} /\ (hop <= Last + 1 \/ hop <= Len(ixs) + 1)
      BY <1>1, <1>2 DEF RouteInv, RouteData, RouteAt, Progress
    <2>. QED
      BY <1>2, <2>1
  <1>4. wallet.lamports \in Nat /\ DOMAIN wallet.held \subseteq Accounts
        /\ \A a \in DOMAIN wallet.held : wallet.held[a] \in Nat
    <2>1. Holdable \subseteq Accounts
      BY MintAssumption DEF Holdable, Accounts, Ata
    <2>. QED
      BY <1>1, <2>1 DEF SoundWallet
  <1>5. table.extended \in 0 .. slot
    BY DEF ExtendedBefore, ExecutionInv, Shapes
  <1>. QED
    BY <1>1, <1>3, <1>4, <1>5 DEF ExecutionTypeOK, SetupTypes

\* Type correctness for any routes and bounds; it includes that an extension
\* adds only addresses of the route, in chunks that exist (alt.rs:78-98), and
\* that the chain never runs beyond the route.
THEOREM ExecutionTypeCorrect == ExecutionSpec => []ExecutionTypeOK
  <1>1. ExecutionInit => SetupTypes
    <2>. SUFFICES ASSUME ExecutionInit PROVE SetupTypes
      OBVIOUS
    <2>1. addresses = {} /\ table = [entries |-> {}, extended |-> 0] /\ slot = 1
          /\ polls = [made |-> 0, extended_at |-> 0]
      BY DEF ExecutionInit, NoTable
    <2>. QED
      BY <2>1, FS_EmptySet, ExecutionAssumption DEF SetupTypes
  <1>. QED
    BY <1>1, ExecutionInvariance, RouteInvariance, SetupTypesStep, TypesAreOK, PTL DEF ExecutionSpec
=============================================================================

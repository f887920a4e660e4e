CONSTANTS
    Wsol = Wsol
    Usdc = Usdc
    c = c
    Mints = {Wsol, Usdc, c}
    TokenProgram <- Programs
    Trades <- SmallTrades
    Wallets <- SomeWallets
    Fills <- Near
    MaxStatic = 6
    ExtendChunk = 3
    MaxPolls = 2
    MaxSlot = 3
SPECIFICATION ExecutionSpec
INVARIANTS
    ExecutionTypeOK
    LossIsBounded
    FailureIsExplained
    WsolIsUnwrapped
    TableIsComplete
CHECK_DEADLOCK FALSE

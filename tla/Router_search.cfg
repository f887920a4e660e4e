SPECIFICATION Spec
CONSTANTS
    a = a
    b = b
    s = s
    x = x
    ab = ab
    as1 = as1
    as2 = as2
    sb1 = sb1
    sb2 = sb2
    ax = ax
    xb = xb
    sx = sx
    Pools = {ab, as1, as2, sb1, sb2, ax, xb, sx}
    Mints = {a, b, s, x}
    QuoteMint <- Quotes
    BaseMint <- Bases
    Depth <- Depths
    Curves = {}
    RankingCap = 1
    MaxAdds = 8
    SeedHubs = {s}
    HubCount = 1
    CoreHubCount = 1
    MaxNeighbors = 4
    Trades <- AToB
    Graphs <- Markets
    Output <- MarketOutput
    Accounts <- AllAccounts
    Stores <- Starts
    FlagSets <- AllFlags
    HopLimits = {2, 3}
    MaxAmount = 4000
    Amounts = {20}
    MaxRoutes = 2
    MaxGain = 3
    ReserveDivisor = 4
    MaxRate = 1000000
    Moving = {as1, sb1}
    MaxMoves = 2
INVARIANTS
    TypeOK
    RoutesAreWalkable
    GainIsBounded
    ShortestIsMatched
    LastHopIsBest
PROPERTY
    ViableLegIsTaken
CHECK_DEADLOCK FALSE

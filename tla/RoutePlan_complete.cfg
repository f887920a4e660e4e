SPECIFICATION IndexSpec
CONSTANTS
    a = a
    b = b
    s = s
    x = x
    y = y
    d = d
    ad = ad
    ax = ax
    ay = ay
    as = as
    xs = xs
    sy = sy
    yb = yb
    sb = sb
    Pools = {ax, ay, as, xs, sy, yb, sb}
    Mints = {a, b, s, x, y}
    QuoteMint <- Quotes
    BaseMint <- Bases
    Depth <- Depths
    Curves = {ax}
    RankingCap = 1
    MaxAdds = 6
    SeedHubs = {s}
    HubCount = 1
    CoreHubCount = 1
    MaxNeighbors = 4
    Trades <- AToB
INVARIANTS
    PlanIsComplete
    PlanIsBounded
CHECK_DEADLOCK FALSE

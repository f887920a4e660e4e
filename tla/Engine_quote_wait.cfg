CONSTANTS
    p1 = p1
    p2 = p2
    q1 = q1
    q2 = q2
    v1 = v1
    v2 = v2
    Pools = {p2}
    Vaults = {v1}
    QuoteVault <- CurveVault
    BaseVault <- CurveVault
    Dex <- CurveDex
    IsActive <- CurveActive
    Tasks <- MCTasks
    Quoters = {q1}
    Streamed = {v1}
    Polled = {v1}
    FirstVersion <- CurveFirst
    MaxVersion <- CurveVersions
SPECIFICATION Spec
INVARIANT QuotesDoNotWaitForVaultFetch

CONSTANTS
    p1 = p1
    p2 = p2
    q1 = q1
    q2 = q2
    v1 = v1
    v2 = v2
    Pools = {p1}
    Vaults = {v1, v2}
    QuoteVault <- PairQuote
    BaseVault <- PairBase
    Dex <- PairDex
    IsActive <- PairActive
    Tasks <- MCTasks
    Quoters = {q1}
    Streamed = {v1, v2}
    Polled = {v1}
    FirstVersion <- PairFirst
    MaxVersion <- PairVersions
SPECIFICATION FairSpec
INVARIANTS
    TypeOK
    ReadersSeeFlags
    WrongFlagIsReported
PROPERTIES
    FlagsSettle
    QuotesAnswered

CONSTANTS
    MinTick <- LowestTick
    MaxTick = 8
    TickSpacing = 2
    TickArraySize = 2
    Price <- Prices
    Q = 64
    FeeRate = 3
    FeeDenominator = 100
    BitmapRadius = 2
    ExtensionRadius = 4
    MaxArrays = 3
    NumRemaining = 2
    Pools <- SomePools
    Amounts = {4, 20, 100}
    StoredArrays <- SomeStored
    MinBin <- LowestBin
    MaxBin = 7
    BinsPerArray = 3
    BinPrice <- BinPrices
    One = 64
    BinRadius = 2
    MaxBinArrays = 3
    FeePrecision = 100
    MaxFeeRate = 10
    VariableFeeScale = 1000
    StaleTolerance = 5
    Pairs <- SomePairs
    BinAmounts = {6, 20, 200}
    BinStores <- SomeBinStores
    CurveQ = 64
    DbcFeeUnit = 1000
    DbcMaxFee = 990
    DbcVolatilityUnit = 10
    DegradationUnit = 10
    DepegPrecision = 4
    NewtonRounds = 20
    Markets <- SomeMarkets
    TradeAmounts = {1, 2, 7, 70, 200}
    MaxTrades = 3
SPECIFICATION QuotesSpec
INVARIANTS
    TickTypeOK
    LiquidityIsActive
    QuotesAreFair
    ArraysAgree
    BinsAreDrained
    NoFreeLunch
    OutputIsHeld
CHECK_DEADLOCK FALSE

SPECIFICATION FairSpec
CONSTANTS
    Trades = {t1, t2}
    Plans <- MCPlans
    Quantities <- MCQuantities
    Prices <- MCPrices
    PartialNum = 1
    PartialDen = 2
    ProtectNum = 3
    ProtectDen = 2
    TightenNum = 55
    TightenDen = 100
    TightenFloor = 1
    None = None
INVARIANTS TypeOK RealizedBounded NeverFlattered
PROPERTIES StopRatchets ClosedIsFinal PositionSpec StaleTradesClose

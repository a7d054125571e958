SPECIFICATION Spec
CONSTANTS
    Trades = {t1, t2}
    Plans <- MCPlans
    Quantities <- MCQuantities
    Prices <- MCPrices
    PartialNum = 1
    PartialDen = 2
    ProtectNum = 1
    ProtectDen = 4
    TightenNum = 55
    TightenDen = 100
    TightenFloor = 1
    None = None
INVARIANT ResultsOnClose


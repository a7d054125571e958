SPECIFICATION Spec
CONSTANTS
    Bars = 4
    Candles <- MCCandles
    Plans <- MCPlans
    Atrs <- MCAtrs
    Units = {1}
    Slip = 10
    FeeRate = 1
    FeeUnit = 100
    EvaluationBars = 1
    InitialBalance = 700000
INVARIANTS TypeOK LossBounded FirstTargetPays ClosedExplained OneAtRisk OneSignalAtATime
PROPERTIES JudgedLater LedgerSpec
CHECK_DEADLOCK FALSE

SPECIFICATION FairSpec
CONSTANTS
    Signals = {s1, s2}
    Symbols = {x}
    MaxConcurrent = 1
    Gains <- MCStopOrTarget
    Risk = 10
    Tp1 = 15
    Tp2 = 24
    Protect = 2
    PartialNum = 1
    PartialDen = 2
    MaxCrashes = 1
PROPERTIES OutcomesTimeOut

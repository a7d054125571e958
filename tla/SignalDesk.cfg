SPECIFICATION Spec
CONSTANTS
    Signals = {s1, s2}
    Symbols = {x, y}
    MaxConcurrent = 1
    Gains <- MCGains
    Risk = 10
    Tp1 = 15
    Tp2 = 24
    Protect = 2
    PartialNum = 1
    PartialDen = 2
    MaxCrashes = 1
INVARIANTS TypeOK OneSignalPerSymbol ConcurrentCapKept BankedNeverLost
PROPERTIES OutcomesFinal

SPECIFICATION FairSpec
CONSTANTS
    Positions = {btc}
    Forex = {}
    Gains <- MCGains
    Stub <- MCStub
    Risk = 10
    Tp <- MCTp
    Commands = {"pause_tracker", "resume_tracker"}
    MaxCommands = 2
    BatchSize = 2
    Patches = {"runtimeFrozen"}
    MaxFaults = 1
INVARIANTS TypeOK RecordedOnce StatusExplained ControlExplained
PROPERTIES NeverRegresses FreezeHolds CommandsSettle AgedResolve StallsReported

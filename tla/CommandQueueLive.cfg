CONSTANTS
    w1 = w1  w2 = w2  m1 = m1  cl = cl
    c1 = c1  c2 = c2  c3 = c3  k1 = k1  k2 = k2
    Workers = {w1, w2}
    Managers = {m1}
    Clients = {}
    Commands = {c1}
    Keys = {k1, k2}
    KeyOf <- MCKeyOfOne
    BatchSize = 2
    MaxRetries = 2
    MaxLapses = 2
    MaxCrashes = 0
    None = None
SPECIFICATION FairSpec
INVARIANTS NoWorkStranded NoKeyStranded
PROPERTY EverythingSettles

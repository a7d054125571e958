CONSTANTS
    w1 = w1  w2 = w2  m1 = m1  cl = cl
    c1 = c1  c2 = c2  c3 = c3  k1 = k1  k2 = k2
    Workers = {w1, w2}
    Managers = {m1}
    Clients = {cl}
    Commands = {c1, c2, c3}
    Keys = {k1, k2}
    KeyOf <- MCKeyOf
    BatchSize = 2
    MaxRetries = 1
    MaxLapses = 1
    MaxCrashes = 1
    None = None
SPECIFICATION Spec
SYMMETRY WorkerSymmetry
INVARIANTS TypeOK OneCommandPerKey Exclusive AttemptsAccounted CrashCostsOne
PROPERTIES FinalUnlessRecovered AdmissionSpec

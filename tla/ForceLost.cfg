\* A forced flag against the coin of another thread.
SPECIFICATION Spec
CONSTANTS
    t1 = t1  t2 = t2  A = A  B = B  k1 = k1  k2 = k2  k3 = k3
    s1 = s1  s2 = s2
    Threads <- TwoThreads
    NoThread = NoThread
    Regions = {A}
    Base <- BaseA  Size <- SizeA  Kind <- KindA
    HeaderSize = 64
    Chunks = {k1}
    Ranges <- OneRange
    Sites = {s1}
    Api = {"pmem_wrap_drain", "force_set_abortflag"}
    DrainBeforeUnmap = TRUE
    MaxCalls = 1
    MaxVersion = 1
PROPERTIES
    ForceHolds

\* A flag raised with no drain left to come.
SPECIFICATION Spec
CONSTANTS
    t1 = t1  t2 = t2  A = A  B = B  k1 = k1  k2 = k2  k3 = k3
    s1 = s1  s2 = s2
    Threads <- OneThread
    NoThread = NoThread
    Regions = {A}
    Base <- BaseA  Size <- SizeA  Kind <- KindA
    HeaderSize = 64
    Chunks = {k1}
    Ranges <- OneRange
    Sites = {s1}
    Api = {"pmem_map_file", "pmem_wrap_memcpy_nodrain"}
    DrainBeforeUnmap = TRUE
    MaxCalls = 2
    MaxVersion = 1
INVARIANTS
    RaisedRunAborts

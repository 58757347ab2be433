\* Two threads that drain what they flushed before they unmap it, on a file
\* and the pool above it.
SPECIFICATION Spec
CONSTANTS
    t1 = t1  t2 = t2  A = A  B = B  k1 = k1  k2 = k2  k3 = k3
    s1 = s1  s2 = s2
    Threads <- TwoThreads
    NoThread = NoThread
    Regions = {A, B}
    Base <- BaseAB  Size <- SizeAB  Kind <- KindAB
    HeaderSize = 64
    Chunks = {k1, k2}
    Ranges <- FileAndPool
    Sites = {s1}
    Api = {"pmem_map_file", "pmemobj_open", "pmem_flush", "pmem_persist",
           "pmem_unmap"}
    DrainBeforeUnmap = TRUE
    MaxCalls = 3
    MaxVersion = 1
INVARIANTS
    EntriesAreLive
